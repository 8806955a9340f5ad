------------------------- MODULE InstallationProofs -------------------------
(***************************************************************************)
(* The managed data directory and its configuration, for any number of     *)
(* processes, sessions, deaths and broken writes.                          *)
(*                                                                         *)
(* The directory. The setup lock names the one command in the protected    *)
(* section (SetupLocked): nobody else changes the trees it has looked at,  *)
(* and each of its steps knows what the tree it prepares already has       *)
(* (Prepares). The instance lock excludes less: whoever is past it owns    *)
(* the file or is a rival (InstanceLocked), for another goes on to write   *)
(* only where it saw no living owner, which is so only while two are       *)
(* writing together. A repair has seen every start that began before it,   *)
(* and no start begins while it holds the setup lock (SwapSeen).           *)
(*                                                                         *)
(* The configuration. The files go one way only (Progress): the token is   *)
(* retired once, an App is replaced and never removed, a key is            *)
(* overwritten and never deleted. So what a session has read or written    *)
(* before still fits when it writes the next file (Knows), whatever others *)
(* do; and only a session that nobody disturbed owes a restoration         *)
(* (Restoring).                                                            *)
(***************************************************************************)
EXTENDS Installation, ManagedConfiguration, TLAPS

-----------------------------------------------------------------------------
(* The directory.                                                          *)

(* The steps of a command, by what it does.                                *)
Adopting == {"adoptCheck", "move", "copy", "recordCopy", "promoteCopy", "record", "adopted"}
InInit == {"stage", "prepare", "write", "verify", "promote"}
InRepair == {"stageStore", "pair", "remove", "put"}
StartSteps == {"inspect", "session", "create", "readOwner", "writePid", "boot", "running"}
Settled == InInit \cup InRepair \cup StartSteps \cup {"begin", "initLock", "probe", "repairLock"}
Steps == Adopting \cup Settled \cup {"idle", "settle", "adoptLock", "unwind", "release", "ended", "dead"}

(* The steps at which a tree may stand beside the root.                    *)
Staging == {"copy", "recordCopy", "promoteCopy", "prepare", "write", "verify", "promote",
            "pair", "remove", "put", "unwind", "dead"}

InstallationTyped ==
  /\ root \in Tree \cup {NoDirectory} /\ legacy \in Tree \cup {NoDirectory}
  /\ home \in {"none", "beside", "apart"}
  /\ staged \in [Invocation -> Tree \cup {NoDirectory}]
  /\ setupLock \in Invocation \cup {Nobody}
  /\ runtimeLock \in Invocation \cup {Unwritten, Nobody}
  /\ at \in [Invocation -> Steps]
  /\ task \in [Invocation -> {"none", "init", "repair", "start"}]
  /\ kills \in 0..MaxKills /\ unlinks \in 0..MaxUnlinks
  /\ moved \subseteq Invocation /\ torn \subseteq Invocation
  /\ rivals \subseteq Invocation /\ crossing \subseteq Invocation

(* The setup lock is of the command in the protected section.              *)
SetupLocked == \A c \in Invocation : at[c] \in InSetup => setupLock = c

(* What a command knows at each of its steps: of the tree it prepares, and *)
(* of the two directories.                                                 *)
Prepares(c) ==
  /\ at[c] \notin Staging => staged[c] = NoDirectory
  /\ at[c] \in Settled \cup {"adopted"} => Agreed
  /\ at[c] = "move" => legacy # NoDirectory /\ root = NoDirectory
  /\ at[c] \in {"copy", "recordCopy", "promoteCopy"} => legacy # NoDirectory /\ staged[c] # NoDirectory
  /\ at[c] \in {"recordCopy", "promoteCopy"} => Whole(staged[c])
  /\ at[c] = "promoteCopy" => staged[c].recorded
  /\ at[c] \in {"prepare", "write", "verify", "promote"} => staged[c] # NoDirectory /\ "frame" \in staged[c].has
  /\ at[c] \in {"write", "verify", "promote"} => "store" \in staged[c].has
  /\ at[c] \in {"verify", "promote"} => {"config", "apps"} \subseteq staged[c].has
  /\ at[c] = "promote" => "model" \in staged[c].has
  /\ at[c] = "pair" => staged[c] # NoDirectory
  /\ at[c] \in {"remove", "put"} => staged[c] # NoDirectory /\ staged[c].has = {"store"}
  /\ at[c] \in {"record", "probe", "repairLock"} \cup InRepair => root # NoDirectory

(* The former directory stays as it was until it is the root.              *)
LegacyKept ==
  /\ legacy # NoDirectory => Whole(legacy) /\ legacy.former
  /\ home # "none" /\ legacy = NoDirectory => root # NoDirectory /\ root.former

(* Whoever is past the instance lock owns it or has rivals.                *)
InstanceLocked ==
  /\ \A b, c \in Invocation : b # c /\ at[b] = "writePid" /\ at[c] = "writePid" => b \in rivals
  /\ \A b, c \in Invocation : at[b] \in {"boot", "running"} /\ at[c] = "writePid" => b \in rivals
  /\ \A b \in Invocation : at[b] \in {"boot", "running"} /\ b \notin rivals => runtimeLock = b
  /\ \A b \in Invocation : at[b] \in {"readOwner", "writePid", "boot", "running"} => runtimeLock # Nobody
  /\ \A b, c \in Invocation : b # c /\ Runs(b) /\ Runs(c) => {b, c} \cap moved # {}

(* A repair has seen whoever starts or runs.                               *)
SwapSeen ==
  /\ \A c \in Invocation : at[c] \in StartSteps => task[c] = "start"
  /\ \A r, c \in Invocation : at[r] \in InRepair \cup {"repairLock"} /\ at[c] \in StartSteps => c \in crossing

DirectoryInv ==
  /\ InstallationTyped /\ SetupLocked
  /\ \A c \in Invocation : Prepares(c)
  /\ LegacyKept /\ RootIsWhole /\ NeverStranded
  /\ InstanceLocked /\ SwapSeen

-----------------------------------------------------------------------------
(* What a step of one command leaves as it was.                            *)

OnlyMoves(c) ==
  /\ at' \in [Invocation -> Steps]
  /\ \A b \in Invocation \ {c} : at'[b] = at[b]

(* Trees with other parts, another session or a record.                    *)
LEMMA TreeChanges ==
  ASSUME NEW t \in Tree, NEW parts \in SUBSET Piece
  PROVE  /\ [t EXCEPT !.has = parts] \in Tree
         /\ [t EXCEPT !.has = parts].has = parts
         /\ [t EXCEPT !.has = parts].former = t.former
         /\ [t EXCEPT !.has = parts].recorded = t.recorded
BY DEF Tree

(* A tree with the record that it was adopted.                             *)
LEMMA TreeRecorded ==
  ASSUME NEW t \in Tree
  PROVE  /\ [t EXCEPT !.recorded = TRUE] \in Tree
         /\ [t EXCEPT !.recorded = TRUE].has = t.has
         /\ [t EXCEPT !.recorded = TRUE].recorded
BY DEF Tree

(* A tree with other parts and another session.                            *)
LEMMA TreeLinked ==
  ASSUME NEW t \in Tree, NEW parts \in SUBSET Piece, NEW l \in BOOLEAN
  PROVE  /\ [t EXCEPT !.has = parts, !.linked = l] \in Tree
         /\ [t EXCEPT !.has = parts, !.linked = l].has = parts
         /\ [t EXCEPT !.has = parts, !.linked = l].former = t.former
         /\ [t EXCEPT !.has = parts, !.linked = l].recorded = t.recorded
BY DEF Tree

(* The tree that a repair prepares begins empty.                           *)
LEMMA EmptyIsTree == EmptyTree \in Tree /\ EmptyTree.has = {}
BY DEF EmptyTree, Tree

(* Whoever enters the protected section has just made the lock; whoever    *)
(* removes it is within, or it was not there.                              *)
LEMMA LockHolds ==
  ASSUME DirectoryInv, NEW c \in Invocation, OnlyMoves(c),
         setupLock' = setupLock \/ setupLock = Nobody \/ at[c] \in InSetup,
         at'[c] \in InSetup => setupLock' = c
  PROVE  SetupLocked'
BY InstallationMarks DEF DirectoryInv, SetupLocked, OnlyMoves

(* A step that touches no file leaves every tree and every command's       *)
(* knowledge of it; one that ends a swap half way is remembered as torn.   *)
LEMMA TreesStay ==
  ASSUME DirectoryInv, NEW c \in Invocation, OnlyMoves(c), UNCHANGED files,
         torn \subseteq torn', at[c] = "put" => at'[c] = "put" \/ c \in torn',
         Prepares(c)'
  PROVE  (\A b \in Invocation : Prepares(b)') /\ LegacyKept' /\ RootIsWhole' /\ NeverStranded'
<1> USE DEF files
<1>1. ASSUME NEW b \in Invocation PROVE Prepares(b)'
  <2>1. Prepares(b) BY DEF DirectoryInv
  <2>2. Agreed' = Agreed BY DEF Agreed
  <2>3. CASE b # c BY <2>1, <2>2, <2>3 DEF Prepares, OnlyMoves, Whole
  <2> QED BY <2>3
<1>2. LegacyKept' /\ NeverStranded'
  BY DEF DirectoryInv, LegacyKept, NeverStranded, Clash, Whole
<1>3. RootIsWhole'
  BY DEF DirectoryInv, RootIsWhole, OnlyMoves
<1> QED BY <1>1, <1>2, <1>3

(* The trees of the other commands, when one works under the lock.         *)
LEMMA OthersWait ==
  ASSUME DirectoryInv, NEW c \in Invocation, OnlyMoves(c), at[c] \in InSetup,
         \A b \in Invocation \ {c} : staged'[b] = staged[b] \/ staged'[b] = NoDirectory,
         Agreed => Agreed', root # NoDirectory => root' # NoDirectory
  PROVE  \A b \in Invocation \ {c} : Prepares(b)'
<1> SUFFICES ASSUME NEW b \in Invocation \ {c} PROVE Prepares(b)'
  OBVIOUS
<1>1. Prepares(b) /\ at'[b] = at[b] BY DEF DirectoryInv, OnlyMoves
<1>2. at[b] \notin InSetup BY DEF DirectoryInv, SetupLocked
<1>3. /\ at[b] \notin {"move", "copy", "recordCopy", "promoteCopy", "prepare", "write", "verify",
                       "promote", "pair", "remove", "put", "record"}
  BY <1>2 DEF InSetup, Protected
<1>4. at[b] \notin InRepair BY <1>2 DEF InSetup, Protected, InRepair
<1> QED BY <1>1, <1>3, <1>4 DEF Prepares

(* Who only leaves the steps of the instance lock disturbs nobody there.   *)
LEMMA RuntimeQuiet ==
  ASSUME DirectoryInv, UNCHANGED <<runtimeLock, moved, rivals>>,
         \A b \in Invocation :
           at'[b] \in {"readOwner", "writePid", "boot", "running"} => at'[b] = at[b]
  PROVE  InstanceLocked'
BY DEF DirectoryInv, InstanceLocked, Runs

(* Nobody begins to start or to repair: what the repairs saw still stands. *)
LEMMA SwapQuiet ==
  ASSUME DirectoryInv, UNCHANGED task, crossing \subseteq crossing',
         \A b \in Invocation : at'[b] \in StartSteps => at[b] \in StartSteps,
         \A b \in Invocation : at'[b] \in InRepair \cup {"repairLock"} =>
                              at[b] \in InRepair \cup {"repairLock"}
  PROVE  SwapSeen'
BY DEF DirectoryInv, SwapSeen

-----------------------------------------------------------------------------
(* The first look at the two directories decides where the command goes    *)
(* on.                                                                     *)
LEMMA SettleKeeps ==
  ASSUME DirectoryInv, NEW c \in Invocation, Settle(c)
  PROVE  DirectoryInv'
<1> USE DEF Settle, Proceed, files, locks, installationBounds, remembered, AfterSettled
<1>t. InstallationTyped /\ Prepares(c) /\ (at[c] \in InSetup => setupLock = c)
  BY DEF DirectoryInv, SetupLocked
<1>1. OnlyMoves(c)
  BY <1>t DEF OnlyMoves, InstallationTyped, Adopting, InInit, InRepair, StartSteps, Settled,
     Steps
<1>2. InstallationTyped'
  BY <1>t, <1>1, InstallationBounds DEF InstallationTyped, OnlyMoves, Prepares, Tree,
     EmptyTree, Piece
<1>3. SetupLocked'
  BY <1>t, <1>1, LockHolds DEF InSetup, Protected, InstallationTyped
<1>4. Prepares(c)'
  BY <1>t DEF Prepares, InstallationTyped, Agreed, Clash, Whole, Staging, Adopting, InInit,
     InRepair, StartSteps, Settled, Steps
<1>5. (\A b \in Invocation : Prepares(b)') /\ LegacyKept' /\ RootIsWhole' /\ NeverStranded'
  BY <1>1, <1>4, TreesStay
<1>6. InstanceLocked'
  BY <1>t, <1>1, RuntimeQuiet DEF InstallationTyped, OnlyMoves
<1>7. SwapSeen'
  BY <1>t, <1>1, SwapQuiet DEF InstallationTyped, OnlyMoves, Adopting, InInit, InRepair,
     StartSteps, Settled, Steps
<1> QED BY <1>2, <1>3, <1>5, <1>6, <1>7 DEF DirectoryInv

(* Agreed again under the lock; what dead migrations left is swept away.   *)
LEMMA AdoptCheckKeeps ==
  ASSUME DirectoryInv, NEW c \in Invocation, AdoptCheck(c)
  PROVE  DirectoryInv'
<1> USE DEF AdoptCheck, Proceed, files, locks, installationBounds, remembered, ReleaseSetupLock
<1>t. InstallationTyped /\ Prepares(c) /\ (at[c] \in InSetup => setupLock = c)
  BY DEF DirectoryInv, SetupLocked
<1>1. OnlyMoves(c)
  BY <1>t DEF OnlyMoves, InstallationTyped, Adopting, InInit, InRepair, StartSteps, Settled,
     Steps
<1>2. InstallationTyped'
  BY <1>t, <1>1, InstallationBounds DEF InstallationTyped, OnlyMoves, Prepares, Tree,
     EmptyTree, Piece
<1>3. SetupLocked'
  BY <1>t, <1>1, LockHolds DEF InSetup, Protected, InstallationTyped
<1>4. Prepares(c)'
  BY <1>t, InstallationMarks DEF Prepares, InstallationTyped, Agreed, Clash, Whole, Staging,
     EmptyTree, Piece, Tree, Adopting, InInit, InRepair, StartSteps, Settled, Steps
<1>a. (Agreed => Agreed') /\ (root # NoDirectory => root' # NoDirectory)
  BY <1>t, InstallationMarks DEF Agreed, InstallationTyped, Tree, Prepares
<1>b. \A b \in Invocation \ {c} : Prepares(b)'
  BY <1>t, <1>1, <1>a, OthersWait DEF InSetup, Protected, InstallationTyped
<1>c. LegacyKept' /\ NeverStranded'
  BY <1>t, InstallationMarks DEF DirectoryInv, LegacyKept, NeverStranded, Clash, Whole,
     Prepares, InstallationTyped, Tree, Agreed
<1>d. RootIsWhole'
  BY <1>t, <1>1, InstallationMarks DEF DirectoryInv, RootIsWhole, Prepares,
     InstallationTyped, OnlyMoves, Tree, Piece, LegacyKept, Whole
<1>5. (\A b \in Invocation : Prepares(b)') /\ LegacyKept' /\ RootIsWhole' /\ NeverStranded'
  BY <1>4, <1>b, <1>c, <1>d
<1>6. InstanceLocked'
  BY <1>t, <1>1, RuntimeQuiet DEF InstallationTyped, OnlyMoves
<1>7. SwapSeen'
  BY <1>t, <1>1, SwapQuiet DEF InstallationTyped, OnlyMoves, Adopting, InInit, InRepair,
     StartSteps, Settled, Steps
<1> QED BY <1>2, <1>3, <1>5, <1>6, <1>7 DEF DirectoryInv

(* The former directory becomes the root at once, or its copy begins;      *)
(* nothing is at the root yet.                                             *)
LEMMA MoveLegacyKeeps ==
  ASSUME DirectoryInv, NEW c \in Invocation, MoveLegacy(c)
  PROVE  DirectoryInv'
<1> USE DEF MoveLegacy, Proceed, files, locks, installationBounds, remembered
<1>t. InstallationTyped /\ Prepares(c) /\ (at[c] \in InSetup => setupLock = c)
  BY DEF DirectoryInv, SetupLocked
<1>1. OnlyMoves(c)
  BY <1>t DEF OnlyMoves, InstallationTyped, Adopting, InInit, InRepair, StartSteps, Settled,
     Steps
<1>s. /\ staged' \in [Invocation -> Tree \cup {NoDirectory}]
      /\ \A b \in Invocation \ {c} : staged'[b] = staged[b]
      /\ at'[c] = "copy" => staged'[c] \in Tree
      /\ at'[c] # "copy" => staged' = staged /\ root' # NoDirectory
      /\ root' \in Tree \cup {NoDirectory} /\ legacy' \in Tree \cup {NoDirectory}
      /\ at'[c] \in {"copy", "record"}
      /\ at'[c] = "copy" => legacy' = legacy
  <2> DEFINE new == [EmptyTree EXCEPT !.former = TRUE]
  <2>1. new \in Tree BY DEF EmptyTree, Tree, Piece
  <2>2. \/ /\ staged' = [staged EXCEPT ![c] = new] /\ at' = [at EXCEPT ![c] = "copy"]
           /\ UNCHANGED <<root, legacy>>
        \/ /\ staged' = staged /\ at' = [at EXCEPT ![c] = "record"]
           /\ root' = legacy /\ legacy' = NoDirectory
    OBVIOUS
  <2>3. legacy # NoDirectory BY <1>t DEF Prepares
  <2> HIDE DEF new
  <2> QED BY <2>1, <2>2, <2>3, <1>t DEF InstallationTyped
<1>2. InstallationTyped'
  BY <1>t, <1>1, <1>s, InstallationBounds DEF InstallationTyped, OnlyMoves
<1>3. SetupLocked'
  BY <1>t, <1>1, LockHolds DEF InSetup, Protected, InstallationTyped
<1>4. Prepares(c)'
  BY <1>s, <1>1, <1>t, InstallationMarks DEF Prepares, InstallationTyped, Agreed, Whole,
     Staging, Adopting, InInit, InRepair, StartSteps, Settled, Steps
<1>a. (Agreed => Agreed') /\ (root # NoDirectory => root' # NoDirectory)
  BY <1>t, InstallationMarks DEF Agreed, InstallationTyped, Tree, Prepares
<1>b. \A b \in Invocation \ {c} : Prepares(b)'
  BY <1>t, <1>1, <1>a, <1>s, OthersWait DEF InSetup, Protected
<1>c. LegacyKept' /\ NeverStranded'
  BY <1>t, InstallationMarks DEF DirectoryInv, LegacyKept, NeverStranded, Clash, Whole,
     Prepares, InstallationTyped, Tree, Agreed
<1>d. RootIsWhole'
  BY <1>t, <1>1, InstallationMarks DEF DirectoryInv, RootIsWhole, Prepares,
     InstallationTyped, OnlyMoves, Tree, Piece, LegacyKept, Whole
<1>5. (\A b \in Invocation : Prepares(b)') /\ LegacyKept' /\ RootIsWhole' /\ NeverStranded'
  BY <1>4, <1>b, <1>c, <1>d
<1>6. InstanceLocked'
  BY <1>t, <1>1, RuntimeQuiet DEF InstallationTyped, OnlyMoves
<1>7. SwapSeen'
  BY <1>t, <1>1, SwapQuiet DEF InstallationTyped, OnlyMoves, Adopting, InInit, InRepair,
     StartSteps, Settled, Steps
<1> QED BY <1>2, <1>3, <1>5, <1>6, <1>7 DEF DirectoryInv

(* The record in the root makes the two directories agree.                 *)
LEMMA RecordKeeps ==
  ASSUME DirectoryInv, NEW c \in Invocation, Record(c)
  PROVE  DirectoryInv'
<1> USE DEF Record, Proceed, files, locks, installationBounds, remembered
<1>t. InstallationTyped /\ Prepares(c) /\ (at[c] \in InSetup => setupLock = c)
  BY DEF DirectoryInv, SetupLocked
<1>1. OnlyMoves(c)
  BY <1>t DEF OnlyMoves, InstallationTyped, Adopting, InInit, InRepair, StartSteps, Settled,
     Steps
<1>2. InstallationTyped'
  BY <1>t, <1>1, InstallationBounds DEF InstallationTyped, OnlyMoves, Prepares, Tree,
     EmptyTree, Piece
<1>3. SetupLocked'
  BY <1>t, <1>1, LockHolds DEF InSetup, Protected, InstallationTyped
<1>4. Prepares(c)'
  BY <1>t, InstallationMarks, ZenonT(60) DEF Prepares, InstallationTyped, Agreed, Clash, Whole, Staging,
     EmptyTree, Piece, Tree, Adopting, InInit, InRepair, StartSteps, Settled, Steps
<1>a. (Agreed => Agreed') /\ (root # NoDirectory => root' # NoDirectory)
  BY <1>t, InstallationMarks DEF Agreed, InstallationTyped, Tree, Prepares
<1>b. \A b \in Invocation \ {c} : Prepares(b)'
  BY <1>t, <1>1, <1>a, OthersWait DEF InSetup, Protected, InstallationTyped
<1>c. LegacyKept' /\ NeverStranded'
  BY <1>t, InstallationMarks DEF DirectoryInv, LegacyKept, NeverStranded, Clash, Whole,
     Prepares, InstallationTyped, Tree, Agreed
<1>d. RootIsWhole'
  BY <1>t, <1>1, InstallationMarks DEF DirectoryInv, RootIsWhole, Prepares,
     InstallationTyped, OnlyMoves, Tree, Piece, LegacyKept, Whole
<1>5. (\A b \in Invocation : Prepares(b)') /\ LegacyKept' /\ RootIsWhole' /\ NeverStranded'
  BY <1>4, <1>b, <1>c, <1>d
<1>6. InstanceLocked'
  BY <1>t, <1>1, RuntimeQuiet DEF InstallationTyped, OnlyMoves
<1>7. SwapSeen'
  BY <1>t, <1>1, SwapQuiet DEF InstallationTyped, OnlyMoves, Adopting, InInit, InRepair,
     StartSteps, Settled, Steps
<1> QED BY <1>2, <1>3, <1>5, <1>6, <1>7 DEF DirectoryInv

(* A part more, of the former directory, which is whole.                   *)
LEMMA CopyTreeKeeps ==
  ASSUME DirectoryInv, NEW c \in Invocation, CopyTree(c)
  PROVE  DirectoryInv'
<1> USE DEF CopyTree, Proceed, files, locks, installationBounds, remembered
<1>t. InstallationTyped /\ Prepares(c) /\ (at[c] \in InSetup => setupLock = c)
  BY DEF DirectoryInv, SetupLocked
<1>1. OnlyMoves(c)
  BY <1>t DEF OnlyMoves, InstallationTyped, Adopting, InInit, InRepair, StartSteps, Settled,
     Steps
<1>s. /\ staged' \in [Invocation -> Tree \cup {NoDirectory}]
      /\ \A b \in Invocation \ {c} : staged'[b] = staged[b]
      /\ staged'[c] \in Tree
      /\ at'[c] = "copy" \/ (at'[c] = "recordCopy" /\ Whole(staged'[c]))
  <2>1. staged[c] \in Tree /\ legacy \in Tree /\ Whole(legacy)
    BY <1>t DEF Prepares, InstallationTyped, DirectoryInv, LegacyKept
  <2>2. CASE staged[c].has = legacy.has
    BY <2>1, <2>2, <1>t DEF InstallationTyped, Whole
  <2>3. CASE staged[c].has # legacy.has
    <3>1. PICK p \in legacy.has \ staged[c].has :
             staged' = [staged EXCEPT ![c] = [staged[c] EXCEPT !.has = staged[c].has \cup {p},
                                                               !.linked = legacy.linked]]
      BY <2>3
    <3>2. staged[c].has \cup {p} \in SUBSET Piece /\ legacy.linked \in BOOLEAN BY <2>1 DEF Tree
    <3>3. [staged[c] EXCEPT !.has = staged[c].has \cup {p}, !.linked = legacy.linked] \in Tree
      BY <2>1, <3>2, TreeLinked
    <3>4. at' = at BY <2>3
    <3> QED BY <3>1, <3>3, <3>4, <1>t DEF InstallationTyped
  <2> QED BY <2>2, <2>3
<1>2. InstallationTyped'
  BY <1>t, <1>1, <1>s, InstallationBounds DEF InstallationTyped, OnlyMoves
<1>3. SetupLocked'
  BY <1>t, <1>1, LockHolds DEF InSetup, Protected, InstallationTyped
<1>4. Prepares(c)'
  BY <1>s, <1>1, <1>t, InstallationMarks DEF Prepares, InstallationTyped, Agreed, Whole,
     Staging, Adopting, InInit, InRepair, StartSteps, Settled, Steps
<1>a. (Agreed => Agreed') /\ (root # NoDirectory => root' # NoDirectory)
  BY <1>t, InstallationMarks DEF Agreed, InstallationTyped, Tree, Prepares
<1>b. \A b \in Invocation \ {c} : Prepares(b)'
  BY <1>t, <1>1, <1>a, <1>s, OthersWait DEF InSetup, Protected
<1>c. LegacyKept' /\ NeverStranded'
  BY <1>t, InstallationMarks DEF DirectoryInv, LegacyKept, NeverStranded, Clash, Whole,
     Prepares, InstallationTyped, Tree, Agreed
<1>d. RootIsWhole'
  BY <1>t, <1>1, InstallationMarks DEF DirectoryInv, RootIsWhole, Prepares,
     InstallationTyped, OnlyMoves, Tree, Piece, LegacyKept, Whole
<1>5. (\A b \in Invocation : Prepares(b)') /\ LegacyKept' /\ RootIsWhole' /\ NeverStranded'
  BY <1>4, <1>b, <1>c, <1>d
<1>6. InstanceLocked'
  BY <1>t, <1>1, RuntimeQuiet DEF InstallationTyped, OnlyMoves
<1>7. SwapSeen'
  BY <1>t, <1>1, SwapQuiet DEF InstallationTyped, OnlyMoves, Adopting, InInit, InRepair,
     StartSteps, Settled, Steps
<1> QED BY <1>2, <1>3, <1>5, <1>6, <1>7 DEF DirectoryInv

(* The copy is whole when it is recorded.                                  *)
LEMMA RecordCopyKeeps ==
  ASSUME DirectoryInv, NEW c \in Invocation, RecordCopy(c)
  PROVE  DirectoryInv'
<1> USE DEF RecordCopy, Proceed, files, locks, installationBounds, remembered
<1>t. InstallationTyped /\ Prepares(c) /\ (at[c] \in InSetup => setupLock = c)
  BY DEF DirectoryInv, SetupLocked
<1>1. OnlyMoves(c)
  BY <1>t DEF OnlyMoves, InstallationTyped, Adopting, InInit, InRepair, StartSteps, Settled,
     Steps
<1>s. /\ staged' \in [Invocation -> Tree \cup {NoDirectory}]
      /\ \A b \in Invocation \ {c} : staged'[b] = staged[b]
      /\ staged'[c] \in Tree /\ Whole(staged'[c]) /\ staged'[c].recorded /\ at'[c] = "promoteCopy"
  <2>1. staged[c] \in Tree /\ Whole(staged[c]) BY <1>t DEF Prepares, InstallationTyped
  <2> DEFINE new == [staged[c] EXCEPT !.recorded = TRUE]
  <2>2. new \in Tree /\ Whole(new) /\ new.recorded BY <2>1, TreeRecorded DEF Whole
  <2>3. staged' = [staged EXCEPT ![c] = new] OBVIOUS
  <2> HIDE DEF new
  <2> QED BY <2>2, <2>3, <1>t DEF InstallationTyped
<1>2. InstallationTyped'
  BY <1>t, <1>1, <1>s, InstallationBounds DEF InstallationTyped, OnlyMoves
<1>3. SetupLocked'
  BY <1>t, <1>1, LockHolds DEF InSetup, Protected, InstallationTyped
<1>4. Prepares(c)'
  BY <1>s, <1>1, <1>t, InstallationMarks DEF Prepares, InstallationTyped, Agreed, Whole,
     Staging, Adopting, InInit, InRepair, StartSteps, Settled, Steps
<1>a. (Agreed => Agreed') /\ (root # NoDirectory => root' # NoDirectory)
  BY <1>t, InstallationMarks DEF Agreed, InstallationTyped, Tree, Prepares
<1>b. \A b \in Invocation \ {c} : Prepares(b)'
  BY <1>t, <1>1, <1>a, <1>s, OthersWait DEF InSetup, Protected
<1>c. LegacyKept' /\ NeverStranded'
  BY <1>t, InstallationMarks DEF DirectoryInv, LegacyKept, NeverStranded, Clash, Whole,
     Prepares, InstallationTyped, Tree, Agreed
<1>d. RootIsWhole'
  BY <1>t, <1>1, InstallationMarks DEF DirectoryInv, RootIsWhole, Prepares,
     InstallationTyped, OnlyMoves, Tree, Piece, LegacyKept, Whole
<1>5. (\A b \in Invocation : Prepares(b)') /\ LegacyKept' /\ RootIsWhole' /\ NeverStranded'
  BY <1>4, <1>b, <1>c, <1>d
<1>6. InstanceLocked'
  BY <1>t, <1>1, RuntimeQuiet DEF InstallationTyped, OnlyMoves
<1>7. SwapSeen'
  BY <1>t, <1>1, SwapQuiet DEF InstallationTyped, OnlyMoves, Adopting, InInit, InRepair,
     StartSteps, Settled, Steps
<1> QED BY <1>2, <1>3, <1>5, <1>6, <1>7 DEF DirectoryInv

(* What is promoted is whole, recorded and former: the two agree from then *)
(* on.                                                                     *)
LEMMA PromoteCopyKeeps ==
  ASSUME DirectoryInv, NEW c \in Invocation, PromoteCopy(c)
  PROVE  DirectoryInv'
<1> USE DEF PromoteCopy, Proceed, files, locks, installationBounds, remembered, RenameOver
<1>t. InstallationTyped /\ Prepares(c) /\ (at[c] \in InSetup => setupLock = c)
  BY DEF DirectoryInv, SetupLocked
<1>1. OnlyMoves(c)
  BY <1>t DEF OnlyMoves, InstallationTyped, Adopting, InInit, InRepair, StartSteps, Settled,
     Steps
<1>2. InstallationTyped'
  BY <1>t, <1>1, InstallationBounds DEF InstallationTyped, OnlyMoves, Prepares, Tree,
     EmptyTree, Piece
<1>3. SetupLocked'
  BY <1>t, <1>1, LockHolds DEF InSetup, Protected, InstallationTyped
<1>4. Prepares(c)'
  BY <1>t, InstallationMarks DEF Prepares, InstallationTyped, Agreed, Clash, Whole, Staging,
     EmptyTree, Piece, Tree, Adopting, InInit, InRepair, StartSteps, Settled, Steps
<1>a. (Agreed => Agreed') /\ (root # NoDirectory => root' # NoDirectory)
  BY <1>t, InstallationMarks DEF Agreed, InstallationTyped, Tree, Prepares
<1>b. \A b \in Invocation \ {c} : Prepares(b)'
  BY <1>t, <1>1, <1>a, OthersWait DEF InSetup, Protected, InstallationTyped
<1>c. LegacyKept' /\ NeverStranded'
  BY <1>t, InstallationMarks DEF DirectoryInv, LegacyKept, NeverStranded, Clash, Whole,
     Prepares, InstallationTyped, Tree, Agreed
<1>d. RootIsWhole'
  BY <1>t, <1>1, InstallationMarks DEF DirectoryInv, RootIsWhole, Prepares,
     InstallationTyped, OnlyMoves, Tree, Piece, LegacyKept, Whole
<1>5. (\A b \in Invocation : Prepares(b)') /\ LegacyKept' /\ RootIsWhole' /\ NeverStranded'
  BY <1>4, <1>b, <1>c, <1>d
<1>6. InstanceLocked'
  BY <1>t, <1>1, RuntimeQuiet DEF InstallationTyped, OnlyMoves
<1>7. SwapSeen'
  BY <1>t, <1>1, SwapQuiet DEF InstallationTyped, OnlyMoves, Adopting, InInit, InRepair,
     StartSteps, Settled, Steps
<1> QED BY <1>2, <1>3, <1>5, <1>6, <1>7 DEF DirectoryInv

(* The lock is released with the two agreed.                               *)
LEMMA AdoptedKeeps ==
  ASSUME DirectoryInv, NEW c \in Invocation, Adopted(c)
  PROVE  DirectoryInv'
<1> USE DEF Adopted, Proceed, files, locks, installationBounds, remembered, ReleaseSetupLock
<1>t. InstallationTyped /\ Prepares(c) /\ (at[c] \in InSetup => setupLock = c)
  BY DEF DirectoryInv, SetupLocked
<1>1. OnlyMoves(c)
  BY <1>t DEF OnlyMoves, InstallationTyped, Adopting, InInit, InRepair, StartSteps, Settled,
     Steps
<1>2. InstallationTyped'
  BY <1>t, <1>1, InstallationBounds DEF InstallationTyped, OnlyMoves, Prepares, Tree,
     EmptyTree, Piece
<1>3. SetupLocked'
  BY <1>t, <1>1, LockHolds DEF InSetup, Protected, InstallationTyped
<1>4. Prepares(c)'
  BY <1>t DEF Prepares, InstallationTyped, Agreed, Clash, Whole, Staging, Adopting, InInit,
     InRepair, StartSteps, Settled, Steps
<1>5. (\A b \in Invocation : Prepares(b)') /\ LegacyKept' /\ RootIsWhole' /\ NeverStranded'
  BY <1>1, <1>4, TreesStay
<1>6. InstanceLocked'
  BY <1>t, <1>1, RuntimeQuiet DEF InstallationTyped, OnlyMoves
<1>7. SwapSeen'
  BY <1>t, <1>1, SwapQuiet DEF InstallationTyped, OnlyMoves, Adopting, InInit, InRepair,
     StartSteps, Settled, Steps
<1> QED BY <1>2, <1>3, <1>5, <1>6, <1>7 DEF DirectoryInv

(* init goes on only where no root is.                                     *)
LEMMA InitInspectKeeps ==
  ASSUME DirectoryInv, NEW c \in Invocation, InitInspect(c)
  PROVE  DirectoryInv'
<1> USE DEF InitInspect, Proceed, files, locks, installationBounds, remembered
<1>t. InstallationTyped /\ Prepares(c) /\ (at[c] \in InSetup => setupLock = c)
  BY DEF DirectoryInv, SetupLocked
<1>1. OnlyMoves(c)
  BY <1>t DEF OnlyMoves, InstallationTyped, Adopting, InInit, InRepair, StartSteps, Settled,
     Steps
<1>2. InstallationTyped'
  BY <1>t, <1>1, InstallationBounds DEF InstallationTyped, OnlyMoves, Prepares, Tree,
     EmptyTree, Piece
<1>3. SetupLocked'
  BY <1>t, <1>1, LockHolds DEF InSetup, Protected, InstallationTyped
<1>4. Prepares(c)'
  BY <1>t DEF Prepares, InstallationTyped, Agreed, Clash, Whole, Staging, Adopting, InInit,
     InRepair, StartSteps, Settled, Steps
<1>5. (\A b \in Invocation : Prepares(b)') /\ LegacyKept' /\ RootIsWhole' /\ NeverStranded'
  BY <1>1, <1>4, TreesStay
<1>6. InstanceLocked'
  BY <1>t, <1>1, RuntimeQuiet DEF InstallationTyped, OnlyMoves
<1>7. SwapSeen'
  BY <1>t, <1>1, SwapQuiet DEF InstallationTyped, OnlyMoves, Adopting, InInit, InRepair,
     StartSteps, Settled, Steps
<1> QED BY <1>2, <1>3, <1>5, <1>6, <1>7 DEF DirectoryInv

(* The tree of init begins with its frame.                                 *)
LEMMA CreateStagingKeeps ==
  ASSUME DirectoryInv, NEW c \in Invocation, CreateStaging(c)
  PROVE  DirectoryInv'
<1> USE DEF CreateStaging, Proceed, files, locks, installationBounds, remembered
<1>t. InstallationTyped /\ Prepares(c) /\ (at[c] \in InSetup => setupLock = c)
  BY DEF DirectoryInv, SetupLocked
<1>1. OnlyMoves(c)
  BY <1>t DEF OnlyMoves, InstallationTyped, Adopting, InInit, InRepair, StartSteps, Settled,
     Steps
<1>s. /\ staged' \in [Invocation -> Tree \cup {NoDirectory}]
      /\ \A b \in Invocation \ {c} : staged'[b] = staged[b]
      /\ \/ staged'[c] \in Tree /\ "frame" \in staged'[c].has /\ at'[c] = "prepare"
         \/ at'[c] = "unwind"
  <2> DEFINE new == [EmptyTree EXCEPT !.has = {"frame"}]
  <2>1. new \in Tree /\ new.has = {"frame"} BY DEF EmptyTree, Tree, Piece
  <2>2. \/ staged' = [staged EXCEPT ![c] = new] /\ at' = [at EXCEPT ![c] = "prepare"]
        \/ staged' = staged /\ at' = [at EXCEPT ![c] = "unwind"]
    <3>1. CASE root = NoDirectory
      <4>1. staged' = [staged EXCEPT ![c] = new] BY <3>1, Zenon
      <4>2. at' = [at EXCEPT ![c] = "prepare"] BY <3>1, Zenon
      <4> QED BY <4>1, <4>2
    <3>2. CASE root # NoDirectory BY <3>2
    <3> QED BY <3>1, <3>2
  <2> HIDE DEF new
  <2> QED BY <2>1, <2>2, <1>t DEF InstallationTyped
<1>2. InstallationTyped'
  BY <1>t, <1>1, <1>s, InstallationBounds DEF InstallationTyped, OnlyMoves
<1>3. SetupLocked'
  BY <1>t, <1>1, LockHolds DEF InSetup, Protected, InstallationTyped
<1>4. Prepares(c)'
  BY <1>s, <1>1, <1>t, InstallationMarks DEF Prepares, InstallationTyped, Agreed, Whole,
     Staging, Adopting, InInit, InRepair, StartSteps, Settled, Steps
<1>a. (Agreed => Agreed') /\ (root # NoDirectory => root' # NoDirectory)
  BY <1>t, InstallationMarks DEF Agreed, InstallationTyped, Tree, Prepares
<1>b. \A b \in Invocation \ {c} : Prepares(b)'
  BY <1>t, <1>1, <1>a, <1>s, OthersWait DEF InSetup, Protected
<1>c. LegacyKept' /\ NeverStranded'
  BY <1>t, InstallationMarks DEF DirectoryInv, LegacyKept, NeverStranded, Clash, Whole,
     Prepares, InstallationTyped, Tree, Agreed
<1>d. RootIsWhole'
  BY <1>t, <1>1, InstallationMarks DEF DirectoryInv, RootIsWhole, Prepares,
     InstallationTyped, OnlyMoves, Tree, Piece, LegacyKept, Whole
<1>5. (\A b \in Invocation : Prepares(b)') /\ LegacyKept' /\ RootIsWhole' /\ NeverStranded'
  BY <1>4, <1>b, <1>c, <1>d
<1>6. InstanceLocked'
  BY <1>t, <1>1, RuntimeQuiet DEF InstallationTyped, OnlyMoves
<1>7. SwapSeen'
  BY <1>t, <1>1, SwapQuiet DEF InstallationTyped, OnlyMoves, Adopting, InInit, InRepair,
     StartSteps, Settled, Steps
<1> QED BY <1>2, <1>3, <1>5, <1>6, <1>7 DEF DirectoryInv

(* Pairing adds the store, and the model when it was authenticated.        *)
LEMMA PrepareKeeps ==
  ASSUME DirectoryInv, NEW c \in Invocation, Prepare(c)
  PROVE  DirectoryInv'
<1> USE DEF Prepare, Proceed, files, locks, installationBounds, remembered
<1>t. InstallationTyped /\ Prepares(c) /\ (at[c] \in InSetup => setupLock = c)
  BY DEF DirectoryInv, SetupLocked
<1>1. OnlyMoves(c)
  BY <1>t DEF OnlyMoves, InstallationTyped, Adopting, InInit, InRepair, StartSteps, Settled,
     Steps
<1>s. /\ staged' \in [Invocation -> Tree \cup {NoDirectory}]
      /\ \A b \in Invocation \ {c} : staged'[b] = staged[b]
      /\ staged'[c] \in Tree /\ {"frame", "store"} \subseteq staged'[c].has /\ at'[c] = "write"
  <2>1. staged[c] \in Tree /\ "frame" \in staged[c].has BY <1>t DEF Prepares, InstallationTyped
  <2>2. PICK more \in {{"store"}, {"store", "model"}} :
           staged' = [staged EXCEPT ![c] = [staged[c] EXCEPT !.has = staged[c].has \cup more, !.linked = TRUE]]
    OBVIOUS
  <2> DEFINE new == [staged[c] EXCEPT !.has = staged[c].has \cup more, !.linked = TRUE]
  <2>3. staged[c].has \cup more \in SUBSET Piece BY <2>1 DEF Tree, Piece
  <2>4. new \in Tree /\ new.has = staged[c].has \cup more BY <2>1, <2>3, TreeLinked
  <2>5. staged' = [staged EXCEPT ![c] = new] BY <2>2
  <2> HIDE DEF new
  <2> QED BY <2>1, <2>4, <2>5, <1>t DEF InstallationTyped
<1>2. InstallationTyped'
  BY <1>t, <1>1, <1>s, InstallationBounds DEF InstallationTyped, OnlyMoves
<1>3. SetupLocked'
  BY <1>t, <1>1, LockHolds DEF InSetup, Protected, InstallationTyped
<1>4. Prepares(c)'
  BY <1>s, <1>1, <1>t, InstallationMarks DEF Prepares, InstallationTyped, Agreed, Whole,
     Staging, Adopting, InInit, InRepair, StartSteps, Settled, Steps
<1>a. (Agreed => Agreed') /\ (root # NoDirectory => root' # NoDirectory)
  BY <1>t, InstallationMarks DEF Agreed, InstallationTyped, Tree, Prepares
<1>b. \A b \in Invocation \ {c} : Prepares(b)'
  BY <1>t, <1>1, <1>a, <1>s, OthersWait DEF InSetup, Protected
<1>c. LegacyKept' /\ NeverStranded'
  BY <1>t, InstallationMarks DEF DirectoryInv, LegacyKept, NeverStranded, Clash, Whole,
     Prepares, InstallationTyped, Tree, Agreed
<1>d. RootIsWhole'
  BY <1>t, <1>1, InstallationMarks DEF DirectoryInv, RootIsWhole, Prepares,
     InstallationTyped, OnlyMoves, Tree, Piece, LegacyKept, Whole
<1>5. (\A b \in Invocation : Prepares(b)') /\ LegacyKept' /\ RootIsWhole' /\ NeverStranded'
  BY <1>4, <1>b, <1>c, <1>d
<1>6. InstanceLocked'
  BY <1>t, <1>1, RuntimeQuiet DEF InstallationTyped, OnlyMoves
<1>7. SwapSeen'
  BY <1>t, <1>1, SwapQuiet DEF InstallationTyped, OnlyMoves, Adopting, InInit, InRepair,
     StartSteps, Settled, Steps
<1> QED BY <1>2, <1>3, <1>5, <1>6, <1>7 DEF DirectoryInv

(* The configuration, then the Apps.                                       *)
LEMMA WriteConfigurationKeeps ==
  ASSUME DirectoryInv, NEW c \in Invocation, WriteConfiguration(c)
  PROVE  DirectoryInv'
<1> USE DEF WriteConfiguration, Proceed, files, locks, installationBounds, remembered
<1>t. InstallationTyped /\ Prepares(c) /\ (at[c] \in InSetup => setupLock = c)
  BY DEF DirectoryInv, SetupLocked
<1>1. OnlyMoves(c)
  BY <1>t DEF OnlyMoves, InstallationTyped, Adopting, InInit, InRepair, StartSteps, Settled,
     Steps
<1>2. InstallationTyped'
  BY <1>t, <1>1, InstallationBounds DEF InstallationTyped, OnlyMoves, Prepares, Tree,
     EmptyTree, Piece
<1>3. SetupLocked'
  BY <1>t, <1>1, LockHolds DEF InSetup, Protected, InstallationTyped
<1>4. Prepares(c)'
  BY <1>t, InstallationMarks DEF Prepares, InstallationTyped, Agreed, Clash, Whole, Staging,
     EmptyTree, Piece, Tree, Adopting, InInit, InRepair, StartSteps, Settled, Steps
<1>a. (Agreed => Agreed') /\ (root # NoDirectory => root' # NoDirectory)
  BY <1>t, InstallationMarks DEF Agreed, InstallationTyped, Tree, Prepares
<1>b. \A b \in Invocation \ {c} : Prepares(b)'
  BY <1>t, <1>1, <1>a, OthersWait DEF InSetup, Protected, InstallationTyped
<1>c. LegacyKept' /\ NeverStranded'
  BY <1>t, InstallationMarks DEF DirectoryInv, LegacyKept, NeverStranded, Clash, Whole,
     Prepares, InstallationTyped, Tree, Agreed
<1>d. RootIsWhole'
  BY <1>t, <1>1, InstallationMarks DEF DirectoryInv, RootIsWhole, Prepares,
     InstallationTyped, OnlyMoves, Tree, Piece, LegacyKept, Whole
<1>5. (\A b \in Invocation : Prepares(b)') /\ LegacyKept' /\ RootIsWhole' /\ NeverStranded'
  BY <1>4, <1>b, <1>c, <1>d
<1>6. InstanceLocked'
  BY <1>t, <1>1, RuntimeQuiet DEF InstallationTyped, OnlyMoves
<1>7. SwapSeen'
  BY <1>t, <1>1, SwapQuiet DEF InstallationTyped, OnlyMoves, Adopting, InInit, InRepair,
     StartSteps, Settled, Steps
<1> QED BY <1>2, <1>3, <1>5, <1>6, <1>7 DEF DirectoryInv

(* Verification passes a tree that has its model too: with it, every part. *)
LEMMA VerifyStagingKeeps ==
  ASSUME DirectoryInv, NEW c \in Invocation, VerifyStaging(c)
  PROVE  DirectoryInv'
<1> USE DEF VerifyStaging, Proceed, files, locks, installationBounds, remembered, Verified, Sound
<1>t. InstallationTyped /\ Prepares(c) /\ (at[c] \in InSetup => setupLock = c)
  BY DEF DirectoryInv, SetupLocked
<1>1. OnlyMoves(c)
  BY <1>t DEF OnlyMoves, InstallationTyped, Adopting, InInit, InRepair, StartSteps, Settled,
     Steps
<1>2. InstallationTyped'
  BY <1>t, <1>1, InstallationBounds DEF InstallationTyped, OnlyMoves, Prepares, Tree,
     EmptyTree, Piece
<1>3. SetupLocked'
  BY <1>t, <1>1, LockHolds DEF InSetup, Protected, InstallationTyped
<1>4. Prepares(c)'
  BY <1>t DEF Prepares, InstallationTyped, Agreed, Clash, Whole, Staging, Adopting, InInit,
     InRepair, StartSteps, Settled, Steps
<1>5. (\A b \in Invocation : Prepares(b)') /\ LegacyKept' /\ RootIsWhole' /\ NeverStranded'
  BY <1>1, <1>4, TreesStay
<1>6. InstanceLocked'
  BY <1>t, <1>1, RuntimeQuiet DEF InstallationTyped, OnlyMoves
<1>7. SwapSeen'
  BY <1>t, <1>1, SwapQuiet DEF InstallationTyped, OnlyMoves, Adopting, InInit, InRepair,
     StartSteps, Settled, Steps
<1> QED BY <1>2, <1>3, <1>5, <1>6, <1>7 DEF DirectoryInv

(* What init promotes is whole; nothing former is left out, since it had   *)
(* agreed before.                                                          *)
LEMMA PromoteStagingKeeps ==
  ASSUME DirectoryInv, NEW c \in Invocation, PromoteStaging(c)
  PROVE  DirectoryInv'
<1> USE DEF PromoteStaging, Proceed, files, locks, installationBounds, remembered, RenameOver
<1>t. InstallationTyped /\ Prepares(c) /\ (at[c] \in InSetup => setupLock = c)
  BY DEF DirectoryInv, SetupLocked
<1>1. OnlyMoves(c)
  BY <1>t DEF OnlyMoves, InstallationTyped, Adopting, InInit, InRepair, StartSteps, Settled,
     Steps
<1>2. InstallationTyped'
  BY <1>t, <1>1, InstallationBounds DEF InstallationTyped, OnlyMoves, Prepares, Tree,
     EmptyTree, Piece
<1>3. SetupLocked'
  BY <1>t, <1>1, LockHolds DEF InSetup, Protected, InstallationTyped
<1>4. Prepares(c)'
  BY <1>t, InstallationMarks DEF Prepares, InstallationTyped, Agreed, Clash, Whole, Staging,
     EmptyTree, Piece, Tree, Adopting, InInit, InRepair, StartSteps, Settled, Steps
<1>a. (Agreed => Agreed') /\ (root # NoDirectory => root' # NoDirectory)
  BY <1>t, InstallationMarks DEF Agreed, InstallationTyped, Tree, Prepares
<1>b. \A b \in Invocation \ {c} : Prepares(b)'
  BY <1>t, <1>1, <1>a, OthersWait DEF InSetup, Protected, InstallationTyped
<1>c. LegacyKept' /\ NeverStranded'
  <2>1. Agreed BY <1>t DEF Prepares, Settled, InInit
  <2>2. root' = root \/ (root = NoDirectory /\ root' = staged[c])
    OBVIOUS
  <2>3. root = NoDirectory => legacy = NoDirectory BY <2>1 DEF Agreed
  <2>4. home # "none" => root # NoDirectory \/ legacy # NoDirectory
    BY DEF DirectoryInv, LegacyKept
  <2> QED BY <2>2, <2>3, <2>4 DEF DirectoryInv, LegacyKept, NeverStranded, Clash, Whole
<1>d. RootIsWhole'
  BY <1>t, <1>1, InstallationMarks DEF DirectoryInv, RootIsWhole, Prepares,
     InstallationTyped, OnlyMoves, Tree, Piece, LegacyKept, Whole
<1>5. (\A b \in Invocation : Prepares(b)') /\ LegacyKept' /\ RootIsWhole' /\ NeverStranded'
  BY <1>4, <1>b, <1>c, <1>d
<1>6. InstanceLocked'
  BY <1>t, <1>1, RuntimeQuiet DEF InstallationTyped, OnlyMoves
<1>7. SwapSeen'
  BY <1>t, <1>1, SwapQuiet DEF InstallationTyped, OnlyMoves, Adopting, InInit, InRepair,
     StartSteps, Settled, Steps
<1> QED BY <1>2, <1>3, <1>5, <1>6, <1>7 DEF DirectoryInv

(* A failure in the swap of the store is remembered as torn.               *)
LEMMA FailKeeps ==
  ASSUME DirectoryInv, NEW c \in Invocation, Fail(c)
  PROVE  DirectoryInv'
<1> USE DEF Fail, Proceed, files, locks, installationBounds, remembered, Tears
<1>t. InstallationTyped /\ Prepares(c) /\ (at[c] \in InSetup => setupLock = c)
  BY DEF DirectoryInv, SetupLocked
<1>1. OnlyMoves(c)
  BY <1>t DEF OnlyMoves, InstallationTyped, Adopting, InInit, InRepair, StartSteps, Settled,
     Steps
<1>2. InstallationTyped'
  BY <1>t, <1>1, InstallationBounds DEF InstallationTyped, OnlyMoves, Prepares, Tree,
     EmptyTree, Piece
<1>3. SetupLocked'
  BY <1>t, <1>1, LockHolds DEF InSetup, Protected, InstallationTyped
<1>4. Prepares(c)'
  BY <1>t DEF Prepares, InstallationTyped, Agreed, Clash, Whole, Staging, Adopting, InInit,
     InRepair, StartSteps, Settled, Steps
<1>5. (\A b \in Invocation : Prepares(b)') /\ LegacyKept' /\ RootIsWhole' /\ NeverStranded'
  BY <1>1, <1>4, TreesStay
<1>6. InstanceLocked'
  BY <1>t, <1>1, RuntimeQuiet DEF InstallationTyped, OnlyMoves
<1>7. SwapSeen'
  BY <1>t, <1>1, SwapQuiet DEF InstallationTyped, OnlyMoves, Adopting, InInit, InRepair,
     StartSteps, Settled, Steps
<1> QED BY <1>2, <1>3, <1>5, <1>6, <1>7 DEF DirectoryInv

(* The staged tree is removed, under the lock.                             *)
LEMMA UnwindKeeps ==
  ASSUME DirectoryInv, NEW c \in Invocation, Unwind(c)
  PROVE  DirectoryInv'
<1> USE DEF Unwind, Proceed, files, locks, installationBounds, remembered
<1>t. InstallationTyped /\ Prepares(c) /\ (at[c] \in InSetup => setupLock = c)
  BY DEF DirectoryInv, SetupLocked
<1>1. OnlyMoves(c)
  BY <1>t DEF OnlyMoves, InstallationTyped, Adopting, InInit, InRepair, StartSteps, Settled,
     Steps
<1>2. InstallationTyped'
  BY <1>t, <1>1, InstallationBounds DEF InstallationTyped, OnlyMoves, Prepares, Tree,
     EmptyTree, Piece
<1>3. SetupLocked'
  BY <1>t, <1>1, LockHolds DEF InSetup, Protected, InstallationTyped
<1>4. Prepares(c)'
  BY <1>t, InstallationMarks DEF Prepares, InstallationTyped, Agreed, Clash, Whole, Staging,
     EmptyTree, Piece, Tree, Adopting, InInit, InRepair, StartSteps, Settled, Steps
<1>a. (Agreed => Agreed') /\ (root # NoDirectory => root' # NoDirectory)
  BY <1>t, InstallationMarks DEF Agreed, InstallationTyped, Tree, Prepares
<1>b. \A b \in Invocation \ {c} : Prepares(b)'
  BY <1>t, <1>1, <1>a, OthersWait DEF InSetup, Protected, InstallationTyped
<1>c. LegacyKept' /\ NeverStranded'
  BY <1>t, InstallationMarks DEF DirectoryInv, LegacyKept, NeverStranded, Clash, Whole,
     Prepares, InstallationTyped, Tree, Agreed
<1>d. RootIsWhole'
  BY <1>t, <1>1, InstallationMarks DEF DirectoryInv, RootIsWhole, Prepares,
     InstallationTyped, OnlyMoves, Tree, Piece, LegacyKept, Whole
<1>5. (\A b \in Invocation : Prepares(b)') /\ LegacyKept' /\ RootIsWhole' /\ NeverStranded'
  BY <1>4, <1>b, <1>c, <1>d
<1>6. InstanceLocked'
  BY <1>t, <1>1, RuntimeQuiet DEF InstallationTyped, OnlyMoves
<1>7. SwapSeen'
  BY <1>t, <1>1, SwapQuiet DEF InstallationTyped, OnlyMoves, Adopting, InInit, InRepair,
     StartSteps, Settled, Steps
<1> QED BY <1>2, <1>3, <1>5, <1>6, <1>7 DEF DirectoryInv

(* The command ends with no tree beside the root.                          *)
LEMMA ReleaseSetupKeeps ==
  ASSUME DirectoryInv, NEW c \in Invocation, ReleaseSetup(c)
  PROVE  DirectoryInv'
<1> USE DEF ReleaseSetup, Proceed, files, locks, installationBounds, remembered, ReleaseSetupLock
<1>t. InstallationTyped /\ Prepares(c) /\ (at[c] \in InSetup => setupLock = c)
  BY DEF DirectoryInv, SetupLocked
<1>1. OnlyMoves(c)
  BY <1>t DEF OnlyMoves, InstallationTyped, Adopting, InInit, InRepair, StartSteps, Settled,
     Steps
<1>2. InstallationTyped'
  BY <1>t, <1>1, InstallationBounds DEF InstallationTyped, OnlyMoves, Prepares, Tree,
     EmptyTree, Piece
<1>3. SetupLocked'
  BY <1>t, <1>1, LockHolds DEF InSetup, Protected, InstallationTyped
<1>4. Prepares(c)'
  BY <1>t DEF Prepares, InstallationTyped, Agreed, Clash, Whole, Staging, Adopting, InInit,
     InRepair, StartSteps, Settled, Steps
<1>5. (\A b \in Invocation : Prepares(b)') /\ LegacyKept' /\ RootIsWhole' /\ NeverStranded'
  BY <1>1, <1>4, TreesStay
<1>6. InstanceLocked'
  BY <1>t, <1>1, RuntimeQuiet DEF InstallationTyped, OnlyMoves
<1>7. SwapSeen'
  BY <1>t, <1>1, SwapQuiet DEF InstallationTyped, OnlyMoves, Adopting, InInit, InRepair,
     StartSteps, Settled, Steps
<1> QED BY <1>2, <1>3, <1>5, <1>6, <1>7 DEF DirectoryInv

(* repair goes on only where a root is.                                    *)
LEMMA RepairInspectKeeps ==
  ASSUME DirectoryInv, NEW c \in Invocation, RepairInspect(c)
  PROVE  DirectoryInv'
<1> USE DEF RepairInspect, Proceed, files, locks, installationBounds, remembered, Inspected
<1>t. InstallationTyped /\ Prepares(c) /\ (at[c] \in InSetup => setupLock = c)
  BY DEF DirectoryInv, SetupLocked
<1>1. OnlyMoves(c)
  BY <1>t DEF OnlyMoves, InstallationTyped, Adopting, InInit, InRepair, StartSteps, Settled,
     Steps
<1>2. InstallationTyped'
  BY <1>t, <1>1, InstallationBounds DEF InstallationTyped, OnlyMoves, Prepares, Tree,
     EmptyTree, Piece
<1>3. SetupLocked'
  BY <1>t, <1>1, LockHolds DEF InSetup, Protected, InstallationTyped
<1>4. Prepares(c)'
  <2>1. at'[c] = "ended" \/ (at'[c] = "probe" /\ root # NoDirectory)
    BY <1>t, <1>1 DEF InstallationTyped, Inspected
  <2>2. Agreed /\ staged[c] = NoDirectory BY <1>t DEF Prepares, Settled, Staging
  <2>3. Agreed' = Agreed BY DEF Agreed
  <2> QED
    BY <2>1, <2>2, <2>3 DEF Prepares, Adopting, InInit, InRepair, StartSteps, Settled, Steps
<1>5. (\A b \in Invocation : Prepares(b)') /\ LegacyKept' /\ RootIsWhole' /\ NeverStranded'
  BY <1>1, <1>4, TreesStay
<1>6. InstanceLocked'
  BY <1>t, <1>1, RuntimeQuiet DEF InstallationTyped, OnlyMoves
<1>7. SwapSeen'
  BY <1>t, <1>1, SwapQuiet DEF InstallationTyped, OnlyMoves, Adopting, InInit, InRepair,
     StartSteps, Settled, Steps
<1> QED BY <1>2, <1>3, <1>5, <1>6, <1>7 DEF DirectoryInv

(* Every start under way and every runtime is seen by the repair that goes *)
(* on to the lock.                                                         *)
LEMMA RepairProbeKeeps ==
  ASSUME DirectoryInv, NEW c \in Invocation, RepairProbe(c)
  PROVE  DirectoryInv'
<1> USE DEF RepairProbe, Proceed, files, locks, installationBounds, remembered
<1>t. InstallationTyped /\ Prepares(c) /\ (at[c] \in InSetup => setupLock = c)
  BY DEF DirectoryInv, SetupLocked
<1>1. OnlyMoves(c)
  BY <1>t DEF OnlyMoves, InstallationTyped, Adopting, InInit, InRepair, StartSteps, Settled,
     Steps
<1>2. InstallationTyped'
  BY <1>t, <1>1, InstallationBounds DEF InstallationTyped, OnlyMoves, Prepares, Tree,
     EmptyTree, Piece
<1>3. SetupLocked'
  BY <1>t, <1>1, LockHolds DEF InSetup, Protected, InstallationTyped
<1>4. Prepares(c)'
  BY <1>t DEF Prepares, InstallationTyped, Agreed, Clash, Whole, Staging, Adopting, InInit,
     InRepair, StartSteps, Settled, Steps
<1>5. (\A b \in Invocation : Prepares(b)') /\ LegacyKept' /\ RootIsWhole' /\ NeverStranded'
  BY <1>1, <1>4, TreesStay
<1>6. InstanceLocked'
  BY <1>t, <1>1, RuntimeQuiet DEF InstallationTyped, OnlyMoves
<1>7. SwapSeen'
  <2>1. at'[c] \in {"ended", "repairLock"} /\ task' = task BY <1>t DEF InstallationTyped
  <2>2. \A b \in Invocation : at'[b] \in StartSteps => at[b] \in StartSteps
    BY <2>1, <1>1 DEF OnlyMoves, StartSteps
  <2>3. at'[c] = "repairLock" => \A b \in Invocation : at[b] \in StartSteps => b \in crossing'
    BY <2>1, <1>t DEF InstallationTyped, DirectoryInv, SwapSeen, Starting, Runs, StartSteps
  <2>4. \A r \in Invocation : at'[r] \in InRepair \cup {"repairLock"} =>
          at[r] \in InRepair \cup {"repairLock"} \/ (r = c /\ at'[c] = "repairLock")
    BY <2>1, <1>1 DEF OnlyMoves, InRepair
  <2>5. crossing \subseteq crossing' OBVIOUS
  <2> QED BY <2>1, <2>2, <2>3, <2>4, <2>5 DEF DirectoryInv, SwapSeen
<1> QED BY <1>2, <1>3, <1>5, <1>6, <1>7 DEF DirectoryInv

(* The new store is prepared beside the root.                              *)
LEMMA StageStoreKeeps ==
  ASSUME DirectoryInv, NEW c \in Invocation, StageStore(c)
  PROVE  DirectoryInv'
<1> USE DEF StageStore, Proceed, files, locks, installationBounds, remembered
<1>t. InstallationTyped /\ Prepares(c) /\ (at[c] \in InSetup => setupLock = c)
  BY DEF DirectoryInv, SetupLocked
<1>1. OnlyMoves(c)
  BY <1>t DEF OnlyMoves, InstallationTyped, Adopting, InInit, InRepair, StartSteps, Settled,
     Steps
<1>s. /\ staged' \in [Invocation -> Tree \cup {NoDirectory}]
      /\ \A b \in Invocation \ {c} : staged'[b] = staged[b]
      /\ staged'[c] = EmptyTree /\ staged'[c] \in Tree /\ at'[c] = "pair"
  BY <1>t, EmptyIsTree DEF InstallationTyped
<1>2. InstallationTyped'
  BY <1>t, <1>1, <1>s, InstallationBounds DEF InstallationTyped, OnlyMoves
<1>3. SetupLocked'
  BY <1>t, <1>1, LockHolds DEF InSetup, Protected, InstallationTyped
<1>4. Prepares(c)'
  BY <1>s, <1>1, <1>t, InstallationMarks DEF Prepares, InstallationTyped, Agreed, Whole,
     Staging, Adopting, InInit, InRepair, StartSteps, Settled, Steps
<1>a. (Agreed => Agreed') /\ (root # NoDirectory => root' # NoDirectory)
  BY <1>t, InstallationMarks DEF Agreed, InstallationTyped, Tree, Prepares
<1>b. \A b \in Invocation \ {c} : Prepares(b)'
  BY <1>t, <1>1, <1>a, <1>s, OthersWait DEF InSetup, Protected
<1>c. LegacyKept' /\ NeverStranded'
  BY <1>t, InstallationMarks DEF DirectoryInv, LegacyKept, NeverStranded, Clash, Whole,
     Prepares, InstallationTyped, Tree, Agreed
<1>d. RootIsWhole'
  BY <1>t, <1>1, InstallationMarks DEF DirectoryInv, RootIsWhole, Prepares,
     InstallationTyped, OnlyMoves, Tree, Piece, LegacyKept, Whole
<1>5. (\A b \in Invocation : Prepares(b)') /\ LegacyKept' /\ RootIsWhole' /\ NeverStranded'
  BY <1>4, <1>b, <1>c, <1>d
<1>6. InstanceLocked'
  BY <1>t, <1>1, RuntimeQuiet DEF InstallationTyped, OnlyMoves
<1>7. SwapSeen'
  BY <1>t, <1>1, SwapQuiet DEF InstallationTyped, OnlyMoves, Adopting, InInit, InRepair,
     StartSteps, Settled, Steps
<1> QED BY <1>2, <1>3, <1>5, <1>6, <1>7 DEF DirectoryInv

(* The tree of a repair is its store alone.                                *)
LEMMA PairKeeps ==
  ASSUME DirectoryInv, NEW c \in Invocation, Pair(c)
  PROVE  DirectoryInv'
<1> USE DEF Pair, Proceed, files, locks, installationBounds, remembered
<1>t. InstallationTyped /\ Prepares(c) /\ (at[c] \in InSetup => setupLock = c)
  BY DEF DirectoryInv, SetupLocked
<1>1. OnlyMoves(c)
  BY <1>t DEF OnlyMoves, InstallationTyped, Adopting, InInit, InRepair, StartSteps, Settled,
     Steps
<1>s. /\ staged' \in [Invocation -> Tree \cup {NoDirectory}]
      /\ \A b \in Invocation \ {c} : staged'[b] = staged[b]
      /\ staged'[c] \in Tree /\ staged'[c].has = {"store"} /\ at'[c] = "remove"
  <2>1. staged[c] \in Tree BY <1>t DEF Prepares, InstallationTyped
  <2> DEFINE new == [staged[c] EXCEPT !.has = {"store"}, !.linked = TRUE]
  <2>2. new \in Tree /\ new.has = {"store"}
    <3>1. {"store"} \in SUBSET Piece BY DEF Piece
    <3> QED BY <2>1, <3>1, TreeLinked
  <2>3. staged' = [staged EXCEPT ![c] = new] /\ at' = [at EXCEPT ![c] = "remove"] OBVIOUS
  <2> HIDE DEF new, Pair
  <2>4. staged'[c] = new /\ at'[c] = "remove" BY <2>3, <1>t DEF InstallationTyped
  <2>5. \A b \in Invocation \ {c} : staged'[b] = staged[b] BY <2>3, <1>t DEF InstallationTyped
  <2>6. staged' \in [Invocation -> Tree \cup {NoDirectory}]
    BY <2>2, <2>3, <1>t DEF InstallationTyped
  <2> QED BY <2>2, <2>4, <2>5, <2>6
<1>2. InstallationTyped'
  BY <1>t, <1>1, <1>s, InstallationBounds DEF InstallationTyped, OnlyMoves
<1>3. SetupLocked'
  BY <1>t, <1>1, LockHolds DEF InSetup, Protected, InstallationTyped
<1>4. Prepares(c)'
  BY <1>s, <1>1, <1>t, InstallationMarks DEF Prepares, InstallationTyped, Agreed, Whole,
     Staging, Adopting, InInit, InRepair, StartSteps, Settled, Steps
<1>a. (Agreed => Agreed') /\ (root # NoDirectory => root' # NoDirectory)
  BY <1>t, InstallationMarks DEF Agreed, InstallationTyped, Tree, Prepares
<1>b. \A b \in Invocation \ {c} : Prepares(b)'
  BY <1>t, <1>1, <1>a, <1>s, OthersWait DEF InSetup, Protected
<1>c. LegacyKept' /\ NeverStranded'
  BY <1>t, InstallationMarks DEF DirectoryInv, LegacyKept, NeverStranded, Clash, Whole,
     Prepares, InstallationTyped, Tree, Agreed
<1>d. RootIsWhole'
  BY <1>t, <1>1, InstallationMarks DEF DirectoryInv, RootIsWhole, Prepares,
     InstallationTyped, OnlyMoves, Tree, Piece, LegacyKept, Whole
<1>5. (\A b \in Invocation : Prepares(b)') /\ LegacyKept' /\ RootIsWhole' /\ NeverStranded'
  BY <1>4, <1>b, <1>c, <1>d
<1>6. InstanceLocked'
  BY <1>t, <1>1, RuntimeQuiet DEF InstallationTyped, OnlyMoves
<1>7. SwapSeen'
  BY <1>t, <1>1, SwapQuiet DEF InstallationTyped, OnlyMoves, Adopting, InInit, InRepair,
     StartSteps, Settled, Steps
<1> QED BY <1>2, <1>3, <1>5, <1>6, <1>7 DEF DirectoryInv

(* Only the store leaves the root, and its repair stands at the putting of *)
(* the new one.                                                            *)
LEMMA RemoveStoreKeeps ==
  ASSUME DirectoryInv, NEW c \in Invocation, RemoveStore(c)
  PROVE  DirectoryInv'
<1> USE DEF RemoveStore, Proceed, files, locks, installationBounds, remembered
<1>t. InstallationTyped /\ Prepares(c) /\ (at[c] \in InSetup => setupLock = c)
  BY DEF DirectoryInv, SetupLocked
<1>1. OnlyMoves(c)
  BY <1>t DEF OnlyMoves, InstallationTyped, Adopting, InInit, InRepair, StartSteps, Settled,
     Steps
<1>s. /\ root \in Tree /\ root' \in Tree /\ root'.has = root.has \ {"store"}
      /\ root'.former = root.former /\ root'.recorded = root.recorded
  <2>1. root \in Tree BY <1>t DEF Prepares, InstallationTyped, InRepair
  <2>2. root.has \ {"store"} \in SUBSET Piece BY <2>1 DEF Tree
  <2>3. root' = [root EXCEPT !.has = root.has \ {"store"}] OBVIOUS
  <2> QED BY <2>1, <2>2, <2>3, TreeChanges
<1>2. InstallationTyped'
  BY <1>t, <1>1, <1>s DEF InstallationTyped, OnlyMoves
<1>3. SetupLocked'
  BY <1>t, <1>1, LockHolds DEF InSetup, Protected, InstallationTyped
<1>4. Prepares(c)'
  BY <1>s, <1>1, <1>t, InstallationMarks DEF Prepares, InstallationTyped, Agreed, Staging,
     Adopting, InInit, InRepair, StartSteps, Settled, Steps
<1>a. (Agreed => Agreed') /\ (root # NoDirectory => root' # NoDirectory)
  BY <1>s, <1>t, InstallationMarks DEF Agreed
<1>b. \A b \in Invocation \ {c} : Prepares(b)'
  BY <1>t, <1>1, <1>a, OthersWait DEF InSetup, Protected, InstallationTyped
<1>c. LegacyKept' /\ NeverStranded'
  BY <1>s, <1>t, InstallationMarks DEF DirectoryInv, LegacyKept, NeverStranded, Clash, Whole
<1>d. RootIsWhole'
  BY <1>s, <1>t, <1>1, InstallationMarks DEF DirectoryInv, RootIsWhole, InstallationTyped,
     OnlyMoves
<1>5. (\A b \in Invocation : Prepares(b)') /\ LegacyKept' /\ RootIsWhole' /\ NeverStranded'
  BY <1>4, <1>b, <1>c, <1>d
<1>6. InstanceLocked'
  BY <1>t, <1>1, RuntimeQuiet DEF InstallationTyped, OnlyMoves
<1>7. SwapSeen'
  BY <1>t, <1>1, SwapQuiet DEF InstallationTyped, OnlyMoves, Adopting, InInit, InRepair,
     StartSteps, Settled, Steps
<1> QED BY <1>2, <1>3, <1>5, <1>6, <1>7 DEF DirectoryInv

(* The root has its store again.                                           *)
LEMMA PutStoreKeeps ==
  ASSUME DirectoryInv, NEW c \in Invocation, PutStore(c)
  PROVE  DirectoryInv'
<1> USE DEF PutStore, Proceed, files, locks, installationBounds, remembered
<1>t. InstallationTyped /\ Prepares(c) /\ (at[c] \in InSetup => setupLock = c)
  BY DEF DirectoryInv, SetupLocked
<1>1. OnlyMoves(c)
  BY <1>t DEF OnlyMoves, InstallationTyped, Adopting, InInit, InRepair, StartSteps, Settled,
     Steps
<1>s. /\ root \in Tree /\ root' \in Tree /\ root'.has = root.has \cup {"store"}
      /\ root'.former = root.former /\ root'.recorded = root.recorded
  <2>1. root \in Tree /\ staged[c] \in Tree /\ staged[c].has = {"store"}
    BY <1>t DEF Prepares, InstallationTyped, InRepair
  <2>2. root.has \cup staged[c].has \in SUBSET Piece /\ staged[c].linked \in BOOLEAN
    BY <2>1 DEF Tree
  <2>3. CASE "store" \in root.has
    BY <2>1, <2>3
  <2>4. CASE "store" \notin root.has
    <3> DEFINE parts == root.has \cup staged[c].has
    <3> DEFINE l == staged[c].linked
    <3>1. root' = [root EXCEPT !.has = parts, !.linked = l]
      BY <2>4
    <3>2. parts = root.has \cup {"store"} BY <2>1
    <3>3. parts \in SUBSET Piece /\ l \in BOOLEAN BY <2>2
    <3> HIDE DEF parts, l, PutStore
    <3>4. /\ root' \in Tree /\ root'.has = parts
          /\ root'.former = root.former /\ root'.recorded = root.recorded
      <4> DEFINE new == [root EXCEPT !.has = parts, !.linked = l]
      <4>0. root \in Tree BY <2>1
      <4>1. new \in Tree BY <4>0, <3>3, TreeLinked
      <4>2. new.has = parts BY <4>0, <3>3, TreeLinked
      <4>3. new.former = root.former BY <4>0, <3>3, TreeLinked
      <4>4. new.recorded = root.recorded BY <4>0, <3>3, TreeLinked
      <4>5. root' = new BY <3>1
      <4> HIDE DEF new
      <4> QED BY <4>1, <4>2, <4>3, <4>4, <4>5
    <3> QED BY <2>1, <3>2, <3>4
  <2> QED BY <2>3, <2>4
<1>2. InstallationTyped'
  BY <1>t, <1>1, <1>s DEF InstallationTyped, OnlyMoves
<1>3. SetupLocked'
  BY <1>t, <1>1, LockHolds DEF InSetup, Protected, InstallationTyped
<1>4. Prepares(c)'
  BY <1>s, <1>1, <1>t, InstallationMarks DEF Prepares, InstallationTyped, Agreed, Staging,
     Adopting, InInit, InRepair, StartSteps, Settled, Steps
<1>a. (Agreed => Agreed') /\ (root # NoDirectory => root' # NoDirectory)
  BY <1>s, <1>t, InstallationMarks DEF Agreed
<1>b. \A b \in Invocation \ {c} : Prepares(b)'
  BY <1>t, <1>1, <1>a, OthersWait DEF InSetup, Protected, InstallationTyped
<1>c. LegacyKept' /\ NeverStranded'
  BY <1>s, <1>t, InstallationMarks DEF DirectoryInv, LegacyKept, NeverStranded, Clash, Whole
<1>d. RootIsWhole'
  BY <1>s, <1>t, <1>1, InstallationMarks DEF DirectoryInv, RootIsWhole, InstallationTyped,
     OnlyMoves
<1>5. (\A b \in Invocation : Prepares(b)') /\ LegacyKept' /\ RootIsWhole' /\ NeverStranded'
  BY <1>4, <1>b, <1>c, <1>d
<1>6. InstanceLocked'
  BY <1>t, <1>1, RuntimeQuiet DEF InstallationTyped, OnlyMoves
<1>7. SwapSeen'
  BY <1>t, <1>1, SwapQuiet DEF InstallationTyped, OnlyMoves, Adopting, InInit, InRepair,
     StartSteps, Settled, Steps
<1> QED BY <1>2, <1>3, <1>5, <1>6, <1>7 DEF DirectoryInv

(* A command begins with its task.                                         *)
LEMMA InvokeKeeps ==
  ASSUME DirectoryInv, NEW c \in Invocation, NEW t \in {"init", "repair", "start"}, Invoke(c, t)
  PROVE  DirectoryInv'
<1> USE DEF Invoke, Proceed, files, locks, installationBounds, remembered
<1>t. InstallationTyped /\ Prepares(c) /\ (at[c] \in InSetup => setupLock = c)
  BY DEF DirectoryInv, SetupLocked
<1>1. OnlyMoves(c)
  BY <1>t DEF OnlyMoves, InstallationTyped, Adopting, InInit, InRepair, StartSteps, Settled,
     Steps
<1>2. InstallationTyped'
  BY <1>t, <1>1, InstallationBounds DEF InstallationTyped, OnlyMoves, Prepares
<1>3. SetupLocked'
  BY <1>t, <1>1, LockHolds DEF InSetup, Protected, InstallationTyped
<1>4. Prepares(c)'
  BY <1>t DEF Prepares, InstallationTyped, Agreed, Staging, Adopting, InInit, InRepair,
     StartSteps, Settled, Steps
<1>5. (\A b \in Invocation : Prepares(b)') /\ LegacyKept' /\ RootIsWhole' /\ NeverStranded'
  BY <1>1, <1>4, TreesStay
<1>6. InstanceLocked'
  BY <1>t, <1>1, RuntimeQuiet DEF InstallationTyped, OnlyMoves
<1>7. SwapSeen'
  <2>1. \A b \in Invocation : at'[b] \in StartSteps => at[b] \in StartSteps /\ task'[b] = task[b]
    BY <1>t, <1>1 DEF InstallationTyped, OnlyMoves, StartSteps
  <2>2. \A b \in Invocation : at'[b] \in InRepair \cup {"repairLock"} => at[b] \in InRepair \cup {"repairLock"}
    BY <1>t, <1>1 DEF InstallationTyped, OnlyMoves, InRepair
  <2> QED BY <2>1, <2>2 DEF DirectoryInv, SwapSeen
<1> QED BY <1>2, <1>3, <1>5, <1>6, <1>7 DEF DirectoryInv

(* The lock is made for the adoption, or the command ends.                 *)
LEMMA AdoptLockKeeps ==
  ASSUME DirectoryInv, NEW c \in Invocation, AcquireSetupLock(c, "adoptLock", "adoptCheck"), UNCHANGED remembered
  PROVE  DirectoryInv'
<1> USE DEF AcquireSetupLock, Proceed, files, locks, installationBounds, remembered
<1>t. InstallationTyped /\ Prepares(c) /\ (at[c] \in InSetup => setupLock = c)
  BY DEF DirectoryInv, SetupLocked
<1>1. OnlyMoves(c)
  BY <1>t DEF OnlyMoves, InstallationTyped, Adopting, InInit, InRepair, StartSteps, Settled,
     Steps
<1>2. InstallationTyped'
  BY <1>t, <1>1, InstallationBounds DEF InstallationTyped, OnlyMoves, Prepares
<1>3. SetupLocked'
  BY <1>t, <1>1, LockHolds DEF InSetup, Protected, InstallationTyped
<1>4. Prepares(c)'
  BY <1>t DEF Prepares, InstallationTyped, Agreed, Staging, Adopting, InInit, InRepair,
     StartSteps, Settled, Steps
<1>5. (\A b \in Invocation : Prepares(b)') /\ LegacyKept' /\ RootIsWhole' /\ NeverStranded'
  BY <1>1, <1>4, TreesStay
<1>6. InstanceLocked'
  BY <1>t, <1>1, RuntimeQuiet DEF InstallationTyped, OnlyMoves
<1>7. SwapSeen'
  BY <1>t, <1>1, SwapQuiet DEF InstallationTyped, OnlyMoves, Adopting, InInit, InRepair,
     StartSteps, Settled, Steps
<1> QED BY <1>2, <1>3, <1>5, <1>6, <1>7 DEF DirectoryInv

(* The lock is made for init.                                              *)
LEMMA InitLockKeeps ==
  ASSUME DirectoryInv, NEW c \in Invocation, AcquireSetupLock(c, "initLock", "stage"), UNCHANGED remembered
  PROVE  DirectoryInv'
<1> USE DEF AcquireSetupLock, Proceed, files, locks, installationBounds, remembered
<1>t. InstallationTyped /\ Prepares(c) /\ (at[c] \in InSetup => setupLock = c)
  BY DEF DirectoryInv, SetupLocked
<1>1. OnlyMoves(c)
  BY <1>t DEF OnlyMoves, InstallationTyped, Adopting, InInit, InRepair, StartSteps, Settled,
     Steps
<1>2. InstallationTyped'
  BY <1>t, <1>1, InstallationBounds DEF InstallationTyped, OnlyMoves, Prepares
<1>3. SetupLocked'
  BY <1>t, <1>1, LockHolds DEF InSetup, Protected, InstallationTyped
<1>4. Prepares(c)'
  BY <1>t DEF Prepares, InstallationTyped, Agreed, Staging, Adopting, InInit, InRepair,
     StartSteps, Settled, Steps
<1>5. (\A b \in Invocation : Prepares(b)') /\ LegacyKept' /\ RootIsWhole' /\ NeverStranded'
  BY <1>1, <1>4, TreesStay
<1>6. InstanceLocked'
  BY <1>t, <1>1, RuntimeQuiet DEF InstallationTyped, OnlyMoves
<1>7. SwapSeen'
  BY <1>t, <1>1, SwapQuiet DEF InstallationTyped, OnlyMoves, Adopting, InInit, InRepair,
     StartSteps, Settled, Steps
<1> QED BY <1>2, <1>3, <1>5, <1>6, <1>7 DEF DirectoryInv

(* The lock is made for repair, whose root is still there.                 *)
LEMMA RepairLockKeeps ==
  ASSUME DirectoryInv, NEW c \in Invocation, AcquireSetupLock(c, "repairLock", "stageStore"), UNCHANGED remembered
  PROVE  DirectoryInv'
<1> USE DEF AcquireSetupLock, Proceed, files, locks, installationBounds, remembered
<1>t. InstallationTyped /\ Prepares(c) /\ (at[c] \in InSetup => setupLock = c)
  BY DEF DirectoryInv, SetupLocked
<1>1. OnlyMoves(c)
  BY <1>t DEF OnlyMoves, InstallationTyped, Adopting, InInit, InRepair, StartSteps, Settled,
     Steps
<1>2. InstallationTyped'
  BY <1>t, <1>1, InstallationBounds DEF InstallationTyped, OnlyMoves, Prepares
<1>3. SetupLocked'
  BY <1>t, <1>1, LockHolds DEF InSetup, Protected, InstallationTyped
<1>4. Prepares(c)'
  BY <1>t DEF Prepares, InstallationTyped, Agreed, Staging, Adopting, InInit, InRepair,
     StartSteps, Settled, Steps
<1>5. (\A b \in Invocation : Prepares(b)') /\ LegacyKept' /\ RootIsWhole' /\ NeverStranded'
  BY <1>1, <1>4, TreesStay
<1>6. InstanceLocked'
  BY <1>t, <1>1, RuntimeQuiet DEF InstallationTyped, OnlyMoves
<1>7. SwapSeen'
  BY <1>t, <1>1, SwapQuiet DEF InstallationTyped, OnlyMoves, Adopting, InInit, InRepair,
     StartSteps, Settled, Steps
<1> QED BY <1>2, <1>3, <1>5, <1>6, <1>7 DEF DirectoryInv

(* A start that finds no setup lock finds no swap under way: a repair can  *)
(* only be about to take the lock, and then it is remembered.              *)
LEMMA StartLooksKeeps ==
  ASSUME DirectoryInv, NEW c \in Invocation, StartLooks(c)
  PROVE  DirectoryInv'
<1> USE DEF StartLooks, Proceed, files, locks, installationBounds, remembered
<1>t. InstallationTyped /\ Prepares(c) /\ (at[c] \in InSetup => setupLock = c)
  BY DEF DirectoryInv, SetupLocked
<1>1. OnlyMoves(c)
  BY <1>t DEF OnlyMoves, InstallationTyped, Adopting, InInit, InRepair, StartSteps, Settled,
     Steps
<1>2. InstallationTyped'
  BY <1>t, <1>1, InstallationBounds DEF InstallationTyped, OnlyMoves, Prepares
<1>3. SetupLocked'
  BY <1>t, <1>1, LockHolds DEF InSetup, Protected, InstallationTyped
<1>4. Prepares(c)'
  BY <1>t DEF Prepares, InstallationTyped, Agreed, Staging, Adopting, InInit, InRepair,
     StartSteps, Settled, Steps
<1>5. (\A b \in Invocation : Prepares(b)') /\ LegacyKept' /\ RootIsWhole' /\ NeverStranded'
  BY <1>1, <1>4, TreesStay
<1>6. InstanceLocked'
  BY <1>t, <1>1, RuntimeQuiet DEF InstallationTyped, OnlyMoves
<1>7. SwapSeen'
  <2>1. CASE LooksFree
    <3>1. \A r \in Invocation : at[r] \notin InRepair
      BY <2>1, InstallationMarks DEF LooksFree, DirectoryInv, SetupLocked, InRepair,
         InSetup, Protected
    <3>2. at'[c] = "inspect" /\ task[c] = "start" BY <2>1, <1>t DEF InstallationTyped
    <3>3. \A r \in Invocation : at'[r] \in InRepair \cup {"repairLock"} => at[r] = "repairLock"
      BY <1>1, <3>1, <3>2 DEF OnlyMoves, InRepair
    <3>4. (\E r \in Invocation : at[r] = "repairLock") => crossing' = crossing \cup {c} OBVIOUS
    <3>5. crossing \subseteq crossing' OBVIOUS
    <3> QED BY <1>1, <3>2, <3>3, <3>4, <3>5 DEF DirectoryInv, SwapSeen, OnlyMoves
  <2>2. CASE ~LooksFree
    BY <2>2, <1>t, <1>1, SwapQuiet DEF InstallationTyped, OnlyMoves, Adopting, InInit,
       InRepair, StartSteps, Settled, Steps
  <2> QED BY <2>1, <2>2
<1> QED BY <1>2, <1>3, <1>5, <1>6, <1>7 DEF DirectoryInv

(* The tree is looked at.                                                  *)
LEMMA StartInspectKeeps ==
  ASSUME DirectoryInv, NEW c \in Invocation, StartInspect(c)
  PROVE  DirectoryInv'
<1> USE DEF StartInspect, Proceed, files, locks, installationBounds, remembered
<1>t. InstallationTyped /\ Prepares(c) /\ (at[c] \in InSetup => setupLock = c)
  BY DEF DirectoryInv, SetupLocked
<1>1. OnlyMoves(c)
  BY <1>t DEF OnlyMoves, InstallationTyped, Adopting, InInit, InRepair, StartSteps, Settled,
     Steps
<1>2. InstallationTyped'
  BY <1>t, <1>1, InstallationBounds DEF InstallationTyped, OnlyMoves, Prepares
<1>3. SetupLocked'
  BY <1>t, <1>1, LockHolds DEF InSetup, Protected, InstallationTyped
<1>4. Prepares(c)'
  BY <1>t DEF Prepares, InstallationTyped, Agreed, Staging, Adopting, InInit, InRepair,
     StartSteps, Settled, Steps
<1>5. (\A b \in Invocation : Prepares(b)') /\ LegacyKept' /\ RootIsWhole' /\ NeverStranded'
  BY <1>1, <1>4, TreesStay
<1>6. InstanceLocked'
  BY <1>t, <1>1, RuntimeQuiet DEF InstallationTyped, OnlyMoves
<1>7. SwapSeen'
  BY <1>t, <1>1, SwapQuiet DEF InstallationTyped, OnlyMoves, Adopting, InInit, InRepair,
     StartSteps, Settled, Steps
<1> QED BY <1>2, <1>3, <1>5, <1>6, <1>7 DEF DirectoryInv

(* The session is looked at.                                               *)
LEMMA CheckServicesKeeps ==
  ASSUME DirectoryInv, NEW c \in Invocation, CheckServices(c)
  PROVE  DirectoryInv'
<1> USE DEF CheckServices, Proceed, files, locks, installationBounds, remembered
<1>t. InstallationTyped /\ Prepares(c) /\ (at[c] \in InSetup => setupLock = c)
  BY DEF DirectoryInv, SetupLocked
<1>1. OnlyMoves(c)
  BY <1>t DEF OnlyMoves, InstallationTyped, Adopting, InInit, InRepair, StartSteps, Settled,
     Steps
<1>2. InstallationTyped'
  BY <1>t, <1>1, InstallationBounds DEF InstallationTyped, OnlyMoves, Prepares
<1>3. SetupLocked'
  BY <1>t, <1>1, LockHolds DEF InSetup, Protected, InstallationTyped
<1>4. Prepares(c)'
  BY <1>t DEF Prepares, InstallationTyped, Agreed, Staging, Adopting, InInit, InRepair,
     StartSteps, Settled, Steps
<1>5. (\A b \in Invocation : Prepares(b)') /\ LegacyKept' /\ RootIsWhole' /\ NeverStranded'
  BY <1>1, <1>4, TreesStay
<1>6. InstanceLocked'
  BY <1>t, <1>1, RuntimeQuiet DEF InstallationTyped, OnlyMoves
<1>7. SwapSeen'
  BY <1>t, <1>1, SwapQuiet DEF InstallationTyped, OnlyMoves, Adopting, InInit, InRepair,
     StartSteps, Settled, Steps
<1> QED BY <1>2, <1>3, <1>5, <1>6, <1>7 DEF DirectoryInv

(* Who finds no file finds nobody in the section; else the file has an     *)
(* owner, or will.                                                         *)
LEMMA CreateLockKeeps ==
  ASSUME DirectoryInv, NEW c \in Invocation, CreateLock(c)
  PROVE  DirectoryInv'
<1> USE DEF CreateLock, Proceed, files, locks, installationBounds, remembered
<1>t. InstallationTyped /\ Prepares(c) /\ (at[c] \in InSetup => setupLock = c)
  BY DEF DirectoryInv, SetupLocked
<1>1. OnlyMoves(c)
  BY <1>t DEF OnlyMoves, InstallationTyped, Adopting, InInit, InRepair, StartSteps, Settled,
     Steps
<1>2. InstallationTyped'
  BY <1>t, <1>1, InstallationBounds DEF InstallationTyped, OnlyMoves, Prepares
<1>3. SetupLocked'
  BY <1>t, <1>1, LockHolds DEF InSetup, Protected, InstallationTyped
<1>4. Prepares(c)'
  BY <1>t DEF Prepares, InstallationTyped, Agreed, Staging, Adopting, InInit, InRepair,
     StartSteps, Settled, Steps
<1>5. (\A b \in Invocation : Prepares(b)') /\ LegacyKept' /\ RootIsWhole' /\ NeverStranded'
  BY <1>1, <1>4, TreesStay
<1>6. InstanceLocked'
  <2>1. CASE runtimeLock = Nobody
    <3>1. \A b \in Invocation : at[b] \notin {"readOwner", "writePid", "boot", "running"}
      BY <2>1 DEF DirectoryInv, InstanceLocked
    <3>2. at'[c] = "writePid" /\ runtimeLock' = Unwritten BY <2>1, <1>t DEF InstallationTyped
    <3> QED BY <1>1, <3>1, <3>2, InstallationMarks DEF InstanceLocked, OnlyMoves, Runs
  <2>2. CASE runtimeLock # Nobody
    <3>1. at'[c] = "readOwner" /\ runtimeLock' = runtimeLock BY <2>2, <1>t DEF InstallationTyped
    <3> QED BY <2>2, <1>1, <3>1 DEF DirectoryInv, InstanceLocked, OnlyMoves, Runs
  <2> QED BY <2>1, <2>2
<1>7. SwapSeen'
  BY <1>t, <1>1, SwapQuiet DEF InstallationTyped, OnlyMoves, Adopting, InInit, InRepair,
     StartSteps, Settled, Steps
<1> QED BY <1>2, <1>3, <1>5, <1>6, <1>7 DEF DirectoryInv

(* Who goes on to write has seen no living owner: whoever is past the      *)
(* lock, or about to write, is his rival.                                  *)
LEMMA ReadOwnerKeeps ==
  ASSUME DirectoryInv, NEW c \in Invocation, ReadOwner(c)
  PROVE  DirectoryInv'
<1> USE DEF ReadOwner, Proceed, files, locks, installationBounds, remembered
<1>t. InstallationTyped /\ Prepares(c) /\ (at[c] \in InSetup => setupLock = c)
  BY DEF DirectoryInv, SetupLocked
<1>1. OnlyMoves(c)
  BY <1>t DEF OnlyMoves, InstallationTyped, Adopting, InInit, InRepair, StartSteps, Settled,
     Steps
<1>2. InstallationTyped'
  <2>1. rivals' \subseteq Invocation BY <1>t DEF InstallationTyped, Writing
  <2> QED BY <1>t, <1>1, <2>1 DEF InstallationTyped, OnlyMoves
<1>3. SetupLocked'
  BY <1>t, <1>1, LockHolds DEF InSetup, Protected, InstallationTyped
<1>4. Prepares(c)'
  BY <1>t DEF Prepares, InstallationTyped, Agreed, Staging, Adopting, InInit, InRepair,
     StartSteps, Settled, Steps
<1>5. (\A b \in Invocation : Prepares(b)') /\ LegacyKept' /\ RootIsWhole' /\ NeverStranded'
  BY <1>1, <1>4, TreesStay
<1>6. InstanceLocked'
  <2>1. runtimeLock # Nobody BY DEF DirectoryInv, InstanceLocked
  <2>2. rivals \subseteq rivals' OBVIOUS
  <2>3. CASE at'[c] = "writePid"
    <3>1. ~(runtimeLock \in Invocation /\ Alive(runtimeLock))
      BY <2>3, <1>t DEF InstallationTyped
    <3>2. \A b \in Invocation : at[b] \in {"boot", "running"} => b \in rivals
      BY <3>1 DEF DirectoryInv, InstanceLocked, Alive
    <3>3. \A b \in Invocation : b # c /\ at[b] = "writePid" => {b, c} \subseteq rivals'
      BY DEF Writing
    <3> QED
      BY <1>1, <2>1, <2>2, <2>3, <3>2, <3>3 DEF DirectoryInv, InstanceLocked, OnlyMoves,
         Runs
  <2>4. CASE at'[c] = "ended"
    BY <1>1, <2>1, <2>2, <2>4 DEF DirectoryInv, InstanceLocked, OnlyMoves, Runs
  <2> QED BY <2>3, <2>4, <1>t DEF InstallationTyped
<1>7. SwapSeen'
  BY <1>t, <1>1, SwapQuiet DEF InstallationTyped, OnlyMoves, Adopting, InInit, InRepair,
     StartSteps, Settled, Steps
<1> QED BY <1>2, <1>3, <1>5, <1>6, <1>7 DEF DirectoryInv

(* Who overwrites the pid of another has him among the rivals.             *)
LEMMA WritePidKeeps ==
  ASSUME DirectoryInv, NEW c \in Invocation, WritePid(c)
  PROVE  DirectoryInv'
<1> USE DEF WritePid, Proceed, files, locks, installationBounds, remembered
<1>t. InstallationTyped /\ Prepares(c) /\ (at[c] \in InSetup => setupLock = c)
  BY DEF DirectoryInv, SetupLocked
<1>1. OnlyMoves(c)
  BY <1>t DEF OnlyMoves, InstallationTyped, Adopting, InInit, InRepair, StartSteps, Settled,
     Steps
<1>2. InstallationTyped'
  BY <1>t, <1>1, InstallationBounds DEF InstallationTyped, OnlyMoves, Prepares
<1>3. SetupLocked'
  BY <1>t, <1>1, LockHolds DEF InSetup, Protected, InstallationTyped
<1>4. Prepares(c)'
  BY <1>t DEF Prepares, InstallationTyped, Agreed, Staging, Adopting, InInit, InRepair,
     StartSteps, Settled, Steps
<1>5. (\A b \in Invocation : Prepares(b)') /\ LegacyKept' /\ RootIsWhole' /\ NeverStranded'
  BY <1>1, <1>4, TreesStay
<1>6. InstanceLocked'
  <2>1. at'[c] = "boot" /\ runtimeLock' = c BY <1>t DEF InstallationTyped
  <2>2. \A b \in Invocation : at[b] \in {"boot", "running"} => b \in rivals
    BY DEF DirectoryInv, InstanceLocked
  <2> QED
    BY <1>1, <2>1, <2>2, InstallationMarks DEF DirectoryInv, InstanceLocked, OnlyMoves, Runs
<1>7. SwapSeen'
  BY <1>t, <1>1, SwapQuiet DEF InstallationTyped, OnlyMoves, Adopting, InInit, InRepair,
     StartSteps, Settled, Steps
<1> QED BY <1>2, <1>3, <1>5, <1>6, <1>7 DEF DirectoryInv

(* A second runtime serves only when the port of the first has changed.    *)
LEMMA BootKeeps ==
  ASSUME DirectoryInv, NEW c \in Invocation, Boot(c)
  PROVE  DirectoryInv'
<1> USE DEF Boot, Proceed, files, locks, installationBounds, remembered
<1>t. InstallationTyped /\ Prepares(c) /\ (at[c] \in InSetup => setupLock = c)
  BY DEF DirectoryInv, SetupLocked
<1>1. OnlyMoves(c)
  BY <1>t DEF OnlyMoves, InstallationTyped, Adopting, InInit, InRepair, StartSteps, Settled,
     Steps
<1>2. InstallationTyped'
  BY <1>t, <1>1, InstallationBounds DEF InstallationTyped, OnlyMoves, Prepares
<1>3. SetupLocked'
  BY <1>t, <1>1, LockHolds DEF InSetup, Protected, InstallationTyped
<1>4. Prepares(c)'
  BY <1>t DEF Prepares, InstallationTyped, Agreed, Staging, Adopting, InInit, InRepair,
     StartSteps, Settled, Steps
<1>5. (\A b \in Invocation : Prepares(b)') /\ LegacyKept' /\ RootIsWhole' /\ NeverStranded'
  BY <1>1, <1>4, TreesStay
<1>6. InstanceLocked'
  <2>1. CASE at'[c] = "running"
    <3>1. \A b \in Invocation : Runs(b) => b \in moved
      BY <2>1, <1>t DEF InstallationTyped, Serves
    <3> QED BY <1>1, <2>1, <3>1 DEF DirectoryInv, InstanceLocked, OnlyMoves, Runs
  <2>2. CASE at'[c] = "ended"
    BY <1>1, <2>2, RuntimeQuiet DEF OnlyMoves
  <2> QED BY <2>1, <2>2, <1>t DEF InstallationTyped
<1>7. SwapSeen'
  BY <1>t, <1>1, SwapQuiet DEF InstallationTyped, OnlyMoves, Adopting, InInit, InRepair,
     StartSteps, Settled, Steps
<1> QED BY <1>2, <1>3, <1>5, <1>6, <1>7 DEF DirectoryInv

(* A runtime that stops leaves the file, and its pid in it.                *)
LEMMA StopKeeps ==
  ASSUME DirectoryInv, NEW c \in Invocation, Stop(c)
  PROVE  DirectoryInv'
<1> USE DEF Stop, Proceed, files, locks, installationBounds, remembered
<1>t. InstallationTyped /\ Prepares(c) /\ (at[c] \in InSetup => setupLock = c)
  BY DEF DirectoryInv, SetupLocked
<1>1. OnlyMoves(c)
  BY <1>t DEF OnlyMoves, InstallationTyped, Adopting, InInit, InRepair, StartSteps, Settled,
     Steps
<1>2. InstallationTyped'
  BY <1>t, <1>1, InstallationBounds DEF InstallationTyped, OnlyMoves, Prepares
<1>3. SetupLocked'
  BY <1>t, <1>1, LockHolds DEF InSetup, Protected, InstallationTyped
<1>4. Prepares(c)'
  BY <1>t DEF Prepares, InstallationTyped, Agreed, Staging, Adopting, InInit, InRepair,
     StartSteps, Settled, Steps
<1>5. (\A b \in Invocation : Prepares(b)') /\ LegacyKept' /\ RootIsWhole' /\ NeverStranded'
  BY <1>1, <1>4, TreesStay
<1>6. InstanceLocked'
  BY <1>t, <1>1, RuntimeQuiet DEF InstallationTyped, OnlyMoves
<1>7. SwapSeen'
  BY <1>t, <1>1, SwapQuiet DEF InstallationTyped, OnlyMoves, Adopting, InInit, InRepair,
     StartSteps, Settled, Steps
<1> QED BY <1>2, <1>3, <1>5, <1>6, <1>7 DEF DirectoryInv

(* Who dies keeps what it had: the locks, and the trees beside the root.   *)
LEMMA DieKeeps ==
  ASSUME DirectoryInv, NEW c \in Invocation, Die(c)
  PROVE  DirectoryInv'
<1> USE DEF Die, Tears, Alive, Proceed, files, locks, installationBounds, remembered
<1>t. InstallationTyped /\ Prepares(c) /\ (at[c] \in InSetup => setupLock = c)
  BY DEF DirectoryInv, SetupLocked
<1>1. OnlyMoves(c)
  BY <1>t DEF OnlyMoves, InstallationTyped, Adopting, InInit, InRepair, StartSteps, Settled,
     Steps
<1>2. InstallationTyped'
  BY <1>t, <1>1, InstallationBounds DEF InstallationTyped, OnlyMoves, Prepares
<1>3. SetupLocked'
  BY <1>t, <1>1, LockHolds DEF InSetup, Protected, InstallationTyped
<1>4. Prepares(c)'
  BY <1>t DEF Prepares, InstallationTyped, Agreed, Staging, Adopting, InInit, InRepair,
     StartSteps, Settled, Steps
<1>5. (\A b \in Invocation : Prepares(b)') /\ LegacyKept' /\ RootIsWhole' /\ NeverStranded'
  BY <1>1, <1>4, TreesStay
<1>6. InstanceLocked'
  BY <1>t, <1>1, RuntimeQuiet DEF InstallationTyped, OnlyMoves
<1>7. SwapSeen'
  BY <1>t, <1>1, SwapQuiet DEF InstallationTyped, OnlyMoves, Adopting, InInit, InRepair,
     StartSteps, Settled, Steps
<1> QED BY <1>2, <1>3, <1>5, <1>6, <1>7 DEF DirectoryInv

-----------------------------------------------------------------------------
(* The operator removes the lock of a process that is gone: nobody is in   *)
(* the section.                                                            *)
LEMMA ClearLockKeeps ==
  ASSUME DirectoryInv, ClearLock
  PROVE  DirectoryInv'
<1> USE DEF ClearLock, files, installationBounds, remembered
<1>1. InstallationTyped' BY DEF DirectoryInv, InstallationTyped
<1>2. \A c \in Invocation : at[c] \notin InSetup
  BY DEF DirectoryInv, SetupLocked, Alive, InSetup, Protected
<1>3. SetupLocked' BY <1>2 DEF SetupLocked
<1>4. (\A c \in Invocation : Prepares(c)') /\ LegacyKept' /\ NeverStranded'
  BY DEF DirectoryInv, Prepares, Agreed, Whole, LegacyKept, NeverStranded, Clash
<1>5. RootIsWhole' /\ InstanceLocked' /\ SwapSeen'
  BY DEF DirectoryInv, RootIsWhole, InstanceLocked, SwapSeen, Runs
<1> QED BY <1>1, <1>3, <1>4, <1>5 DEF DirectoryInv

(* More runtimes are not where the configuration says.                     *)
LEMMA ChangePortKeeps ==
  ASSUME DirectoryInv, ChangePort
  PROVE  DirectoryInv'
<1> USE DEF ChangePort, files, installationBounds, remembered
<1>1. InstallationTyped' /\ SetupLocked' BY DEF DirectoryInv, InstallationTyped, SetupLocked
<1>2. (\A c \in Invocation : Prepares(c)') /\ LegacyKept' /\ NeverStranded'
  BY DEF DirectoryInv, Prepares, Agreed, Whole, LegacyKept, NeverStranded, Clash
<1>3. moved \subseteq moved' OBVIOUS
<1>4. RootIsWhole' /\ InstanceLocked' /\ SwapSeen'
  BY <1>3 DEF DirectoryInv, RootIsWhole, InstanceLocked, SwapSeen, Runs
<1> QED BY <1>1, <1>2, <1>4 DEF DirectoryInv

(* The phone takes away the session, no part of the tree.                  *)
LEMMA UnlinkKeeps ==
  ASSUME DirectoryInv, Unlink
  PROVE  DirectoryInv'
<1> USE DEF Unlink, locks, remembered
<1>1. /\ root \in Tree /\ root' \in Tree /\ root'.has = root.has
      /\ root'.former = root.former /\ root'.recorded = root.recorded
  BY DEF DirectoryInv, InstallationTyped, Tree
<1>2. InstallationTyped' /\ SetupLocked'
  BY <1>1, InstallationBounds DEF DirectoryInv, InstallationTyped, SetupLocked
<1>3. root' # NoDirectory BY <1>1, InstallationMarks
<1>4. Agreed' = Agreed BY <1>1, <1>3 DEF Agreed
<1>5. \A c \in Invocation : Prepares(c)'
  BY <1>1, <1>3, <1>4 DEF DirectoryInv, Prepares, Whole
<1>6. LegacyKept' /\ NeverStranded' /\ RootIsWhole'
  BY <1>1, <1>3 DEF DirectoryInv, LegacyKept, NeverStranded, Clash, Whole, RootIsWhole
<1>7. InstanceLocked' /\ SwapSeen'
  BY DEF DirectoryInv, InstanceLocked, SwapSeen, Runs
<1> QED BY <1>2, <1>5, <1>6, <1>7 DEF DirectoryInv

(* A step that changes nothing.                                            *)
LEMMA DirectoryStands ==
  ASSUME DirectoryInv, UNCHANGED installationVars
  PROVE  DirectoryInv'
<1> USE DEF installationVars
<1>1. InstallationTyped' /\ SetupLocked' BY DEF DirectoryInv, InstallationTyped, SetupLocked
<1>2. (\A c \in Invocation : Prepares(c)') /\ LegacyKept' /\ NeverStranded'
  BY DEF DirectoryInv, Prepares, Agreed, Whole, LegacyKept, NeverStranded, Clash
<1>3. RootIsWhole' /\ InstanceLocked' /\ SwapSeen'
  BY DEF DirectoryInv, RootIsWhole, InstanceLocked, SwapSeen, Runs
<1> QED BY <1>1, <1>2, <1>3 DEF DirectoryInv

(* A machine without an installation, or with a former one.                *)
LEMMA DirectoryBegins == InstallationInit => DirectoryInv
<1> SUFFICES ASSUME InstallationInit PROVE DirectoryInv
  OBVIOUS
<1> USE DEF InstallationInit
<1>1. IF home = "none" THEN legacy = NoDirectory
      ELSE legacy \in Tree /\ Whole(legacy) /\ legacy.former
  BY DEF Tree, Whole
<1>2. InstallationTyped
  BY <1>1, InstallationBounds DEF InstallationTyped, Steps
<1>3. SetupLocked /\ \A c \in Invocation : Prepares(c)
  BY DEF SetupLocked, Prepares, InSetup, Protected, Staging, Settled, InInit, InRepair,
     StartSteps
<1>4. LegacyKept /\ RootIsWhole /\ NeverStranded
  BY <1>1, InstallationMarks DEF LegacyKept, RootIsWhole, NeverStranded, Clash, Tree
<1>5. InstanceLocked /\ SwapSeen
  BY DEF InstanceLocked, SwapSeen, Runs, InRepair, StartSteps
<1> QED BY <1>2, <1>3, <1>4, <1>5 DEF DirectoryInv

(* The steps of one command.                                               *)
LEMMA DirectoryStepKeeps ==
  ASSUME DirectoryInv, NEW c \in Invocation, InstallationStep(c)
  PROVE  DirectoryInv'
<1>1. CASE \E t \in {"init", "repair", "start"} : Invoke(c, t)
  BY <1>1, InvokeKeeps
<1>2. CASE AcquireSetupLock(c, "adoptLock", "adoptCheck") /\ UNCHANGED remembered
  BY <1>2, AdoptLockKeeps
<1>3. CASE AcquireSetupLock(c, "initLock", "stage") /\ UNCHANGED remembered
  BY <1>3, InitLockKeeps
<1>4. CASE AcquireSetupLock(c, "repairLock", "stageStore") /\ UNCHANGED remembered
  BY <1>4, RepairLockKeeps
<1>5. CASE \/ Settle(c) \/ AdoptCheck(c) \/ MoveLegacy(c) \/ Record(c) \/ CopyTree(c)
           \/ RecordCopy(c) \/ PromoteCopy(c) \/ Adopted(c)
  BY <1>5, SettleKeeps, AdoptCheckKeeps, MoveLegacyKeeps, RecordKeeps, CopyTreeKeeps,
     RecordCopyKeeps, PromoteCopyKeeps, AdoptedKeeps
<1>6. CASE \/ InitInspect(c) \/ CreateStaging(c) \/ Prepare(c) \/ WriteConfiguration(c)
           \/ VerifyStaging(c) \/ PromoteStaging(c) \/ Fail(c) \/ Unwind(c) \/ ReleaseSetup(c)
  BY <1>6, InitInspectKeeps, CreateStagingKeeps, PrepareKeeps, WriteConfigurationKeeps,
     VerifyStagingKeeps, PromoteStagingKeeps, FailKeeps, UnwindKeeps, ReleaseSetupKeeps
<1>7. CASE \/ RepairInspect(c) \/ RepairProbe(c) \/ StageStore(c) \/ Pair(c)
           \/ RemoveStore(c) \/ PutStore(c)
  BY <1>7, RepairInspectKeeps, RepairProbeKeeps, StageStoreKeeps, PairKeeps, RemoveStoreKeeps,
     PutStoreKeeps
<1>8. CASE \/ StartLooks(c) \/ StartInspect(c) \/ CheckServices(c) \/ CreateLock(c)
           \/ ReadOwner(c) \/ WritePid(c) \/ Boot(c) \/ Stop(c) \/ Die(c)
  BY <1>8, StartLooksKeeps, StartInspectKeeps, CheckServicesKeeps, CreateLockKeeps,
     ReadOwnerKeeps, WritePidKeeps, BootKeeps, StopKeeps, DieKeeps
<1> QED
  BY <1>1, <1>2, <1>3, <1>4, <1>5, <1>6, <1>7, <1>8 DEF InstallationStep

(* The inductive invariant of the directory, for any number of processes,  *)
(* deaths and unlinks.                                                     *)
THEOREM DirectoryInvariant == InstallationSpec => []DirectoryInv
<1>1. DirectoryInv /\ [InstallationNext]_installationVars => DirectoryInv'
  BY DirectoryStepKeeps, ClearLockKeeps, ChangePortKeeps, UnlinkKeeps, DirectoryStands
  DEF InstallationNext
<1> QED BY DirectoryBegins, <1>1, PTL DEF InstallationSpec

(* Whatever dies, fails or runs beside: the root is absent or whole but    *)
(* for a store being swapped, the former installation survives, no crash   *)
(* leaves two directories of which neither is known to be the              *)
(* installation, one command at a time is in the protected section, two    *)
(* runtimes only by a race of starts, and no swap under a runtime that the *)
(* repair could have seen (installation.ts, migration.ts, lifecycle.ts).   *)
THEOREM DirectoryIsKeptAlways == InstallationSpec => []DirectoryIsKept
<1>1. DirectoryInv => DirectoryIsKept
  <2> SUFFICES ASSUME DirectoryInv PROVE DirectoryIsKept
    OBVIOUS
  <2>1. InstallationTypeOK
    <3>1. InstallationTyped BY DEF DirectoryInv
    <3>2. \A c \in Invocation :
            at[c] \in {"idle", "settle", "begin", "ended", "running"} => staged[c] = NoDirectory
      BY DEF DirectoryInv, Prepares, Staging
    <3> QED BY <3>1, <3>2 DEF InstallationTyped, InstallationTypeOK
  <2>2. FormerSurvives
    BY DEF DirectoryInv, LegacyKept, RootIsWhole, FormerSurvives
  <2>3. OneSetup BY DEF DirectoryInv, SetupLocked, OneSetup
  <2>4. OneRuntime
    <3> SUFFICES ASSUME NEW b \in Invocation, NEW c \in Invocation, b # c,
                        at[b] \in {"boot", "running"}, at[c] \in {"boot", "running"}
                 PROVE  /\ {b, c} \cap rivals # {}
                        /\ Runs(b) /\ Runs(c) => {b, c} \cap moved # {}
      BY DEF OneRuntime
    <3> QED BY DEF DirectoryInv, InstanceLocked
  <2>5. NoSwapUnderRuntime
    BY DEF DirectoryInv, SwapSeen, NoSwapUnderRuntime, Runs, InRepair, StartSteps
  <2> QED BY <2>1, <2>2, <2>3, <2>4, <2>5
    DEF DirectoryInv, DirectoryIsKept, TreesSurvive, OneAtATime
<1> QED BY DirectoryInvariant, <1>1, PTL

-----------------------------------------------------------------------------
(* The configuration.                                                      *)

(* The steps of a session: the migration, the writes in order, their       *)
(* undoing.                                                                *)
Provisioning == {"oldConfig", "coder", "reviewer", "planner", "retarget", "retire"}
Committing == {"credential", "config", "undo", "undoCredential"}
Proper == {"ready", "review", "specialist", "key", "prior"} \cup Committing
Over == {"ended", "failed", "dead"}

ConfigurationTyped ==
  /\ config \in Config /\ triple \in [App -> Triple]
  /\ token \in BOOLEAN /\ extraKey \in BOOLEAN /\ keyOf \in Provider \cup {NoKey}
  /\ editing \in [Session -> {"idle"} \cup Provisioning \cup Proper \cup Over]
  /\ change \in [Session -> Ask \cup {Nothing}]
  /\ read \in [Session -> Reading \cup {Nothing}]
  /\ prior \in [Session -> Reading \cup {Nothing}]
  /\ booting \in {"off", "read", "up"} /\ seen \in Config \cup {Nothing}
  /\ breaks \in 0..MaxBreaks /\ undisturbed \subseteq Session

HasKey(c) == c.provider # Subscription => keyOf # NoKey
FromOld(r) == r \in Reading /\ (r.config.kind = "app" => config.kind = "app") /\ HasKey(r.config)
FromApps(r) == r \in Reading /\ r.config.kind = "app" /\ r.planner # Absent /\ HasKey(r.config)

(* What a session knows at each of its steps, of the files and of what it  *)
(* read.                                                                   *)
Knows(s) ==
  /\ editing[s] # "idle" => change[s] \in Ask
  /\ editing[s] \in Proper => ~token
  /\ editing[s] \in {"reviewer", "planner", "retarget", "retire"} => triple["coder"] # Absent
  /\ editing[s] \in {"planner", "retarget", "retire"} => triple["reviewer"] # Absent
  /\ editing[s] \in {"retarget", "retire"} => triple["planner"] # Absent
  /\ editing[s] = "retire" => config.kind = "app"
  /\ editing[s] \in {"coder", "reviewer", "planner", "retarget"} => FromOld(read[s])
  /\ editing[s] \in {"review", "specialist", "key", "prior", "credential", "config"} => FromApps(read[s])
  /\ editing[s] \in Committing => FromApps(prior[s])
  /\ prior[s] # Nothing => prior[s].config.kind = "app" /\ prior[s].planner # Absent
  /\ editing[s] \in {"prior", "credential", "config"} /\ change[s].provider \in Provider => keyOf # NoKey

(* What a session that nobody disturbed still finds as it was.             *)
Restoring(s) ==
  s \in undisturbed =>
    /\ editing[s] \in Committing \cup Over
    /\ editing[s] \in {"credential", "config", "undoCredential", "failed"} => config = prior[s].config
    /\ editing[s] \in {"credential", "failed"} => triple["planner"] = prior[s].planner

ConfigurationInv ==
  /\ ConfigurationTyped
  /\ RetiredMeansProvisioned
  /\ KeyIsThere
  /\ \A s \in Session : Knows(s) /\ Restoring(s)
  /\ UpWithItsKeys

-----------------------------------------------------------------------------
(* The files go one way only: what is there stays there.                   *)
Progress ==
  /\ config.kind = "app" => config'.kind = "app"
  /\ \A a \in App : triple[a] # Absent => triple'[a] # Absent
  /\ keyOf # NoKey => keyOf' # NoKey
  /\ ~token => ~token'

(* What a session does, the others neither notice nor restore over it.     *)
LEMMA OthersStand ==
  ASSUME NEW t \in Session, Knows(t), Restoring(t), Progress,
         editing'[t] = editing[t], change'[t] = change[t], read'[t] = read[t], prior'[t] = prior[t],
         t \in undisturbed' =>
           t \in undisturbed /\ config' = config /\ triple'["planner"] = triple["planner"]
  PROVE  Knows(t)' /\ Restoring(t)'
<1>1. FromOld(read[t]) => FromOld(read[t])'
  BY DEF FromOld, HasKey, Progress
<1>2. FromApps(read[t]) => FromApps(read[t])'
  BY DEF FromApps, HasKey, Progress
<1>3. FromApps(prior[t]) => FromApps(prior[t])'
  BY DEF FromApps, HasKey, Progress
<1>4. Knows(t)'
  BY <1>1, <1>2, <1>3 DEF Knows, Progress, App
<1>5. Restoring(t)'
  BY DEF Restoring
<1> QED BY <1>4, <1>5

(* What one session does to the files, when it keeps its own knowledge.    *)
LEMMA SessionKeeps ==
  ASSUME ConfigurationInv, NEW s \in Session,
         ConfigurationTyped', Progress, UNCHANGED startVars,
         \A t \in Session \ {s} :
           /\ editing'[t] = editing[t] /\ change'[t] = change[t]
           /\ read'[t] = read[t] /\ prior'[t] = prior[t]
           /\ t \in undisturbed' =>
                t \in undisturbed /\ config' = config /\ triple'["planner"] = triple["planner"],
         Knows(s)', Restoring(s)', RetiredMeansProvisioned', KeyIsThere'
  PROVE  ConfigurationInv'
<1>1. ASSUME NEW t \in Session PROVE Knows(t)' /\ Restoring(t)'
  BY OthersStand DEF ConfigurationInv
<1>2. UpWithItsKeys' BY DEF ConfigurationInv, UpWithItsKeys, startVars
<1> QED BY <1>1, <1>2 DEF ConfigurationInv

(* A session begins with what the operator asks for.                       *)
LEMMA BeginSessionKeeps ==
  ASSUME ConfigurationInv, NEW s \in Session, NEW ask \in Ask, BeginSession(s, ask)
  PROVE  ConfigurationInv'
<1> USE DEF BeginSession, Replace, Advance, Breaks, managed, keys, asks, startVars, Disturbs
<1>t. /\ ConfigurationTyped /\ RetiredMeansProvisioned /\ KeyIsThere
      /\ Knows(s) /\ Restoring(s)
  BY DEF ConfigurationInv
<1>1. ConfigurationTyped'
  BY <1>t, ConfigurationBounds DEF ConfigurationTyped, Knows, FromOld, FromApps,
     Provisioning, Committing, Proper, Over, Triple, Session
<1>2. Progress
  BY <1>t, ConfigurationBounds DEF Progress, Knows, FromOld, FromApps, ConfigurationTyped,
     RetiredMeansProvisioned, Committing, Proper, Session, Absent
<1>3. \A t \in Session \ {s} :
        /\ editing'[t] = editing[t] /\ change'[t] = change[t]
        /\ read'[t] = read[t] /\ prior'[t] = prior[t]
        /\ t \in undisturbed' =>
             t \in undisturbed /\ config' = config /\ triple'["planner"] = triple["planner"]
  BY <1>t DEF ConfigurationTyped
<1>4. RetiredMeansProvisioned' /\ KeyIsThere'
  BY <1>t, <1>2 DEF RetiredMeansProvisioned, KeyIsThere, Knows, FromOld, FromApps, HasKey,
     Progress, ConfigurationTyped, Committing, Proper
<1>5. Knows(s)'
  BY <1>t, <1>2 DEF Knows, FromOld, FromApps, HasKey, Progress, ConfigurationTyped,
     Provisioning, Committing, Proper, Over, RetiredMeansProvisioned, KeyIsThere, Triple
<1>6. Restoring(s)'
  BY <1>t DEF Restoring, ConfigurationTyped, Committing, Proper, Over
<1> QED BY <1>1, <1>2, <1>3, <1>4, <1>5, <1>6, SessionKeeps

(* The operator gives up before anything is written.                       *)
LEMMA GiveUpKeeps ==
  ASSUME ConfigurationInv, NEW s \in Session, GiveUp(s)
  PROVE  ConfigurationInv'
<1> USE DEF GiveUp, Replace, Advance, Breaks, managed, keys, asks, startVars, Disturbs
<1>t. /\ ConfigurationTyped /\ RetiredMeansProvisioned /\ KeyIsThere
      /\ Knows(s) /\ Restoring(s)
  BY DEF ConfigurationInv
<1>1. ConfigurationTyped'
  BY <1>t, ConfigurationBounds DEF ConfigurationTyped, Knows, FromOld, FromApps,
     Provisioning, Committing, Proper, Over, Triple, Session
<1>2. Progress
  BY <1>t, ConfigurationBounds DEF Progress, Knows, FromOld, FromApps, ConfigurationTyped,
     RetiredMeansProvisioned, Committing, Proper, Session, Absent
<1>3. \A t \in Session \ {s} :
        /\ editing'[t] = editing[t] /\ change'[t] = change[t]
        /\ read'[t] = read[t] /\ prior'[t] = prior[t]
        /\ t \in undisturbed' =>
             t \in undisturbed /\ config' = config /\ triple'["planner"] = triple["planner"]
  BY <1>t DEF ConfigurationTyped
<1>4. RetiredMeansProvisioned' /\ KeyIsThere'
  BY <1>t, <1>2 DEF RetiredMeansProvisioned, KeyIsThere, Knows, FromOld, FromApps, HasKey,
     Progress, ConfigurationTyped, Committing, Proper
<1>5. Knows(s)'
  BY <1>t, <1>2 DEF Knows, FromOld, FromApps, HasKey, Progress, ConfigurationTyped,
     Provisioning, Committing, Proper, Over, RetiredMeansProvisioned, KeyIsThere, Triple
<1>6. Restoring(s)'
  BY <1>t DEF Restoring, ConfigurationTyped, Committing, Proper, Over
<1> QED BY <1>1, <1>2, <1>3, <1>4, <1>5, <1>6, SessionKeeps

(* The migration reads the configuration it starts from.                   *)
LEMMA ReadOldConfigKeeps ==
  ASSUME ConfigurationInv, NEW s \in Session, ReadOldConfig(s)
  PROVE  ConfigurationInv'
<1> USE DEF ReadOldConfig, Replace, Advance, Breaks, managed, keys, asks, startVars, Disturbs
<1>t. /\ ConfigurationTyped /\ RetiredMeansProvisioned /\ KeyIsThere
      /\ Knows(s) /\ Restoring(s)
  BY DEF ConfigurationInv
<1>1. ConfigurationTyped'
  BY <1>t, ConfigurationBounds DEF ConfigurationTyped, Knows, FromOld, FromApps,
     Provisioning, Committing, Proper, Over, Triple, Session, Reading
<1>2. Progress
  BY <1>t, ConfigurationBounds DEF Progress, Knows, FromOld, FromApps, ConfigurationTyped,
     RetiredMeansProvisioned, Committing, Proper, Session, Absent, Reading, Triple
<1>3. \A t \in Session \ {s} :
        /\ editing'[t] = editing[t] /\ change'[t] = change[t]
        /\ read'[t] = read[t] /\ prior'[t] = prior[t]
        /\ t \in undisturbed' =>
             t \in undisturbed /\ config' = config /\ triple'["planner"] = triple["planner"]
  BY <1>t DEF ConfigurationTyped, Reading, Triple
<1>4. RetiredMeansProvisioned' /\ KeyIsThere'
  BY <1>t, <1>2 DEF RetiredMeansProvisioned, KeyIsThere, Knows, FromOld, FromApps, HasKey,
     Progress, ConfigurationTyped, Committing, Proper, Reading, Triple
<1>5. Knows(s)'
  BY <1>t, <1>2 DEF Knows, FromOld, FromApps, HasKey, Progress, ConfigurationTyped,
     Provisioning, Committing, Proper, Over, RetiredMeansProvisioned, KeyIsThere, Triple,
     Reading
<1>6. Restoring(s)'
  BY <1>t DEF Restoring, ConfigurationTyped, Committing, Proper, Over, Reading, Triple
<1> QED BY <1>1, <1>2, <1>3, <1>4, <1>5, <1>6, SessionKeeps

(* One App more is provisioned, or the file could not be written.          *)
LEMMA WriteAppKeeps ==
  ASSUME ConfigurationInv, NEW s \in Session, NEW a \in App, WriteApp(s, a)
  PROVE  ConfigurationInv'
<1>t. /\ ConfigurationTyped /\ RetiredMeansProvisioned /\ KeyIsThere
      /\ Knows(s) /\ Restoring(s)
  BY DEF ConfigurationInv
<1>0. /\ editing[s] = a /\ a \in App
      /\ triple' \in {triple, [triple EXCEPT ![a] = s]}
      /\ \/ /\ editing' = [editing EXCEPT ![s] = After(a)]
            /\ triple' = [triple EXCEPT ![a] = s]
         \/ editing' = [editing EXCEPT ![s] = "ended"]
      /\ breaks' \in 0..MaxBreaks
      /\ undisturbed' = undisturbed \cap {s}
      /\ UNCHANGED <<config, token, keyOf, extraKey, change, read, prior, booting, seen, got>>
  BY <1>t, ConfigurationBounds DEF WriteApp, Replace, Advance, Disturbs, Breaks,
     ConfigurationTyped, keys, asks, startVars
<1>a. /\ a = "coder" => After(a) = "reviewer"
      /\ a = "reviewer" => After(a) = "planner"
      /\ a = "planner" => After(a) = "retarget"
  BY DEF After
<1>b. /\ triple' \in [App -> Triple]
      /\ \A b \in App : triple[b] # Absent => triple'[b] # Absent
      /\ triple' = [triple EXCEPT ![a] = s] => triple'[a] # Absent
  <2>1. s # Absent /\ s \in Triple BY ConfigurationBounds DEF Triple, Session, Absent
  <2>2. triple \in [App -> Triple] BY <1>t DEF ConfigurationTyped
  <2> QED BY <1>0, <2>1, <2>2
<1>1. ConfigurationTyped'
  <2>1. editing' \in [Session -> {"idle"} \cup Provisioning \cup Proper \cup Over]
    BY <1>0, <1>a, <1>t DEF ConfigurationTyped, Provisioning, Over, App
  <2> QED BY <2>1, <1>0, <1>b, <1>t DEF ConfigurationTyped
<1>2. Progress BY <1>0, <1>b DEF Progress
<1>3. \A t \in Session \ {s} :
        /\ editing'[t] = editing[t] /\ change'[t] = change[t]
        /\ read'[t] = read[t] /\ prior'[t] = prior[t]
        /\ t \in undisturbed' =>
             t \in undisturbed /\ config' = config /\ triple'["planner"] = triple["planner"]
  BY <1>0, <1>t DEF ConfigurationTyped
<1>4. RetiredMeansProvisioned' /\ KeyIsThere'
  BY <1>0, <1>b, <1>t DEF RetiredMeansProvisioned, KeyIsThere
<1>5. Knows(s)'
  <2>1. FromOld(read[s]) => FromOld(read[s])' BY <1>0 DEF FromOld, HasKey
  <2>2. CASE editing'[s] = "ended"
    BY <2>2, <1>0, <1>b, <1>t DEF Knows, Proper, Committing, App
  <2>3. CASE editing'[s] # "ended"
    <3>1. editing'[s] = After(a) /\ triple' = [triple EXCEPT ![a] = s]
      BY <2>3, <1>0, <1>t DEF ConfigurationTyped
    <3>2. CASE a = "coder"
      BY <3>1, <3>2, <2>1, <1>0, <1>a, <1>b, <1>t DEF Knows, Proper, Committing, App
    <3>3. CASE a = "reviewer"
      BY <3>1, <3>3, <2>1, <1>0, <1>a, <1>b, <1>t DEF Knows, Proper, Committing, App
    <3>4. CASE a = "planner"
      BY <3>1, <3>4, <2>1, <1>0, <1>a, <1>b, <1>t DEF Knows, Proper, Committing, App
    <3> QED BY <3>2, <3>3, <3>4, <1>0 DEF App
  <2> QED BY <2>2, <2>3
<1>6. Restoring(s)'
  <2>1. s \notin undisturbed
    BY <1>0, <1>t DEF Restoring, App, Committing, Over
  <2> QED BY <2>1, <1>0 DEF Restoring
<1> QED BY <1>0, <1>1, <1>2, <1>3, <1>4, <1>5, <1>6, SessionKeeps DEF startVars

(* The configuration written is the one read, of the kind that uses the    *)
(* Apps; the key it names is still there.                                  *)
LEMMA RetargetKeeps ==
  ASSUME ConfigurationInv, NEW s \in Session, Retarget(s)
  PROVE  ConfigurationInv'
<1>t. /\ ConfigurationTyped /\ RetiredMeansProvisioned /\ KeyIsThere
      /\ Knows(s) /\ Restoring(s)
  BY DEF ConfigurationInv
<1>0. /\ editing[s] = "retarget"
      /\ \/ /\ read[s].config.kind = "app" /\ editing' = [editing EXCEPT ![s] = "retire"]
            /\ config' = config /\ undisturbed' = undisturbed
         \/ /\ editing' = [editing EXCEPT ![s] = "retire"]
            /\ config' = [read[s].config EXCEPT !.kind = "app"] /\ undisturbed' = undisturbed \cap {s}
         \/ /\ editing' = [editing EXCEPT ![s] = "ended"]
            /\ config' \in {config, [read[s].config EXCEPT !.kind = "app"]}
            /\ undisturbed' = undisturbed \cap {s}
      /\ breaks' \in 0..MaxBreaks
      /\ UNCHANGED <<triple, token, keyOf, extraKey, change, read, prior, booting, seen, got>>
  BY <1>t, ConfigurationBounds DEF Retarget, Replace, Advance, Disturbs, Breaks,
     ConfigurationTyped, keys, asks, startVars
<1>a. FromOld(read[s]) /\ read[s].config \in Config
  BY <1>0, <1>t DEF Knows, FromOld, Reading
<1>b. /\ config' \in Config /\ HasKey(config)' /\ (config.kind = "app" => config'.kind = "app")
      /\ editing'[s] = "retire" => config'.kind = "app"
  <2> DEFINE new == [read[s].config EXCEPT !.kind = "app"]
  <2>1. new \in Config /\ new.kind = "app" /\ new.provider = read[s].config.provider
    BY <1>a DEF Config
  <2>2. HasKey(config) /\ HasKey(new) BY <2>1, <1>a, <1>t DEF FromOld, HasKey, KeyIsThere
  <2>3. read[s].config.kind = "app" => config.kind = "app" BY <1>a DEF FromOld
  <2>4. config' \in {config, new} /\ keyOf' = keyOf BY <1>0
  <2>5. editing'[s] = "retire" => config' = new \/ (config' = config /\ read[s].config.kind = "app")
    BY <1>0, <1>t DEF ConfigurationTyped
  <2>6. HasKey(config)' BY <2>2, <2>4 DEF HasKey
  <2>7. config \in Config BY <1>t DEF ConfigurationTyped
  <2> HIDE DEF new
  <2> QED BY <2>1, <2>3, <2>4, <2>5, <2>6, <2>7
<1>c. editing'[s] \in {"retire", "ended"} /\ undisturbed' \subseteq undisturbed
  BY <1>0, <1>t DEF ConfigurationTyped
<1>1. ConfigurationTyped'
  <2>1. editing' \in [Session -> {"idle"} \cup Provisioning \cup Proper \cup Over]
    BY <1>0, <1>t DEF ConfigurationTyped, Provisioning, Over
  <2> QED BY <2>1, <1>0, <1>b, <1>c, <1>t DEF ConfigurationTyped
<1>2. Progress BY <1>0, <1>b DEF Progress
<1>3. \A t \in Session \ {s} :
        /\ editing'[t] = editing[t] /\ change'[t] = change[t]
        /\ read'[t] = read[t] /\ prior'[t] = prior[t]
        /\ t \in undisturbed' =>
             t \in undisturbed /\ config' = config /\ triple'["planner"] = triple["planner"]
  BY <1>0, <1>t DEF ConfigurationTyped
<1>4. RetiredMeansProvisioned' /\ KeyIsThere'
  BY <1>0, <1>b, <1>t DEF RetiredMeansProvisioned, KeyIsThere, HasKey
<1>5. Knows(s)'
  BY <1>0, <1>b, <1>c, <1>t DEF Knows, Proper, Committing
<1>6. Restoring(s)'
  <2>1. s \notin undisturbed
    BY <1>0, <1>t DEF Restoring, Committing, Over
  <2> QED BY <2>1, <1>c DEF Restoring
<1> QED BY <1>0, <1>1, <1>2, <1>3, <1>4, <1>5, <1>6, SessionKeeps DEF startVars

(* The token goes after the Apps and the configuration stand.              *)
LEMMA RetireKeeps ==
  ASSUME ConfigurationInv, NEW s \in Session, Retire(s)
  PROVE  ConfigurationInv'
<1> USE DEF Retire, Replace, Advance, Breaks, managed, keys, asks, startVars, Disturbs
<1>t. /\ ConfigurationTyped /\ RetiredMeansProvisioned /\ KeyIsThere
      /\ Knows(s) /\ Restoring(s)
  BY DEF ConfigurationInv
<1>1. ConfigurationTyped'
  BY <1>t, ConfigurationBounds DEF ConfigurationTyped, Knows, FromOld, FromApps,
     Provisioning, Committing, Proper, Over, Triple, Session
<1>2. Progress
  BY <1>t, ConfigurationBounds DEF Progress, Knows, FromOld, FromApps, ConfigurationTyped,
     RetiredMeansProvisioned, Committing, Proper, Session, Absent
<1>3. \A t \in Session \ {s} :
        /\ editing'[t] = editing[t] /\ change'[t] = change[t]
        /\ read'[t] = read[t] /\ prior'[t] = prior[t]
        /\ t \in undisturbed' =>
             t \in undisturbed /\ config' = config /\ triple'["planner"] = triple["planner"]
  BY <1>t DEF ConfigurationTyped
<1>4. RetiredMeansProvisioned' /\ KeyIsThere'
  <2>1. config.kind = "app" /\ \A a \in App : triple[a] # Absent
    BY <1>t DEF Knows, App
  <2> QED BY <2>1, <1>t DEF RetiredMeansProvisioned, KeyIsThere
<1>5. Knows(s)'
  BY <1>t, <1>2 DEF Knows, FromOld, FromApps, HasKey, Progress, ConfigurationTyped,
     Provisioning, Committing, Proper, Over, RetiredMeansProvisioned, KeyIsThere, Triple
<1>6. Restoring(s)'
  BY <1>t DEF Restoring, ConfigurationTyped, Committing, Proper, Over
<1> QED BY <1>1, <1>2, <1>3, <1>4, <1>5, <1>6, SessionKeeps

(* What is read fits, as the token is gone.                                *)
LEMMA ReadCurrentKeeps ==
  ASSUME ConfigurationInv, NEW s \in Session, ReadCurrent(s)
  PROVE  ConfigurationInv'
<1> USE DEF ReadCurrent, Replace, Advance, Breaks, managed, keys, asks, startVars, Disturbs
<1>t. /\ ConfigurationTyped /\ RetiredMeansProvisioned /\ KeyIsThere
      /\ Knows(s) /\ Restoring(s)
  BY DEF ConfigurationInv
<1>r. /\ [config |-> config, planner |-> triple["planner"]] \in Reading
      /\ read'[s] = [config |-> config, planner |-> triple["planner"]]
      /\ editing'[s] = "review"
  BY <1>t DEF ConfigurationTyped, Reading, App
<1>a. FromApps(read[s])'
  BY <1>r, <1>t DEF FromApps, HasKey, KeyIsThere, Knows, RetiredMeansProvisioned, Proper, App
<1>1. ConfigurationTyped'
  <2>1. read' \in [Session -> Reading \cup {Nothing}] BY <1>r, <1>t DEF ConfigurationTyped
  <2>2. editing' \in [Session -> {"idle"} \cup Provisioning \cup Proper \cup Over]
    BY <1>t DEF ConfigurationTyped, Proper, Committing
  <2> QED BY <2>1, <2>2, <1>t DEF ConfigurationTyped
<1>2. Progress
  BY <1>t, ConfigurationBounds DEF Progress, Knows, FromOld, FromApps, ConfigurationTyped,
     RetiredMeansProvisioned, Committing, Proper, Session, Absent, Reading
<1>3. \A t \in Session \ {s} :
        /\ editing'[t] = editing[t] /\ change'[t] = change[t]
        /\ read'[t] = read[t] /\ prior'[t] = prior[t]
        /\ t \in undisturbed' =>
             t \in undisturbed /\ config' = config /\ triple'["planner"] = triple["planner"]
  BY <1>t DEF ConfigurationTyped, Reading
<1>4. RetiredMeansProvisioned' /\ KeyIsThere'
  BY <1>t, <1>2 DEF RetiredMeansProvisioned, KeyIsThere, Knows, FromOld, FromApps, HasKey,
     Progress, ConfigurationTyped, Committing, Proper, Reading
<1>5. Knows(s)'
  <2>1. FromApps(read[s]) => FromApps(read[s])' \/ read' # read BY DEF FromApps, HasKey
  <2> QED BY <2>1, <1>a, <1>r, <1>t DEF Knows, FromApps, Proper, Committing
<1>6. Restoring(s)'
  BY <1>t DEF Restoring, ConfigurationTyped, Committing, Proper, Over, Reading
<1> QED BY <1>1, <1>2, <1>3, <1>4, <1>5, <1>6, SessionKeeps

(* The key of the speech provider.                                         *)
LEMMA WriteExtraKeyKeeps ==
  ASSUME ConfigurationInv, NEW s \in Session, WriteExtraKey(s)
  PROVE  ConfigurationInv'
<1> USE DEF WriteExtraKey, Replace, Advance, Breaks, managed, keys, asks, startVars, Disturbs
<1>t. /\ ConfigurationTyped /\ RetiredMeansProvisioned /\ KeyIsThere
      /\ Knows(s) /\ Restoring(s)
  BY DEF ConfigurationInv
<1>1. ConfigurationTyped'
  <2>1. editing' \in [Session -> {"idle"} \cup Provisioning \cup Proper \cup Over]
    BY <1>t DEF ConfigurationTyped, Proper, Over
  <2>2. breaks' \in 0..MaxBreaks
    BY <1>t, ConfigurationBounds DEF ConfigurationTyped
  <2>3. extraKey' = TRUE \/ extraKey' = extraKey
    OBVIOUS
  <2>4. extraKey' \in BOOLEAN
    BY <2>3, <1>t DEF ConfigurationTyped
  <2> QED BY <2>1, <2>2, <2>4, <1>t DEF ConfigurationTyped
<1>2. Progress
  BY <1>t, ConfigurationBounds DEF Progress, Knows, FromOld, FromApps, ConfigurationTyped,
     RetiredMeansProvisioned, Committing, Proper, Session, Absent
<1>3. \A t \in Session \ {s} :
        /\ editing'[t] = editing[t] /\ change'[t] = change[t]
        /\ read'[t] = read[t] /\ prior'[t] = prior[t]
        /\ t \in undisturbed' =>
             t \in undisturbed /\ config' = config /\ triple'["planner"] = triple["planner"]
  BY <1>t DEF ConfigurationTyped
<1>4. RetiredMeansProvisioned' /\ KeyIsThere'
  BY <1>t, <1>2 DEF RetiredMeansProvisioned, KeyIsThere, Knows, FromOld, FromApps, HasKey,
     Progress, ConfigurationTyped, Committing, Proper
<1>5. Knows(s)'
  BY <1>t, <1>2 DEF Knows, FromOld, FromApps, HasKey, Progress, ConfigurationTyped,
     Provisioning, Committing, Proper, Over, RetiredMeansProvisioned, KeyIsThere, Triple
<1>6. Restoring(s)'
  BY <1>t DEF Restoring, ConfigurationTyped, Committing, Proper, Over
<1> QED BY <1>1, <1>2, <1>3, <1>4, <1>5, <1>6, SessionKeeps

(* One App is rotated.                                                     *)
LEMMA WriteSpecialistKeeps ==
  ASSUME ConfigurationInv, NEW s \in Session, WriteSpecialist(s)
  PROVE  ConfigurationInv'
<1> USE DEF WriteSpecialist, Replace, Advance, Breaks, managed, keys, asks, startVars, Disturbs
<1>t. /\ ConfigurationTyped /\ RetiredMeansProvisioned /\ KeyIsThere
      /\ Knows(s) /\ Restoring(s)
  BY DEF ConfigurationInv
<1>1. ConfigurationTyped'
  <2>1. editing' \in [Session -> {"idle"} \cup Provisioning \cup Proper \cup Over]
    BY <1>t DEF ConfigurationTyped, Proper, Over
  <2>2. breaks' \in 0..MaxBreaks /\ undisturbed' \subseteq Session
    BY <1>t, ConfigurationBounds DEF ConfigurationTyped
  <2>3. triple' \in [App -> Triple]
    BY <1>t DEF ConfigurationTyped, App, Triple
  <2> QED BY <2>1, <2>2, <2>3, <1>t DEF ConfigurationTyped
<1>2. Progress
  BY <1>t, ConfigurationBounds DEF Progress, Knows, FromOld, FromApps, ConfigurationTyped,
     RetiredMeansProvisioned, Committing, Proper, Session, Absent, App
<1>3. \A t \in Session \ {s} :
        /\ editing'[t] = editing[t] /\ change'[t] = change[t]
        /\ read'[t] = read[t] /\ prior'[t] = prior[t]
        /\ t \in undisturbed' =>
             t \in undisturbed /\ config' = config /\ triple'["planner"] = triple["planner"]
  BY <1>t DEF ConfigurationTyped, App
<1>4. RetiredMeansProvisioned' /\ KeyIsThere'
  BY <1>t, <1>2 DEF RetiredMeansProvisioned, KeyIsThere, Knows, FromOld, FromApps, HasKey,
     Progress, ConfigurationTyped, Committing, Proper, App
<1>5. Knows(s)'
  BY <1>t, <1>2 DEF Knows, FromOld, FromApps, HasKey, Progress, ConfigurationTyped,
     Provisioning, Committing, Proper, Over, RetiredMeansProvisioned, KeyIsThere, Triple,
     App
<1>6. Restoring(s)'
  BY <1>t DEF Restoring, ConfigurationTyped, Committing, Proper, Over, App
<1> QED BY <1>1, <1>2, <1>3, <1>4, <1>5, <1>6, SessionKeeps

(* A provider chosen has its key from then on.                             *)
LEMMA WriteModelKeyKeeps ==
  ASSUME ConfigurationInv, NEW s \in Session, WriteModelKey(s)
  PROVE  ConfigurationInv'
<1> USE DEF WriteModelKey, Replace, Advance, Breaks, managed, keys, asks, startVars, Disturbs
<1>t. /\ ConfigurationTyped /\ RetiredMeansProvisioned /\ KeyIsThere
      /\ Knows(s) /\ Restoring(s)
  BY DEF ConfigurationInv
<1>1. ConfigurationTyped'
  BY <1>t, ConfigurationBounds DEF ConfigurationTyped, Knows, FromOld, FromApps,
     Provisioning, Committing, Proper, Over, Triple, Session, NeedsApiKey
<1>2. Progress
  BY <1>t, ConfigurationBounds DEF Progress, Knows, FromOld, FromApps, ConfigurationTyped,
     RetiredMeansProvisioned, Committing, Proper, Session, Absent, NeedsApiKey
<1>3. \A t \in Session \ {s} :
        /\ editing'[t] = editing[t] /\ change'[t] = change[t]
        /\ read'[t] = read[t] /\ prior'[t] = prior[t]
        /\ t \in undisturbed' =>
             t \in undisturbed /\ config' = config /\ triple'["planner"] = triple["planner"]
  BY <1>t DEF ConfigurationTyped, NeedsApiKey
<1>4. RetiredMeansProvisioned' /\ KeyIsThere'
  BY <1>t, <1>2 DEF RetiredMeansProvisioned, KeyIsThere, Knows, FromOld, FromApps, HasKey,
     Progress, ConfigurationTyped, Committing, Proper, NeedsApiKey
<1>5. Knows(s)'
  <2>1. FromApps(read[s]) /\ change[s] \in Ask /\ ~token
    BY <1>t DEF Knows, Proper
  <2>2. FromApps(read[s])' BY <2>1, <1>2 DEF FromApps, HasKey, Progress
  <2>3. editing'[s] \in {"prior", "ended"} BY <1>t DEF ConfigurationTyped
  <2>4. editing'[s] = "prior" /\ change[s].provider \in Provider => keyOf' # NoKey
    BY <1>t, ConfigurationBounds DEF ConfigurationTyped, NeedsApiKey
  <2> QED BY <2>1, <2>2, <2>3, <2>4, <1>t DEF Knows, Proper, Committing
<1>6. Restoring(s)'
  BY <1>t DEF Restoring, ConfigurationTyped, Committing, Proper, Over, NeedsApiKey
<1> QED BY <1>1, <1>2, <1>3, <1>4, <1>5, <1>6, SessionKeeps

(* What a failure restores is read when it fits.                           *)
LEMMA ReadPriorKeeps ==
  ASSUME ConfigurationInv, NEW s \in Session, ReadPrior(s)
  PROVE  ConfigurationInv'
<1> USE DEF ReadPrior, Replace, Advance, Breaks, managed, keys, asks, startVars, Disturbs
<1>t. /\ ConfigurationTyped /\ RetiredMeansProvisioned /\ KeyIsThere
      /\ Knows(s) /\ Restoring(s)
  BY DEF ConfigurationInv
<1>r. /\ [config |-> config, planner |-> triple["planner"]] \in Reading
      /\ prior'[s] = [config |-> config, planner |-> triple["planner"]]
      /\ editing'[s] = "credential"
  BY <1>t DEF ConfigurationTyped, Reading, App
<1>a. FromApps(prior[s])'
  BY <1>r, <1>t DEF FromApps, HasKey, KeyIsThere, Knows, RetiredMeansProvisioned, Proper, App
<1>1. ConfigurationTyped'
  <2>1. prior' \in [Session -> Reading \cup {Nothing}] BY <1>r, <1>t DEF ConfigurationTyped
  <2>2. editing' \in [Session -> {"idle"} \cup Provisioning \cup Proper \cup Over]
    BY <1>t DEF ConfigurationTyped, Proper, Committing
  <2> QED BY <2>1, <2>2, <1>t DEF ConfigurationTyped
<1>2. Progress
  BY <1>t, ConfigurationBounds DEF Progress, Knows, FromOld, FromApps, ConfigurationTyped,
     RetiredMeansProvisioned, Committing, Proper, Session, Absent, Reading
<1>3. \A t \in Session \ {s} :
        /\ editing'[t] = editing[t] /\ change'[t] = change[t]
        /\ read'[t] = read[t] /\ prior'[t] = prior[t]
        /\ t \in undisturbed' =>
             t \in undisturbed /\ config' = config /\ triple'["planner"] = triple["planner"]
  BY <1>t DEF ConfigurationTyped, Reading
<1>4. RetiredMeansProvisioned' /\ KeyIsThere'
  BY <1>t, <1>2 DEF RetiredMeansProvisioned, KeyIsThere, Knows, FromOld, FromApps, HasKey,
     Progress, ConfigurationTyped, Committing, Proper, Reading
<1>5. Knows(s)'
  <2>1. FromApps(read[s]) => FromApps(read[s])' \/ read' # read BY DEF FromApps, HasKey
  <2> QED BY <2>1, <1>a, <1>r, <1>t DEF Knows, FromApps, Proper, Committing
<1>6. Restoring(s)'
  BY <1>t DEF Restoring, ConfigurationTyped, Committing, Proper, Over, Reading
<1> QED BY <1>1, <1>2, <1>3, <1>4, <1>5, <1>6, SessionKeeps

(* The planner's App is written as it was read.                            *)
LEMMA WriteCredentialKeeps ==
  ASSUME ConfigurationInv, NEW s \in Session, WriteCredential(s)
  PROVE  ConfigurationInv'
<1> USE DEF WriteCredential, Replace, Advance, Breaks, managed, keys, asks, startVars, Disturbs
<1>t. /\ ConfigurationTyped /\ RetiredMeansProvisioned /\ KeyIsThere
      /\ Knows(s) /\ Restoring(s)
  BY DEF ConfigurationInv
<1>1. ConfigurationTyped'
  <2>1. editing' \in [Session -> {"idle"} \cup Provisioning \cup Proper \cup Over]
    BY <1>t DEF ConfigurationTyped, Proper, Committing
  <2>2. breaks' \in 0..MaxBreaks /\ undisturbed' \subseteq Session
    BY <1>t, ConfigurationBounds DEF ConfigurationTyped
  <2>3. read[s].planner \in Triple BY <1>t DEF Knows, FromApps, Reading
  <2>4. triple' \in [App -> Triple]
    BY <2>3, <1>t DEF ConfigurationTyped, App, Triple
  <2> QED BY <2>1, <2>2, <2>4, <1>t DEF ConfigurationTyped
<1>2. Progress
  BY <1>t, ConfigurationBounds DEF Progress, Knows, FromOld, FromApps, ConfigurationTyped,
     RetiredMeansProvisioned, Committing, Proper, Session, Absent, App, Reading
<1>3. \A t \in Session \ {s} :
        /\ editing'[t] = editing[t] /\ change'[t] = change[t]
        /\ read'[t] = read[t] /\ prior'[t] = prior[t]
        /\ t \in undisturbed' =>
             t \in undisturbed /\ config' = config /\ triple'["planner"] = triple["planner"]
  BY <1>t DEF ConfigurationTyped, App, Reading
<1>4. RetiredMeansProvisioned' /\ KeyIsThere'
  BY <1>t, <1>2 DEF RetiredMeansProvisioned, KeyIsThere, Knows, FromOld, FromApps, HasKey,
     Progress, ConfigurationTyped, Committing, Proper, App, Reading
<1>5. Knows(s)'
  BY <1>t, <1>2 DEF Knows, FromOld, FromApps, HasKey, Progress, ConfigurationTyped,
     Provisioning, Committing, Proper, Over, RetiredMeansProvisioned, KeyIsThere, Triple,
     App, Reading
<1>6. Restoring(s)'
  BY <1>t DEF Restoring, ConfigurationTyped, Committing, Proper, Over, App, Reading
<1> QED BY <1>1, <1>2, <1>3, <1>4, <1>5, <1>6, SessionKeeps

(* The configuration written names a provider whose key is there.          *)
LEMMA WriteConfigKeeps ==
  ASSUME ConfigurationInv, NEW s \in Session, WriteConfig(s)
  PROVE  ConfigurationInv'
<1>t. /\ ConfigurationTyped /\ RetiredMeansProvisioned /\ KeyIsThere
      /\ Knows(s) /\ Restoring(s)
  BY DEF ConfigurationInv
<1>0. /\ editing[s] = "config"
      /\ \/ editing' = [editing EXCEPT ![s] = "ended"]
         \/ editing' = [editing EXCEPT ![s] = "undo"]
      /\ config' \in {config, NewConfig(s)}
      /\ undisturbed' = undisturbed \cap {s}
      /\ breaks' \in 0..MaxBreaks
      /\ UNCHANGED <<triple, token, keyOf, extraKey, change, read, prior, booting, seen, got>>
  BY <1>t, ConfigurationBounds DEF WriteConfig, Replace, Advance, Disturbs, Breaks,
     ConfigurationTyped, keys, asks, startVars
<1>a. /\ FromApps(read[s]) /\ FromApps(prior[s]) /\ change[s] \in Ask /\ ~token
      /\ change[s].provider \in Provider => keyOf # NoKey
  BY <1>0, <1>t DEF Knows, Proper, Committing
<1>b. /\ config' \in Config /\ HasKey(config)'
      /\ config'.kind = "app"
  <2>1. read[s].config \in Config /\ read[s].config.kind = "app" BY <1>a DEF FromApps, Reading
  <2>2. Chosen(s) \in Provider \cup {Subscription} BY <2>1, <1>a DEF Chosen, Ask, Config
  <2>3. change[s].extra \in BOOLEAN BY <1>a DEF Ask
  <2>4. /\ NewConfig(s) \in Config
        /\ NewConfig(s).kind = "app" /\ NewConfig(s).provider = Chosen(s)
    BY <2>1, <2>2, <2>3 DEF NewConfig, Config
  <2>5. Chosen(s) # Subscription => keyOf # NoKey
    BY <2>2, <1>a DEF Chosen, FromApps, HasKey, Ask
  <2>6. config \in Config /\ config.kind = "app" /\ HasKey(config)
    BY <1>a, <1>t DEF ConfigurationTyped, RetiredMeansProvisioned, KeyIsThere, HasKey
  <2> QED BY <2>4, <2>5, <2>6, <1>0 DEF HasKey
<1>1. ConfigurationTyped'
  <2>1. editing' \in [Session -> {"idle"} \cup Provisioning \cup Proper \cup Over]
    BY <1>0, <1>t DEF ConfigurationTyped, Proper, Committing, Over
  <2> QED BY <2>1, <1>0, <1>b, <1>t DEF ConfigurationTyped
<1>2. Progress BY <1>0, <1>b DEF Progress
<1>3. \A t \in Session \ {s} :
        /\ editing'[t] = editing[t] /\ change'[t] = change[t]
        /\ read'[t] = read[t] /\ prior'[t] = prior[t]
        /\ t \in undisturbed' =>
             t \in undisturbed /\ config' = config /\ triple'["planner"] = triple["planner"]
  BY <1>0, <1>t DEF ConfigurationTyped
<1>4. RetiredMeansProvisioned' /\ KeyIsThere'
  BY <1>0, <1>b, <1>t DEF RetiredMeansProvisioned, KeyIsThere, HasKey
<1>5. Knows(s)'
  <2>1. FromApps(prior[s])' BY <1>0, <1>a DEF FromApps, HasKey
  <2>2. editing'[s] \in {"ended", "undo"} BY <1>0, <1>t DEF ConfigurationTyped
  <2> QED BY <2>1, <2>2, <1>0, <1>a, <1>t DEF Knows, Proper, Committing
<1>6. Restoring(s)'
  BY <1>0, <1>t DEF Restoring, ConfigurationTyped, Committing, Over
<1> QED BY <1>0, <1>1, <1>2, <1>3, <1>4, <1>5, <1>6, SessionKeeps DEF startVars

(* The prior configuration is restored; its key is still there.            *)
LEMMA UndoConfigKeeps ==
  ASSUME ConfigurationInv, NEW s \in Session, UndoConfig(s)
  PROVE  ConfigurationInv'
<1> USE DEF UndoConfig, Replace, Advance, Breaks, managed, keys, asks, startVars, Disturbs
<1>t. /\ ConfigurationTyped /\ RetiredMeansProvisioned /\ KeyIsThere
      /\ Knows(s) /\ Restoring(s)
  BY DEF ConfigurationInv
<1>1. ConfigurationTyped'
  BY <1>t, ConfigurationBounds DEF ConfigurationTyped, Knows, FromOld, FromApps,
     Provisioning, Committing, Proper, Over, Triple, Session, Reading
<1>2. Progress
  BY <1>t, ConfigurationBounds DEF Progress, Knows, FromOld, FromApps, ConfigurationTyped,
     RetiredMeansProvisioned, Committing, Proper, Session, Absent, Reading
<1>3. \A t \in Session \ {s} :
        /\ editing'[t] = editing[t] /\ change'[t] = change[t]
        /\ read'[t] = read[t] /\ prior'[t] = prior[t]
        /\ t \in undisturbed' =>
             t \in undisturbed /\ config' = config /\ triple'["planner"] = triple["planner"]
  BY <1>t DEF ConfigurationTyped, Reading
<1>4. RetiredMeansProvisioned' /\ KeyIsThere'
  BY <1>t, <1>2 DEF RetiredMeansProvisioned, KeyIsThere, Knows, FromOld, FromApps, HasKey,
     Progress, ConfigurationTyped, Committing, Proper, Reading
<1>5. Knows(s)'
  BY <1>t, <1>2 DEF Knows, FromOld, FromApps, HasKey, Progress, ConfigurationTyped,
     Provisioning, Committing, Proper, Over, RetiredMeansProvisioned, KeyIsThere, Triple,
     Reading
<1>6. Restoring(s)'
  BY <1>t DEF Restoring, ConfigurationTyped, Committing, Proper, Over, Reading
<1> QED BY <1>1, <1>2, <1>3, <1>4, <1>5, <1>6, SessionKeeps

(* The prior App is restored, unless it was never changed.                 *)
LEMMA UndoCredentialKeeps ==
  ASSUME ConfigurationInv, NEW s \in Session, UndoCredential(s)
  PROVE  ConfigurationInv'
<1> USE DEF UndoCredential, Replace, Advance, Breaks, managed, keys, asks, startVars, Disturbs
<1>t. /\ ConfigurationTyped /\ RetiredMeansProvisioned /\ KeyIsThere
      /\ Knows(s) /\ Restoring(s)
  BY DEF ConfigurationInv
<1>1. ConfigurationTyped'
  BY <1>t, ConfigurationBounds DEF ConfigurationTyped, Knows, FromOld, FromApps,
     Provisioning, Committing, Proper, Over, Triple, Session, Reading, App
<1>2. Progress
  BY <1>t, ConfigurationBounds DEF Progress, Knows, FromOld, FromApps, ConfigurationTyped,
     RetiredMeansProvisioned, Committing, Proper, Session, Absent, Reading, App
<1>3. \A t \in Session \ {s} :
        /\ editing'[t] = editing[t] /\ change'[t] = change[t]
        /\ read'[t] = read[t] /\ prior'[t] = prior[t]
        /\ t \in undisturbed' =>
             t \in undisturbed /\ config' = config /\ triple'["planner"] = triple["planner"]
  BY <1>t DEF ConfigurationTyped, Reading, App
<1>4. RetiredMeansProvisioned' /\ KeyIsThere'
  BY <1>t, <1>2 DEF RetiredMeansProvisioned, KeyIsThere, Knows, FromOld, FromApps, HasKey,
     Progress, ConfigurationTyped, Committing, Proper, Reading, App
<1>5. Knows(s)'
  BY <1>t, <1>2 DEF Knows, FromOld, FromApps, HasKey, Progress, ConfigurationTyped,
     Provisioning, Committing, Proper, Over, RetiredMeansProvisioned, KeyIsThere, Triple,
     Reading, App
<1>6. Restoring(s)'
  BY <1>t DEF Restoring, ConfigurationTyped, Committing, Proper, Over, Reading, App
<1> QED BY <1>1, <1>2, <1>3, <1>4, <1>5, <1>6, SessionKeeps

(* A session that dies leaves what it wrote.                               *)
LEMMA SessionDiesKeeps ==
  ASSUME ConfigurationInv, NEW s \in Session, SessionDies(s)
  PROVE  ConfigurationInv'
<1> USE DEF SessionDies, Replace, Advance, Breaks, managed, keys, asks, startVars, Disturbs
<1>t. /\ ConfigurationTyped /\ RetiredMeansProvisioned /\ KeyIsThere
      /\ Knows(s) /\ Restoring(s)
  BY DEF ConfigurationInv
<1>1. ConfigurationTyped'
  BY <1>t, ConfigurationBounds DEF ConfigurationTyped, Knows, FromOld, FromApps,
     Provisioning, Committing, Proper, Over, Triple, Session
<1>2. Progress
  BY <1>t, ConfigurationBounds DEF Progress, Knows, FromOld, FromApps, ConfigurationTyped,
     RetiredMeansProvisioned, Committing, Proper, Session, Absent
<1>3. \A t \in Session \ {s} :
        /\ editing'[t] = editing[t] /\ change'[t] = change[t]
        /\ read'[t] = read[t] /\ prior'[t] = prior[t]
        /\ t \in undisturbed' =>
             t \in undisturbed /\ config' = config /\ triple'["planner"] = triple["planner"]
  BY <1>t DEF ConfigurationTyped
<1>4. RetiredMeansProvisioned' /\ KeyIsThere'
  BY <1>t, <1>2 DEF RetiredMeansProvisioned, KeyIsThere, Knows, FromOld, FromApps, HasKey,
     Progress, ConfigurationTyped, Committing, Proper
<1>5. Knows(s)'
  BY <1>t, <1>2 DEF Knows, FromOld, FromApps, HasKey, Progress, ConfigurationTyped,
     Provisioning, Committing, Proper, Over, RetiredMeansProvisioned, KeyIsThere, Triple
<1>6. Restoring(s)'
  BY <1>t DEF Restoring, ConfigurationTyped, Committing, Proper, Over
<1> QED BY <1>1, <1>2, <1>3, <1>4, <1>5, <1>6, SessionKeeps

(* start reads the configuration and the keys, and writes nothing.         *)
LEMMA StartKeeps ==
  ASSUME ConfigurationInv, StartReads \/ StartReadsKeys \/ StartStops
  PROVE  ConfigurationInv'
<1>t. /\ ConfigurationTyped /\ RetiredMeansProvisioned /\ KeyIsThere /\ UpWithItsKeys
      /\ \A s \in Session : Knows(s) /\ Restoring(s)
  BY DEF ConfigurationInv
<1>1. UNCHANGED <<config, triple, token, keyOf, extraKey, editing, change, read, prior, breaks, undisturbed>>
  BY DEF StartReads, StartReadsKeys, StartStops, managed, keys, asks
<1>2. booting' \in {"off", "read", "up"} /\ seen' \in Config \cup {Nothing}
  BY <1>t DEF StartReads, StartReadsKeys, StartStops, ConfigurationTyped
<1>3. ConfigurationTyped' BY <1>1, <1>2, <1>t DEF ConfigurationTyped
<1>4. RetiredMeansProvisioned' /\ KeyIsThere'
  BY <1>1, <1>t DEF RetiredMeansProvisioned, KeyIsThere
<1>5. \A s \in Session : Knows(s)' /\ Restoring(s)'
  BY <1>1, <1>t DEF Knows, Restoring, FromOld, FromApps, HasKey
<1>6. UpWithItsKeys'
  <2>1. CASE StartReads BY <2>1 DEF StartReads, UpWithItsKeys
  <2>2. CASE StartReadsKeys
    BY <2>2 DEF StartReadsKeys, UpWithItsKeys, ModelKeyFits, ExtraKeyFits
  <2>3. CASE StartStops BY <2>3 DEF StartStops, UpWithItsKeys
  <2> QED BY <2>1, <2>2, <2>3
<1> QED BY <1>3, <1>4, <1>5, <1>6 DEF ConfigurationInv

(* An installation of either kind.                                         *)
LEMMA ConfigurationBegins == ConfigurationInit => ConfigurationInv
<1> SUFFICES ASSUME ConfigurationInit PROVE ConfigurationInv OBVIOUS
<1>1. /\ token \in BOOLEAN /\ config \in Config /\ extraKey = FALSE
      /\ config.kind = (IF token THEN "token" ELSE "app")
      /\ triple = [a \in App |-> IF token THEN Absent ELSE Original]
      /\ keyOf = (IF config.provider = Subscription THEN NoKey ELSE config.provider)
      /\ editing = [s \in Session |-> "idle"]
      /\ change = [s \in Session |-> Nothing]
      /\ read = [s \in Session |-> Nothing] /\ prior = [s \in Session |-> Nothing]
      /\ booting = "off" /\ seen = Nothing
      /\ breaks = 0 /\ undisturbed = {}
  BY DEF ConfigurationInit
<1>2. Original \in Nat /\ Original # Absent
  BY ConfigurationBounds DEF Original, Absent
<1>3. config.provider \in Provider \cup {Subscription} BY <1>1 DEF Config
<1>4. ConfigurationTyped
  <2>1. triple \in [App -> Triple] BY <1>1 DEF Triple
  <2>2. keyOf \in Provider \cup {NoKey} BY <1>1, <1>3
  <2>3. extraKey \in BOOLEAN BY <1>1
  <2>4. breaks \in 0..MaxBreaks BY <1>1, ConfigurationBounds
  <2> QED BY <1>1, <2>1, <2>2, <2>3, <2>4 DEF ConfigurationTyped
<1>5. RetiredMeansProvisioned BY <1>1, <1>2 DEF RetiredMeansProvisioned
<1>6. KeyIsThere BY <1>1, <1>3, ConfigurationBounds DEF KeyIsThere
<1>7. \A s \in Session : Knows(s) /\ Restoring(s)
  BY <1>1 DEF Knows, Restoring, Proper, Committing
<1>8. UpWithItsKeys BY <1>1 DEF UpWithItsKeys
<1> QED BY <1>4, <1>5, <1>6, <1>7, <1>8 DEF ConfigurationInv

(* Every step keeps the invariant.                                         *)
LEMMA ConfigurationKept == ConfigurationInv /\ [ConfigurationNext]_configurationVars => ConfigurationInv'
<1> SUFFICES ASSUME ConfigurationInv, [ConfigurationNext]_configurationVars PROVE ConfigurationInv'
  OBVIOUS
<1>1. CASE UNCHANGED configurationVars
  <2>1. UNCHANGED <<config, triple, token, keyOf, extraKey, editing, change, read, prior,
                    booting, seen, got, breaks, undisturbed>>
    BY <1>1 DEF configurationVars, startVars
  <2> QED BY <2>1 DEF ConfigurationInv, ConfigurationTyped, RetiredMeansProvisioned, KeyIsThere,
                      UpWithItsKeys, Knows, Restoring, FromOld, FromApps, HasKey
<1>2. ASSUME NEW s \in Session, SessionStep(s) PROVE ConfigurationInv'
  BY <1>2, BeginSessionKeeps, GiveUpKeeps, ReadOldConfigKeeps, WriteAppKeeps, RetargetKeeps,
     RetireKeeps, ReadCurrentKeeps, WriteExtraKeyKeeps, WriteSpecialistKeeps, WriteModelKeyKeeps,
     ReadPriorKeeps, WriteCredentialKeeps, WriteConfigKeeps, UndoConfigKeeps, UndoCredentialKeeps,
     SessionDiesKeeps
     DEF SessionStep
<1> QED BY <1>1, <1>2, StartKeeps DEF ConfigurationNext

(* The inductive invariant of the configuration and its secrets, for any   *)
(* number of sessions, failing writes and deaths (configuration.ts:115).   *)
THEOREM ConfigurationInvariant == ConfigurationSpec => []ConfigurationInv
<1> QED BY ConfigurationBegins, ConfigurationKept, PTL DEF ConfigurationSpec

(* The configuration and the secrets it calls for agree: the token is      *)
(* removed when the Apps are there, a provider's key is there, a commit    *)
(* that was undone left what it found, and a runtime is up with its keys   *)
(* (migration.ts:230, configuration.ts:115, lifecycle.ts:95).              *)
THEOREM KeysFitConfigurationAlways == ConfigurationSpec => []KeysFitConfiguration
<1>1. ConfigurationInv => ConfigurationTypeOK
  BY DEF ConfigurationInv, ConfigurationTyped, ConfigurationTypeOK, Knows
<1>2. ConfigurationInv => FailedRestores
  BY DEF ConfigurationInv, FailedRestores, Restoring, Over, ConfigurationTyped
<1>3. ConfigurationInv => KeysFitConfiguration
  BY <1>1, <1>2 DEF ConfigurationInv, KeysFitConfiguration
<1> QED BY <1>3, ConfigurationInvariant, PTL
=============================================================================
