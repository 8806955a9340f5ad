------------------------------- MODULE MCIntake -------------------------------
(***************************************************************************)
(* The modules of the intake for TLC. They share no state, so one run      *)
(* explores them side by side: "part" says which one moves in a behaviour. *)
(*                                                                         *)
(* ChatIntake: one chat with a message, a mention, an update and a         *)
(* reaction of the bot. ArchiveProjection: a message with two edits, one   *)
(* of which lacks its time, and a revocation; and a reaction to a message  *)
(* that never arrives. DebounceActor: a window of 2, a ceiling of 3.       *)
(* WhatsAppAccount: two callers and two batches, or an account at rest and *)
(* four changes of one mark, two of them its own.                          *)
(***************************************************************************)
EXTENDS ChatIntake, DebounceActor, ArchiveProjection, WhatsAppAccount, TLC

CONSTANTS m1, m2, u1, x1, a, f1, f2, f3, f4, f5, f6, o1, o2, y1, y2, k1, k2, b1, b2

MCKind == m1 :> "message" @@ m2 :> "mention" @@ u1 :> "update" @@ x1 :> "mutation"
MCChatOf == m1 :> a @@ m2 :> a @@ u1 :> a @@ x1 :> a

MCAbout == f1 :> m1 @@ f2 :> m1 @@ f3 :> m1 @@ f4 :> m1 @@ f5 :> m1 @@ f6 :> m2
MCFactKind == f1 :> "arrival" @@ f2 :> "edit" @@ f3 :> "edit" @@ f4 :> "edit"
           @@ f5 :> "revocation" @@ f6 :> "other"
MCFactTime == f1 :> 1 @@ f2 :> 3 @@ f3 :> 2 @@ f4 :> 0 @@ f5 :> 2 @@ f6 :> 1

MCScopeOf == [c \in Change |-> m1]
MCValueOf == [c \in Change |-> IF c \in {o1, y1} THEN o1 ELSE o2]

VARIABLE part

mcVars == <<intakeVars, debounceVars, archiveVars, accountVars, part>>

MCInit ==
  /\ IntakeInit /\ DebounceInit /\ ArchiveInit
  /\ part \in {"intake", "debounce", "archive", "account", "changes"}
  /\ AccountInitAt(part = "changes")

MCNext ==
  \/ part = "intake" /\ IntakeNext /\ UNCHANGED <<debounceVars, archiveVars, accountVars, part>>
  \/ part = "debounce" /\ DebounceNext /\ UNCHANGED <<intakeVars, archiveVars, accountVars, part>>
  \/ part = "archive" /\ ArchiveNext /\ UNCHANGED <<intakeVars, debounceVars, accountVars, part>>
  \/ /\ part \in {"account", "changes"}
     /\ AccountNext
     /\ IF part = "changes" THEN UNCHANGED <<authVars, syncVars, syncWait, archiveWait, canaryMsg>>
        ELSE /\ UNCHANGED echoVars
             /\ canaryMsg' # canaryMsg => chain = <<>> /\ "waiting" \notin {syncWait, archiveWait}
     /\ UNCHANGED <<intakeVars, debounceVars, archiveVars, part>>

MCSpec == MCInit /\ [][MCNext]_mcVars /\ (part = "intake" => IntakeFairness)
=============================================================================
