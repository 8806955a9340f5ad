------------------------- MODULE ManagedConfiguration -------------------------
(***************************************************************************)
(* The files that "ambient-agent config" writes and "start" reads: the     *)
(* configuration, the credentials of the three GitHub Apps, the API key of *)
(* the model's provider, the key of an optional service (the E2B sandbox   *)
(* or the tracing) and the personal token that the Apps replaced.          *)
(*                                                                         *)
(* A session of config reads the configuration, asks its operator for      *)
(* minutes, and writes file by file; no lock keeps sessions or starts      *)
(* apart. Each file is replaced atomically, but a replacement that reports *)
(* an error may have taken place (the error of the sync that follows it).  *)
(*                                                                         *)
(* Abstracted: the configuration is what the properties tell apart; a      *)
(* triple is the session that pasted it. The chats, the repositories and   *)
(* the port go the way of "extra". The check for an installation and the   *)
(* webhook secret of an App without one are left out.                      *)
(***************************************************************************)
EXTENDS Naturals, FiniteSets

CONSTANTS
  MaxSessions,  \* bound: sessions of config
  MaxBreaks,    \* bound: writes that report an error, and deaths
  Provider,     \* providers of models that need an API key
  Subscription, \* the provider that needs none
  NoKey,        \* no API key in its file
  Nothing       \* no such reading

ASSUME ConfigurationBounds ==
  /\ {MaxSessions, MaxBreaks} \subseteq Nat
  /\ Subscription \notin Provider /\ NoKey \notin Provider

Session == 1 .. MaxSessions
App == {"coder", "reviewer", "planner"}
Absent == 0
Original == MaxSessions + 1
Triple == {Absent, Original} \cup Session

Config == [kind : {"token", "app"}, provider : Provider \cup {Subscription}, extra : BOOLEAN]

VARIABLES
  config,       \* config.json
  triple,       \* per App, the credential file
  token,        \* the personal token's file exists
  keyOf,        \* the provider for which the API key's file was issued
  extraKey,     \* the key of the optional service exists
  editing,        \* per session, its next step
  change,        \* per session, what it was started for
  read,         \* per session, the configuration and the planner's file it read
  prior,        \* per session, the same as read before the commit
  booting,      \* the start: "off", "read" or "up"
  seen,         \* the configuration it read
  got,          \* the keys it read
  breaks

(* Remembered for the properties: sessions since whose reading of "prior"  *)
(* nobody else wrote and no restoring write failed.                        *)
VARIABLE undisturbed

startVars == <<booting, seen, got>>
configurationVars == <<config, triple, token, keyOf, extraKey, editing, change, read, prior,
                       startVars, breaks, undisturbed>>

-----------------------------------------------------------------------------

Reading == [config : Config, planner : Triple]
Ask == [provider : Provider \cup {Subscription, Nothing}, extra : BOOLEAN, rotate : App \cup {"none"}]

ConfigurationInit ==
  /\ token \in BOOLEAN
  /\ config \in {c \in Config : c.kind = (IF token THEN "token" ELSE "app") /\ ~c.extra}
  /\ triple = [a \in App |-> IF token THEN Absent ELSE Original]
  /\ keyOf = IF config.provider = Subscription THEN NoKey ELSE config.provider
  /\ extraKey = FALSE
  /\ editing = [s \in Session |-> "idle"]
  /\ change = [s \in Session |-> Nothing]
  /\ read = [s \in Session |-> Nothing] /\ prior = [s \in Session |-> Nothing]
  /\ booting = "off" /\ seen = Nothing /\ got = Nothing
  /\ breaks = 0 /\ undisturbed = {}

Advance(s, p) == editing' = [editing EXCEPT ![s] = p]

Breaks == breaks < MaxBreaks /\ breaks' = breaks + 1

managed == <<config, triple>>
keys == <<keyOf, extraKey>>
asks == <<change, read, prior>>

(* One file is replaced by a session; or the writing of it reports an      *)
(* error, and the file is the old one or the new one.                      *)
Replace(s, replaced, unchanged, to, otherwise) ==
  \/ replaced /\ Advance(s, to) /\ UNCHANGED breaks
  \/ (replaced \/ unchanged) /\ Advance(s, otherwise) /\ Breaks

(* A session that writes the configuration or an App's file disturbs the   *)
(* others.                                                                 *)
Disturbs(s) == undisturbed' = undisturbed \cap {s}

BeginSession(s, ask) ==
  /\ editing[s] = "idle" /\ \A t \in Session : t < s => editing[t] # "idle"
  /\ change' = [change EXCEPT ![s] = ask]
  /\ Advance(s, IF token THEN "oldConfig" ELSE "ready")
  /\ UNCHANGED <<managed, token, keys, read, prior, startVars, breaks, undisturbed>>

(* An answer, a check or the operator's review that ends the session.      *)
GiveUp(s) ==
  /\ editing[s] \in {"coder", "ready", "review"}
  /\ Advance(s, "ended")
  /\ UNCHANGED <<managed, token, keys, asks, startVars, breaks, undisturbed>>

-----------------------------------------------------------------------------
(* The cutover from the personal token to the three Apps.                  *)

ReadOldConfig(s) ==
  /\ editing[s] = "oldConfig"
  /\ read' = [read EXCEPT ![s] = [config |-> config, planner |-> Absent]]
  /\ Advance(s, "coder")
  /\ UNCHANGED <<managed, token, keys, change, prior, startVars, breaks, undisturbed>>

After(a) == CASE a = "coder" -> "reviewer" [] a = "reviewer" -> "planner" [] OTHER -> "retarget"

WriteApp(s, a) ==
  /\ editing[s] = a
  /\ Replace(s, triple' = [triple EXCEPT ![a] = s], UNCHANGED triple, After(a), "ended")
  /\ Disturbs(s)
  /\ UNCHANGED <<config, token, keys, asks, startVars>>

Retarget(s) ==
  /\ editing[s] = "retarget"
  /\ IF read[s].config.kind = "app"
       THEN Advance(s, "retire") /\ UNCHANGED <<config, breaks, undisturbed>>
       ELSE /\ Replace(s, config' = [read[s].config EXCEPT !.kind = "app"], UNCHANGED config,
                       "retire", "ended")
            /\ Disturbs(s)
  /\ UNCHANGED <<triple, token, keys, asks, startVars>>

Retire(s) ==
  /\ editing[s] = "retire"
  /\ token' = FALSE
  /\ Advance(s, "ready")
  /\ UNCHANGED <<managed, keys, asks, startVars, breaks, undisturbed>>

-----------------------------------------------------------------------------
(* The session proper.                                                     *)

ReadCurrent(s) ==
  /\ editing[s] = "ready"
  /\ config.kind = "app" /\ triple["planner"] # Absent
  /\ read' = [read EXCEPT ![s] = [config |-> config, planner |-> triple["planner"]]]
  /\ Advance(s, "review")
  /\ UNCHANGED <<managed, token, keys, change, prior, startVars, breaks, undisturbed>>

Chosen(s) == IF change[s].provider = Nothing THEN read[s].config.provider ELSE change[s].provider
NeedsApiKey(s) == change[s].provider \in Provider

(* The key of the optional service, when it is missing and is pasted.      *)
WriteExtraKey(s) ==
  /\ editing[s] = "review"
  /\ IF (change[s].extra \/ read[s].config.extra) /\ ~extraKey
       THEN \/ Replace(s, extraKey' = TRUE, UNCHANGED extraKey, "specialist", "ended")
            \/ Advance(s, "specialist") /\ UNCHANGED <<extraKey, breaks>>
       ELSE Advance(s, "specialist") /\ UNCHANGED <<extraKey, breaks>>
  /\ UNCHANGED <<managed, token, keyOf, asks, startVars, undisturbed>>

WriteSpecialist(s) ==
  /\ editing[s] = "specialist"
  /\ IF change[s].rotate \in {"coder", "reviewer"}
       THEN /\ Replace(s, triple' = [triple EXCEPT ![change[s].rotate] = s], UNCHANGED triple,
                       "key", "ended")
            /\ Disturbs(s)
       ELSE Advance(s, "key") /\ UNCHANGED <<triple, breaks, undisturbed>>
  /\ UNCHANGED <<config, token, keys, asks, startVars>>

(* Before the configuration that refers to it.                             *)
WriteModelKey(s) ==
  /\ editing[s] = "key"
  /\ IF NeedsApiKey(s)
       THEN Replace(s, keyOf' = change[s].provider, UNCHANGED keyOf, "prior", "ended")
       ELSE Advance(s, "prior") /\ UNCHANGED <<keyOf, breaks>>
  /\ UNCHANGED <<managed, token, extraKey, asks, startVars, undisturbed>>

(* The commit: the planner's file, then the configuration; an error brings *)
(* both back as they were read here.                                       *)
ReadPrior(s) ==
  /\ editing[s] = "prior"
  /\ prior' = [prior EXCEPT ![s] = [config |-> config, planner |-> triple["planner"]]]
  /\ undisturbed' = undisturbed \cup {s}
  /\ Advance(s, "credential")
  /\ UNCHANGED <<managed, token, keys, change, read, startVars, breaks>>

WriteCredential(s) ==
  /\ editing[s] = "credential"
  /\ Replace(s, triple' = [triple EXCEPT !["planner"] =
                             IF change[s].rotate = "planner" THEN s ELSE read[s].planner],
             UNCHANGED triple, "config", "undo")
  /\ Disturbs(s)
  /\ UNCHANGED <<config, token, keys, asks, startVars>>

NewConfig(s) ==
  [read[s].config EXCEPT !.provider = Chosen(s), !.extra = @ \/ change[s].extra]

WriteConfig(s) ==
  /\ editing[s] = "config"
  /\ Replace(s, config' = NewConfig(s), UNCHANGED config, "ended", "undo")
  /\ Disturbs(s)
  /\ UNCHANGED <<triple, token, keys, asks, startVars>>

(* Both are tried, whatever becomes of the other.                          *)
UndoConfig(s) ==
  /\ editing[s] = "undo"
  /\ \/ /\ config' = prior[s].config
        /\ Disturbs(s) /\ UNCHANGED breaks
     \/ /\ Breaks
        /\ config' \in {config, prior[s].config}
        /\ undisturbed' = {}
  /\ Advance(s, "undoCredential")
  /\ UNCHANGED <<triple, token, keys, asks, startVars>>

(* Faulty variant: only the configuration is restored.                     *)
KeepCredential(s) ==
  /\ editing[s] = "undoCredential"
  /\ Advance(s, "failed")
  /\ UNCHANGED <<managed, token, keys, asks, startVars, breaks, undisturbed>>

UndoCredential(s) ==
  /\ editing[s] = "undoCredential"
  /\ \/ /\ triple' = [triple EXCEPT !["planner"] = prior[s].planner]
        /\ Disturbs(s) /\ UNCHANGED breaks
     \/ /\ Breaks
        /\ triple' \in {triple, [triple EXCEPT !["planner"] = prior[s].planner]}
        /\ undisturbed' = {}
  /\ Advance(s, "failed")
  /\ UNCHANGED <<config, token, keys, asks, startVars>>

SessionDies(s) ==
  /\ editing[s] \notin {"idle", "ended", "failed", "dead"}
  /\ Breaks
  /\ Advance(s, "dead")
  /\ UNCHANGED <<managed, token, keys, asks, startVars, undisturbed>>

-----------------------------------------------------------------------------
(* start: the configuration is read, then the keys it calls for.           *)

StartReads ==
  /\ booting = "off"
  /\ config.kind = "app" /\ \A a \in App : triple[a] # Absent
  /\ seen' = config /\ booting' = "read"
  /\ UNCHANGED <<managed, token, keys, editing, asks, got, breaks, undisturbed>>

ModelKeyFits == seen.provider # Subscription => keyOf = seen.provider
ExtraKeyFits == seen.extra => extraKey

StartReadsKeys ==
  /\ booting = "read"
  /\ IF ModelKeyFits /\ ExtraKeyFits
       THEN booting' = "up" /\ got' = [model |-> keyOf, extra |-> extraKey]
              /\ UNCHANGED seen
       ELSE booting' = "off" /\ seen' = Nothing /\ UNCHANGED got
  /\ UNCHANGED <<managed, token, keys, editing, asks, breaks, undisturbed>>

StartStops ==
  /\ booting = "up" /\ booting' = "off" /\ seen' = Nothing /\ got' = Nothing
  /\ UNCHANGED <<managed, token, keys, editing, asks, breaks, undisturbed>>

SessionStep(s) ==
  \/ \E ask \in Ask : BeginSession(s, ask)
  \/ GiveUp(s) \/ ReadOldConfig(s) \/ (\E a \in App : WriteApp(s, a)) \/ Retarget(s) \/ Retire(s)
  \/ ReadCurrent(s) \/ WriteExtraKey(s) \/ WriteSpecialist(s) \/ WriteModelKey(s)
  \/ ReadPrior(s) \/ WriteCredential(s) \/ WriteConfig(s)
  \/ UndoConfig(s) \/ UndoCredential(s) \/ SessionDies(s)

ConfigurationNext ==
  (\E s \in Session : SessionStep(s)) \/ StartReads \/ StartReadsKeys \/ StartStops

ConfigurationSpec == ConfigurationInit /\ [][ConfigurationNext]_configurationVars

-----------------------------------------------------------------------------
(* Correctness.                                                            *)

(* Types; what a session restores was an installation with its Apps.       *)
ConfigurationTypeOK ==
  /\ config \in Config /\ triple \in [App -> Triple]
  /\ {token, extraKey} \subseteq BOOLEAN /\ keyOf \in Provider \cup {NoKey}
  /\ \A s \in Session : change[s] \in Ask \cup {Nothing} /\ {read[s], prior[s]} \subseteq Reading \cup {Nothing}
  /\ booting \in {"off", "read", "up"} /\ seen \in Config \cup {Nothing}
  /\ breaks \in 0 .. MaxBreaks /\ undisturbed \subseteq Session
  /\ \A s \in Session : prior[s] # Nothing => prior[s].config.kind = "app" /\ prior[s].planner # Absent

(* The personal token is removed only when the three Apps and the          *)
(* configuration that names them are in place, whatever died or failed     *)
(* before (migration.ts:230).                                              *)
RetiredMeansProvisioned == ~token => config.kind = "app" /\ \A a \in App : triple[a] # Absent

(* A configuration whose provider needs an API key has the file of it,     *)
(* also when the commit failed or died on the way (program.ts:618).        *)
KeyIsThere == config.provider # Subscription => keyOf # NoKey

(* A commit that reported an error and was undone left both files as they  *)
(* were (configuration.ts:115).                                            *)
FailedRestores ==
  \A s \in undisturbed :
    editing[s] = "failed" => config = prior[s].config /\ triple["planner"] = prior[s].planner

(* A runtime is up only with the keys its configuration calls for, also    *)
(* beside a session that changes them (lifecycle.ts:95).                   *)
UpWithItsKeys ==
  booting = "up" =>
    /\ seen.provider # Subscription => got.model = seen.provider
    /\ seen.extra => got.extra

(* Configuration and secrets, which live in different files, agree.        *)
KeysFitConfiguration ==
  /\ ConfigurationTypeOK
  /\ RetiredMeansProvisioned
  /\ KeyIsThere
  /\ FailedRestores
  /\ UpWithItsKeys
=============================================================================
