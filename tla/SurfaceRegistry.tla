---------------------------- MODULE SurfaceRegistry ----------------------------
(***************************************************************************)
(* Where the coworker may take part: the managed chats of the              *)
(* configuration, the gate of the running process, and the Surfaces of the *)
(* paired account (surfaces/registry.ts, coalescer/chat-gate.ts, the boot  *)
(* and reload of whatsapp-runtime.ts, authorization-reload.ts, app.ts).    *)
(*                                                                         *)
(* A Surface is bound because its chat is configured, or because the Brain *)
(* opened a direct chat with a person it knows, for a Prompt. It is bound  *)
(* in one transaction and the Prompt recorded in the next, without an      *)
(* await between: only the death of the process comes there. The operator  *)
(* edits the configuration and asks for a reload at any time, and pairs    *)
(* another account while the process is down. A reload reads the file and  *)
(* applies it later.                                                       *)
(*                                                                         *)
(* A Surface is the pair of account and chat its id stands for. What the   *)
(* Batch and the evidence of a Prompt must be is left out.                 *)
(*                                                                         *)
(* RetireAll is a faulty variant that nothing uses.                        *)
(***************************************************************************)
EXTENDS Naturals, FiniteSets

CONSTANTS
  Account,     \* accounts that may be paired
  SurfaceChat, \* chats
  Person,      \* the chats that are a person's, not a group's
  MaxFiles,    \* bounds the edits of the configuration and the pairings
  MaxReads,    \* bounds the reloads of one process
  MaxStarts,   \* bounds the processes
  NoAccount,
  NoChat

ASSUME SurfaceConstants ==
  /\ Person \subseteq SurfaceChat
  /\ {MaxFiles, MaxReads, MaxStarts} \subseteq Nat
  /\ NoAccount \notin Account /\ NoChat \notin SurfaceChat

VARIABLES
  managed,   \* durable: managedChats of the configuration file
  paired,    \* durable: the account of the session store
  binding,   \* durable: surface_bindings, "none", "retired", or the kind of an active one
  owed,      \* durable: the Surfaces of Prompt Effects that are not delivered
  process,   \* down, booting (the server not bound yet), pairing, online
  current,   \* currentManagedChats, the set in the gate
  account,   \* authenticatedJid
  reading,   \* what each reload in flight has read, {} without one
  opening,   \* the direct chat whose Surface was bound a moment ago for a Prompt
  latest,    \* history: what the process read last
  stale,     \* history: a reload came before the runtime, or beside another one
  earned,    \* history: active Surfaces for which a Prompt was recorded
  interrupted, \* history: Surfaces bound when the process died before the Prompt
  withdrawn, \* history: Surfaces the operator has taken away, until he gives them back and
             \* no reload in flight has read otherwise; and those a stale reload retired
  files,     \* edits and pairings so far
  starts     \* processes so far

durableVars == <<managed, paired, binding, owed>>
processVars == <<process, current, account, reading, opening>>
surfaceVars ==
  <<durableVars, processVars, latest, stale, earned, interrupted, withdrawn, files, starts>>

Binding == Account \X SurfaceChat
Active(s) == binding[s] \in {"configured", "direct"}
InFlight == {n \in DOMAIN reading : reading[n] # {}}

SurfaceInit ==
  /\ managed \in (SUBSET SurfaceChat) \ {{}}
  /\ paired \in Account
  /\ binding = [s \in Binding |-> "none"]
  /\ owed = {}
  /\ process = "down" /\ current = {} /\ account = NoAccount
  /\ reading = [n \in 1..MaxReads |-> {}]
  /\ opening = NoChat
  /\ latest = {} /\ stale = FALSE
  /\ earned = {} /\ interrupted = {} /\ withdrawn = {}
  /\ files = 0 /\ starts = 0

-----------------------------------------------------------------------------
(* The operator.                                                           *)

(* A configuration without a managed chat is refused by its schema.        *)
EditManaged(chats) ==
  /\ files < MaxFiles
  /\ files' = files + 1
  /\ chats # managed /\ chats # {}
  /\ managed' = chats
  /\ withdrawn' = withdrawn \cup (Account \X (managed \ chats))
  /\ UNCHANGED <<paired, binding, owed, processVars, latest, stale, earned, interrupted, starts>>

PairAnother(a) ==
  /\ files < MaxFiles
  /\ files' = files + 1
  /\ process = "down"
  /\ a # paired
  /\ paired' = a
  /\ withdrawn' = withdrawn \cup ({paired} \X SurfaceChat)
  /\ UNCHANGED <<managed, binding, owed, processVars, latest, stale, earned, interrupted, starts>>

-----------------------------------------------------------------------------
(* The registry.                                                           *)

(* activateConfigured: every active binding but the account's direct ones  *)
(* is retired, and those of the chats are bound, one that was direct too.  *)
RetireAll(a, s) == Active(s)
Retires(a, s) == binding[s] = "configured" \/ (Active(s) /\ s[1] # a)

ActivateConfigured(a, chats) ==
  /\ binding' = [s \in Binding |->
       IF s \in {a} \X chats THEN "configured"
       ELSE IF Retires(a, s) THEN "retired" ELSE binding[s]]
  /\ earned' = {s \in earned : binding'[s] \in {"configured", "direct"}}
  /\ LET back == {a} \X {c \in chats \cap managed :
                        \A n \in 1..MaxReads : reading'[n] # {} => c \in reading'[n]}
         astray == IF stale' THEN {s \in Binding : Active(s) /\ binding'[s] = "retired"} ELSE {}
     IN  withdrawn' = (withdrawn \ back) \cup astray

-----------------------------------------------------------------------------
(* The process.                                                            *)

StartProcess ==
  /\ process = "down"
  /\ starts < MaxStarts
  /\ starts' = starts + 1
  /\ process' = "booting"
  /\ current' = managed /\ latest' = managed
  /\ stale' = FALSE
  /\ UNCHANGED <<durableVars, account, reading, opening, earned, interrupted, withdrawn, files>>

(* The server is bound, and the WhatsApp runtime starts with what the boot *)
(* has read.                                                               *)
StartWhatsApp ==
  /\ process = "booting"
  /\ process' = "pairing"
  /\ UNCHANGED <<durableVars, current, account, reading, opening, latest, stale, earned,
                 interrupted, withdrawn, files, starts>>

GoesOnline ==
  /\ process = "pairing"
  /\ process' = "online"
  /\ account' = paired
  /\ UNCHANGED <<managed, paired, owed, current, reading, opening, latest, stale, interrupted,
                 files, starts>>
  /\ ActivateConfigured(paired, current)

(* SIGHUP: the file is read; until it is, the loop goes on.                *)
ReloadReads(n) ==
  /\ process # "down" /\ opening = NoChat
  /\ reading[n] = {}
  /\ \A k \in 1..(n - 1) : reading[k] # {}
  /\ reading' = [reading EXCEPT ![n] = managed]
  /\ latest' = managed
  /\ stale' = (stale \/ InFlight # {})
  /\ UNCHANGED <<durableVars, process, current, account, opening, earned, interrupted, withdrawn,
                 files, starts>>

(* What was read is applied: to nothing, before the WhatsApp runtime is    *)
(* there, and to the gate alone before the account is online.              *)
ReloadApplies(n) ==
  /\ opening = NoChat
  /\ reading[n] # {}
  /\ reading' = [reading EXCEPT ![n] = {}]
  /\ IF process = "booting"
     THEN stale' = TRUE /\ UNCHANGED current
     ELSE current' = reading[n] /\ UNCHANGED stale
  /\ IF process = "online"
     THEN ActivateConfigured(account, reading[n])
     ELSE UNCHANGED <<binding, earned, withdrawn>>
  /\ UNCHANGED <<managed, paired, owed, process, account, opening, latest, interrupted, files, starts>>

(* The process ends, with whatever it was doing.                           *)
StopProcess ==
  /\ process # "down"
  /\ process' = "down" /\ current' = {} /\ account' = NoAccount
  /\ reading' = [n \in 1..MaxReads |-> {}]
  /\ opening' = NoChat
  /\ interrupted' = IF opening = NoChat THEN interrupted
                    ELSE interrupted \cup {<<account, opening>>}
  /\ UNCHANGED <<durableVars, latest, stale, earned, withdrawn, files, starts>>

-----------------------------------------------------------------------------
(* Prompts.                                                                *)

(* A Prompt for a Surface that is bound, by its id or by the entity.       *)
PromptSurface(s) ==
  /\ process = "online" /\ opening = NoChat
  /\ Active(s)
  /\ owed' = owed \cup {s}
  /\ earned' = earned \cup {s}
  /\ UNCHANGED <<managed, paired, binding, processVars, latest, stale, interrupted, withdrawn,
                 files, starts>>

(* A Prompt for a person whose direct chat is not bound binds it first ... *)
OpenDirect(c) ==
  /\ process = "online" /\ opening = NoChat
  /\ c \in Person
  /\ ~Active(<<account, c>>)
  /\ binding' = [binding EXCEPT ![<<account, c>>] = "direct"]
  /\ opening' = c
  /\ UNCHANGED <<managed, paired, owed, process, current, account, reading, latest, stale, earned,
                 interrupted, withdrawn, files, starts>>

(* ... and is recorded, *)
DirectRecorded ==
  /\ opening # NoChat
  /\ opening' = NoChat
  /\ owed' = owed \cup {<<account, opening>>}
  /\ earned' = earned \cup {<<account, opening>>}
  /\ withdrawn' = IF InFlight = {} THEN withdrawn \ {<<account, opening>>} ELSE withdrawn
  /\ UNCHANGED <<managed, paired, binding, process, current, account, reading, latest, stale,
                 interrupted, files, starts>>

(* ... or refused, which takes the Surface back.                           *)
DirectRefused ==
  /\ opening # NoChat
  /\ opening' = NoChat
  /\ binding' = [binding EXCEPT ![<<account, opening>>] = IF @ = "direct" THEN "retired" ELSE @]
  /\ UNCHANGED <<managed, paired, owed, process, current, account, reading, latest, stale, earned,
                 interrupted, withdrawn, files, starts>>

(* A Prompt is delivered to the chat its Surface is bound to, at once or   *)
(* when a boot recovers it; without a binding it waits.                    *)
DeliverPrompt(s) ==
  /\ process = "online" /\ opening = NoChat
  /\ s \in owed
  /\ Active(s)
  /\ owed' = owed \ {s}
  /\ UNCHANGED <<managed, paired, binding, processVars, latest, stale, earned, interrupted,
                 withdrawn, files, starts>>

SurfaceNext ==
  \/ \E chats \in SUBSET SurfaceChat : EditManaged(chats)
  \/ \E a \in Account : PairAnother(a)
  \/ StartProcess \/ StartWhatsApp \/ GoesOnline \/ StopProcess
  \/ \E n \in 1..MaxReads : ReloadReads(n) \/ ReloadApplies(n)
  \/ \E s \in Binding : PromptSurface(s) \/ DeliverPrompt(s)
  \/ \E c \in SurfaceChat : OpenDirect(c)
  \/ DirectRecorded \/ DirectRefused

SurfaceSpec == SurfaceInit /\ [][SurfaceNext]_surfaceVars

-----------------------------------------------------------------------------
(* Correctness.                                                            *)

SurfaceTypeOK ==
  /\ managed \in (SUBSET SurfaceChat) \ {{}}
  /\ paired \in Account
  /\ binding \in [Binding -> {"none", "retired", "configured", "direct"}]
  /\ owed \cup earned \cup interrupted \cup withdrawn \subseteq Binding
  /\ process \in {"down", "booting", "pairing", "online"}
  /\ current \subseteq SurfaceChat
  /\ account \in Account \cup {NoAccount}
  /\ reading \in [1..MaxReads -> SUBSET SurfaceChat]
  /\ opening \in Person \cup {NoChat}

(* Outbound and inbound close and open together, whatever was reloaded,    *)
(* opened or paired before: once online, the configured Surfaces are those *)
(* of the chats in the gate, and no other account has an active one        *)
(* (whatsapp-runtime.ts:645, "in lockstep").                               *)
GateAndSurfacesAgree ==
  process = "online" =>
    /\ {s \in Binding : binding[s] = "configured"} = {account} \X current
    /\ \A s \in Binding : Active(s) => s[1] = account

(* A direct chat is open because a Prompt for it was recorded since it was *)
(* opened (tools.ts:133, "no active binding survives without an accepted   *)
(* Prompt Effect"), unless the process died between the two.               *)
DirectIsEarned ==
  \A s \in Binding :
    binding[s] = "direct" /\ s # <<account, opening>> => s \in earned \cup interrupted

(* A Prompt that waits for its delivery still has its Surface, across      *)
(* restarts and reloads, unless the operator took the chat or the account  *)
(* away (registry.ts:75).                                                  *)
PromptKeepsSurface == \A s \in owed : Active(s) \/ s \in withdrawn

(* The gate holds what was read last, also when a reload came while the    *)
(* account was pairing (whatsapp-runtime.ts:417), unless it came before    *)
(* the WhatsApp runtime or overlapped another reload.                      *)
LastReloadHolds ==
  process # "down" /\ InFlight = {} /\ ~stale => current = latest

(* Where the coworker takes part, in one property.                         *)
ParticipationIsGranted ==
  SurfaceTypeOK /\ GateAndSurfacesAgree /\ DirectIsEarned /\ PromptKeepsSurface /\ LastReloadHolds
===============================================================================
