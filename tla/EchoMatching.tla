----------------------------- MODULE EchoMatching -----------------------------
(***************************************************************************)
(* How the WhatsApp account archives changes of a message (edits,          *)
(* reactions, revocations). The provider reports everybody's as updates,   *)
(* those of the account's own sends too: a send archives its change when   *)
(* it resolves and expects an echo with the same fingerprint, which the    *)
(* update handler then does not archive again. A fingerprint is a scope    *)
(* (the message and whose mark it is) and a value. The echo may come       *)
(* before the send resolves, later than a minute, or never; the sender may *)
(* also use another device.                                                *)
(*                                                                         *)
(* The archive orders changes by the time they carry: an update's is that  *)
(* of the change, a send's the moment it resolves. KeepScope is a faulty   *)
(* variant that nothing uses.                                              *)
(***************************************************************************)
EXTENDS Naturals, Sequences

CONSTANTS
  Change,   \* each happens once at most
  Own,      \* those this account sends
  ScopeOf, ValueOf

ASSUME EchoConstants == Own \subseteq Change

VARIABLES
  happened, \* the changes in the provider's order
  heard,    \* how many of them the provider has reported, or will never
  sending,  \* own changes whose send has not resolved
  expected, \* pendingMutationEchoes: of which change, sent when
  log,      \* the archived changes
  confused  \* history: scopes to which the archive's two known mistakes happened

echoVars == <<happened, heard, sending, expected, log, confused>>

Happened == {happened[i] : i \in 1..Len(happened)}

Scopes == {ScopeOf[m] : m \in Change}
SameMark(m, n) == ScopeOf[m] = ScopeOf[n] /\ ValueOf[m] = ValueOf[n]

EchoInit ==
  /\ happened = <<>> /\ heard = 0 /\ sending = {}
  /\ expected = {} /\ log = {} /\ confused = {}

(* A change reaches the provider; one send at a time. One that overtakes a *)
(* send of its scope will seem older than that.                            *)
Happen(m) ==
  /\ m \notin Happened
  /\ m \in Own => sending = {}
  /\ happened' = Append(happened, m)
  /\ sending' = IF m \in Own THEN sending \cup {m} ELSE sending
  /\ confused' = confused \cup {ScopeOf[n] : n \in {k \in sending : ScopeOf[k] = ScopeOf[m]}}
  /\ UNCHANGED <<heard, expected, log>>

Archive(m, time, by) == log' = log \cup {[change |-> m, time |-> time, by |-> by]}

(* The send resolves.                                                      *)
Resolve(m) ==
  /\ m \in sending
  /\ sending' = sending \ {m}
  /\ Archive(m, Len(happened), "send")
  /\ expected' = expected \cup {[of |-> m, at |-> Len(happened)]}
  /\ UNCHANGED <<happened, heard, confused>>

KeepScope(scope) == expected
Invalidate(scope) == {e \in expected : ScopeOf[e.of] # scope}

Earliest(entries) == {e \in entries : \A f \in entries : e.at <= f.at}
EchoesOf(m) == {e \in expected : SameMark(e.of, m)}

(* A change made elsewhere is taken for the echo of a send whose mark a    *)
(* later send has replaced.                                                *)
Mistaken(m, e) ==
  /\ m \notin Own
  /\ \E r \in log : /\ r.by = "send" /\ r.time > e.at
                    /\ ScopeOf[r.change] = ScopeOf[m] /\ ValueOf[r.change] # ValueOf[m]

(* The provider reports the next change: an expected echo is dropped, else *)
(* the change is archived and nothing of its scope is expected any longer. *)
HearEcho ==
  /\ heard < Len(happened) /\ heard' = heard + 1
  /\ LET m == happened[heard + 1] IN
     \E e \in Earliest(EchoesOf(m)) :
       /\ expected' = expected \ {e}
       /\ confused' = confused \cup (IF Mistaken(m, e) THEN {ScopeOf[m]} ELSE {})
  /\ UNCHANGED <<happened, sending, log>>

HearChange ==
  /\ heard < Len(happened) /\ heard' = heard + 1
  /\ LET m == happened[heard + 1] IN
     /\ EchoesOf(m) = {}
     /\ Archive(m, heard + 1, "update")
     /\ expected' = Invalidate(ScopeOf[m])
  /\ UNCHANGED <<happened, sending, confused>>

(* An own change the provider does not report.                             *)
SkipEcho ==
  /\ heard < Len(happened) /\ happened[heard + 1] \in Own
  /\ heard' = heard + 1
  /\ UNCHANGED <<happened, sending, expected, log, confused>>

(* A minute has passed since the oldest was sent.                          *)
ExpireEchoes ==
  /\ \E e \in Earliest(expected) : expected' = expected \ {e}
  /\ UNCHANGED <<happened, heard, sending, log, confused>>

EchoNext ==
  \/ \E m \in Change : Happen(m) \/ Resolve(m)
  \/ HearEcho \/ HearChange \/ SkipEcho \/ ExpireEchoes

-----------------------------------------------------------------------------
(* Once everything has been reported or sent, the latest archived change of*)
(* a scope has the value the chat really shows, although echoes are        *)
(* dropped: no change of somebody else is taken for an echo it is not. The *)
(* exceptions are the archive's two mistakes: a scope that was changed     *)
(* again before a send resolved, which the archive then dates too late;    *)
(* and a change from another device that repeats a send whose echo never   *)
(* came, although the account has sent something else since (only an       *)
(* update withdraws what is expected of a scope, a send does not: 314).    *)
LastOf(s, i) == ScopeOf[happened[i]] = s /\ \A j \in 1..Len(happened) : ScopeOf[happened[j]] = s => j <= i
Shows(s, value) ==
  \E r \in log : /\ ScopeOf[r.change] = s /\ ValueOf[r.change] = value
                /\ \A q \in log : ScopeOf[q.change] = s => q.time <= r.time

ArchiveFollowsChat ==
  (heard = Len(happened) /\ sending = {}) =>
    \A i \in 1..Len(happened), s \in Scopes \ confused :
      LastOf(s, i) => Shows(s, ValueOf[happened[i]])
=============================================================================
