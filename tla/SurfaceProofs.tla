---------------------------- MODULE SurfaceProofs ----------------------------
(***************************************************************************)
(* Where the coworker takes part, what the WhatsApp account says and       *)
(* archives, and what the operator hears of the Speaker's turns, for any   *)
(* number of accounts, chats, edits, reloads, processes, callers, batches, *)
(* changes, turns and tracked dispatches.                                  *)
(*                                                                         *)
(* That a Prompt keeps its Surface needs what the operator grants: a       *)
(* configured Surface that he has not taken away is one of a managed chat  *)
(* of the paired account, and what a reload in flight or the gate of a     *)
(* process that starts still holds beyond the managed chats, he has taken  *)
(* away (OperatorGrants). As long as no reload is stale, such a Surface is *)
(* in every reading that may still be applied (FreshReads), so applying it *)
(* retires none; a stale one may, and what it retires counts as withdrawn. *)
(*                                                                         *)
(* That the archive shows a scope's last change needs the order of what is *)
(* archived: sends come before the last change or are it (SendsPrecede),   *)
(* and nothing of its scope was reported since an expected echo was sent   *)
(* (Awaited). A change taken for an echo is then the newest archived value *)
(* already, unless a later send had replaced it (Mistaken). That waiters   *)
(* are told the truth needs which batch is the chain's first one while the *)
(* archive has not settled (ChainHolds), and that one caller runs what the *)
(* others wait for (OneOwner).                                             *)
(*                                                                         *)
(* That the operator hears of a turn what happened needs, of every turn,   *)
(* how what the correlator holds of it (active, buffered, announced,       *)
(* settled, ignored, evicted) fits how far Flue has run it (TurnStands),   *)
(* that a chat's key is its running turn (KeysStand), that a chat's turns  *)
(* are received in the order in which they run (QueuesStand, LastComing),  *)
(* and, until the lookup is installed, that the running turn of a chat is  *)
(* the last one recovered (Starting). The replay of a turn's observations  *)
(* and the recovery of all turns are recursive functions: at most two      *)
(* observations are buffered, and the recovery is followed turn by turn.   *)
(***************************************************************************)
EXTENDS SurfaceRegistry, WhatsAppAccount, TurnTracking, NaturalsInduction, WellFoundedInduction, TLAPS

Gone(c) == \A a \in Account : <<a, c>> \in withdrawn
IsStarting == process \in {"booting", "pairing"}

(* One reading at most is in flight while none is stale, the last one.     *)
OneRead ==
  ~stale =>
    /\ \A n \in 1..MaxReads : reading[n] # {} => reading[n] = latest
    /\ \A m, n \in 1..MaxReads : reading[m] # {} /\ reading[n] # {} => m = n
    /\ process # "down" /\ (\A n \in 1..MaxReads : reading[n] = {}) => current = latest

ProcessStands ==
  /\ process = "down" => \A n \in 1..MaxReads : reading[n] = {}
  /\ process = "online" => account = paired
  /\ opening # NoChat =>
       /\ process = "online"
       /\ binding[<<account, opening>>] = "direct"
       /\ <<account, opening>> \in owed => <<account, opening>> \in withdrawn

OperatorGrants ==
  /\ \A s \in Binding : Active(s) /\ s \notin withdrawn => s[1] = paired
  /\ \A s \in Binding : binding[s] = "configured" /\ s \notin withdrawn => s[2] \in managed
  /\ \A n \in 1..MaxReads : \A c \in reading[n] : c \notin managed => Gone(c)
  /\ IsStarting => \A c \in current : c \notin managed => Gone(c)

FreshReads ==
  ~stale =>
    /\ \A s \in Binding : binding[s] = "configured" /\ s \notin withdrawn =>
         \A n \in 1..MaxReads : reading[n] # {} => s[2] \in reading[n]
    /\ IsStarting => \A s \in Binding :
         binding[s] = "configured" /\ s \notin withdrawn => s[2] \in current
    /\ IsStarting => \A n \in 1..MaxReads : reading[n] # {} =>
         \A c \in current : c \notin reading[n] => Gone(c)

SurfaceInv ==
  /\ SurfaceTypeOK
  /\ GateAndSurfacesAgree
  /\ DirectIsEarned
  /\ PromptKeepsSurface
  /\ ProcessStands
  /\ OperatorGrants
  /\ FreshReads
  /\ OneRead

-----------------------------------------------------------------------------

(* At first nothing is bound, owed or taken away.                          *)
LEMMA SurfaceBegins == SurfaceInit => SurfaceInv
<1> SUFFICES ASSUME SurfaceInit PROVE SurfaceInv OBVIOUS
<1> USE DEF SurfaceInit
<1>1. SurfaceTypeOK BY DEF SurfaceTypeOK, Binding
<1>2. GateAndSurfacesAgree /\ DirectIsEarned /\ PromptKeepsSurface
  BY DEF GateAndSurfacesAgree, DirectIsEarned, PromptKeepsSurface
<1>3. ProcessStands BY DEF ProcessStands
<1>4. OperatorGrants BY DEF OperatorGrants, Active, IsStarting
<1>5. FreshReads BY DEF FreshReads, IsStarting
<1>6. OneRead BY DEF OneRead
<1> QED BY <1>1, <1>2, <1>3, <1>4, <1>5, <1>6 DEF SurfaceInv

(* A reload or the account coming online: the Surfaces afterwards.         *)
LEMMA ActivationBinds ==
  ASSUME SurfaceInv, NEW a \in Account, NEW chats \in SUBSET SurfaceChat,
         opening = NoChat, opening' = NoChat,
         reading' \in [1..MaxReads -> SUBSET SurfaceChat],
         ActivateConfigured(a, chats)
  PROVE  /\ binding' \in [Binding -> {"none", "retired", "configured", "direct"}]
         /\ earned' \cup withdrawn' \subseteq Binding
         /\ {s \in Binding : binding'[s] = "configured"} = {a} \X chats
         /\ \A s \in Binding : binding'[s] \in {"configured", "direct"} => s[1] = a
         /\ \A s \in Binding : binding'[s] = "direct" => s \in earned' \cup interrupted
         /\ \A s \in Binding : binding'[s] \in {"configured", "direct"} =>
              s \in {a} \X chats \/ (binding[s] = "direct" /\ s[1] = a)
         /\ \A s \in Binding : s \in {a} \X chats \/ (binding[s] = "direct" /\ s[1] = a) =>
              binding'[s] \in {"configured", "direct"}
         /\ \A s \in Binding : s \in withdrawn /\ s \notin withdrawn' =>
              /\ s \in {a} \X chats /\ s[2] \in managed
              /\ \A n \in 1..MaxReads : reading'[n] # {} => s[2] \in reading'[n]
         /\ stale' => \A s \in Binding : Active(s) =>
              binding'[s] \in {"configured", "direct"} \/ s \in withdrawn'
<1> USE DEF ActivateConfigured
<1>1. SurfaceTypeOK /\ DirectIsEarned BY DEF SurfaceInv
<1>2. \A s \in Binding : binding'[s] = IF s \in {a} \X chats THEN "configured"
                                       ELSE IF Retires(a, s) THEN "retired" ELSE binding[s]
  OBVIOUS
<1>3. binding' \in [Binding -> {"none", "retired", "configured", "direct"}]
  BY <1>1 DEF SurfaceTypeOK
<1>4. earned' \cup withdrawn' \subseteq Binding
  BY <1>1 DEF SurfaceTypeOK
<1>5. {a} \X chats \subseteq Binding BY DEF Binding
<1>6. \A s \in Binding : binding'[s] = "configured" <=> s \in {a} \X chats
  BY <1>2 DEF Retires
<1>7. {s \in Binding : binding'[s] = "configured"} = {a} \X chats
  BY <1>5, <1>6
<1>8. \A s \in Binding : binding'[s] \in {"configured", "direct"} =>
        s \in {a} \X chats \/ (binding[s] = "direct" /\ s[1] = a /\ binding'[s] = "direct")
  BY <1>2 DEF Retires, Active
<1>9. \A s \in Binding : binding'[s] \in {"configured", "direct"} => s[1] = a
  BY <1>8
<1>10. \A s \in Binding : binding'[s] = "direct" => s \in earned' \cup interrupted
  <2> SUFFICES ASSUME NEW s \in Binding, binding'[s] = "direct" PROVE s \in earned' \cup interrupted
    OBVIOUS
  <2>1. binding[s] = "direct" BY <1>6, <1>8
  <2>2. s # <<account, opening>>
    BY SurfaceConstants DEF Binding
  <2>3. s \in earned \cup interrupted BY <1>1, <2>1, <2>2 DEF DirectIsEarned
  <2> QED BY <2>3
<1>11. \A s \in Binding : s \in withdrawn /\ s \notin withdrawn' =>
         /\ s \in {a} \X chats /\ s[2] \in managed
         /\ \A n \in 1..MaxReads : reading'[n] # {} => s[2] \in reading'[n]
  OBVIOUS
<1>12. stale' => \A s \in Binding : Active(s) =>
         binding'[s] \in {"configured", "direct"} \/ s \in withdrawn'
  <2> SUFFICES ASSUME stale', NEW s \in Binding, Active(s),
                      ~(binding'[s] \in {"configured", "direct"})
               PROVE  s \in withdrawn'
    OBVIOUS
  <2>1. binding'[s] = "retired" BY <1>2 DEF Active
  <2> QED BY <2>1
<1>13. \A s \in Binding : s \in {a} \X chats \/ (binding[s] = "direct" /\ s[1] = a) =>
         binding'[s] \in {"configured", "direct"}
  BY <1>2 DEF Retires
<1> QED BY <1>3, <1>4, <1>7, <1>8, <1>9, <1>10, <1>11, <1>12, <1>13

(* Such a step keeps the invariant, when the chats it applies hold what    *)
(* the operator grants.                                                    *)
LEMMA ActivationKeeps ==
  ASSUME SurfaceInv, NEW chats \in SUBSET SurfaceChat,
         opening = NoChat, opening' = NoChat,
         reading' \in [1..MaxReads -> SUBSET SurfaceChat],
         ActivateConfigured(paired, chats),
         process' = "online", account' = paired, current' = chats,
         UNCHANGED <<managed, paired, owed, interrupted>>,
         \A n \in 1..MaxReads : \A c \in reading'[n] : c \notin managed => Gone(c),
         \A c \in chats : c \notin managed => Gone(c),
         ~stale' => \A s \in Binding :
           binding[s] = "configured" /\ s \notin withdrawn => s[2] \in chats,
         ~stale' => \A n \in 1..MaxReads : reading'[n] # {} =>
           \A c \in chats : c \notin reading'[n] => Gone(c),
         OneRead'
  PROVE  SurfaceInv'
<1>t. SurfaceTypeOK /\ PromptKeepsSurface /\ OperatorGrants BY DEF SurfaceInv
<1>p. paired \in Account BY <1>t DEF SurfaceTypeOK
<1>a. /\ binding' \in [Binding -> {"none", "retired", "configured", "direct"}]
      /\ earned' \cup withdrawn' \subseteq Binding
      /\ {s \in Binding : binding'[s] = "configured"} = {paired} \X chats
      /\ \A s \in Binding : binding'[s] \in {"configured", "direct"} => s[1] = paired
      /\ \A s \in Binding : binding'[s] = "direct" => s \in earned' \cup interrupted
      /\ \A s \in Binding : s \in {paired} \X chats \/ (binding[s] = "direct" /\ s[1] = paired) =>
           binding'[s] \in {"configured", "direct"}
      /\ \A s \in Binding : s \in withdrawn /\ s \notin withdrawn' =>
           /\ s \in {paired} \X chats /\ s[2] \in managed
           /\ \A n \in 1..MaxReads : reading'[n] # {} => s[2] \in reading'[n]
      /\ stale' => \A s \in Binding : Active(s) =>
           binding'[s] \in {"configured", "direct"} \/ s \in withdrawn'
  BY <1>p, ActivationBinds
<1>1. SurfaceTypeOK'
  BY <1>t, <1>a DEF SurfaceTypeOK
<1>2. GateAndSurfacesAgree'
  BY <1>a DEF GateAndSurfacesAgree, Active
<1>3. DirectIsEarned'
  BY <1>a DEF DirectIsEarned
<1>4. PromptKeepsSurface'
  <2> SUFFICES ASSUME NEW s \in owed', s \notin withdrawn' PROVE Active(s)'
    BY DEF PromptKeepsSurface
  <2>1. s \in Binding /\ s \in owed BY <1>t DEF SurfaceTypeOK
  <2>2. CASE s \in withdrawn
    BY <2>1, <2>2, <1>a DEF Active
  <2>3. CASE s \notin withdrawn
    <3>1. Active(s) BY <2>1, <2>3, <1>t DEF PromptKeepsSurface
    <3>2. CASE stale' BY <3>1, <3>2, <2>1, <1>a DEF Active
    <3>3. CASE ~stale'
      <4>1. s[1] = paired BY <3>1, <2>1, <2>3, <1>t DEF OperatorGrants
      <4>2. CASE binding[s] = "direct" BY <4>1, <4>2, <2>1, <1>a DEF Active
      <4>3. CASE binding[s] = "configured"
        <5>1. s[2] \in chats BY <4>3, <3>3, <2>1, <2>3
        <5>2. s \in {paired} \X chats BY <5>1, <4>1, <2>1 DEF Binding
        <5> QED BY <5>2, <2>1, <1>a DEF Active
      <4> QED BY <3>1, <4>2, <4>3 DEF Active
    <3> QED BY <3>2, <3>3
  <2> QED BY <2>2, <2>3
<1>5. ProcessStands' BY DEF ProcessStands
<1>6. \A c \in SurfaceChat : c \notin managed /\ Gone(c) => Gone(c)'
  <2> SUFFICES ASSUME NEW c \in SurfaceChat, c \notin managed, Gone(c), NEW b \in Account
               PROVE  <<b, c>> \in withdrawn'
    BY DEF Gone
  <2>1. <<b, c>> \in Binding /\ <<b, c>> \in withdrawn BY DEF Gone, Binding
  <2> QED BY <2>1, <1>a
<1>7. OperatorGrants'
  <2>1. \A s \in Binding : Active(s)' => s[1] = paired'
    BY <1>a DEF Active
  <2>2. ASSUME NEW s \in Binding, binding'[s] = "configured", s \notin withdrawn'
        PROVE  s[2] \in managed'
    <3>1. s[2] \in chats /\ s[1] \in Account /\ s = <<s[1], s[2]>> BY <2>2, <1>a DEF Binding
    <3>2. CASE s \in withdrawn BY <3>2, <2>2, <1>a
    <3>3. CASE s \notin withdrawn BY <3>1, <3>3 DEF Gone
    <3> QED BY <3>2, <3>3
  <2>3. ASSUME NEW n \in 1..MaxReads, NEW c \in reading'[n], c \notin managed'
        PROVE  Gone(c)'
    BY <2>3, <1>6
  <2>4. ~IsStarting' BY DEF IsStarting
  <2> QED BY <2>1, <2>2, <2>3, <2>4 DEF OperatorGrants
<1>8. FreshReads'
  <2>1. ~IsStarting' BY DEF IsStarting
  <2>2. ASSUME ~stale', NEW s \in Binding, binding'[s] = "configured", s \notin withdrawn',
               NEW n \in 1..MaxReads, reading'[n] # {}
        PROVE  s[2] \in reading'[n]
    <3>1. s[2] \in chats /\ s[1] \in Account /\ s = <<s[1], s[2]>> BY <2>2, <1>a DEF Binding
    <3>2. CASE s \in withdrawn BY <3>2, <2>2, <1>a
    <3>3. CASE s \notin withdrawn BY <3>1, <3>3, <2>2 DEF Gone
    <3> QED BY <3>2, <3>3
  <2> QED BY <2>1, <2>2 DEF FreshReads
<1> QED BY <1>1, <1>2, <1>3, <1>4, <1>5, <1>7, <1>8 DEF SurfaceInv

-----------------------------------------------------------------------------
(* The operator. What he takes away from a chat or an account is withdrawn *)
(* as he does it.                                                          *)
LEMMA OperatorKeeps ==
  ASSUME SurfaceInv,
         \/ \E chats \in SUBSET SurfaceChat : EditManaged(chats)
         \/ \E a \in Account : PairAnother(a)
  PROVE  SurfaceInv'
<1>t. /\ SurfaceTypeOK /\ GateAndSurfacesAgree /\ DirectIsEarned /\ PromptKeepsSurface
      /\ ProcessStands /\ OperatorGrants /\ FreshReads /\ OneRead
  BY DEF SurfaceInv
<1>1. ASSUME NEW chats \in SUBSET SurfaceChat, EditManaged(chats) PROVE SurfaceInv'
  <2> USE <1>1 DEF EditManaged, processVars
  <2>0. managed \subseteq SurfaceChat /\ withdrawn \subseteq Binding BY <1>t DEF SurfaceTypeOK
  <2>1. SurfaceTypeOK'
    <3>1. withdrawn' \subseteq Binding BY <2>0 DEF Binding
    <3> QED BY <1>t, <3>1 DEF SurfaceTypeOK
  <2>2. GateAndSurfacesAgree' BY <1>t DEF GateAndSurfacesAgree, Active
  <2>3. DirectIsEarned' BY <1>t DEF DirectIsEarned
  <2>4. PromptKeepsSurface' BY <1>t DEF PromptKeepsSurface, Active
  <2>5. ProcessStands' BY <1>t DEF ProcessStands
  <2>6. OperatorGrants'
    <3>1. \A s \in Binding : Active(s)' /\ s \notin withdrawn' => s[1] = paired'
      BY <1>t DEF OperatorGrants, Active
    <3>2. \A s \in Binding : binding'[s] = "configured" /\ s \notin withdrawn' => s[2] \in managed'
      BY <1>t DEF OperatorGrants, Binding
    <3>3. \A c \in SurfaceChat : c \notin managed' /\ (c \notin managed => Gone(c)) => Gone(c)'
      BY DEF Gone
    <3>4. \A n \in 1..MaxReads : reading[n] \subseteq SurfaceChat BY <1>t DEF SurfaceTypeOK
    <3>5. current \subseteq SurfaceChat BY <1>t DEF SurfaceTypeOK
    <3>6. \A n \in 1..MaxReads : \A c \in reading'[n] : c \notin managed' => Gone(c)'
      BY <1>t, <3>3, <3>4 DEF OperatorGrants
    <3>7. IsStarting' => \A c \in current' : c \notin managed' => Gone(c)'
      BY <1>t, <3>3, <3>5 DEF OperatorGrants, IsStarting
    <3> QED BY <3>1, <3>2, <3>6, <3>7 DEF OperatorGrants
  <2>7. FreshReads'
    BY <1>t DEF FreshReads, IsStarting, Gone
  <2>8. OneRead' BY <1>t DEF OneRead
  <2> QED BY <2>1, <2>2, <2>3, <2>4, <2>5, <2>6, <2>7, <2>8 DEF SurfaceInv
<1>2. ASSUME NEW a \in Account, PairAnother(a) PROVE SurfaceInv'
  <2> USE <1>2 DEF PairAnother, processVars
  <2>0. paired \in Account /\ withdrawn \subseteq Binding BY <1>t DEF SurfaceTypeOK
  <2>1. SurfaceTypeOK'
    <3>1. withdrawn' \subseteq Binding BY <2>0 DEF Binding
    <3> QED BY <1>t, <3>1 DEF SurfaceTypeOK
  <2>2. GateAndSurfacesAgree' BY <1>t DEF GateAndSurfacesAgree, Active
  <2>3. DirectIsEarned' BY <1>t DEF DirectIsEarned
  <2>4. PromptKeepsSurface' BY <1>t DEF PromptKeepsSurface, Active
  <2>5. ProcessStands' BY <1>t DEF ProcessStands
  <2>6. OperatorGrants'
    <3>1. \A s \in Binding : Active(s)' /\ s \notin withdrawn' => s[1] = paired'
      BY <1>t DEF OperatorGrants, Active, Binding
    <3>2. \A s \in Binding : binding'[s] = "configured" /\ s \notin withdrawn' => s[2] \in managed'
      BY <1>t DEF OperatorGrants
    <3>3. \A n \in 1..MaxReads : \A c \in reading'[n] : c \notin managed' => Gone(c)'
      BY <1>t DEF OperatorGrants, Gone
    <3>4. ~IsStarting' BY DEF IsStarting
    <3> QED BY <3>1, <3>2, <3>3, <3>4 DEF OperatorGrants
  <2>7. FreshReads' BY <1>t DEF FreshReads, IsStarting, Gone
  <2>8. OneRead' BY <1>t DEF OneRead
  <2> QED BY <2>1, <2>2, <2>3, <2>4, <2>5, <2>6, <2>7, <2>8 DEF SurfaceInv
<1> QED BY <1>1, <1>2

(* The process: it starts, comes online, reloads and ends.                 *)
LEMMA ProcessKeeps ==
  ASSUME SurfaceInv,
         \/ StartProcess \/ StartWhatsApp \/ GoesOnline \/ StopProcess
         \/ \E n \in 1..MaxReads : ReloadReads(n) \/ ReloadApplies(n)
  PROVE  SurfaceInv'
<1>t. /\ SurfaceTypeOK /\ GateAndSurfacesAgree /\ DirectIsEarned /\ PromptKeepsSurface
      /\ ProcessStands /\ OperatorGrants /\ FreshReads /\ OneRead
  BY DEF SurfaceInv
<1>1. CASE StartProcess
  <2> USE <1>1 DEF StartProcess, durableVars
  <2>0. opening = NoChat /\ \A n \in 1..MaxReads : reading[n] = {} BY <1>t DEF ProcessStands
  <2>1. SurfaceTypeOK' BY <1>t DEF SurfaceTypeOK
  <2>2. GateAndSurfacesAgree' BY DEF GateAndSurfacesAgree
  <2>3. DirectIsEarned' BY <1>t DEF DirectIsEarned
  <2>4. PromptKeepsSurface' BY <1>t DEF PromptKeepsSurface, Active
  <2>5. ProcessStands' BY <1>t, <2>0 DEF ProcessStands
  <2>6. OperatorGrants' BY <1>t DEF OperatorGrants, Active, Gone
  <2>7. FreshReads' BY <1>t, <2>0 DEF FreshReads, OperatorGrants
  <2>8. OneRead' BY <2>0 DEF OneRead
  <2> QED BY <2>1, <2>2, <2>3, <2>4, <2>5, <2>6, <2>7, <2>8 DEF SurfaceInv
<1>2. CASE StartWhatsApp
  <2> USE <1>2 DEF StartWhatsApp, durableVars
  <2>1. SurfaceTypeOK' BY <1>t DEF SurfaceTypeOK
  <2>2. GateAndSurfacesAgree' BY DEF GateAndSurfacesAgree
  <2>3. DirectIsEarned' BY <1>t DEF DirectIsEarned
  <2>4. PromptKeepsSurface' BY <1>t DEF PromptKeepsSurface, Active
  <2>5. ProcessStands' BY <1>t DEF ProcessStands
  <2>6. OperatorGrants' BY <1>t DEF OperatorGrants, Active, Gone, IsStarting
  <2>7. FreshReads' BY <1>t DEF FreshReads, IsStarting, Gone
  <2>8. OneRead' BY <1>t DEF OneRead
  <2> QED BY <2>1, <2>2, <2>3, <2>4, <2>5, <2>6, <2>7, <2>8 DEF SurfaceInv
<1>3. CASE GoesOnline
  <2> USE <1>3 DEF GoesOnline
  <2>1. opening = NoChat /\ opening' = NoChat BY <1>t DEF ProcessStands
  <2>2. current \in SUBSET SurfaceChat /\ reading' \in [1..MaxReads -> SUBSET SurfaceChat]
    BY <1>t DEF SurfaceTypeOK
  <2>3. IsStarting BY DEF IsStarting
  <2>4. /\ \A n \in 1..MaxReads : \A c \in reading'[n] : c \notin managed => Gone(c)
        /\ \A c \in current : c \notin managed => Gone(c)
    BY <1>t, <2>3 DEF OperatorGrants
  <2>5. /\ ~stale' => \A s \in Binding :
             binding[s] = "configured" /\ s \notin withdrawn => s[2] \in current
        /\ ~stale' => \A n \in 1..MaxReads : reading'[n] # {} =>
             \A c \in current : c \notin reading'[n] => Gone(c)
    BY <1>t, <2>3 DEF FreshReads
  <2>6. OneRead' BY <1>t DEF OneRead
  <2> QED BY <2>1, <2>2, <2>4, <2>5, <2>6, ActivationKeeps
<1>4. CASE StopProcess
  <2> USE <1>4 DEF StopProcess, durableVars
  <2>1. SurfaceTypeOK'
    <3>1. opening # NoChat => account \in Account
      BY <1>t DEF ProcessStands, SurfaceTypeOK
    <3>2. opening # NoChat => <<account, opening>> \in Binding
      BY <1>t, <3>1, SurfaceConstants DEF SurfaceTypeOK, Binding
    <3> QED BY <1>t, <3>2 DEF SurfaceTypeOK
  <2>2. GateAndSurfacesAgree' BY DEF GateAndSurfacesAgree
  <2>3. DirectIsEarned'
    <3> SUFFICES ASSUME NEW s \in Binding, binding'[s] = "direct"
                 PROVE  s \in earned' \cup interrupted'
      BY DEF DirectIsEarned
    <3>1. CASE s = <<account, opening>>
      BY <3>1, SurfaceConstants DEF Binding
    <3>2. CASE s # <<account, opening>>
      BY <3>2, <1>t DEF DirectIsEarned
    <3> QED BY <3>1, <3>2
  <2>4. PromptKeepsSurface' BY <1>t DEF PromptKeepsSurface, Active
  <2>5. ProcessStands' BY DEF ProcessStands
  <2>6. OperatorGrants' BY <1>t DEF OperatorGrants, Active, Gone, IsStarting
  <2>7. FreshReads' BY DEF FreshReads, IsStarting
  <2>8. OneRead' BY DEF OneRead
  <2> QED BY <2>1, <2>2, <2>3, <2>4, <2>5, <2>6, <2>7, <2>8 DEF SurfaceInv
<1>5. ASSUME NEW n \in 1..MaxReads, ReloadReads(n) PROVE SurfaceInv'
  <2> USE <1>5 DEF ReloadReads, durableVars
  <2>0. /\ managed \in SUBSET SurfaceChat /\ managed # {}
        /\ reading \in [1..MaxReads -> SUBSET SurfaceChat]
    BY <1>t DEF SurfaceTypeOK
  <2>a. /\ reading' \in [1..MaxReads -> SUBSET SurfaceChat]
        /\ \A m \in 1..MaxReads : reading'[m] = IF m = n THEN managed ELSE reading[m]
    BY <2>0
  <2>b. ~stale' => ~stale /\ \A m \in 1..MaxReads : reading[m] = {}
    BY <2>0 DEF InFlight
  <2>1. SurfaceTypeOK' BY <1>t, <2>a DEF SurfaceTypeOK
  <2>2. GateAndSurfacesAgree' BY <1>t DEF GateAndSurfacesAgree, Active
  <2>3. DirectIsEarned' BY <1>t DEF DirectIsEarned
  <2>4. PromptKeepsSurface' BY <1>t DEF PromptKeepsSurface, Active
  <2>5. ProcessStands' BY <1>t DEF ProcessStands
  <2>6. OperatorGrants' BY <1>t, <2>a DEF OperatorGrants, Active, Gone, IsStarting
  <2>7. FreshReads' BY <1>t, <2>a, <2>b DEF FreshReads, OperatorGrants, IsStarting, Gone
  <2>8. OneRead' BY <2>0, <2>a, <2>b DEF OneRead
  <2> QED BY <2>1, <2>2, <2>3, <2>4, <2>5, <2>6, <2>7, <2>8 DEF SurfaceInv
<1>6. ASSUME NEW n \in 1..MaxReads, ReloadApplies(n) PROVE SurfaceInv'
  <2>0. /\ opening = NoChat /\ opening' = NoChat
        /\ reading[n] # {} /\ reading' = [reading EXCEPT ![n] = {}]
        /\ process' = process /\ account' = account /\ latest' = latest
        /\ UNCHANGED <<managed, paired, owed, interrupted>>
    BY <1>6 DEF ReloadApplies
  <2>a. /\ reading \in [1..MaxReads -> SUBSET SurfaceChat]
        /\ reading' \in [1..MaxReads -> SUBSET SurfaceChat]
        /\ reading[n] \in SUBSET SurfaceChat
        /\ \A m \in 1..MaxReads : reading'[m] = IF m = n THEN {} ELSE reading[m]
    BY <1>t, <2>0 DEF SurfaceTypeOK
  <2>p. process # "down" BY <1>t, <2>0 DEF ProcessStands
  <2>b. IF process = "booting" THEN stale' = TRUE /\ current' = current
        ELSE current' = reading[n] /\ stale' = stale
    BY <1>6 DEF ReloadApplies
  <2>8. OneRead'
    <3>1. CASE process = "booting" BY <3>1, <2>b DEF OneRead
    <3>2. CASE process # "booting"
      BY <3>2, <2>0, <2>a, <2>b, <1>t DEF OneRead
    <3> QED BY <3>1, <3>2
  <2>c. ~stale' => ~stale /\ \A m \in 1..MaxReads : reading'[m] = {}
    BY <2>a, <2>b, <2>0, <1>t DEF OneRead
  <2>1. CASE process = "online"
    <3>1. ActivateConfigured(paired, reading[n])
      BY <1>6, <2>1, <1>t DEF ReloadApplies, ProcessStands
    <3>2. process' = "online" /\ account' = paired /\ current' = reading[n] /\ stale' = stale
      BY <2>0, <2>1, <2>b, <1>t DEF ProcessStands
    <3>3. /\ \A m \in 1..MaxReads : \A c \in reading'[m] : c \notin managed => Gone(c)
          /\ \A c \in reading[n] : c \notin managed => Gone(c)
      BY <2>a, <1>t DEF OperatorGrants
    <3>4. ~stale' => \A s \in Binding :
            binding[s] = "configured" /\ s \notin withdrawn => s[2] \in reading[n]
      BY <3>2, <2>0, <1>t DEF FreshReads
    <3>5. ~stale' => \A m \in 1..MaxReads : reading'[m] # {} =>
            \A c \in reading[n] : c \notin reading'[m] => Gone(c)
      BY <2>c
    <3> QED BY <2>0, <2>a, <3>1, <3>2, <3>3, <3>4, <3>5, <2>8, ActivationKeeps
  <2>2. CASE process # "online"
    <3>u. UNCHANGED <<binding, earned, withdrawn>> BY <1>6, <2>2 DEF ReloadApplies
    <3>s. IsStarting BY <2>2, <2>p, <1>t DEF IsStarting, SurfaceTypeOK
    <3> USE <2>0, <3>u
    <3>1. SurfaceTypeOK' BY <1>t, <2>a, <2>b DEF SurfaceTypeOK
    <3>2. GateAndSurfacesAgree' BY <2>2 DEF GateAndSurfacesAgree
    <3>3. DirectIsEarned' BY <1>t DEF DirectIsEarned
    <3>4. PromptKeepsSurface' BY <1>t DEF PromptKeepsSurface, Active
    <3>5. ProcessStands' BY <2>2, <2>p, <1>t DEF ProcessStands
    <3>6. OperatorGrants'
      <4>1. \A s \in Binding : Active(s)' /\ s \notin withdrawn' => s[1] = paired'
        BY <1>t DEF OperatorGrants, Active
      <4>2. \A s \in Binding : binding'[s] = "configured" /\ s \notin withdrawn' => s[2] \in managed'
        BY <1>t DEF OperatorGrants
      <4>3. \A m \in 1..MaxReads : \A c \in reading'[m] : c \notin managed' => Gone(c)'
        BY <2>a, <1>t DEF OperatorGrants, Gone
      <4>4. \A c \in current' : c \notin managed' => Gone(c)'
        BY <2>b, <3>s, <1>t DEF OperatorGrants, Gone
      <4> QED BY <4>1, <4>2, <4>3, <4>4 DEF OperatorGrants
    <3>7. FreshReads'
      <4>1. ~stale' => current' = reading[n] BY <2>b
      <4>2. ~stale' => \A s \in Binding :
              binding'[s] = "configured" /\ s \notin withdrawn' => s[2] \in current'
        BY <4>1, <2>c, <1>t DEF FreshReads
      <4> QED BY <4>2, <2>c DEF FreshReads
    <3> QED BY <3>1, <3>2, <3>3, <3>4, <3>5, <3>6, <3>7, <2>8 DEF SurfaceInv
  <2> QED BY <2>1, <2>2
<1> QED BY <1>1, <1>2, <1>3, <1>4, <1>5, <1>6

(* Prompts. A direct chat whose Prompt is refused had none that waits,     *)
(* unless it was withdrawn before.                                         *)
LEMMA PromptsKeep ==
  ASSUME SurfaceInv,
         \/ \E s \in Binding : PromptSurface(s) \/ DeliverPrompt(s)
         \/ \E c \in SurfaceChat : OpenDirect(c)
         \/ DirectRecorded \/ DirectRefused
  PROVE  SurfaceInv'
<1>t. /\ SurfaceTypeOK /\ GateAndSurfacesAgree /\ DirectIsEarned /\ PromptKeepsSurface
      /\ ProcessStands /\ OperatorGrants /\ FreshReads /\ OneRead
  BY DEF SurfaceInv
<1>1. ASSUME NEW s \in Binding, PromptSurface(s) \/ DeliverPrompt(s) PROVE SurfaceInv'
  <2>0. /\ opening = NoChat /\ opening' = NoChat /\ Active(s) /\ process = "online"
        /\ owed' \in {owed \cup {s}, owed \ {s}}
        /\ earned' \in {earned, earned \cup {s}}
        /\ UNCHANGED <<managed, paired, binding, processVars, latest, stale, interrupted, withdrawn>>
    BY <1>1 DEF PromptSurface, DeliverPrompt, processVars
  <2> USE <2>0 DEF processVars
  <2>1. SurfaceTypeOK' BY <1>t DEF SurfaceTypeOK
  <2>2. GateAndSurfacesAgree' BY <1>t DEF GateAndSurfacesAgree, Active
  <2>3. DirectIsEarned' BY <1>t DEF DirectIsEarned
  <2>4. PromptKeepsSurface' BY <1>t DEF PromptKeepsSurface, Active
  <2>5. ProcessStands' BY <1>t DEF ProcessStands
  <2>6. OperatorGrants' BY <1>t DEF OperatorGrants, Active, Gone, IsStarting
  <2>7. FreshReads' BY <1>t DEF FreshReads, IsStarting, Gone
  <2>8. OneRead' BY <1>t DEF OneRead
  <2> QED BY <2>1, <2>2, <2>3, <2>4, <2>5, <2>6, <2>7, <2>8 DEF SurfaceInv
<1>2. ASSUME NEW c \in SurfaceChat, OpenDirect(c) PROVE SurfaceInv'
  <2> USE <1>2 DEF OpenDirect
  <2>0. account = paired /\ account \in Account /\ <<account, c>> \in Binding
    BY <1>t DEF ProcessStands, SurfaceTypeOK, Binding
  <2>a. /\ binding' \in [Binding -> {"none", "retired", "configured", "direct"}]
        /\ \A s \in Binding : binding'[s] = IF s = <<account, c>> THEN "direct" ELSE binding[s]
    BY <1>t, <2>0 DEF SurfaceTypeOK
  <2>b. c # NoChat BY SurfaceConstants
  <2>1. SurfaceTypeOK' BY <1>t, <2>a DEF SurfaceTypeOK
  <2>2. GateAndSurfacesAgree'
    <3>1. \A s \in Binding : binding'[s] = "configured" <=> binding[s] = "configured"
      BY <2>a, <2>0 DEF Active
    <3>2. \A s \in Binding : Active(s)' => s[1] = account
      BY <2>a, <1>t DEF GateAndSurfacesAgree, Active
    <3> QED BY <3>1, <3>2, <1>t DEF GateAndSurfacesAgree
  <2>3. DirectIsEarned'
    <3> SUFFICES ASSUME NEW s \in Binding, binding'[s] = "direct", s # <<account, c>>
                 PROVE  s \in earned' \cup interrupted'
      BY DEF DirectIsEarned
    <3>1. binding[s] = "direct" BY <2>a
    <3>2. s # <<account, opening>> BY SurfaceConstants DEF Binding
    <3> QED BY <3>1, <3>2, <1>t DEF DirectIsEarned
  <2>4. PromptKeepsSurface'
    <3>1. owed \subseteq Binding BY <1>t DEF SurfaceTypeOK
    <3> QED BY <3>1, <1>t, <2>a DEF PromptKeepsSurface, Active
  <2>5. ProcessStands' BY <1>t, <2>a, <2>0 DEF ProcessStands, PromptKeepsSurface
  <2>6. OperatorGrants'
    <3>1. \A s \in Binding : Active(s)' /\ s \notin withdrawn' => s[1] = paired'
      BY <1>t, <2>a, <2>0 DEF OperatorGrants, Active
    <3>2. \A s \in Binding : binding'[s] = "configured" => binding[s] = "configured"
      BY <2>a
    <3> QED BY <3>1, <3>2, <1>t DEF OperatorGrants, IsStarting, Gone
  <2>7. FreshReads' BY <1>t, <2>a DEF FreshReads, IsStarting, Gone
  <2>8. OneRead' BY <1>t DEF OneRead
  <2> QED BY <2>1, <2>2, <2>3, <2>4, <2>5, <2>6, <2>7, <2>8 DEF SurfaceInv
<1>3. CASE DirectRecorded
  <2> USE <1>3 DEF DirectRecorded
  <2>0. /\ process = "online" /\ account = paired /\ account \in Account
        /\ opening \in SurfaceChat /\ <<account, opening>> \in Binding
        /\ binding[<<account, opening>>] = "direct"
    BY <1>t, SurfaceConstants DEF ProcessStands, SurfaceTypeOK, Binding
  <2>a. /\ withdrawn' \subseteq withdrawn
        /\ \A s \in withdrawn : s # <<account, opening>> => s \in withdrawn'
    OBVIOUS
  <2>b. (\E n \in 1..MaxReads : reading[n] # {}) => withdrawn' = withdrawn
    BY <1>t DEF InFlight, SurfaceTypeOK
  <2>1. SurfaceTypeOK' BY <1>t, <2>0, <2>a DEF SurfaceTypeOK
  <2>2. GateAndSurfacesAgree' BY <1>t DEF GateAndSurfacesAgree, Active
  <2>3. DirectIsEarned' BY <1>t DEF DirectIsEarned
  <2>4. PromptKeepsSurface' BY <1>t, <2>0, <2>a DEF PromptKeepsSurface, Active
  <2>5. ProcessStands' BY <1>t, <2>0 DEF ProcessStands
  <2>6. OperatorGrants'
    <3>1. \A s \in Binding : Active(s)' /\ s \notin withdrawn' => s[1] = paired'
      BY <1>t, <2>0, <2>a DEF OperatorGrants, Active
    <3>2. \A s \in Binding : binding'[s] = "configured" /\ s \notin withdrawn' => s[2] \in managed'
      BY <1>t, <2>0, <2>a DEF OperatorGrants
    <3>3. ASSUME NEW n \in 1..MaxReads, NEW c \in reading'[n], c \notin managed'
          PROVE  Gone(c)'
      <4>1. withdrawn' = withdrawn BY <2>b, <3>3
      <4>2. Gone(c) BY <3>3, <1>t DEF OperatorGrants
      <4> QED BY <4>1, <4>2 DEF Gone
    <3>4. ~IsStarting' BY <2>0 DEF IsStarting
    <3> QED BY <3>1, <3>2, <3>3, <3>4 DEF OperatorGrants
  <2>7. FreshReads'
    <3>1. ~IsStarting' BY <2>0 DEF IsStarting
    <3>2. ASSUME ~stale, NEW s \in Binding, binding[s] = "configured", s \notin withdrawn',
                 NEW n \in 1..MaxReads, reading[n] # {}
          PROVE  s[2] \in reading[n]
      BY <3>2, <2>b, <1>t DEF FreshReads
    <3> QED BY <3>1, <3>2 DEF FreshReads
  <2>8. OneRead' BY <1>t DEF OneRead
  <2> QED BY <2>1, <2>2, <2>3, <2>4, <2>5, <2>6, <2>7, <2>8 DEF SurfaceInv
<1>4. CASE DirectRefused
  <2> USE <1>4 DEF DirectRefused
  <2>0. /\ process = "online" /\ account \in Account
        /\ opening \in SurfaceChat /\ <<account, opening>> \in Binding
        /\ binding[<<account, opening>>] = "direct"
        /\ <<account, opening>> \in owed => <<account, opening>> \in withdrawn
    BY <1>t, SurfaceConstants DEF ProcessStands, SurfaceTypeOK, Binding
  <2>a. /\ binding' \in [Binding -> {"none", "retired", "configured", "direct"}]
        /\ \A s \in Binding : binding'[s] = IF s = <<account, opening>> THEN "retired" ELSE binding[s]
    BY <1>t, <2>0 DEF SurfaceTypeOK
  <2>1. SurfaceTypeOK' BY <1>t, <2>a DEF SurfaceTypeOK
  <2>2. GateAndSurfacesAgree'
    <3>1. \A s \in Binding : binding'[s] = "configured" <=> binding[s] = "configured"
      BY <2>a, <2>0
    <3>2. \A s \in Binding : Active(s)' => s[1] = account
      BY <2>a, <2>0, <1>t DEF GateAndSurfacesAgree, Active
    <3> QED BY <3>1, <3>2, <1>t DEF GateAndSurfacesAgree
  <2>3. DirectIsEarned' BY <1>t, <2>a DEF DirectIsEarned
  <2>4. PromptKeepsSurface'
    <3>1. owed \subseteq Binding BY <1>t DEF SurfaceTypeOK
    <3> QED BY <3>1, <1>t, <2>a, <2>0 DEF PromptKeepsSurface, Active
  <2>5. ProcessStands' BY <1>t DEF ProcessStands
  <2>6. OperatorGrants' BY <1>t, <2>a DEF OperatorGrants, Active, Gone, IsStarting
  <2>7. FreshReads' BY <1>t, <2>a DEF FreshReads, IsStarting, Gone
  <2>8. OneRead' BY <1>t DEF OneRead
  <2> QED BY <2>1, <2>2, <2>3, <2>4, <2>5, <2>6, <2>7, <2>8 DEF SurfaceInv
<1> QED BY <1>1, <1>2, <1>3, <1>4

(* A step of something else changes nothing.                               *)
LEMMA SurfaceRests == SurfaceInv /\ UNCHANGED surfaceVars => SurfaceInv'
<1> SUFFICES ASSUME SurfaceInv, UNCHANGED surfaceVars PROVE SurfaceInv' OBVIOUS
<1> USE DEF surfaceVars, durableVars, processVars
<1>t. /\ SurfaceTypeOK /\ GateAndSurfacesAgree /\ DirectIsEarned /\ PromptKeepsSurface
      /\ ProcessStands /\ OperatorGrants /\ FreshReads /\ OneRead
  BY DEF SurfaceInv
<1>1. SurfaceTypeOK' BY <1>t DEF SurfaceTypeOK
<1>2. GateAndSurfacesAgree' BY <1>t DEF GateAndSurfacesAgree, Active
<1>3. DirectIsEarned' /\ PromptKeepsSurface' BY <1>t DEF DirectIsEarned, PromptKeepsSurface, Active
<1>4. ProcessStands' /\ OneRead' BY <1>t DEF ProcessStands, OneRead
<1>5. OperatorGrants' /\ FreshReads'
  BY <1>t DEF OperatorGrants, FreshReads, Active, Gone, IsStarting
<1> QED BY <1>1, <1>2, <1>3, <1>4, <1>5 DEF SurfaceInv

-----------------------------------------------------------------------------
(* The invariant holds, whatever the operator edits and pairs and however  *)
(* often he reloads and restarts: the gate, the Surfaces, the Prompts that *)
(* wait, and what he has granted and taken away (registry.ts:131,          *)
(* whatsapp-runtime.ts:639).                                               *)
THEOREM SurfaceInvariant == SurfaceSpec => []SurfaceInv
<1>1. SurfaceInit => SurfaceInv BY SurfaceBegins
<1>2. SurfaceInv /\ [SurfaceNext]_surfaceVars => SurfaceInv'
  BY OperatorKeeps, ProcessKeeps, PromptsKeep, SurfaceRests DEF SurfaceNext
<1> QED BY <1>1, <1>2, PTL DEF SurfaceSpec

(* The coworker takes part where it was granted: outbound and inbound open *)
(* and close together, a direct chat is earned by a Prompt, a Prompt that  *)
(* waits keeps its Surface unless it was taken away, and the reload that   *)
(* came last holds (registry.ts:75, whatsapp-runtime.ts:645).              *)
THEOREM ParticipationIsGrantedAlways == SurfaceSpec => []ParticipationIsGranted
<1>1. SurfaceInv => ParticipationIsGranted
  <2>1. SurfaceInv /\ process # "down" /\ InFlight = {} => \A n \in 1..MaxReads : reading[n] = {}
    BY DEF SurfaceInv, SurfaceTypeOK, InFlight
  <2>2. SurfaceInv => LastReloadHolds BY <2>1 DEF SurfaceInv, OneRead, LastReloadHolds
  <2> QED BY <2>2 DEF SurfaceInv, ParticipationIsGranted
<1> QED BY <1>1, SurfaceInvariant, PTL

-----------------------------------------------------------------------------
(* The changes.                                                            *)

Entry == [of : Own, at : Nat]
Logged == [change : Change, time : Nat, by : {"send", "update"}]

EchoTypeOK ==
  /\ happened \in Seq(Change) /\ heard \in 0..Len(happened)
  /\ sending \subseteq Own /\ expected \subseteq Entry /\ log \subseteq Logged

(* No change happens twice, and one send is in flight at most.             *)
Ordered ==
  /\ \A i, j \in 1..Len(happened) : happened[i] = happened[j] => i = j
  /\ \A m, n \in sending : m = n

(* An archived change carries the time it happened or its send resolved.   *)
LogSound ==
  \A r \in log :
    /\ r.by = "update" => r.time \in 1..Len(happened) /\ happened[r.time] = r.change
    /\ r.by = "send" => r.change \in Own /\ r.time <= Len(happened)

(* An expected echo is of a send that was archived; nothing of its scope   *)
(* was reported since.                                                     *)
Awaited ==
  \A e \in expected :
    /\ [change |-> e.of, time |-> e.at, by |-> "send"] \in log
    /\ \A q \in log : q.by = "update" /\ ScopeOf[q.change] = ScopeOf[e.of] => q.time <= e.at

IsLast(i) == \A j \in 1..Len(happened) : ScopeOf[happened[j]] = ScopeOf[happened[i]] => j <= i
Newest(r) == \A q \in log : ScopeOf[q.change] = ScopeOf[r.change] => q.time <= r.time

(* Unless the scope was confused, the sends of a scope precede its last    *)
(* change, or are that change.                                             *)
SendsPrecede ==
  \A i \in 1..Len(happened) :
    IsLast(i) /\ ScopeOf[happened[i]] \notin confused =>
      /\ \A n \in sending : ScopeOf[n] = ScopeOf[happened[i]] => n = happened[i]
      /\ \A r \in log : r.by = "send" /\ ScopeOf[r.change] = ScopeOf[happened[i]]
                          => r.change = happened[i] \/ r.time < i

(* A scope has a newest archived change once it has one.                   *)
HasNewest ==
  \A q \in log : \E r \in log : ScopeOf[r.change] = ScopeOf[q.change] /\ Newest(r)

(* The last change of a scope shows as soon as it is sent or reported.     *)
LastShows ==
  \A i \in 1..Len(happened) :
    /\ IsLast(i) /\ ScopeOf[happened[i]] \notin confused
    /\ IF happened[i] \in Own THEN happened[i] \notin sending ELSE i <= heard
    => \E r \in log :
         /\ ScopeOf[r.change] = ScopeOf[happened[i]] /\ ValueOf[r.change] = ValueOf[happened[i]]
         /\ Newest(r)
         /\ happened[i] \in Own => i <= r.time

EchoInv == EchoTypeOK /\ Ordered /\ LogSound /\ Awaited /\ SendsPrecede /\ HasNewest /\ LastShows

USE EchoConstants

LEMMA EchoInitInv == EchoInit => EchoInv
  BY DEF EchoInit, EchoInv, EchoTypeOK, Ordered, LogSound, Awaited, SendsPrecede, HasNewest, LastShows

(* Only the echoes that are expected, and not all of them, are given up.   *)
LEMMA FewerEchoes ==
  ASSUME EchoInv, expected' \subseteq expected, UNCHANGED <<happened, heard, sending, log, confused>>
  PROVE  EchoInv'
  BY DEF EchoInv, EchoTypeOK, Ordered, LogSound, Awaited, SendsPrecede, HasNewest, LastShows, IsLast, Newest, Entry

LEMMA HappenStays ==
  ASSUME EchoInv, NEW m \in Change, Happen(m)
  PROVE  EchoInv'
<1>1. /\ happened' \in Seq(Change) /\ Len(happened') = Len(happened) + 1
      /\ happened'[Len(happened) + 1] = m /\ Len(happened) \in Nat
      /\ \A i \in 1..Len(happened) : happened'[i] = happened[i] /\ happened[i] \in Change
  BY DEF EchoInv, EchoTypeOK, Happen
<1>2. EchoTypeOK'
  BY <1>1 DEF EchoInv, EchoTypeOK, Happen
<1>3. Ordered'
  BY <1>1 DEF EchoInv, Ordered, Happen, Happened
<1>4. LogSound'
  BY <1>1 DEF EchoInv, EchoTypeOK, LogSound, Happen, Logged
<1>5. Awaited'
  BY DEF EchoInv, Awaited, Happen
<1>6. \A i \in 1..Len(happened) : IsLast(i)' => IsLast(i) /\ ScopeOf[happened[i]] # ScopeOf[m]
  BY <1>1 DEF IsLast
<1>7. SendsPrecede'
  <2> SUFFICES ASSUME NEW i \in 1..Len(happened'), IsLast(i)', ScopeOf[happened'[i]] \notin confused'
               PROVE  /\ \A n \in sending' : ScopeOf[n] = ScopeOf[happened'[i]] => n = happened'[i]
                      /\ \A r \in log : r.by = "send" /\ ScopeOf[r.change] = ScopeOf[happened'[i]]
                                          => r.change = happened'[i] \/ r.time < i
    BY DEF SendsPrecede, Happen
  <2>1. CASE i \in 1..Len(happened)
    BY <1>1, <1>6, <2>1 DEF EchoInv, SendsPrecede, Happen
  <2>2. CASE i = Len(happened) + 1
    <3>1. \A n \in sending : ScopeOf[n] # ScopeOf[m]
      BY <1>1, <2>2 DEF Happen
    <3>2. \A r \in log : r.by = "send" => r.time < i
      BY <1>1, <2>2 DEF EchoInv, EchoTypeOK, LogSound, Logged
    <3> QED BY <1>1, <2>2, <3>1, <3>2 DEF Happen
  <2> QED BY <1>1, <2>1, <2>2
<1>8. HasNewest'
  BY DEF EchoInv, HasNewest, Newest, Happen
<1>9. LastShows'
  BY <1>1, <1>6 DEF EchoInv, EchoTypeOK, LastShows, Newest, Happen
<1> QED BY <1>2, <1>3, <1>4, <1>5, <1>7, <1>8, <1>9 DEF EchoInv

LEMMA ResolveStays ==
  ASSUME EchoInv, NEW m \in Change, Resolve(m)
  PROVE  EchoInv'
<1>0. PICK new : new = [change |-> m, time |-> Len(happened), by |-> "send"]
  OBVIOUS
<1>1. /\ new \in Logged /\ log' = log \cup {new} /\ m \in Own /\ m \in sending
      /\ new.change = m /\ new.time = Len(happened) /\ new.by = "send" /\ Len(happened) \in Nat
  BY <1>0 DEF EchoInv, EchoTypeOK, Resolve, Archive, Logged
<1>2. \A r \in log : r.time \in Nat /\ r.time <= Len(happened)
  BY DEF EchoInv, EchoTypeOK, LogSound, Logged
<1>3. EchoTypeOK'
  BY <1>1 DEF EchoInv, EchoTypeOK, Resolve, Entry
<1>4. Ordered' /\ LogSound'
  BY <1>1, <1>2 DEF EchoInv, EchoTypeOK, Ordered, LogSound, Resolve
<1>5. Awaited'
  <2> SUFFICES ASSUME NEW e \in expected'
               PROVE  /\ [change |-> e.of, time |-> e.at, by |-> "send"] \in log'
                      /\ \A q \in log' : q.by = "update" /\ ScopeOf[q.change] = ScopeOf[e.of] => q.time <= e.at
    BY DEF Awaited
  <2>1. CASE e \in expected
    BY <1>1, <2>1 DEF EchoInv, Awaited
  <2>2. CASE e = [of |-> m, at |-> Len(happened)]
    BY <1>0, <1>1, <1>2, <2>2
  <2> QED BY <2>1, <2>2 DEF Resolve
<1>6. ASSUME NEW i \in 1..Len(happened), IsLast(i), ScopeOf[happened[i]] \notin confused,
             ScopeOf[m] = ScopeOf[happened[i]]
      PROVE  m = happened[i]
  BY <1>1, <1>6 DEF EchoInv, SendsPrecede
<1>7. SendsPrecede'
  BY <1>1, <1>6 DEF EchoInv, SendsPrecede, IsLast, Resolve
<1>8. Newest(new)'
  BY <1>1, <1>2 DEF Newest
<1>9. ASSUME NEW r \in log, Newest(r), ScopeOf[r.change] # ScopeOf[m] PROVE Newest(r)'
  BY <1>1, <1>9 DEF Newest
<1>10. HasNewest'
  BY <1>1, <1>8, <1>9 DEF EchoInv, HasNewest
<1>11. LastShows'
  <2> SUFFICES ASSUME NEW i \in 1..Len(happened), IsLast(i), ScopeOf[happened[i]] \notin confused,
                      IF happened[i] \in Own THEN happened[i] \notin sending' ELSE i <= heard
               PROVE  \E r \in log' :
                        /\ ScopeOf[r.change] = ScopeOf[happened[i]] /\ ValueOf[r.change] = ValueOf[happened[i]]
                        /\ Newest(r)' /\ (happened[i] \in Own => i <= r.time)
    BY DEF LastShows, IsLast, Resolve
  <2>1. CASE ScopeOf[happened[i]] = ScopeOf[m]
    BY <1>1, <1>6, <1>8, <2>1
  <2>2. CASE ScopeOf[happened[i]] # ScopeOf[m]
    <3>1. IF happened[i] \in Own THEN happened[i] \notin sending ELSE i <= heard
      BY <2>2 DEF Resolve
    <3>2. PICK r \in log : /\ ScopeOf[r.change] = ScopeOf[happened[i]] /\ ValueOf[r.change] = ValueOf[happened[i]]
                           /\ Newest(r) /\ (happened[i] \in Own => i <= r.time)
      BY <3>1 DEF EchoInv, LastShows
    <3> QED BY <1>1, <1>9, <2>2, <3>2
  <2> QED BY <2>1, <2>2
<1> QED BY <1>3, <1>4, <1>5, <1>7, <1>10, <1>11 DEF EchoInv

LEMMA HearEchoStays ==
  ASSUME EchoInv, HearEcho
  PROVE  EchoInv'
<1> DEFINE m == happened[heard + 1]
<1>1. PICK e \in Earliest(EchoesOf(m)) :
        /\ expected' = expected \ {e}
        /\ confused' = confused \cup (IF Mistaken(m, e) THEN {ScopeOf[m]} ELSE {})
  BY DEF HearEcho
<1>2. /\ heard < Len(happened) /\ heard' = heard + 1 /\ heard \in Nat /\ Len(happened) \in Nat
      /\ UNCHANGED <<happened, sending, log>> /\ heard + 1 \in 1..Len(happened)
  BY DEF HearEcho, EchoInv, EchoTypeOK
<1>3. EchoTypeOK' /\ Ordered' /\ LogSound' /\ Awaited' /\ HasNewest'
  BY <1>1, <1>2 DEF EchoInv, EchoTypeOK, Ordered, LogSound, Awaited, HasNewest, Newest
<1>4. SendsPrecede'
  BY <1>1, <1>2 DEF EchoInv, SendsPrecede, IsLast
<1>5. LastShows'
  <2> SUFFICES ASSUME NEW i \in 1..Len(happened), IsLast(i), ScopeOf[happened[i]] \notin confused',
                      IF happened[i] \in Own THEN happened[i] \notin sending ELSE i <= heard + 1
               PROVE  \E r \in log :
                        /\ ScopeOf[r.change] = ScopeOf[happened[i]] /\ ValueOf[r.change] = ValueOf[happened[i]]
                        /\ Newest(r) /\ (happened[i] \in Own => i <= r.time)
    BY <1>2 DEF LastShows, IsLast, Newest
  <2>1. ScopeOf[happened[i]] \notin confused
    BY <1>1
  <2>2. CASE happened[i] \in Own \/ i <= heard
    BY <2>1, <2>2 DEF EchoInv, LastShows
  <2>3. CASE happened[i] \notin Own /\ i = heard + 1
    <3>1. e \in expected /\ ScopeOf[e.of] = ScopeOf[m] /\ ValueOf[e.of] = ValueOf[m] /\ ~Mistaken(m, e)
      BY <1>1, <2>3 DEF Earliest, EchoesOf, SameMark
    <3> DEFINE sent == [change |-> e.of, time |-> e.at, by |-> "send"]
    <3>2. sent \in log /\ sent.change = e.of /\ sent.time = e.at /\ e.at \in Nat
      BY <3>1 DEF EchoInv, EchoTypeOK, Awaited, Entry
    <3> HIDE DEF sent
    <3>3. PICK r \in log : ScopeOf[r.change] = ScopeOf[m] /\ Newest(r)
      BY <3>1, <3>2 DEF EchoInv, HasNewest
    <3>4. r.time \in Nat /\ r.by \in {"send", "update"} /\ \A q \in log : q.time \in Nat
      BY DEF EchoInv, EchoTypeOK, Logged
    <3>5. CASE ValueOf[r.change] = ValueOf[m]
      BY <2>3, <3>3, <3>5
    <3>6. CASE ValueOf[r.change] # ValueOf[m]
      <4>1. r.time <= e.at
        <5>1. CASE r.by = "send"
          BY <2>3, <3>1, <3>2, <3>3, <3>4, <3>6, <5>1 DEF Mistaken
        <5>2. CASE r.by = "update"
          BY <3>1, <3>3, <5>2 DEF EchoInv, Awaited
        <5> QED BY <3>4, <5>1, <5>2
      <4>2. Newest(sent)
        BY <3>1, <3>2, <3>3, <3>4, <4>1 DEF Newest
      <4> QED BY <2>3, <3>1, <3>2, <4>2
    <3> QED BY <3>5, <3>6
  <2> QED BY <1>2, <2>2, <2>3
<1> QED BY <1>3, <1>4, <1>5 DEF EchoInv

LEMMA HearChangeStays ==
  ASSUME EchoInv, HearChange
  PROVE  EchoInv'
<1>0. PICK m, new : m = happened[heard + 1] /\ new = [change |-> m, time |-> heard + 1, by |-> "update"]
  OBVIOUS
<1>1. /\ heard < Len(happened) /\ heard' = heard + 1 /\ heard \in Nat /\ Len(happened) \in Nat
      /\ UNCHANGED <<happened, sending, confused>> /\ heard + 1 \in 1..Len(happened) /\ m \in Change
  BY <1>0 DEF HearChange, EchoInv, EchoTypeOK
<1>2. /\ new \in Logged /\ log' = log \cup {new}
      /\ new.change = m /\ new.time = heard + 1 /\ new.by = "update"
  BY <1>0, <1>1 DEF HearChange, Archive, Logged
<1>3. expected' \subseteq expected /\ \A e \in expected' : ScopeOf[e.of] # ScopeOf[m]
  BY <1>0 DEF HearChange, Invalidate
<1>4. \A r \in log : r.time \in Nat /\ r.by \in {"send", "update"}
  BY DEF EchoInv, EchoTypeOK, Logged
<1>5. EchoTypeOK' /\ Ordered'
  BY <1>1, <1>2, <1>3 DEF EchoInv, EchoTypeOK, Ordered
<1>6. LogSound'
  BY <1>0, <1>1, <1>2 DEF EchoInv, LogSound
<1>7. Awaited'
  BY <1>2, <1>3 DEF EchoInv, Awaited
<1>8. SendsPrecede'
  BY <1>1, <1>2 DEF EchoInv, SendsPrecede, IsLast
<1>9. \A r \in log : Newest(r) =>
         \/ Newest(r)'
         \/ ScopeOf[r.change] = ScopeOf[m] /\ r.time < heard + 1 /\ Newest(new)'
  BY <1>1, <1>2, <1>4 DEF Newest
<1>10. (\A q \in log : ScopeOf[q.change] # ScopeOf[m]) => Newest(new)'
  BY <1>1, <1>2 DEF Newest
<1>11. HasNewest'
  <2> SUFFICES ASSUME NEW q \in log'
               PROVE  \E r \in log' : ScopeOf[r.change] = ScopeOf[q.change] /\ Newest(r)'
    BY DEF HasNewest
  <2>1. CASE \E k \in log : ScopeOf[k.change] = ScopeOf[q.change]
    <3>1. PICK r \in log : ScopeOf[r.change] = ScopeOf[q.change] /\ Newest(r)
      BY <2>1 DEF EchoInv, HasNewest
    <3> QED BY <1>2, <1>9, <3>1
  <2>2. CASE \A k \in log : ScopeOf[k.change] # ScopeOf[q.change]
    BY <1>2, <1>10, <2>2
  <2> QED BY <2>1, <2>2
<1>12. LastShows'
  <2> SUFFICES ASSUME NEW i \in 1..Len(happened), IsLast(i), ScopeOf[happened[i]] \notin confused,
                      IF happened[i] \in Own THEN happened[i] \notin sending ELSE i <= heard + 1
               PROVE  \E r \in log' :
                        /\ ScopeOf[r.change] = ScopeOf[happened[i]] /\ ValueOf[r.change] = ValueOf[happened[i]]
                        /\ Newest(r)' /\ (happened[i] \in Own => i <= r.time)
    BY <1>1 DEF LastShows, IsLast, Newest
  <2>1. CASE happened[i] \in Own \/ i <= heard
    <3>1. PICK r \in log : /\ ScopeOf[r.change] = ScopeOf[happened[i]] /\ ValueOf[r.change] = ValueOf[happened[i]]
                           /\ Newest(r) /\ (happened[i] \in Own => i <= r.time)
      BY <2>1 DEF EchoInv, LastShows
    <3>2. ScopeOf[m] = ScopeOf[happened[i]] => heard + 1 <= i
      BY <1>0, <1>1 DEF IsLast
    <3>3. Newest(r)'
      BY <1>1, <1>4, <1>9, <2>1, <3>1, <3>2
    <3> QED BY <1>2, <3>1, <3>3
  <2>2. CASE happened[i] \notin Own /\ i = heard + 1
    <3>1. \A q \in log : ScopeOf[q.change] = ScopeOf[m] => q.time <= heard + 1
      <4> SUFFICES ASSUME NEW q \in log, ScopeOf[q.change] = ScopeOf[m] PROVE q.time <= heard + 1
        OBVIOUS
      <4>1. CASE q.by = "send"
        <5>1. q.change # m
          BY <1>0, <2>2, <4>1 DEF EchoInv, LogSound
        <5>2. q.time < i
          BY <1>0, <2>2, <4>1, <5>1 DEF EchoInv, SendsPrecede
        <5> QED BY <1>1, <1>4, <2>2, <5>2
      <4>2. CASE q.by = "update"
        BY <1>0, <2>2, <4>2 DEF EchoInv, LogSound, IsLast
      <4> QED BY <1>4, <4>1, <4>2
    <3>2. Newest(new)'
      BY <1>1, <1>2, <3>1 DEF Newest
    <3> QED BY <1>0, <1>2, <2>2, <3>2
  <2> QED BY <1>1, <2>1, <2>2
<1> QED BY <1>5, <1>6, <1>7, <1>8, <1>11, <1>12 DEF EchoInv

LEMMA SkipEchoStays ==
  ASSUME EchoInv, SkipEcho
  PROVE  EchoInv'
<1>1. /\ heard < Len(happened) /\ heard' = heard + 1 /\ heard \in Nat /\ Len(happened) \in Nat
      /\ happened[heard + 1] \in Own
      /\ UNCHANGED <<happened, sending, expected, log, confused>>
  BY DEF SkipEcho, EchoInv, EchoTypeOK
<1>2. EchoTypeOK' /\ Ordered' /\ LogSound' /\ Awaited' /\ SendsPrecede' /\ HasNewest'
  BY <1>1 DEF EchoInv, EchoTypeOK, Ordered, LogSound, Awaited, SendsPrecede, HasNewest, Newest, IsLast
<1>3. LastShows'
  <2>1. \A i \in 1..Len(happened) : i <= heard + 1 => i <= heard \/ happened[i] \in Own
    BY <1>1
  <2> QED BY <1>1, <2>1 DEF EchoInv, LastShows, IsLast, Newest
<1> QED BY <1>2, <1>3 DEF EchoInv

LEMMA EchoStays == EchoInv /\ EchoNext => EchoInv'
<1> SUFFICES ASSUME EchoInv, EchoNext PROVE EchoInv'
  OBVIOUS
<1>1. ASSUME NEW m \in Change, Happen(m) PROVE EchoInv'
  BY <1>1, HappenStays
<1>2. ASSUME NEW m \in Change, Resolve(m) PROVE EchoInv'
  BY <1>2, ResolveStays
<1>3. CASE HearEcho
  BY <1>3, HearEchoStays
<1>4. CASE HearChange
  BY <1>4, HearChangeStays
<1>5. CASE SkipEcho
  BY <1>5, SkipEchoStays
<1>6. CASE ExpireEchoes
  BY <1>6, FewerEchoes DEF ExpireEchoes
<1> QED BY <1>1, <1>2, <1>3, <1>4, <1>5, <1>6 DEF EchoNext

LEMMA EchoFollows == EchoInv => ArchiveFollowsChat
<1> SUFFICES ASSUME EchoInv, heard = Len(happened), sending = {},
                    NEW i \in 1..Len(happened), NEW s \in Scopes \ confused, LastOf(s, i)
             PROVE  Shows(s, ValueOf[happened[i]])
  BY DEF ArchiveFollowsChat
<1>1. IsLast(i) /\ ScopeOf[happened[i]] = s
  BY DEF LastOf, IsLast
<1>2. IF happened[i] \in Own THEN happened[i] \notin sending ELSE i <= heard
  OBVIOUS
<1> QED BY <1>1, <1>2 DEF EchoInv, LastShows, Newest, Shows
-----------------------------------------------------------------------------
(* The account.                                                            *)

AccountTypeOK ==
  /\ owner \in Caller \cup {Nobody}
  /\ asked \in [Caller -> {"idle", "waiting", "online", "cancelled", "ended"}]
  /\ chain \in Seq(Batch \cup {OnlineLink}) /\ early \subseteq Batch

AccountFlags == merging \in BOOLEAN /\ broken \in BOOLEAN /\ synced \in BOOLEAN
                  /\ onlineSeen \in BOOLEAN /\ ready \in BOOLEAN

(* One caller runs the authentication while anybody waits for it, and it   *)
(* ends for good when the session comes online.                            *)
OneOwner ==
  /\ Authenticated => onlineSeen
  /\ onlineSeen /\ Caller # {} => Authenticated
  /\ (\E c \in Caller : asked[c] = "waiting") => owner # Nobody
  /\ owner # Nobody => asked[owner] = "waiting" /\ ~onlineSeen
  /\ phase = "linking" => owner # Nobody

(* What a link knows of its batch, and which batch is the chain's first    *)
(* when the archive has yet to settle.                                     *)
ChainHolds ==
  /\ broken => chain = <<>>
  /\ merging => chain # <<>> /\ Head(chain) # OnlineLink /\ Head(chain) \in written
  /\ ~onlineSeen => chain \in Seq(Batch) /\ ~ready
  /\ onlineSeen /\ ~ready /\ ~broken /\ early # {} => chain # <<>> /\ Head(chain) \in early
  /\ synced => written # {}

AccountInv ==
  AccountTypeOK /\ AccountFlags /\ OneOwner /\ ChainHolds /\ WaitersToldTrue /\ EchoInv

USE AccountConstants

LEMMA AccountInitInv == AccountInit => AccountInv
<1> SUFFICES ASSUME NEW live \in BOOLEAN, AccountInitAt(live) PROVE AccountInv
  BY DEF AccountInit
<1>1. EchoInv
  BY EchoInitInv DEF AccountInitAt
<1>2. AccountTypeOK
  BY DEF AccountInitAt, AccountTypeOK
<1>3. AccountFlags
  BY DEF AccountInitAt, AccountFlags
<1>4. OneOwner
  BY DEF AccountInitAt, OneOwner, Authenticated
<1>5. ChainHolds /\ WaitersToldTrue
  BY DEF AccountInitAt, ChainHolds, WaitersToldTrue
<1> QED BY <1>1, <1>2, <1>3, <1>4, <1>5 DEF AccountInv

LEMMA EchoesKept ==
  ASSUME EchoInv, UNCHANGED echoVars
  PROVE  EchoInv'
  BY FewerEchoes DEF echoVars

LEMMA SyncKept ==
  ASSUME AccountInv, UNCHANGED syncVars, UNCHANGED <<owner, asked>>, phase' \in {phase, "off"},
         syncWait' = "ok" => written # {}, archiveWait' = "ok" => onlineSeen
  PROVE  AccountTypeOK' /\ AccountFlags' /\ OneOwner' /\ ChainHolds' /\ WaitersToldTrue'
<1>1. AccountTypeOK' /\ AccountFlags'
  BY DEF AccountInv, AccountTypeOK, AccountFlags, syncVars
<1>2. OneOwner'
  BY DEF AccountInv, OneOwner, Authenticated, syncVars
<1>3. ChainHolds' /\ WaitersToldTrue'
  BY DEF AccountInv, ChainHolds, WaitersToldTrue, syncVars
<1> QED BY <1>1, <1>2, <1>3

LEMMA AuthKept ==
  ASSUME AccountInv, UNCHANGED <<syncVars, syncWait, archiveWait, echoVars>>,
         owner' \in Caller \cup {Nobody},
         asked' \in [Caller -> {"idle", "waiting", "online", "cancelled", "ended"}], OneOwner'
  PROVE  AccountInv'
<1>1. AccountTypeOK' /\ AccountFlags'
  BY DEF AccountInv, AccountTypeOK, AccountFlags, syncVars
<1>2. ChainHolds' /\ WaitersToldTrue'
  BY DEF AccountInv, ChainHolds, WaitersToldTrue, syncVars
<1> QED BY <1>1, <1>2, EchoesKept DEF AccountInv

LEMMA AuthenticateKeeps ==
  ASSUME AccountInv, NEW c \in Caller, Authenticate(c)
  PROVE  AccountInv'
<1>1. owner' \in Caller \cup {Nobody} /\ onlineSeen' = onlineSeen
      /\ asked' \in [Caller -> {"idle", "waiting", "online", "cancelled", "ended"}]
  BY DEF AccountInv, AccountTypeOK, Authenticate, syncVars
<1>2. OneOwner'
  <2>1. CASE Authenticated
    BY <1>1, <2>1 DEF AccountInv, AccountTypeOK, OneOwner, Authenticated, Authenticate
  <2>2. CASE ~Authenticated /\ owner # Nobody
    BY <1>1, <2>2 DEF AccountInv, AccountTypeOK, OneOwner, Authenticated, Authenticate
  <2>3. CASE ~Authenticated /\ owner = Nobody
    BY <1>1, <2>3 DEF AccountInv, AccountTypeOK, OneOwner, Authenticated, Authenticate
  <2> QED BY <2>1, <2>2, <2>3
<1> QED BY <1>1, <1>2, AuthKept DEF Authenticate

(* The authentication fails: its callers are told.                         *)
LEMMA FailureKeeps ==
  ASSUME AccountInv, AbortOwner \/ EndSession
  PROVE  AccountInv'
<1>1. PICK what \in {"cancelled", "ended"} : Answer(what)
  BY DEF AbortOwner, EndSession
<1>2. /\ asked' \in [Caller -> {"idle", "waiting", "online", "cancelled", "ended"}]
      /\ \A c \in Caller : asked'[c] = IF asked[c] = "waiting" THEN what ELSE asked[c]
  BY <1>1 DEF AccountInv, AccountTypeOK, Answer
<1>3. owner' = Nobody /\ phase' # "linking" /\ UNCHANGED <<syncVars, syncWait, archiveWait, echoVars>>
  BY DEF AbortOwner, EndSession
<1>4. OneOwner'
  BY <1>2, <1>3 DEF AccountInv, OneOwner, Authenticated, syncVars
<1> QED BY <1>2, <1>3, <1>4, AuthKept

LEMMA ComeOnlineKeeps ==
  ASSUME AccountInv, ComeOnline
  PROVE  AccountInv'
<1>1. ~onlineSeen /\ ~ready /\ owner \in Caller /\ asked[owner] = "waiting" /\ chain \in Seq(Batch)
  BY DEF AccountInv, AccountTypeOK, OneOwner, ChainHolds, ComeOnline
<1>2. /\ asked' \in [Caller -> {"idle", "waiting", "online", "cancelled", "ended"}]
      /\ \A c \in Caller : asked'[c] = IF asked[c] = "waiting" THEN "online" ELSE asked[c]
  BY DEF AccountInv, AccountTypeOK, ComeOnline, Answer
<1>3. OneOwner'
  BY <1>1, <1>2 DEF OneOwner, Authenticated, ComeOnline
<1>4. AccountTypeOK' /\ AccountFlags'
  BY <1>1, <1>2 DEF AccountInv, AccountTypeOK, AccountFlags, ComeOnline
<1>5. chain # <<>> /\ ~broken => chain' # <<>> /\ Head(chain') = Head(chain)
  BY <1>1 DEF ComeOnline
<1>6. early' # {} => chain # <<>> /\ Head(chain) \in early'
  BY <1>1 DEF ComeOnline
<1>7. ChainHolds'
  BY <1>1, <1>5, <1>6 DEF AccountInv, ChainHolds, ComeOnline
<1>8. WaitersToldTrue'
  BY <1>1 DEF AccountInv, WaitersToldTrue, ComeOnline
<1> QED BY <1>3, <1>4, <1>7, <1>8, EchoesKept DEF AccountInv, ComeOnline

LEMMA DeliverKeeps ==
  ASSUME AccountInv, NEW b \in Batch, DeliverBatch(b)
  PROVE  AccountInv'
<1>1. chain # <<>> /\ ~broken => chain' # <<>> /\ Head(chain') = Head(chain)
  BY DEF AccountInv, AccountTypeOK, DeliverBatch
<1>2. AccountTypeOK' /\ AccountFlags' /\ OneOwner'
  BY DEF AccountInv, AccountTypeOK, AccountFlags, OneOwner, Authenticated, DeliverBatch, authVars
<1>3. ChainHolds'
  BY <1>1 DEF AccountInv, ChainHolds, DeliverBatch
<1>4. WaitersToldTrue'
  BY DEF AccountInv, WaitersToldTrue, DeliverBatch
<1> QED BY <1>2, <1>3, <1>4, EchoesKept DEF AccountInv, DeliverBatch

LEMMA MergeKeeps ==
  ASSUME AccountInv, MergeBatch
  PROVE  AccountInv'
<1>1. AccountTypeOK' /\ AccountFlags' /\ OneOwner'
  BY DEF AccountInv, AccountTypeOK, AccountFlags, OneOwner, Authenticated, MergeBatch, authVars
<1>2. ChainHolds'
  BY DEF AccountInv, ChainHolds, MergeBatch
<1>3. WaitersToldTrue'
  BY DEF AccountInv, WaitersToldTrue, MergeBatch
<1> QED BY <1>1, <1>2, <1>3, EchoesKept DEF AccountInv, MergeBatch

LEMMA BreakKeeps ==
  ASSUME AccountInv, BreakChain
  PROVE  AccountInv'
<1>1. AccountTypeOK'
  BY DEF AccountInv, AccountTypeOK, BreakChain, authVars
<1>2. AccountFlags' /\ OneOwner'
  BY DEF AccountInv, AccountFlags, OneOwner, Authenticated, BreakChain, authVars
<1>3. ChainHolds' /\ WaitersToldTrue'
  BY DEF AccountInv, ChainHolds, WaitersToldTrue, BreakChain
<1> QED BY <1>1, <1>2, <1>3, EchoesKept DEF AccountInv, BreakChain

LEMMA EndLinkKeeps ==
  ASSUME AccountInv, EndLink
  PROVE  AccountInv'
<1>1. /\ chain' \in Seq(Batch \cup {OnlineLink}) /\ (chain \in Seq(Batch) => chain' \in Seq(Batch))
  BY DEF AccountInv, AccountTypeOK, EndLink
<1>2. AccountTypeOK' /\ AccountFlags' /\ OneOwner'
  BY <1>1 DEF AccountInv, AccountTypeOK, AccountFlags, OneOwner, Authenticated, EndLink, SettleArchive, authVars
<1>3. ~broken
  BY DEF AccountInv, ChainHolds, EndLink
<1>4. ready' = (onlineSeen \/ ready)
  BY DEF AccountInv, AccountFlags, ChainHolds, EndLink, SettleArchive
<1>5. ChainHolds'
  BY <1>1, <1>3, <1>4 DEF AccountInv, ChainHolds, EndLink
<1>6. WaitersToldTrue'
  <2>1. (\A b, c \in early : b = c) /\ ready' => early \subseteq written
    <3>1. CASE ready
      BY <3>1 DEF AccountInv, WaitersToldTrue
    <3>2. CASE onlineSeen /\ ~ready /\ early # {}
      BY <1>3, <3>2 DEF AccountInv, AccountTypeOK, ChainHolds, EndLink
    <3> QED BY <1>4, <3>1, <3>2
  <2>2. archiveWait' = "ok" => onlineSeen
    BY DEF AccountInv, WaitersToldTrue, EndLink, SettleArchive, Woken
  <2> QED BY <2>1, <2>2 DEF AccountInv, WaitersToldTrue, EndLink
<1> QED BY <1>2, <1>5, <1>6, EchoesKept DEF AccountInv, EndLink

LEMMA AccountStep == AccountInv /\ [AccountNext]_accountVars => AccountInv'
<1> SUFFICES ASSUME AccountInv, [AccountNext]_accountVars PROVE AccountInv'
  OBVIOUS
<1> USE DEF AccountInv
<1>1. ASSUME NEW c \in Caller, Authenticate(c) PROVE AccountInv'
  BY <1>1, AuthenticateKeeps
<1>2. CASE AbortOwner \/ EndSession
  BY <1>2, FailureKeeps
<1>3. CASE ComeOnline
  BY <1>3, ComeOnlineKeeps
<1>4. ASSUME NEW b \in Batch, DeliverBatch(b) PROVE AccountInv'
  BY <1>4, DeliverKeeps
<1>5. CASE MergeBatch \/ BreakChain \/ EndLink
  BY <1>5, MergeKeeps, BreakKeeps, EndLinkKeeps
<1>6. CASE WaitForSync \/ WaitForArchive \/ GiveUpWaiting
  <2>1. syncWait' = "ok" => written # {}
    BY <1>6 DEF WaitersToldTrue, ChainHolds, WaitForSync, WaitForArchive, GiveUpWaiting
  <2>2. archiveWait' = "ok" => onlineSeen
    BY <1>6 DEF WaitersToldTrue, ChainHolds, WaitForSync, WaitForArchive, GiveUpWaiting
  <2>3. UNCHANGED <<authVars, syncVars, echoVars>>
    BY <1>6 DEF WaitForSync, WaitForArchive, GiveUpWaiting
  <2> QED BY <2>1, <2>2, <2>3, SyncKept, EchoesKept DEF authVars
<1>7. CASE SendCanary \/ HearCanary \/ CanaryResolves
  <2>1. UNCHANGED <<authVars, syncVars, syncWait, archiveWait, echoVars>>
    BY <1>7 DEF SendCanary, HearCanary, CanaryResolves
  <2> QED BY <2>1, SyncKept, EchoesKept DEF authVars, WaitersToldTrue
<1>8. CASE StopAccount
  <2>1. EchoInv'
    BY <1>8, FewerEchoes DEF StopAccount
  <2>2. /\ UNCHANGED syncVars /\ UNCHANGED <<owner, asked>> /\ phase' \in {phase, "off"}
        /\ (syncWait' = "ok" => written # {}) /\ (archiveWait' = "ok" => onlineSeen)
    BY <1>8 DEF StopAccount, WaitersToldTrue
  <2> QED BY <2>1, <2>2, SyncKept
<1>9. CASE Changes
  <2>1. EchoInv'
    BY <1>9, EchoStays DEF Changes
  <2> QED BY <1>9, <2>1, SyncKept DEF Changes, authVars, WaitersToldTrue
<1>10. CASE UNCHANGED accountVars
  BY <1>10, SyncKept, EchoesKept DEF accountVars, authVars, WaitersToldTrue
<1> QED BY <1>1, <1>2, <1>3, <1>4, <1>5, <1>6, <1>7, <1>8, <1>9, <1>10 DEF AccountNext

(* The inductive invariant of the account and its echoes.                  *)
THEOREM AccountInvariant == AccountSpec => []AccountInv
  BY AccountInitInv, AccountStep, PTL DEF AccountSpec

(* Waiting callers are told the truth and none is left behind, and the     *)
(* archive shows the last change of every scope its two known mistakes     *)
(* have not touched (whatsapp-account.ts:156, 203, 309, 325).              *)
THEOREM AccountIsTrueAlways == AccountSpec => []AccountIsTrue
<1>1. AccountInv => AccountIsTrue
  BY EchoFollows DEF AccountInv, AccountIsTrue, OneOwner, CallersAnswered
<1> QED BY <1>1, AccountInvariant, PTL

-----------------------------------------------------------------------------
(* The dispatch correlator and the activity reporter.                      *)

-----------------------------------------------------------------------------
(* Sequences of turns.                                                     *)
Distinct(s) == \A i, j \in DOMAIN s : s[i] = s[j] => i = j
Before(s, t, u) == \E i, j \in DOMAIN s : i < j /\ s[i] = t /\ s[j] = u

(* What remains of the keys of a Map without one of them.                  *)
LEMMA WithoutIs ==
  ASSUME NEW S, NEW s \in Seq(S), Distinct(s), NEW t
  PROVE  /\ Without(s, t) \in Seq(S)
         /\ Distinct(Without(s, t))
         /\ \A u : Has(Without(s, t), u) <=> Has(s, u) /\ u # t
         /\ \A u, v : Before(s, u, v) /\ u # t /\ v # t => Before(Without(s, t), u, v)
<1>1. CASE ~ Has(s, t)
    BY <1>1 DEF Without, Has, Before
<1>2. CASE Has(s, t)
  <2> DEFINE at == CHOOSE i \in DOMAIN s : s[i] = t
             r == [i \in 1..(Len(s) - 1) |-> s[IF i < at THEN i ELSE i + 1]]
  <2>1. at \in DOMAIN s /\ s[at] = t
      BY <1>2 DEF Has
  <2>2. Without(s, t) = r
      BY <1>2 DEF Without
  <2> HIDE DEF at
  <2>3. DOMAIN s = 1..Len(s) /\ Len(s) \in Nat \ {0} /\ at \in 1..Len(s)
      BY <2>1
  <2>4. \A i \in 1..(Len(s) - 1) : IF i < at THEN i \in 1..Len(s) ELSE i + 1 \in 1..Len(s)
      BY <2>3
  <2>5. r \in [1..(Len(s) - 1) -> S]
      BY <2>4
  <2>6. r \in Seq(S) /\ DOMAIN r = 1..(Len(s) - 1)
      BY <2>3, <2>5
  <2>7. \A j \in 1..Len(s) : j < at => j \in 1..(Len(s) - 1) /\ r[j] = s[j]
      BY <2>3
  <2>8. \A j \in 1..Len(s) : j > at => j - 1 \in 1..(Len(s) - 1) /\ r[j - 1] = s[j]
      BY <2>3
  <2>9. \A i \in 1..(Len(s) - 1) : i < at => i \in 1..Len(s) /\ i # at /\ r[i] = s[i]
      BY <2>3
  <2>10. \A i \in 1..(Len(s) - 1) : ~(i < at) => i + 1 \in 1..Len(s) /\ i + 1 # at /\ r[i] = s[i + 1]
      BY <2>3
  <2> HIDE DEF r
  <2>11. Distinct(r)
    <3>1. SUFFICES ASSUME NEW i \in DOMAIN r, NEW j \in DOMAIN r, r[i] = r[j] PROVE i = j
        BY DEF Distinct
    <3>2. \A x, y \in 1..Len(s) : s[x] = s[y] => x = y
        BY <2>3 DEF Distinct
    <3>3. i \in 1..(Len(s) - 1) /\ j \in 1..(Len(s) - 1)
        BY <2>6
    <3>4. CASE i < at /\ j < at
        BY <3>1, <3>2, <3>3, <3>4, <2>9
    <3>5. CASE i < at /\ ~(j < at)
      <4>1. i = j + 1
          BY <3>1, <3>2, <3>3, <3>5, <2>9, <2>10
      <4> QED
          BY <4>1, <3>3, <3>5, <2>3
    <3>6. CASE ~(i < at) /\ j < at
      <4>1. j = i + 1
          BY <3>1, <3>2, <3>3, <3>6, <2>9, <2>10
      <4> QED
          BY <4>1, <3>3, <3>6, <2>3
    <3>7. CASE ~(i < at) /\ ~(j < at)
      <4>1. i + 1 = j + 1
          BY <3>1, <3>2, <3>3, <3>7, <2>10
      <4> QED
          BY <4>1, <3>3
    <3> QED
        BY <3>4, <3>5, <3>6, <3>7
  <2>12. ASSUME NEW u, Has(r, u) PROVE Has(s, u) /\ u # t
    <3>1. PICK i \in 1..(Len(s) - 1) : r[i] = u
        BY <2>6, <2>12 DEF Has
    <3>2. PICK j \in 1..Len(s) : j # at /\ s[j] = u
        BY <3>1, <2>9, <2>10
    <3>3. u # t
        BY <3>2, <2>1, <2>3 DEF Distinct
    <3> QED
        BY <3>2, <3>3, <2>3 DEF Has
  <2>13. ASSUME NEW u, Has(s, u), u # t PROVE Has(r, u)
    <3>1. PICK j \in 1..Len(s) : s[j] = u
        BY <2>3, <2>13 DEF Has
    <3>2. j < at \/ j > at
        BY <3>1, <2>1, <2>3, <2>13
    <3>3. \E i \in 1..(Len(s) - 1) : r[i] = u
        BY <3>1, <3>2, <2>7, <2>8
    <3> QED
        BY <3>3, <2>6 DEF Has
  <2>14. ASSUME NEW u, NEW v, Before(s, u, v), u # t, v # t PROVE Before(r, u, v)
    <3>1. PICK i \in 1..Len(s), j \in 1..Len(s) : i < j /\ s[i] = u /\ s[j] = v
        BY <2>3, <2>14 DEF Before
    <3>2. i # at /\ j # at
        BY <3>1, <2>1, <2>14
    <3>3. CASE j < at
      <4>1. i < at
          BY <3>1, <3>3, <2>3
      <4> QED
          BY <4>1, <3>1, <3>3, <2>6, <2>7 DEF Before
    <3>4. CASE i < at /\ j > at
      <4>1. i < j - 1 
          BY <3>1, <3>4, <2>3
      <4> QED
          BY <4>1, <3>1, <3>4, <2>6, <2>7, <2>8 DEF Before
    <3>5. CASE i > at
      <4>1. j > at /\ i - 1 < j - 1
          BY <3>1, <3>5, <2>3
      <4> QED
          BY <4>1, <3>1, <3>5, <2>6, <2>8 DEF Before
    <3> QED
        BY <3>1, <3>2, <3>3, <3>4, <3>5, <2>3
  <2> QED
      BY <2>2, <2>6, <2>11, <2>12, <2>13, <2>14
<1> QED
    BY <1>1, <1>2

(* What a sequence holds when one is appended to it.                       *)
LEMMA Appended ==
  ASSUME NEW S, NEW s \in Seq(S), NEW t \in S
  PROVE  /\ Append(s, t) \in Seq(S)
         /\ \A u : Has(Append(s, t), u) <=> Has(s, u) \/ u = t
         /\ Distinct(s) /\ ~ Has(s, t) => Distinct(Append(s, t))
         /\ \A u, v : Before(s, u, v) => Before(Append(s, t), u, v)
         /\ \A u : Has(s, u) => Before(Append(s, t), u, t)
<1> DEFINE r == Append(s, t)
<1>1. /\ r \in Seq(S)
      /\ Len(s) \in Nat
      /\ DOMAIN s = 1..Len(s)
      /\ DOMAIN r = 1..(Len(s) + 1)
      /\ \A i \in 1..Len(s) : i \in 1..(Len(s) + 1) /\ r[i] = s[i]
      /\ Len(s) + 1 \in 1..(Len(s) + 1) /\ r[Len(s) + 1] = t
    OBVIOUS
<1> HIDE DEF r
<1>2. \A i \in 1..(Len(s) + 1) : i \in 1..Len(s) \/ i = Len(s) + 1
    BY <1>1
<1>3. \A i \in 1..Len(s) : i < Len(s) + 1
    BY <1>1
<1>4. \A u : Has(r, u) <=> Has(s, u) \/ u = t
    BY <1>1, <1>2 DEF Has
<1>5. Distinct(s) /\ ~ Has(s, t) => Distinct(r)
    BY <1>1, <1>2 DEF Has, Distinct
<1>6. \A u, v : Before(s, u, v) => Before(r, u, v)
    BY <1>1 DEF Before
<1>7. \A u : Has(s, u) => Before(r, u, t)
    BY <1>1, <1>3 DEF Before, Has
<1> QED
    BY <1>1, <1>4, <1>5, <1>6, <1>7 DEF r

(* What a sequence holds without its head.                                 *)
LEMMA TailIs ==
  ASSUME NEW S, NEW s \in Seq(S), s # <<>>
  PROVE  /\ Head(s) \in S /\ Has(s, Head(s))
         /\ Tail(s) \in Seq(S)
         /\ \A u : Has(Tail(s), u) => Has(s, u)
         /\ Distinct(s) => Distinct(Tail(s)) /\ \A u : Has(Tail(s), u) <=> Has(s, u) /\ u # Head(s)
         /\ \A u, v : Before(s, u, v) /\ Distinct(s) /\ u # Head(s) => Before(Tail(s), u, v)
<1> DEFINE r == Tail(s)
<1>1. /\ r \in Seq(S) /\ Head(s) = s[1] /\ Head(s) \in S
      /\ Len(s) \in Nat \ {0}
      /\ DOMAIN s = 1..Len(s) /\ 1 \in 1..Len(s)
      /\ DOMAIN r = 1..(Len(s) - 1)
      /\ \A i \in 1..(Len(s) - 1) : i + 1 \in 1..Len(s) /\ i + 1 # 1 /\ r[i] = s[i + 1]
    OBVIOUS
<1> HIDE DEF r
<1>2. \A i \in 1..Len(s) : i = 1 \/ (i - 1 \in 1..(Len(s) - 1) /\ (i - 1) + 1 = i)
    BY <1>1
<1>3. \A u : Has(r, u) => Has(s, u)
    BY <1>1 DEF Has
<1>4. Distinct(s) => Distinct(r)
  <2>1. SUFFICES ASSUME Distinct(s), NEW i \in 1..(Len(s) - 1), NEW j \in 1..(Len(s) - 1), r[i] = r[j] PROVE i = j
      BY <1>1 DEF Distinct
  <2>2. i + 1 = j + 1
      BY <2>1, <1>1 DEF Distinct
  <2> QED
      BY <2>2
<1>5. ASSUME Distinct(s), NEW u PROVE Has(r, u) <=> Has(s, u) /\ u # s[1]
  <2>1. ASSUME Has(r, u) PROVE u # s[1]
    <3>1. PICK i \in 1..(Len(s) - 1) : r[i] = u
        BY <1>1, <2>1 DEF Has
    <3> QED
        BY <3>1, <1>1, <1>5 DEF Distinct
  <2>2. ASSUME Has(s, u), u # s[1] PROVE Has(r, u)
    <3>1. PICK i \in 1..Len(s) : s[i] = u
        BY <1>1, <2>2 DEF Has
    <3>2. i - 1 \in 1..(Len(s) - 1) /\ (i - 1) + 1 = i
        BY <3>1, <2>2, <1>2
    <3>3. r[i - 1] = u
        BY <3>1, <3>2, <1>1
    <3> QED
        BY <3>2, <3>3, <1>1 DEF Has
  <2> QED
      BY <2>1, <2>2, <1>3
<1>6. ASSUME NEW u, NEW v, Before(s, u, v), u # s[1] PROVE Before(r, u, v)
  <2>1. PICK i \in 1..Len(s), j \in 1..Len(s) : i < j /\ s[i] = u /\ s[j] = v
      BY <1>1, <1>6 DEF Before
  <2>2. i # 1 /\ j # 1 /\ i - 1 < j - 1
      BY <2>1, <1>1, <1>6
  <2>3. /\ i - 1 \in 1..(Len(s) - 1) /\ (i - 1) + 1 = i
        /\ j - 1 \in 1..(Len(s) - 1) /\ (j - 1) + 1 = j
      BY <2>2, <1>2
  <2>4. r[i - 1] = u /\ r[j - 1] = v
      BY <2>1, <2>3, <1>1
  <2> QED
      BY <2>2, <2>3, <2>4, <1>1 DEF Before
<1> QED
    BY <1>1, <1>3, <1>4, <1>5, <1>6 DEF r, Has

-----------------------------------------------------------------------------
(* The tracker.                                                            *)
Ends     == {"ended", "errored", "settled", "aborted"}
Begun    == {<<"start">>} \cup {<<"start", e>> : e \in Ends}
Finished == {<<e>> : e \in Ends} \cup {<<"start", e>> : e \in Ends}
Buffers  == {<<>>} \cup Begun \cup Finished
Notices  == {"dispatched", "spoke"} \cup Closing

Tracker ==
  [active : Seq(Dispatch), early : Seq(Dispatch), buffered : [Dispatch -> Buffers],
   settled : Seq(Dispatch), ignored : Seq(Dispatch), announced : SUBSET Dispatch,
   byKey : [TurnChats -> Dispatch \cup {NoDispatch}],
   spoken : SUBSET Dispatch, told : [Dispatch -> Seq(Notices)],
   evicted : SUBSET Dispatch, missed : SUBSET Dispatch]

Keys(k) == Distinct(k.active) /\ Distinct(k.early)

Once(s, kinds) == \A i, j \in DOMAIN s : {s[i], s[j]} \subseteq kinds => i = j

(* When at most one notice of some kinds stays at most one.                *)
LEMMA OnceIs ==
  ASSUME NEW S, NEW s \in Seq(S), NEW w \in S, NEW kinds
  PROVE  /\ w \notin kinds /\ Once(s, kinds) => Once(Append(s, w), kinds)
         /\ (\A x \in kinds : ~ Has(s, x)) => Once(Append(s, w), kinds)
<1> DEFINE r == Append(s, w)
<1>1. /\ Len(s) \in Nat
      /\ DOMAIN s = 1..Len(s)
      /\ DOMAIN r = 1..(Len(s) + 1)
      /\ \A i \in 1..Len(s) : r[i] = s[i]
      /\ r[Len(s) + 1] = w
    OBVIOUS
<1> HIDE DEF r
<1>2. \A i \in 1..(Len(s) + 1) : i \in 1..Len(s) \/ i = Len(s) + 1
    BY <1>1
<1>3. w \notin kinds /\ Once(s, kinds) => Once(r, kinds)
    BY <1>1, <1>2 DEF Once
<1>4. (\A x \in kinds : ~ Has(s, x)) => Once(r, kinds)
    BY <1>1, <1>2 DEF Once, Has
<1> QED
    BY <1>3, <1>4 DEF r

(* Every turn has a chat.                                                  *)
LEMMA ChatIs ==
  ASSUME NEW t \in Dispatch
  PROVE  TurnChat[t] \in TurnChats
BY DEF TurnChats

(* What a tracker says of a turn t is in r what it is in k, but that the   *)
(* settled and the ignored may have been trimmed.                          *)
Same(k, r, t) ==
  /\ Has(r.active, t) <=> Has(k.active, t)
  /\ Has(r.early, t) <=> Has(k.early, t)
  /\ r.buffered[t] = k.buffered[t]
  /\ Has(r.settled, t) => Has(k.settled, t)
  /\ Has(r.ignored, t) => Has(k.ignored, t)
  /\ t \in r.announced <=> t \in k.announced
  /\ t \in r.spoken <=> t \in k.spoken
  /\ r.told[t] = k.told[t]
  /\ t \in r.evicted <=> t \in k.evicted
  /\ t \in r.missed <=> t \in k.missed

(* A notice is added to what was told of its turn.                         *)
LEMMA TellsIs ==
  ASSUME NEW k \in Tracker, NEW t \in Dispatch, NEW w \in Notices
  PROVE  /\ Tells(k, t, w) \in Tracker
         /\ Tells(k, t, w).told = [k.told EXCEPT ![t] = Append(@, w)]
         /\ Tells(k, t, w).active = k.active
         /\ Tells(k, t, w).early = k.early
         /\ Tells(k, t, w).buffered = k.buffered
         /\ Tells(k, t, w).settled = k.settled
         /\ Tells(k, t, w).ignored = k.ignored
         /\ Tells(k, t, w).announced = k.announced
         /\ Tells(k, t, w).byKey = k.byKey
         /\ Tells(k, t, w).spoken = k.spoken
         /\ Tells(k, t, w).evicted = k.evicted
         /\ Tells(k, t, w).missed = k.missed
<1>1. k.told[t] \in Seq(Notices)
    BY DEF Tracker
<1>2. Append(k.told[t], w) \in Seq(Notices)
    BY <1>1
<1> QED
    BY <1>2 DEF Tells, Tracker

(* The told of a turn once it is announced.                                *)
Announced(k, t) == IF t \in k.announced THEN k.told[t] ELSE Append(k.told[t], "dispatched")

(* A turn that was not announced is.                                       *)
LEMMA AnnounceIs ==
  ASSUME NEW k \in Tracker, NEW t \in Dispatch, NEW r, r = Announce(k, t)
  PROVE  /\ r \in Tracker
         /\ r.told = [k.told EXCEPT ![t] = Announced(k, t)]
         /\ r.active = k.active
         /\ r.early = k.early
         /\ r.buffered = k.buffered
         /\ r.settled = k.settled
         /\ r.ignored = k.ignored
         /\ r.announced = k.announced \cup {t}
         /\ r.byKey = k.byKey
         /\ r.spoken = k.spoken
         /\ r.evicted = k.evicted
         /\ r.missed = k.missed
<1> DEFINE m == Tells(k, t, "dispatched")
<1>1. CASE t \in k.announced
    BY <1>1 DEF Announce, Announced, Tracker
<1>2. CASE t \notin k.announced
  <2>1. /\ m \in Tracker
        /\ m.told = [k.told EXCEPT ![t] = Append(@, "dispatched")]
        /\ m.active = k.active /\ m.early = k.early /\ m.buffered = k.buffered
        /\ m.settled = k.settled /\ m.ignored = k.ignored /\ m.announced = k.announced
        /\ m.byKey = k.byKey /\ m.spoken = k.spoken /\ m.evicted = k.evicted /\ m.missed = k.missed
      BY TellsIs DEF Notices
  <2>2. r = [m EXCEPT !.announced = @ \cup {t}]
      BY <1>2 DEF Announce
  <2>3. Announced(k, t) = Append(k.told[t], "dispatched")
      BY <1>2 DEF Announced
  <2> HIDE DEF m
  <2>4. m \in Tracker /\ m.announced \cup {t} \in SUBSET Dispatch
      BY <2>1 DEF Tracker
  <2>6. /\ r \in Tracker
        /\ r.announced = m.announced \cup {t}
        /\ r.told = m.told
        /\ r.active = m.active /\ r.early = m.early /\ r.buffered = m.buffered
        /\ r.settled = m.settled /\ r.ignored = m.ignored
        /\ r.byKey = m.byKey /\ r.spoken = m.spoken /\ r.evicted = m.evicted /\ r.missed = m.missed
      BY <2>2, <2>4 DEF Tracker
  <2>5. m.told = [k.told EXCEPT ![t] = Announced(k, t)]
      BY <2>1, <2>3
  <2> QED
      BY <2>1, <2>5, <2>6
<1> QED
    BY <1>1, <1>2

(* A forgotten turn is neither active nor announced nor a chat's key.      *)
LEMMA ForgetIs ==
  ASSUME NEW k \in Tracker, Distinct(k.active), NEW t \in Dispatch, NEW r, r = Forget(k, t)
  PROVE  /\ r \in Tracker
         /\ r.told = k.told
         /\ r.active = Without(k.active, t)
         /\ r.early = k.early
         /\ r.buffered = k.buffered
         /\ r.settled = k.settled
         /\ r.ignored = k.ignored
         /\ r.announced = k.announced \ {t}
         /\ \A c \in TurnChats :
              r.byKey[c] = IF k.byKey[c] = t /\ Has(k.active, t) THEN NoDispatch ELSE k.byKey[c]
         /\ r.spoken = k.spoken
         /\ r.evicted = k.evicted
         /\ r.missed = k.missed
<1>1. Without(k.active, t) \in Seq(Dispatch)
    BY WithoutIs DEF Tracker
<1> QED
    BY <1>1 DEF Forget, Tracker

(* A full map loses its oldest entry.                                      *)
LEMMA Trimmed ==
  ASSUME NEW s \in Seq(Dispatch)
  PROVE  /\ Trim(s) \in Seq(Dispatch)
         /\ \A u : Has(Trim(s), u) => Has(s, u)
<1>1. CASE Full(s)
  <2>1. s # <<>>
      BY <1>1, TurnConstants DEF Full
  <2> QED
      BY <1>1, <2>1, TailIs DEF Trim
<1>2. CASE ~ Full(s)
    BY <1>2 DEF Trim
<1> QED
    BY <1>1, <1>2

(* A turn whose verdict was told is forgotten.                             *)
LEMMA MarkSettledIs ==
  ASSUME NEW k \in Tracker, Distinct(k.active), NEW t \in Dispatch, NEW r, r = MarkSettled(k, t)
  PROVE  /\ r \in Tracker
         /\ r.told = k.told
         /\ r.active = Without(k.active, t)
         /\ r.early = k.early
         /\ r.buffered = k.buffered
         /\ \A u : Has(r.settled, u) => Has(k.settled, u) \/ u = t
         /\ Has(r.settled, t)
         /\ r.ignored = k.ignored
         /\ r.announced = k.announced \ {t}
         /\ \A c \in TurnChats :
              r.byKey[c] = IF k.byKey[c] = t /\ Has(k.active, t) THEN NoDispatch ELSE k.byKey[c]
         /\ r.spoken = k.spoken
         /\ r.evicted = k.evicted
         /\ r.missed = k.missed
<1> DEFINE m == Forget(k, t)
<1>1. /\ m \in Tracker
      /\ m.told = k.told /\ m.active = Without(k.active, t) /\ m.early = k.early
      /\ m.buffered = k.buffered /\ m.settled = k.settled /\ m.ignored = k.ignored
      /\ m.announced = k.announced \ {t}
      /\ \A c \in TurnChats :
           m.byKey[c] = IF k.byKey[c] = t /\ Has(k.active, t) THEN NoDispatch ELSE k.byKey[c]
      /\ m.spoken = k.spoken /\ m.evicted = k.evicted /\ m.missed = k.missed
    BY ForgetIs
<1>2. r = [m EXCEPT !.settled = Append(Trim(@), t)]
    BY DEF MarkSettled
<1> HIDE DEF m
<1>3. k.settled \in Seq(Dispatch)
    BY DEF Tracker
<1>4. /\ Trim(k.settled) \in Seq(Dispatch)
      /\ \A u : Has(Trim(k.settled), u) => Has(k.settled, u)
    BY <1>3, Trimmed
<1>5. /\ Append(Trim(k.settled), t) \in Seq(Dispatch)
      /\ \A u : Has(Append(Trim(k.settled), t), u) <=> Has(Trim(k.settled), u) \/ u = t
    BY <1>4, Appended
<1>6. PICK s : s = Append(Trim(k.settled), t)
    OBVIOUS
<1>7. s \in Seq(Dispatch) /\ \A u : Has(s, u) <=> Has(Trim(k.settled), u) \/ u = t
    BY <1>5, <1>6
<1>8. r = [m EXCEPT !.settled = s]
    BY <1>1, <1>2, <1>6
<1>9. /\ r \in Tracker
      /\ r.settled = s
      /\ r.told = m.told /\ r.active = m.active /\ r.early = m.early /\ r.buffered = m.buffered
      /\ r.ignored = m.ignored /\ r.announced = m.announced /\ r.byKey = m.byKey
      /\ r.spoken = m.spoken /\ r.evicted = m.evicted /\ r.missed = m.missed
    BY <1>1, <1>7, <1>8 DEF Tracker
<1>10. /\ \A u : Has(r.settled, u) => Has(k.settled, u) \/ u = t
       /\ Has(r.settled, t)
    BY <1>4, <1>7, <1>9
<1> QED
    BY <1>1, <1>9, <1>10

JudgedTold(k, r, t) ==
  \E v \in Closing : /\ v = "silent" => t \notin k.spoken
                     /\ r.told = [k.told EXCEPT ![t] = Append(@, v)]

(* The verdict on a turn: silent only if it was not heard.                 *)
LEMMA VerdictIs ==
  ASSUME NEW k \in Tracker, NEW t \in Dispatch, NEW ok \in BOOLEAN, NEW r, r = Verdict(k, t, ok)
  PROVE  /\ r \in Tracker
         /\ JudgedTold(k, r, t)
         /\ r.active = k.active
         /\ r.early = k.early
         /\ r.buffered = k.buffered
         /\ r.settled = k.settled
         /\ r.ignored = k.ignored
         /\ r.announced = k.announced
         /\ r.byKey = k.byKey
         /\ r.spoken = k.spoken \ {t}
         /\ r.evicted = k.evicted
         /\ r.missed = k.missed
<1> DEFINE v == IF ~ok THEN "failed" ELSE IF t \in k.spoken THEN "done" ELSE "silent"
           m == Tells(k, t, v)
<1>1. v \in Closing /\ v \in Notices /\ (v = "silent" => t \notin k.spoken)
    BY DEF Closing, Notices
<1>2. r = [m EXCEPT !.spoken = @ \ {t}]
    BY DEF Verdict
<1> HIDE DEF v
<1>3. /\ m \in Tracker
      /\ m.told = [k.told EXCEPT ![t] = Append(@, v)]
      /\ m.active = k.active /\ m.early = k.early /\ m.buffered = k.buffered
      /\ m.settled = k.settled /\ m.ignored = k.ignored /\ m.announced = k.announced
      /\ m.byKey = k.byKey /\ m.spoken = k.spoken /\ m.evicted = k.evicted /\ m.missed = k.missed
    BY <1>1, TellsIs
<1> HIDE DEF m
<1>4. /\ r \in Tracker
      /\ r.told = m.told
      /\ r.active = k.active /\ r.early = k.early /\ r.buffered = k.buffered
      /\ r.settled = k.settled /\ r.ignored = k.ignored /\ r.announced = k.announced
      /\ r.byKey = k.byKey /\ r.spoken = k.spoken \ {t} /\ r.evicted = k.evicted /\ r.missed = k.missed
    BY <1>2, <1>3 DEF Tracker
<1>5. JudgedTold(k, r, t)
    BY <1>1, <1>3, <1>4 DEF JudgedTold
<1> QED
    BY <1>4, <1>5

(* Remembering a turn may push out the oldest one.                         *)
Pushed(k, t) == IF Full(k.active) THEN {Head(k.active)} ELSE {}

(* Remembering a turn may forget the oldest active one.                    *)
LEMMA RememberIs ==
  ASSUME NEW k \in Tracker, Keys(k), NEW t \in Dispatch, NEW r, r = Remember(k, t)
  PROVE  /\ r \in Tracker
         /\ Keys(r)
         /\ r.told = k.told
         /\ Pushed(k, t) \in SUBSET Dispatch
         /\ \A u \in Dispatch : Has(r.active, u) <=> (Has(k.active, u) /\ u \notin Pushed(k, t)) \/ u = t
         /\ \A u \in Pushed(k, t) : Has(k.active, u)
         /\ r.early = k.early
         /\ r.buffered = k.buffered
         /\ r.settled = k.settled
         /\ r.ignored = k.ignored
         /\ r.announced = k.announced \ Pushed(k, t)
         /\ \A c \in TurnChats :
              r.byKey[c] = IF k.byKey[c] \in Pushed(k, t) THEN NoDispatch ELSE k.byKey[c]
         /\ r.spoken = k.spoken
         /\ r.evicted = k.evicted \cup Pushed(k, t)
         /\ r.missed = k.missed
<1> DEFINE h == Head(k.active)
           f == Forget(k, h)
           room == IF Full(k.active) THEN [f EXCEPT !.evicted = @ \cup {h}] ELSE k
<1>1. r = [room EXCEPT !.active = IF Has(@, t) THEN @ ELSE Append(@, t)]
    BY DEF Remember
<1>2. Distinct(k.active) /\ Distinct(k.early) /\ k.active \in Seq(Dispatch)
    BY DEF Keys, Tracker
<1>3. /\ room \in Tracker
      /\ Distinct(room.active)
      /\ room.told = k.told
      /\ Pushed(k, t) \in SUBSET Dispatch
      /\ \A u \in Dispatch : Has(room.active, u) <=> Has(k.active, u) /\ u \notin Pushed(k, t)
      /\ \A u \in Pushed(k, t) : Has(k.active, u)
      /\ room.early = k.early
      /\ room.buffered = k.buffered
      /\ room.settled = k.settled
      /\ room.ignored = k.ignored
      /\ room.announced = k.announced \ Pushed(k, t)
      /\ \A c \in TurnChats :
           room.byKey[c] = IF k.byKey[c] \in Pushed(k, t) THEN NoDispatch ELSE k.byKey[c]
      /\ room.spoken = k.spoken
      /\ room.evicted = k.evicted \cup Pushed(k, t)
      /\ room.missed = k.missed
  <2>1. CASE ~ Full(k.active)
    <3>1. room = k /\ Pushed(k, t) = {}
        BY <2>1 DEF Pushed
    <3> HIDE DEF room
    <3> QED
        BY <3>1, <1>2
  <2>2. CASE Full(k.active)
    <3>1. k.active # <<>>
        BY <2>2, TurnConstants DEF Full
    <3>2. h \in Dispatch /\ Has(k.active, h)
        BY <3>1, <1>2, TailIs
    <3>3. Pushed(k, t) = {h} /\ room = [f EXCEPT !.evicted = @ \cup {h}]
        BY <2>2 DEF Pushed
    <3> HIDE DEF room, h
    <3>4. /\ f \in Tracker
          /\ f.told = k.told /\ f.active = Without(k.active, h) /\ f.early = k.early
          /\ f.buffered = k.buffered /\ f.settled = k.settled /\ f.ignored = k.ignored
          /\ f.announced = k.announced \ {h}
          /\ \A c \in TurnChats :
               f.byKey[c] = IF k.byKey[c] = h /\ Has(k.active, h) THEN NoDispatch ELSE k.byKey[c]
          /\ f.spoken = k.spoken /\ f.evicted = k.evicted /\ f.missed = k.missed
        BY <3>2, <1>2, ForgetIs
    <3>5. /\ Distinct(Without(k.active, h))
          /\ \A u : Has(Without(k.active, h), u) <=> Has(k.active, u) /\ u # h
        BY <1>2, WithoutIs
    <3> HIDE DEF f
    <3>6. /\ room \in Tracker
          /\ room.told = f.told /\ room.active = f.active /\ room.early = f.early
          /\ room.buffered = f.buffered /\ room.settled = f.settled /\ room.ignored = f.ignored
          /\ room.announced = f.announced /\ room.byKey = f.byKey /\ room.spoken = f.spoken
          /\ room.evicted = f.evicted \cup {h} /\ room.missed = f.missed
        BY <3>2, <3>3, <3>4 DEF Tracker
    <3> QED
        BY <3>2, <3>3, <3>4, <3>5, <3>6
  <2> QED
      BY <2>1, <2>2
<1> HIDE DEF room, f, h
<1>4. room.active \in Seq(Dispatch)
    BY <1>3 DEF Tracker
<1> DEFINE next == IF Has(room.active, t) THEN room.active ELSE Append(room.active, t)
<1>5. /\ next \in Seq(Dispatch) /\ Distinct(next)
      /\ \A u : Has(next, u) <=> Has(room.active, u) \/ u = t
  <2>1. CASE Has(room.active, t)
      BY <2>1, <1>3, <1>4
  <2>2. CASE ~ Has(room.active, t)
    <3>1. next = Append(room.active, t)
        BY <2>2
    <3> QED
        BY <2>2, <3>1, <1>3, <1>4, Appended
  <2> QED
      BY <2>1, <2>2
<1>6. r = [room EXCEPT !.active = next]
    BY <1>1, <1>3 DEF Tracker
<1> HIDE DEF next
<1>7. /\ r \in Tracker
      /\ r.told = room.told /\ r.active = next /\ r.early = room.early
      /\ r.buffered = room.buffered /\ r.settled = room.settled /\ r.ignored = room.ignored
      /\ r.announced = room.announced /\ r.byKey = room.byKey /\ r.spoken = room.spoken
      /\ r.evicted = room.evicted /\ r.missed = room.missed
    BY <1>3, <1>5, <1>6 DEF Tracker
<1>8. Keys(r)
    BY <1>2, <1>3, <1>5, <1>7 DEF Keys
<1> QED
    BY <1>3, <1>5, <1>7, <1>8

(* A turn's observations are dropped.                                      *)
LEMMA DropIs ==
  ASSUME NEW k \in Tracker, Keys(k), NEW t \in Dispatch, NEW r, r = Drop(k, t)
  PROVE  /\ r \in Tracker
         /\ Keys(r)
         /\ r.told = k.told
         /\ r.active = k.active
         /\ \A u : Has(r.early, u) <=> Has(k.early, u) /\ u # t
         /\ \A u, v : Before(k.early, u, v) /\ u # t /\ v # t => Before(r.early, u, v)
         /\ r.buffered = [k.buffered EXCEPT ![t] = <<>>]
         /\ r.settled = k.settled
         /\ r.ignored = k.ignored
         /\ r.announced = k.announced
         /\ r.byKey = k.byKey
         /\ r.spoken = k.spoken
         /\ r.evicted = k.evicted
         /\ r.missed = k.missed
<1>1. k.early \in Seq(Dispatch) /\ Distinct(k.early) /\ Distinct(k.active)
    BY DEF Tracker, Keys
<1> DEFINE e == Without(k.early, t)
<1>2. /\ e \in Seq(Dispatch) /\ Distinct(e)
      /\ \A u : Has(e, u) <=> Has(k.early, u) /\ u # t
      /\ \A u, v : Before(k.early, u, v) /\ u # t /\ v # t => Before(e, u, v)
    BY <1>1, WithoutIs
<1>3. r = [k EXCEPT !.early = e, !.buffered[t] = <<>>]
    BY DEF Drop
<1> HIDE DEF e
<1> DEFINE b == [k.buffered EXCEPT ![t] = <<>>]
<1>4. r = [k EXCEPT !.early = e, !.buffered = b]
    BY <1>3
<1>7. b \in [Dispatch -> Buffers]
    BY DEF Buffers, Tracker
<1>5. /\ r \in Tracker
      /\ r.early = e
      /\ r.told = k.told /\ r.active = k.active /\ r.buffered = b
      /\ r.settled = k.settled /\ r.ignored = k.ignored /\ r.announced = k.announced
      /\ r.byKey = k.byKey /\ r.spoken = k.spoken /\ r.evicted = k.evicted /\ r.missed = k.missed
  <2> HIDE DEF b
  <2> QED
      BY <1>2, <1>4, <1>7 DEF Tracker
<1>6. Keys(r)
    BY <1>1, <1>2, <1>5 DEF Keys
<1> QED
    BY <1>2, <1>5, <1>6

(* A turn that starts becomes its chat's key.                              *)
LEMMA StartIs ==
  ASSUME NEW k \in Tracker, Keys(k), NEW t \in Dispatch, NEW r, r = Report(k, t, "start")
  PROVE  /\ r \in Tracker
         /\ Keys(r)
         /\ r.told = [k.told EXCEPT ![t] = Announced(k, t)]
         /\ r.active = k.active
         /\ r.early = k.early
         /\ r.buffered = k.buffered
         /\ r.settled = k.settled
         /\ r.ignored = k.ignored
         /\ r.announced = k.announced \cup {t}
         /\ r.byKey = [k.byKey EXCEPT ![TurnChat[t]] = t]
         /\ r.spoken = k.spoken
         /\ r.evicted = k.evicted
         /\ r.missed = k.missed
<1> DEFINE m == Announce(k, t)
           b == [k.byKey EXCEPT ![TurnChat[t]] = t]
<1>1. /\ m \in Tracker
      /\ m.told = [k.told EXCEPT ![t] = Announced(k, t)]
      /\ m.active = k.active /\ m.early = k.early /\ m.buffered = k.buffered
      /\ m.settled = k.settled /\ m.ignored = k.ignored /\ m.announced = k.announced \cup {t}
      /\ m.byKey = k.byKey /\ m.spoken = k.spoken /\ m.evicted = k.evicted /\ m.missed = k.missed
    BY AnnounceIs
<1>2. r = [m EXCEPT !.byKey[TurnChat[t]] = t]
    BY DEF Report
<1> HIDE DEF m
<1>3. r = [m EXCEPT !.byKey = b]
    BY <1>1, <1>2 DEF Tracker
<1>4. b \in [TurnChats -> Dispatch \cup {NoDispatch}]
    BY ChatIs DEF Tracker
<1> HIDE DEF b
<1>5. /\ r \in Tracker
      /\ r.byKey = b
      /\ r.told = m.told /\ r.active = m.active /\ r.early = m.early /\ r.buffered = m.buffered
      /\ r.settled = m.settled /\ r.ignored = m.ignored /\ r.announced = m.announced
      /\ r.spoken = m.spoken /\ r.evicted = m.evicted /\ r.missed = m.missed
    BY <1>1, <1>3, <1>4 DEF Tracker
<1> USE DEF b
<1>6. Keys(r)
    BY <1>1, <1>5 DEF Keys
<1> QED
    BY <1>1, <1>5, <1>6

(* What was told before a verdict: a recovered turn is announced first.    *)
Prelude(k, t, e) == IF e \in {"settled", "aborted"} THEN Announced(k, t) ELSE k.told[t]

(* A turn's end: its verdict is told, and the turn is settled.             *)
EndTold(k, r, t, e) ==
  \E v \in Closing : /\ v = "silent" => t \notin k.spoken
                     /\ r.told = [k.told EXCEPT ![t] = Append(Prelude(k, t, e), v)]

(* A turn that ends is judged and forgotten.                               *)
LEMMA EndIs ==
  ASSUME NEW k \in Tracker, Keys(k), NEW t \in Dispatch, NEW e \in Ends, NEW r, r = Report(k, t, e)
  PROVE  /\ r \in Tracker
         /\ Keys(r)
         /\ EndTold(k, r, t, e)
         /\ \A u : Has(r.active, u) <=> Has(k.active, u) /\ u # t
         /\ r.early = k.early
         /\ r.buffered = k.buffered
         /\ \A u : Has(r.settled, u) => Has(k.settled, u) \/ u = t
         /\ Has(r.settled, t)
         /\ r.ignored = k.ignored
         /\ \A u : u # t => (u \in r.announced <=> u \in k.announced)
         /\ t \notin r.announced
         /\ \A c \in TurnChats :
              r.byKey[c] = IF k.byKey[c] = t /\ Has(k.active, t) THEN NoDispatch ELSE k.byKey[c]
         /\ r.spoken = k.spoken \ {t}
         /\ r.evicted = k.evicted
         /\ r.missed = k.missed
<1> DEFINE a == IF e \in {"settled", "aborted"} THEN Announce(k, t) ELSE k
           ok == e \in {"settled", "ended"}
           m == Verdict(a, t, ok)
<1>1. /\ a \in Tracker
      /\ a.told = [k.told EXCEPT ![t] = Prelude(k, t, e)]
      /\ a.active = k.active /\ a.early = k.early /\ a.buffered = k.buffered
      /\ a.settled = k.settled /\ a.ignored = k.ignored
      /\ \A u : u # t => (u \in a.announced <=> u \in k.announced)
      /\ a.byKey = k.byKey /\ a.spoken = k.spoken /\ a.evicted = k.evicted /\ a.missed = k.missed
  <2>1. CASE e \in {"settled", "aborted"}
    <3>1. a = Announce(k, t) /\ Prelude(k, t, e) = Announced(k, t)
        BY <2>1 DEF Prelude
    <3> HIDE DEF a
    <3> QED
        BY <3>1, AnnounceIs
  <2>2. CASE e \notin {"settled", "aborted"}
    <3>1. a = k /\ Prelude(k, t, e) = k.told[t]
        BY <2>2 DEF Prelude
    <3>2. k.told = [k.told EXCEPT ![t] = k.told[t]]
        BY DEF Tracker
    <3> HIDE DEF a
    <3> QED
        BY <3>1, <3>2
  <2> QED
      BY <2>1, <2>2
<1>2. r = MarkSettled(m, t)
  <2>1. CASE e = "settled"
      BY <2>1 DEF Report
  <2>2. CASE e = "aborted"
      BY <2>2 DEF Report
  <2>3. CASE e = "ended"
      BY <2>3 DEF Report
  <2>4. CASE e = "errored"
      BY <2>4 DEF Report
  <2> QED
      BY <2>1, <2>2, <2>3, <2>4 DEF Ends
<1>3. ok \in BOOLEAN /\ m = Verdict(a, t, ok)
    OBVIOUS
<1> HIDE DEF a, ok, m
<1>4. /\ m \in Tracker
      /\ JudgedTold(a, m, t)
      /\ m.active = a.active /\ m.early = a.early /\ m.buffered = a.buffered
      /\ m.settled = a.settled /\ m.ignored = a.ignored /\ m.announced = a.announced
      /\ m.byKey = a.byKey /\ m.spoken = a.spoken \ {t} /\ m.evicted = a.evicted /\ m.missed = a.missed
    BY <1>1, <1>3, VerdictIs
<1>5. Distinct(m.active) /\ m.active \in Seq(Dispatch)
    BY <1>1, <1>4 DEF Keys, Tracker
<1>6. /\ r \in Tracker
      /\ r.told = m.told /\ r.active = Without(m.active, t) /\ r.early = m.early /\ r.buffered = m.buffered
      /\ \A u : Has(r.settled, u) => Has(m.settled, u) \/ u = t
      /\ Has(r.settled, t)
      /\ r.ignored = m.ignored /\ r.announced = m.announced \ {t}
      /\ \A c \in TurnChats :
           r.byKey[c] = IF m.byKey[c] = t /\ Has(m.active, t) THEN NoDispatch ELSE m.byKey[c]
      /\ r.spoken = m.spoken /\ r.evicted = m.evicted /\ r.missed = m.missed
    BY <1>2, <1>4, <1>5, MarkSettledIs
<1>7. /\ Distinct(r.active)
      /\ \A u : Has(r.active, u) <=> Has(m.active, u) /\ u # t
    BY <1>5, <1>6, WithoutIs
<1>8. Keys(r)
    BY <1>1, <1>4, <1>6, <1>7 DEF Keys
<1>9. EndTold(k, r, t, e)
  <2>1. PICK v \in Closing : /\ v = "silent" => t \notin k.spoken
                             /\ m.told = [a.told EXCEPT ![t] = Append(@, v)]
      BY <1>1, <1>4 DEF JudgedTold
  <2>2. m.told = [k.told EXCEPT ![t] = Append(Prelude(k, t, e), v)]
      BY <2>1, <1>1 DEF Tracker
  <2> QED
      BY <2>1, <2>2, <1>6 DEF EndTold
<1> QED
    BY <1>1, <1>4, <1>6, <1>7, <1>8, <1>9

(* Buffering an observation may push out the oldest turn's.                *)
Shed(k, t) == IF Has(k.early, t) \/ ~Full(k.early) THEN {} ELSE {Head(k.early)}

(* An observation is the last of its turn's, and a new turn the last.      *)
LEMMA BufferIs ==
  ASSUME NEW k \in Tracker, Keys(k), NEW t \in Dispatch, NEW e,
         Append(k.buffered[t], e) \in Buffers, NEW r, r = Buffer(k, t, e)
  PROVE  /\ r \in Tracker
         /\ Keys(r)
         /\ Shed(k, t) \in SUBSET Dispatch /\ t \notin Shed(k, t)
         /\ r.told = k.told
         /\ r.active = k.active
         /\ \A u \in Dispatch : Has(r.early, u) <=> (Has(k.early, u) /\ u \notin Shed(k, t)) \/ u = t
         /\ \A u, v \in Dispatch :
              Before(k.early, u, v) /\ {u, v} \cap Shed(k, t) = {} => Before(r.early, u, v)
         /\ \A u \in Dispatch : ~ Has(k.early, t) /\ Has(r.early, u) /\ u # t => Before(r.early, u, t)
         /\ \A u \in Dispatch :
              r.buffered[u] = IF u = t THEN Append(k.buffered[t], e)
                              ELSE IF u \in Shed(k, t) THEN <<>> ELSE k.buffered[u]
         /\ r.settled = k.settled
         /\ r.ignored = k.ignored
         /\ r.announced = k.announced
         /\ r.byKey = k.byKey
         /\ r.spoken = k.spoken
         /\ r.evicted = k.evicted
         /\ r.missed = k.missed \cup Shed(k, t) \cup (IF t \in k.evicted THEN {t} ELSE {})
<1> DEFINE h == Head(k.early)
           f == Drop(k, h)
           room == IF Has(k.early, t) \/ ~Full(k.early) THEN k
                   ELSE [f EXCEPT !.missed = @ \cup {h}]
<1>1. r = [room EXCEPT !.early = IF Has(@, t) THEN @ ELSE Append(@, t),
                       !.buffered[t] = Append(@, e),
                       !.missed = IF t \in k.evicted THEN @ \cup {t} ELSE @]
    BY DEF Buffer
<1>2. Distinct(k.active) /\ Distinct(k.early) /\ k.early \in Seq(Dispatch)
    BY DEF Keys, Tracker
<1>3. /\ room \in Tracker
      /\ Keys(room)
      /\ Shed(k, t) \in SUBSET Dispatch /\ t \notin Shed(k, t)
      /\ room.told = k.told
      /\ room.active = k.active
      /\ \A u : Has(room.early, u) <=> Has(k.early, u) /\ u \notin Shed(k, t)
      /\ \A u, v : Before(k.early, u, v) /\ u \notin Shed(k, t) /\ v \notin Shed(k, t)
                     => Before(room.early, u, v)
      /\ \A u \in Dispatch : room.buffered[u] = IF u \in Shed(k, t) THEN <<>> ELSE k.buffered[u]
      /\ room.settled = k.settled
      /\ room.ignored = k.ignored
      /\ room.announced = k.announced
      /\ room.byKey = k.byKey
      /\ room.spoken = k.spoken
      /\ room.evicted = k.evicted
      /\ room.missed = k.missed \cup Shed(k, t)
  <2>1. CASE Has(k.early, t) \/ ~ Full(k.early)
    <3>1. room = k /\ Shed(k, t) = {}
        BY <2>1 DEF Shed
    <3> HIDE DEF room
    <3> QED
        BY <3>1
  <2>2. CASE ~(Has(k.early, t) \/ ~ Full(k.early))
    <3>1. k.early # <<>>
        BY <2>2, TurnConstants DEF Full
    <3>2. h \in Dispatch /\ Has(k.early, h) /\ h # t
        BY <3>1, <2>2, <1>2, TailIs
    <3>3. Shed(k, t) = {h} /\ room = [f EXCEPT !.missed = @ \cup {h}]
        BY <2>2 DEF Shed
    <3> HIDE DEF room, h
    <3>4. /\ f \in Tracker
          /\ Keys(f)
          /\ f.told = k.told /\ f.active = k.active
          /\ \A u : Has(f.early, u) <=> Has(k.early, u) /\ u # h
          /\ \A u, v : Before(k.early, u, v) /\ u # h /\ v # h => Before(f.early, u, v)
          /\ f.buffered = [k.buffered EXCEPT ![h] = <<>>]
          /\ f.settled = k.settled /\ f.ignored = k.ignored /\ f.announced = k.announced
          /\ f.byKey = k.byKey /\ f.spoken = k.spoken /\ f.evicted = k.evicted /\ f.missed = k.missed
        BY <3>2, DropIs
    <3> HIDE DEF f
    <3>5. /\ room \in Tracker
          /\ room.told = f.told /\ room.active = f.active /\ room.early = f.early
          /\ room.buffered = f.buffered /\ room.settled = f.settled /\ room.ignored = f.ignored
          /\ room.announced = f.announced /\ room.byKey = f.byKey /\ room.spoken = f.spoken
          /\ room.evicted = f.evicted /\ room.missed = f.missed \cup {h}
        BY <3>2, <3>3, <3>4 DEF Tracker
    <3>6. \A u \in Dispatch : room.buffered[u] = IF u \in Shed(k, t) THEN <<>> ELSE k.buffered[u]
        BY <3>2, <3>3, <3>4, <3>5 DEF Tracker
    <3>7. Keys(room)
        BY <3>4, <3>5 DEF Keys
    <3> QED
        BY <3>2, <3>3, <3>4, <3>5, <3>6, <3>7
  <2> QED
      BY <2>1, <2>2
<1> HIDE DEF room, f, h
<1>4. room.early \in Seq(Dispatch) /\ Distinct(room.early) /\ Distinct(room.active)
    BY <1>3 DEF Tracker, Keys
<1> DEFINE next == IF Has(room.early, t) THEN room.early ELSE Append(room.early, t)
           b == [room.buffered EXCEPT ![t] = Append(@, e)]
           miss == IF t \in k.evicted THEN room.missed \cup {t} ELSE room.missed
<1>5. /\ next \in Seq(Dispatch) /\ Distinct(next)
      /\ \A u : Has(next, u) <=> Has(room.early, u) \/ u = t
      /\ \A u, v : Before(room.early, u, v) => Before(next, u, v)
      /\ \A u : ~ Has(room.early, t) /\ Has(next, u) /\ u # t => Before(next, u, t)
  <2>1. CASE Has(room.early, t)
      BY <2>1, <1>4
  <2>2. CASE ~ Has(room.early, t)
    <3>1. next = Append(room.early, t)
        BY <2>2
    <3> QED
        BY <2>2, <3>1, <1>4, Appended
  <2> QED
      BY <2>1, <2>2
<1>6. r = [room EXCEPT !.early = next, !.buffered = b, !.missed = miss]
    BY <1>1, <1>3 DEF Tracker
<1>7. room.buffered[t] = k.buffered[t]
    BY <1>3
<1>8. /\ b \in [Dispatch -> Buffers]
      /\ \A u \in Dispatch : b[u] = IF u = t THEN Append(k.buffered[t], e) ELSE room.buffered[u]
    BY <1>3, <1>7 DEF Tracker
<1>9. miss \in SUBSET Dispatch
    BY <1>3 DEF Tracker
<1> HIDE DEF next, b, miss
<1>10. /\ r \in Tracker
       /\ r.early = next /\ r.buffered = b /\ r.missed = miss
       /\ r.told = room.told /\ r.active = room.active /\ r.settled = room.settled
       /\ r.ignored = room.ignored /\ r.announced = room.announced /\ r.byKey = room.byKey
       /\ r.spoken = room.spoken /\ r.evicted = room.evicted
    BY <1>3, <1>5, <1>6, <1>8, <1>9 DEF Tracker
<1>11. Keys(r)
    BY <1>4, <1>5, <1>10 DEF Keys
<1>12. r.missed = k.missed \cup Shed(k, t) \cup (IF t \in k.evicted THEN {t} ELSE {})
    BY <1>3, <1>10 DEF miss
<1>13. \A u, v \in Dispatch :
         Before(k.early, u, v) /\ {u, v} \cap Shed(k, t) = {} => Before(r.early, u, v)
    BY <1>3, <1>5, <1>10
<1>14. \A u \in Dispatch : ~ Has(k.early, t) /\ Has(r.early, u) /\ u # t => Before(r.early, u, t)
    BY <1>3, <1>5, <1>10
<1>15. \A u \in Dispatch : Has(r.early, u) <=> (Has(k.early, u) /\ u \notin Shed(k, t)) \/ u = t
    BY <1>3, <1>5, <1>10
<1>16. \A u \in Dispatch :
         r.buffered[u] = IF u = t THEN Append(k.buffered[t], e)
                         ELSE IF u \in Shed(k, t) THEN <<>> ELSE k.buffered[u]
    BY <1>3, <1>8, <1>10
<1> QED
    BY <1>3, <1>10, <1>11, <1>12, <1>13, <1>14, <1>15, <1>16

-----------------------------------------------------------------------------
(* What the tracker knows of a turn, against what the process knows (w).   *)
World ==
  [window |-> forWindow, receipt |-> receipt, running |-> running, closed |-> closed,
   said |-> said, heard |-> said \ unheard,
   pending |-> IF resolver THEN {} ELSE {t \in Dispatch : receipt[t] = "done"}]

Says(k, t, what) == Has(k.told[t], what)
Over(k, t) == \E what \in Closing : Says(k, t, what)
Owned(w, t) == t \in w.window /\ w.receipt[t] \in {"told", "done", "unwritten"}

TurnStands(k, w, t) ==
  /\ Has(k.early, t) <=> k.buffered[t] # <<>>
  /\ Has(k.active, t) => Owned(w, t) /\ ~ Over(k, t)
  /\ Has(k.settled, t) => Over(k, t)
  /\ Has(k.ignored, t) => t \notin w.window
  /\ k.buffered[t] # <<>> => t \in w.running \cup w.closed
  /\ k.buffered[t] \in Finished => t \in w.closed /\ ~ Over(k, t)
  /\ t \in w.window \cap w.closed /\ k.buffered[t] = <<"start">> => Over(k, t)
  /\ Over(k, t) => t \in w.closed
  /\ k.told[t] # <<>> => Owned(w, t)
  /\ Once(k.told[t], Closing)
  /\ t \in k.announced => Says(k, t, "dispatched")
  /\ t \notin k.evicted =>
       /\ Once(k.told[t], {"dispatched"})
       /\ Says(k, t, "dispatched") => t \in k.announced \/ Over(k, t)
       /\ Owned(w, t) /\ w.receipt[t] # "done" /\ t \notin w.closed => Has(k.active, t)
  /\ t \notin k.missed =>
       /\ Over(k, t) => Says(k, t, "dispatched")
       /\ t \in w.closed \cap w.window => Over(k, t) \/ k.buffered[t] \in Finished
       /\ Owned(w, t) /\ t \notin w.pending => k.buffered[t] = <<>>
       /\ t \in w.running \cap w.window => Says(k, t, "dispatched") \/ k.buffered[t] \in Begun
       /\ t \in w.window /\ k.buffered[t] \in {<<"ended">>, <<"errored">>} => Says(k, t, "dispatched")
  /\ Says(k, t, "spoke") => t \in w.said
  /\ Says(k, t, "silent") => t \notin w.heard
  /\ t \in w.heard \cap w.window /\ ~ Over(k, t) => t \in k.spoken
  /\ t \in w.pending => ~ Has(k.active, t) /\ k.told[t] = <<>>

(* Whom a chat's speech is ascribed to: its running turn.                  *)
Heeded(k, w, t) == t \in (w.running \cap w.window) \ (k.missed \cup k.evicted)
KeysStand(k, w) ==
  /\ \A c \in TurnChats : k.byKey[c] # NoDispatch =>
       TurnChat[k.byKey[c]] = c /\ Has(k.active, k.byKey[c]) /\ k.byKey[c] \in w.running
  /\ \A t \in Dispatch : Heeded(k, w, t) =>
       (Has(k.active, t) /\ k.byKey[TurnChat[t]] = t) \/ k.buffered[t] \in Begun

TrackerStands(k, w) ==
  /\ k \in Tracker
  /\ Keys(k)
  /\ \A t \in Dispatch : TurnStands(k, w, t)
  /\ KeysStand(k, w)

(* A turn that neither the tracker nor the process touched.                *)
Alike(w, x, t) ==
  /\ t \in x.window <=> t \in w.window
  /\ x.receipt[t] = w.receipt[t]
  /\ t \in x.running <=> t \in w.running
  /\ t \in x.closed <=> t \in w.closed
  /\ t \in x.said <=> t \in w.said
  /\ t \in x.heard <=> t \in w.heard
  /\ t \in x.pending => t \in w.pending
  /\ t \in w.pending /\ Owned(w, t) => t \in x.pending

(* What stands of a turn that is left alone stands.                        *)
LEMMA Untouched ==
  ASSUME NEW k, NEW r, NEW w, NEW x, NEW t, TurnStands(k, w, t), Same(k, r, t), Alike(w, x, t)
  PROVE  TurnStands(r, x, t)
<1>1. Owned(x, t) <=> Owned(w, t)
    BY DEF Alike, Owned
<1>2. (Over(r, t) <=> Over(k, t)) /\ \A what : Says(r, t, what) <=> Says(k, t, what)
    BY DEF Same, Over, Says
<1> QED
    BY <1>1, <1>2 DEF TurnStands, Same, Alike

(* The oldest active turn is forgotten when the tracker is full,           *)
LEMMA PushedOut ==
  ASSUME NEW k, NEW r, NEW w, NEW x, NEW t, TurnStands(k, w, t), Alike(w, x, t),
         ~ Has(r.active, t), t \in r.evicted, t \notin r.announced,
         Has(r.early, t) <=> Has(k.early, t),
         r.buffered[t] = k.buffered[t],
         Has(r.settled, t) => Has(k.settled, t),
         Has(r.ignored, t) => Has(k.ignored, t),
         t \in r.spoken <=> t \in k.spoken,
         r.told[t] = k.told[t],
         t \in r.missed <=> t \in k.missed
  PROVE  TurnStands(r, x, t)
<1>1. Owned(x, t) <=> Owned(w, t)
    BY DEF Alike, Owned
<1>2. (Over(r, t) <=> Over(k, t)) /\ \A what : Says(r, t, what) <=> Says(k, t, what)
    BY DEF Over, Says
<1> QED
    BY <1>1, <1>2 DEF TurnStands, Alike

(* and the observations of the turn that was buffered first.               *)
LEMMA ShedOut ==
  ASSUME NEW k, NEW r, NEW w, NEW x, NEW t, TurnStands(k, w, t), Alike(w, x, t),
         ~ Has(r.early, t), r.buffered[t] = <<>>, t \in r.missed,
         Has(r.active, t) <=> Has(k.active, t),
         Has(r.settled, t) => Has(k.settled, t),
         Has(r.ignored, t) => Has(k.ignored, t),
         t \in r.announced <=> t \in k.announced,
         t \in r.spoken <=> t \in k.spoken,
         r.told[t] = k.told[t],
         t \in r.evicted <=> t \in k.evicted
  PROVE  TurnStands(r, x, t)
<1>1. Owned(x, t) <=> Owned(w, t)
    BY DEF Alike, Owned
<1>2. (Over(r, t) <=> Over(k, t)) /\ \A what : Says(r, t, what) <=> Says(k, t, what)
    BY DEF Over, Says
<1>3. \A e \in Ends : <<>> # <<e>> /\ <<>> # <<"start", e>>
    OBVIOUS
<1>4. <<>> \notin Finished /\ <<>> # <<"start">> /\ <<>> # <<"ended">> /\ <<>> # <<"errored">>
    BY <1>3 DEF Finished
<1> QED
    BY <1>1, <1>2, <1>4 DEF TurnStands, Alike

(* A sequence of two.                                                     *)
LEMMA Two ==
  ASSUME NEW f, NEW e
  PROVE  Append(<<f>>, e) = <<f, e>>
<1> DEFINE S == {f, e}
<1>1. ASSUME NEW s \in Seq(S), NEW u \in S
      PROVE Append(s, u) \in Seq(S) /\ Len(Append(s, u)) = Len(s) + 1 /\ Append(s, u)[Len(s) + 1] = u
              /\ \A i \in 1..Len(s) : Append(s, u)[i] = s[i]
    OBVIOUS
<1>2. <<f>> \in Seq(S) /\ e \in S /\ Len(<<f>>) = 1 /\ <<f>>[1] = f
    OBVIOUS
<1> DEFINE r == Append(<<f>>, e)
<1>3. r \in Seq(S) /\ Len(r) = 2 /\ r[1] = f /\ r[2] = e
  <2> HIDE DEF S
  <2>1. /\ r \in Seq(S) /\ Len(r) = Len(<<f>>) + 1 /\ r[Len(<<f>>) + 1] = e
        /\ \A i \in 1..Len(<<f>>) : r[i] = <<f>>[i]
      BY <1>1, <1>2
  <2>2. Len(<<f>>) = 1 /\ 1 \in 1..Len(<<f>>) /\ Len(<<f>>) + 1 = 2
      BY <1>2
  <2> HIDE DEF r
  <2> QED
      BY <1>2, <2>1, <2>2
<1> HIDE DEF r, S
<1>4. r = <<f, e>>
    BY <1>3
<1> QED
    BY <1>4 DEF r

(* The shapes of what is buffered of a turn.                               *)
LEMMA BufferShapes ==
  /\ <<>> \in Buffers \ (Begun \cup Finished)
  /\ <<"start">> \in Begun \ Finished /\ <<"start">> \in Buffers /\ <<"start">> # <<>>
  /\ Append(<<>>, "start") = <<"start">>
  /\ \A e \in Ends :
       /\ <<e>> \in Finished \ Begun /\ <<e>> \in Buffers
       /\ <<"start", e>> \in Finished /\ <<"start", e>> \in Begun /\ <<"start", e>> \in Buffers
       /\ <<e>> # <<>> /\ <<e>> # <<"start">>
       /\ <<"start", e>> # <<>> /\ <<"start", e>> # <<"start">>
       /\ Append(<<>>, e) = <<e>> /\ Append(<<"start">>, e) = <<"start", e>>
       /\ <<e>> \in {<<"ended">>, <<"errored">>} => e \in {"ended", "errored"}
       /\ <<"start", e>> \notin {<<"ended">>, <<"errored">>}
  /\ <<"start">> \notin {<<"ended">>, <<"errored">>}
  /\ <<>> \notin {<<"ended">>, <<"errored">>}
  /\ \A b \in Buffers : b = <<>> \/ b = <<"start">> \/ b \in Finished
  /\ \A b \in Finished : \E e \in Ends : b = <<e>> \/ b = <<"start", e>>
<1>1. "start" \notin Ends
    BY DEF Ends
<1>2. \A b \in Finished : \E e \in Ends : b = <<e>> \/ b = <<"start", e>>
    BY DEF Finished
<1>3. \A b \in Buffers : b = <<>> \/ b = <<"start">> \/ b \in Finished
    BY DEF Buffers, Begun, Finished
<1>4. ASSUME NEW e \in Ends
      PROVE /\ <<e>> \in Finished /\ <<e>> \in Buffers
            /\ <<"start", e>> \in Finished /\ <<"start", e>> \in Begun /\ <<"start", e>> \in Buffers
    BY DEF Buffers, Begun, Finished
<1>5. ASSUME NEW e
      PROVE /\ <<e>> # <<>> /\ <<"start", e>> # <<>> /\ <<"start", e>> # <<"start">>
            /\ Append(<<>>, e) = <<e>> /\ Append(<<"start">>, e) = <<"start", e>>
            /\ <<"start", e>> # <<"ended">> /\ <<"start", e>> # <<"errored">>
  <2>1. ASSUME NEW f PROVE <<f, e>> # <<>> /\ <<e>> # <<>>
      OBVIOUS
  <2>2. ASSUME NEW f, NEW g PROVE <<f, e>> # <<g>>
      OBVIOUS
  <2>3. Append(<<>>, e) = <<e>>
      OBVIOUS
  <2>4. ASSUME NEW f PROVE Append(<<f>>, e) = <<f, e>>
      BY Two
  <2> QED
      BY <2>1, <2>2, <2>3, <2>4
<1>6. ASSUME NEW e, NEW f, <<e>> = <<f>> PROVE e = f
    BY <1>6
<1>6a. ASSUME NEW e, NEW f, NEW g PROVE <<e>> # <<f, g>>
    OBVIOUS
<1>7. \A e \in Ends : <<e>> # <<"start">> /\ <<e>> \notin Begun
    BY <1>1, <1>6, <1>6a DEF Begun
<1>8. <<"start">> \notin Finished
  <2>1. \A e \in Ends : <<"start">> # <<e>> /\ <<"start">> # <<"start", e>>
      BY <1>5, <1>7
  <2> QED
      BY <2>1 DEF Finished
<1>9. <<>> \notin Finished /\ <<>> \notin Begun /\ <<>> \in Buffers
    BY <1>5 DEF Finished, Begun, Buffers
<1>10. <<"start">> \in Begun /\ <<"start">> \in Buffers
    BY DEF Begun, Buffers
<1>11. /\ <<"start">> # <<"ended">> /\ <<"start">> # <<"errored">>
       /\ <<>> # <<"ended">> /\ <<>> # <<"errored">> /\ <<"start">> # <<>>
       /\ Append(<<>>, "start") = <<"start">>
  <2>1. "start" # "ended" /\ "start" # "errored"
      OBVIOUS
  <2> QED
      BY <2>1, <1>5, <1>6
<1>12. \A e \in Ends : <<e>> \in {<<"ended">>, <<"errored">>} => e \in {"ended", "errored"}
    BY <1>6
<1> QED
    BY <1>2, <1>3, <1>4, <1>5, <1>7, <1>8, <1>9, <1>10, <1>11, <1>12, Zenon

-----------------------------------------------------------------------------
(* All that is said of the other turns, when something happens to turn t.  *)
KeysAround(k, w, t) ==
  /\ \A c \in TurnChats : k.byKey[c] # NoDispatch =>
       TurnChat[k.byKey[c]] = c /\ Has(k.active, k.byKey[c]) /\ (k.byKey[c] = t \/ k.byKey[c] \in w.running)
  /\ \A u \in Dispatch \ {t} : Heeded(k, w, u) =>
       (Has(k.active, u) /\ k.byKey[TurnChat[u]] = u) \/ k.buffered[u] \in Begun

Around(k, w, t) ==
  /\ k \in Tracker
  /\ Keys(k)
  /\ \A u \in Dispatch \ {t} : TurnStands(k, w, u)
  /\ KeysAround(k, w, t)

(* The other turns stand after a step of the process with one.             *)
LEMMA AroundIt ==
  ASSUME NEW k, NEW w, NEW x, NEW t \in Dispatch, TrackerStands(k, w),
         \A u \in Dispatch \ {t} : Alike(w, x, u)
  PROVE  Around(k, x, t)
<1>1. \A u \in Dispatch \ {t} : TurnStands(k, x, u)
  <2> TAKE u \in Dispatch \ {t}
  <2>1. Same(k, k, u)
      BY DEF Same
  <2> QED
      BY <2>1, Untouched DEF TrackerStands
<1>2. k \in Tracker /\ Keys(k)
    BY DEF TrackerStands
<1>3. KeysAround(k, x, t)
  <2>1. \A c \in TurnChats : k.byKey[c] \in Dispatch \cup {NoDispatch}
      BY <1>2 DEF Tracker
  <2>2. \A u \in Dispatch \ {t} : Heeded(k, x, u) => Heeded(k, w, u)
      BY DEF Heeded, Alike
  <2>3. \A u \in Dispatch \ {t} : u \in x.running <=> u \in w.running
      BY DEF Alike
  <2> QED
      BY <2>1, <2>2, <2>3 DEF KeysAround, TrackerStands, KeysStand
<1> QED
    BY <1>1, <1>2, <1>3 DEF Around

(* All turns stand when the others and the one do.                         *)
LEMMA AllAround ==
  ASSUME NEW k, NEW w, NEW t \in Dispatch, Around(k, w, t), TurnStands(k, w, t),
         \A c \in TurnChats : k.byKey[c] = t => t \in w.running,
         Heeded(k, w, t) => (Has(k.active, t) /\ k.byKey[TurnChat[t]] = t) \/ k.buffered[t] \in Begun
  PROVE  TrackerStands(k, w)
<1>1. KeysStand(k, w)
    BY DEF Around, KeysAround, KeysStand
<1> QED
    BY <1>1 DEF Around, TrackerStands

(* What leaves the other turns and the chats' keys alone.                  *)
LEMMA AroundSame ==
  ASSUME NEW k, NEW r \in Tracker, NEW w, NEW t \in Dispatch, Around(k, w, t), Keys(r),
         \A u \in Dispatch \ {t} : Same(k, r, u),
         Has(k.active, t) => Has(r.active, t),
         r.byKey = k.byKey
  PROVE  Around(r, w, t)
<1>1. \A u \in Dispatch \ {t} : TurnStands(r, w, u)
  <2> TAKE u \in Dispatch \ {t}
  <2>1. Alike(w, w, u)
      BY DEF Alike
  <2> QED
      BY <2>1, Untouched DEF Around
<1>2. \A u \in Dispatch : Has(k.active, u) => Has(r.active, u)
    BY DEF Same
<1>3. \A u \in Dispatch \ {t} : (Heeded(r, w, u) <=> Heeded(k, w, u)) /\ r.buffered[u] = k.buffered[u]
    BY DEF Same, Heeded
<1>4. \A c \in TurnChats : k.byKey[c] \in Dispatch \cup {NoDispatch}
    BY DEF Around, Tracker
<1>5. KeysAround(r, w, t)
    BY <1>2, <1>3, <1>4 DEF Around, KeysAround
<1> QED
    BY <1>1, <1>5 DEF Around

(* The others stand when a turn is remembered,                             *)
LEMMA AroundRemember ==
  ASSUME NEW k, NEW w, NEW t \in Dispatch, Around(k, w, t), ~ Has(k.active, t), NEW r, r = Remember(k, t)
  PROVE  Around(r, w, t)
<1>1. k \in Tracker /\ Keys(k)
    BY DEF Around
<1>2. /\ r \in Tracker
      /\ Keys(r)
      /\ r.told = k.told
      /\ Pushed(k, t) \in SUBSET Dispatch
      /\ \A u \in Dispatch : Has(r.active, u) <=> (Has(k.active, u) /\ u \notin Pushed(k, t)) \/ u = t
      /\ \A u \in Pushed(k, t) : Has(k.active, u)
      /\ r.early = k.early
      /\ r.buffered = k.buffered
      /\ r.settled = k.settled
      /\ r.ignored = k.ignored
      /\ r.announced = k.announced \ Pushed(k, t)
      /\ \A c \in TurnChats :
           r.byKey[c] = IF k.byKey[c] \in Pushed(k, t) THEN NoDispatch ELSE k.byKey[c]
      /\ r.spoken = k.spoken
      /\ r.evicted = k.evicted \cup Pushed(k, t)
      /\ r.missed = k.missed
    BY <1>1, RememberIs
<1>3. \A u \in Dispatch \ {t} : TurnStands(r, w, u)
  <2> TAKE u \in Dispatch \ {t}
  <2>1. Alike(w, w, u) /\ TurnStands(k, w, u)
      BY DEF Alike, Around
  <2>2. CASE u \in Pushed(k, t)
    <3>1. /\ ~ Has(r.active, u) /\ u \in r.evicted /\ u \notin r.announced
          /\ Has(r.early, u) <=> Has(k.early, u)
          /\ r.buffered[u] = k.buffered[u]
          /\ Has(r.settled, u) => Has(k.settled, u)
          /\ Has(r.ignored, u) => Has(k.ignored, u)
          /\ u \in r.spoken <=> u \in k.spoken
          /\ r.told[u] = k.told[u]
          /\ u \in r.missed <=> u \in k.missed
        BY <1>2, <2>2
    <3> QED
        BY <2>1, <3>1, PushedOut
  <2>3. CASE u \notin Pushed(k, t)
    <3>1. Same(k, r, u)
        BY <1>2, <2>3 DEF Same
    <3> QED
        BY <2>1, <3>1, Untouched
  <2> QED
      BY <2>2, <2>3
<1>4. \A c \in TurnChats : k.byKey[c] \in Dispatch \cup {NoDispatch}
    BY <1>1 DEF Tracker
<1>5. \A c \in TurnChats : r.byKey[c] # NoDispatch =>
        r.byKey[c] = k.byKey[c] /\ k.byKey[c] \in Dispatch \ Pushed(k, t)
    BY <1>2, <1>4
<1>6. \A c \in TurnChats : k.byKey[c] # NoDispatch =>
        TurnChat[k.byKey[c]] = c /\ Has(k.active, k.byKey[c]) /\ (k.byKey[c] = t \/ k.byKey[c] \in w.running)
    BY DEF Around, KeysAround
<1>7. \A c \in TurnChats : r.byKey[c] # NoDispatch =>
        TurnChat[r.byKey[c]] = c /\ Has(r.active, r.byKey[c]) /\ (r.byKey[c] = t \/ r.byKey[c] \in w.running)
    BY <1>2, <1>5, <1>6
<1>8. ASSUME NEW u \in Dispatch \ {t}, Heeded(r, w, u)
      PROVE  (Has(r.active, u) /\ r.byKey[TurnChat[u]] = u) \/ r.buffered[u] \in Begun
  <2>1. Heeded(k, w, u) /\ u \notin Pushed(k, t)
      BY <1>2, <1>8 DEF Heeded
  <2>2. (Has(k.active, u) /\ k.byKey[TurnChat[u]] = u) \/ k.buffered[u] \in Begun
      BY <2>1 DEF Around, KeysAround
  <2> QED
      BY <1>2, <2>1, <2>2, ChatIs
<1> QED
    BY <1>2, <1>3, <1>7, <1>8 DEF Around, KeysAround

(* when it is announced,                                                   *)
LEMMA AroundAnnounce ==
  ASSUME NEW k, NEW w, NEW t \in Dispatch, Around(k, w, t), NEW r, r = Announce(k, t)
  PROVE  Around(r, w, t)
<1>1. k \in Tracker /\ Keys(k)
    BY DEF Around
<1>2. /\ r \in Tracker
      /\ r.told = [k.told EXCEPT ![t] = Announced(k, t)]
      /\ r.active = k.active /\ r.early = k.early /\ r.buffered = k.buffered
      /\ r.settled = k.settled /\ r.ignored = k.ignored /\ r.announced = k.announced \cup {t}
      /\ r.byKey = k.byKey /\ r.spoken = k.spoken /\ r.evicted = k.evicted /\ r.missed = k.missed
    BY <1>1, AnnounceIs
<1>3. Keys(r)
    BY <1>1, <1>2 DEF Keys
<1>4. \A u \in Dispatch \ {t} : r.told[u] = k.told[u]
    BY <1>1, <1>2 DEF Tracker
<1>5. \A u \in Dispatch \ {t} : Same(k, r, u)
    BY <1>2, <1>4 DEF Same
<1> QED
    BY <1>2, <1>3, <1>5, AroundSame

(* when its observations are dropped,                                      *)
LEMMA AroundDrop ==
  ASSUME NEW k, NEW w, NEW t \in Dispatch, Around(k, w, t), NEW r, r = Drop(k, t)
  PROVE  Around(r, w, t)
<1>1. k \in Tracker /\ Keys(k)
    BY DEF Around
<1>2. /\ r \in Tracker /\ Keys(r)
      /\ r.told = k.told
      /\ r.active = k.active
      /\ \A u : Has(r.early, u) <=> Has(k.early, u) /\ u # t
      /\ r.buffered = [k.buffered EXCEPT ![t] = <<>>]
      /\ r.settled = k.settled /\ r.ignored = k.ignored /\ r.announced = k.announced
      /\ r.byKey = k.byKey /\ r.spoken = k.spoken /\ r.evicted = k.evicted /\ r.missed = k.missed
    BY <1>1, DropIs
<1>3. \A u \in Dispatch \ {t} : r.buffered[u] = k.buffered[u]
    BY <1>1, <1>2 DEF Tracker
<1>4. \A u \in Dispatch \ {t} : Same(k, r, u)
    BY <1>2, <1>3 DEF Same
<1> QED
    BY <1>2, <1>4, AroundSame

(* A turn that starts becomes its chat's.                                  *)
LEMMA AroundStart ==
  ASSUME NEW k, NEW w, NEW t \in Dispatch, Around(k, w, t), Has(k.active, t),
         k.byKey[TurnChat[t]] = NoDispatch, NEW r, r = Report(k, t, "start")
  PROVE  Around(r, w, t)
<1>1. k \in Tracker /\ Keys(k)
    BY DEF Around
<1>2. /\ r \in Tracker /\ Keys(r)
      /\ r.told = [k.told EXCEPT ![t] = Announced(k, t)]
      /\ r.active = k.active /\ r.early = k.early /\ r.buffered = k.buffered
      /\ r.settled = k.settled /\ r.ignored = k.ignored /\ r.announced = k.announced \cup {t}
      /\ r.byKey = [k.byKey EXCEPT ![TurnChat[t]] = t]
      /\ r.spoken = k.spoken /\ r.evicted = k.evicted /\ r.missed = k.missed
    BY <1>1, StartIs
<1>3. \A u \in Dispatch \ {t} : r.told[u] = k.told[u]
    BY <1>1, <1>2 DEF Tracker
<1>4. \A u \in Dispatch \ {t} : Same(k, r, u)
    BY <1>2, <1>3 DEF Same
<1>5. \A u \in Dispatch \ {t} : TurnStands(r, w, u)
  <2> TAKE u \in Dispatch \ {t}
  <2>1. Alike(w, w, u) /\ TurnStands(k, w, u)
      BY DEF Alike, Around
  <2> QED
      BY <2>1, <1>4, Untouched
<1>6. \A c \in TurnChats : r.byKey[c] = IF c = TurnChat[t] THEN t ELSE k.byKey[c]
    BY <1>1, <1>2 DEF Tracker
<1>7. \A c \in TurnChats : r.byKey[c] # NoDispatch =>
        TurnChat[r.byKey[c]] = c /\ Has(r.active, r.byKey[c]) /\ (r.byKey[c] = t \/ r.byKey[c] \in w.running)
    BY <1>2, <1>6 DEF Around, KeysAround
<1>8. ASSUME NEW u \in Dispatch \ {t}, Heeded(r, w, u)
      PROVE  (Has(r.active, u) /\ r.byKey[TurnChat[u]] = u) \/ r.buffered[u] \in Begun
  <2>1. Heeded(k, w, u)
      BY <1>2, <1>8 DEF Heeded
  <2>2. (Has(k.active, u) /\ k.byKey[TurnChat[u]] = u) \/ k.buffered[u] \in Begun
      BY <2>1 DEF Around, KeysAround
  <2>3. k.byKey[TurnChat[u]] = u => TurnChat[u] # TurnChat[t]
      BY TurnConstants
  <2> QED
      BY <1>2, <1>6, <2>2, <2>3, ChatIs
<1> QED
    BY <1>2, <1>5, <1>7, <1>8 DEF Around, KeysAround

(* A turn that ends is its chat's no more.                                 *)
LEMMA AroundEnd ==
  ASSUME NEW k, NEW w, NEW t \in Dispatch, Around(k, w, t), NEW e \in Ends, NEW r, r = Report(k, t, e)
  PROVE  Around(r, w, t) /\ \A c \in TurnChats : r.byKey[c] # t
<1>1. k \in Tracker /\ Keys(k)
    BY DEF Around
<1>2. /\ r \in Tracker /\ Keys(r)
      /\ EndTold(k, r, t, e)
      /\ \A u : Has(r.active, u) <=> Has(k.active, u) /\ u # t
      /\ r.early = k.early /\ r.buffered = k.buffered
      /\ \A u : Has(r.settled, u) => Has(k.settled, u) \/ u = t
      /\ r.ignored = k.ignored
      /\ \A u : u # t => (u \in r.announced <=> u \in k.announced)
      /\ \A c \in TurnChats :
           r.byKey[c] = IF k.byKey[c] = t /\ Has(k.active, t) THEN NoDispatch ELSE k.byKey[c]
      /\ r.spoken = k.spoken \ {t} /\ r.evicted = k.evicted /\ r.missed = k.missed
    BY <1>1, EndIs
<1>3. \A u \in Dispatch \ {t} : r.told[u] = k.told[u]
    BY <1>1, <1>2 DEF Tracker, EndTold
<1>4. \A u \in Dispatch \ {t} : Same(k, r, u)
    BY <1>2, <1>3 DEF Same
<1>5. \A u \in Dispatch \ {t} : TurnStands(r, w, u)
  <2> TAKE u \in Dispatch \ {t}
  <2>1. Alike(w, w, u) /\ TurnStands(k, w, u)
      BY DEF Alike, Around
  <2> QED
      BY <2>1, <1>4, Untouched
<1>6. \A c \in TurnChats : k.byKey[c] # NoDispatch =>
        TurnChat[k.byKey[c]] = c /\ Has(k.active, k.byKey[c]) /\ (k.byKey[c] = t \/ k.byKey[c] \in w.running)
    BY DEF Around, KeysAround
<1>7. \A c \in TurnChats : r.byKey[c] # t /\ (r.byKey[c] # NoDispatch => r.byKey[c] = k.byKey[c])
    BY <1>2, <1>6, TurnConstants
<1>8. \A c \in TurnChats : r.byKey[c] # NoDispatch =>
        TurnChat[r.byKey[c]] = c /\ Has(r.active, r.byKey[c]) /\ (r.byKey[c] = t \/ r.byKey[c] \in w.running)
    BY <1>2, <1>6, <1>7
<1>9. ASSUME NEW u \in Dispatch \ {t}, Heeded(r, w, u)
      PROVE  (Has(r.active, u) /\ r.byKey[TurnChat[u]] = u) \/ r.buffered[u] \in Begun
  <2>1. Heeded(k, w, u)
      BY <1>2, <1>9 DEF Heeded
  <2>2. (Has(k.active, u) /\ k.byKey[TurnChat[u]] = u) \/ k.buffered[u] \in Begun
      BY <2>1 DEF Around, KeysAround
  <2> QED
      BY <1>2, <2>2, ChatIs
<1> QED
    BY <1>2, <1>5, <1>7, <1>8, <1>9 DEF Around, KeysAround

(* and when one of its observations is buffered.                           *)
LEMMA AroundBuffer ==
  ASSUME NEW k, NEW w, NEW t \in Dispatch, Around(k, w, t), NEW e,
         Append(k.buffered[t], e) \in Buffers, NEW r, r = Buffer(k, t, e)
  PROVE  Around(r, w, t) /\ r.byKey = k.byKey
<1>1. k \in Tracker /\ Keys(k)
    BY DEF Around
<1>2. /\ r \in Tracker /\ Keys(r)
      /\ Shed(k, t) \in SUBSET Dispatch /\ t \notin Shed(k, t)
      /\ r.told = k.told /\ r.active = k.active
      /\ \A u \in Dispatch : Has(r.early, u) <=> (Has(k.early, u) /\ u \notin Shed(k, t)) \/ u = t
      /\ \A u \in Dispatch :
           r.buffered[u] = IF u = t THEN Append(k.buffered[t], e)
                           ELSE IF u \in Shed(k, t) THEN <<>> ELSE k.buffered[u]
      /\ r.settled = k.settled /\ r.ignored = k.ignored /\ r.announced = k.announced
      /\ r.byKey = k.byKey /\ r.spoken = k.spoken /\ r.evicted = k.evicted
      /\ r.missed = k.missed \cup Shed(k, t) \cup (IF t \in k.evicted THEN {t} ELSE {})
    BY <1>1, BufferIs
<1>3. \A u \in Dispatch \ {t} : TurnStands(r, w, u)
  <2> TAKE u \in Dispatch \ {t}
  <2>1. Alike(w, w, u) /\ TurnStands(k, w, u)
      BY DEF Alike, Around
  <2>2. CASE u \in Shed(k, t)
    <3>1. /\ ~ Has(r.early, u) /\ r.buffered[u] = <<>> /\ u \in r.missed
          /\ Has(r.active, u) <=> Has(k.active, u)
          /\ Has(r.settled, u) => Has(k.settled, u)
          /\ Has(r.ignored, u) => Has(k.ignored, u)
          /\ u \in r.announced <=> u \in k.announced
          /\ u \in r.spoken <=> u \in k.spoken
          /\ r.told[u] = k.told[u]
          /\ u \in r.evicted <=> u \in k.evicted
        BY <1>2, <2>2
    <3> QED
        BY <2>1, <3>1, ShedOut
  <2>3. CASE u \notin Shed(k, t)
    <3>1. Same(k, r, u)
        BY <1>2, <2>3 DEF Same
    <3> QED
        BY <2>1, <3>1, Untouched
  <2> QED
      BY <2>2, <2>3
<1>4. \A c \in TurnChats : r.byKey[c] # NoDispatch =>
        TurnChat[r.byKey[c]] = c /\ Has(r.active, r.byKey[c]) /\ (r.byKey[c] = t \/ r.byKey[c] \in w.running)
    BY <1>2 DEF Around, KeysAround
<1>5. ASSUME NEW u \in Dispatch \ {t}, Heeded(r, w, u)
      PROVE  (Has(r.active, u) /\ r.byKey[TurnChat[u]] = u) \/ r.buffered[u] \in Begun
  <2>1. Heeded(k, w, u) /\ u \notin Shed(k, t)
      BY <1>2, <1>5 DEF Heeded
  <2>2. (Has(k.active, u) /\ k.byKey[TurnChat[u]] = u) \/ k.buffered[u] \in Begun
      BY <2>1 DEF Around, KeysAround
  <2> QED
      BY <1>2, <2>1, <2>2
<1> QED
    BY <1>2, <1>3, <1>4, <1>5 DEF Around, KeysAround

(* A turn that the tracker follows and whose verdict is still to come.     *)
Live(k, w, t) ==
  /\ Has(k.active, t) /\ ~ Has(k.settled, t) /\ ~ Has(k.ignored, t)
  /\ Owned(w, t) /\ t \notin w.pending
  /\ ~ Over(k, t)
  /\ Once(k.told[t], Closing)
  /\ t \in k.announced => Says(k, t, "dispatched")
  /\ t \notin k.evicted => Once(k.told[t], {"dispatched"}) /\ (Says(k, t, "dispatched") => t \in k.announced)
  /\ Says(k, t, "spoke") => t \in w.said
  /\ t \in w.heard => t \in k.spoken

(* A turn as it is before and after, but for its progress.                 *)
Kin(w, x, t) ==
  /\ t \in x.window <=> t \in w.window
  /\ t \in x.said <=> t \in w.said
  /\ t \in x.heard <=> t \in w.heard

(* An active turn is followed.                                             *)
LEMMA LiveIt ==
  ASSUME NEW k, NEW w, NEW x, NEW t, TurnStands(k, w, t), Kin(w, x, t), Owned(x, t),
         t \notin x.pending, Has(k.active, t)
  PROVE  Live(k, x, t)
BY DEF TurnStands, Live, Kin, Owned

(* So is one that has just been remembered.                                *)
LEMMA LiveRemembered ==
  ASSUME NEW k \in Tracker, Keys(k), NEW w, NEW x, NEW t \in Dispatch, TurnStands(k, w, t),
         Kin(w, x, t), t \notin x.pending, ~ Has(k.active, t), Owned(x, t), ~ Over(k, t),
         NEW r, r = Remember(k, t)
  PROVE  /\ Live(r, x, t)
         /\ r.told[t] = k.told[t]
         /\ t \in r.announced <=> t \in k.announced
         /\ t \in r.missed <=> t \in k.missed
         /\ t \in r.evicted <=> t \in k.evicted
         /\ r.early = k.early
         /\ r.buffered = k.buffered
         /\ \A c \in TurnChats : r.byKey[c] \in {k.byKey[c], NoDispatch}
<1>1. /\ \A u \in Dispatch : Has(r.active, u) <=> (Has(k.active, u) /\ u \notin Pushed(k, t)) \/ u = t
      /\ \A u \in Pushed(k, t) : Has(k.active, u)
      /\ r.told = k.told
      /\ r.early = k.early
      /\ r.buffered = k.buffered
      /\ r.settled = k.settled
      /\ r.ignored = k.ignored
      /\ r.announced = k.announced \ Pushed(k, t)
      /\ \A c \in TurnChats : r.byKey[c] = IF k.byKey[c] \in Pushed(k, t) THEN NoDispatch ELSE k.byKey[c]
      /\ r.spoken = k.spoken
      /\ r.evicted = k.evicted \cup Pushed(k, t)
      /\ r.missed = k.missed
    BY RememberIs
<1>2. t \notin Pushed(k, t)
    BY <1>1
<1>3. (Over(r, t) <=> Over(k, t)) /\ \A what : Says(r, t, what) <=> Says(k, t, what)
    BY <1>1 DEF Over, Says
<1>4. t \in x.window
    BY DEF Owned
<1> QED
    BY <1>1, <1>2, <1>3, <1>4 DEF Live, TurnStands, Kin

(* What is told of a turn once it is announced.                            *)
LEMMA AnnouncedIs ==
  ASSUME NEW k \in Tracker, NEW t \in Dispatch
  PROVE  /\ Announced(k, t) \in Seq(Notices)
         /\ \A what : Has(Announced(k, t), what) <=> Says(k, t, what) \/ (t \notin k.announced /\ what = "dispatched")
         /\ Once(k.told[t], Closing) => Once(Announced(k, t), Closing)
         /\ (t \notin k.announced => ~ Says(k, t, "dispatched")) /\ Once(k.told[t], {"dispatched"})
              => Once(Announced(k, t), {"dispatched"})
<1>1. k.told[t] \in Seq(Notices)
    BY DEF Tracker
<1>2. "dispatched" \in Notices /\ "dispatched" \notin Closing
    BY DEF Notices, Closing
<1>3. CASE t \in k.announced
    BY <1>1, <1>3 DEF Announced, Says
<1>4. CASE t \notin k.announced
  <2>1. Announced(k, t) = Append(k.told[t], "dispatched")
      BY <1>4 DEF Announced
  <2>2. /\ Append(k.told[t], "dispatched") \in Seq(Notices)
        /\ \A u : Has(Append(k.told[t], "dispatched"), u) <=> Has(k.told[t], u) \/ u = "dispatched"
      BY <1>1, <1>2, Appended
  <2>3. /\ Once(k.told[t], Closing) => Once(Append(k.told[t], "dispatched"), Closing)
        /\ (\A y \in {"dispatched"} : ~ Has(k.told[t], y)) => Once(Append(k.told[t], "dispatched"), {"dispatched"})
      BY <1>1, <1>2, OnceIs
  <2> QED
      BY <1>4, <2>1, <2>2, <2>3 DEF Says
<1> QED
    BY <1>3, <1>4

(* The verdict is the last that is told of a turn.                         *)
LEMMA VerdictTold ==
  ASSUME NEW s \in Seq(Notices), NEW v \in Closing, Once(s, Closing), \A what \in Closing : ~ Has(s, what)
  PROVE  /\ Append(s, v) \in Seq(Notices)
         /\ \A what : Has(Append(s, v), what) <=> Has(s, what) \/ what = v
         /\ Once(Append(s, v), Closing)
         /\ Once(s, {"dispatched"}) => Once(Append(s, v), {"dispatched"})
<1>1. v \in Notices /\ v \notin {"dispatched"}
    BY DEF Closing, Notices
<1>2. /\ Append(s, v) \in Seq(Notices)
      /\ \A what : Has(Append(s, v), what) <=> Has(s, what) \/ what = v
    BY <1>1, Appended
<1>3. Once(Append(s, v), Closing)
    BY <1>1, OnceIs
<1>4. Once(s, {"dispatched"}) => Once(Append(s, v), {"dispatched"})
    BY <1>1, OnceIs
<1> QED
    BY <1>2, <1>3, <1>4

(* A turn that is announced is still followed.                             *)
LEMMA LiveAnnounced ==
  ASSUME NEW k \in Tracker, NEW w, NEW t \in Dispatch, Live(k, w, t), NEW r \in Tracker,
         r.told[t] = Announced(k, t), t \in r.announced,
         r.active = k.active, r.settled = k.settled, r.ignored = k.ignored,
         r.spoken = k.spoken, r.evicted = k.evicted
  PROVE  Live(r, w, t) /\ Says(r, t, "dispatched")
<1>1. /\ \A what : Says(r, t, what) <=> Says(k, t, what) \/ (t \notin k.announced /\ what = "dispatched")
      /\ Once(k.told[t], Closing) => Once(r.told[t], Closing)
      /\ (t \notin k.announced => ~ Says(k, t, "dispatched")) /\ Once(k.told[t], {"dispatched"})
              => Once(r.told[t], {"dispatched"})
    BY AnnouncedIs DEF Says
<1>2. Over(r, t) <=> Over(k, t)
    BY <1>1 DEF Over, Closing
<1>3. Says(r, t, "dispatched")
    BY <1>1 DEF Live
<1>4. Says(r, t, "spoke") <=> Says(k, t, "spoke")
    BY <1>1
<1> QED
    BY <1>1, <1>2, <1>3, <1>4 DEF Live

(* The verdict of a live turn.                                             *)
LEMMA LiveEnds ==
  ASSUME NEW k \in Tracker, Keys(k), NEW w, NEW t \in Dispatch, Live(k, w, t), t \in w.closed,
         NEW e \in Ends,
         t \in k.missed \/ e \in {"settled", "aborted"} \/ Says(k, t, "dispatched"),
         k.buffered[t] = <<>> \/ (k.buffered[t] = <<"start">> /\ t \in k.missed),
         Has(k.early, t) <=> k.buffered[t] # <<>>,
         NEW r, r = Report(k, t, e)
  PROVE  TurnStands(r, w, t)
<1>1. /\ r \in Tracker
      /\ EndTold(k, r, t, e)
      /\ ~ Has(r.active, t)
      /\ r.early = k.early /\ r.buffered = k.buffered
      /\ r.ignored = k.ignored
      /\ t \notin r.announced
      /\ r.spoken = k.spoken \ {t} /\ r.evicted = k.evicted /\ r.missed = k.missed
    BY EndIs
<1> DEFINE p == Prelude(k, t, e)
<1>2. k.told[t] \in Seq(Notices)
    BY DEF Tracker
<1>3. /\ p \in Seq(Notices)
      /\ \A what : Has(p, what) => Says(k, t, what) \/ what = "dispatched"
      /\ \A what : Says(k, t, what) => Has(p, what)
      /\ Once(p, Closing)
      /\ t \notin k.evicted => Once(p, {"dispatched"})
      /\ t \in k.missed \/ Has(p, "dispatched")
  <2>1. CASE e \in {"settled", "aborted"}
    <3>1. p = Announced(k, t)
        BY <2>1 DEF Prelude
    <3>2. /\ Announced(k, t) \in Seq(Notices)
          /\ \A what : Has(Announced(k, t), what) <=> Says(k, t, what) \/ (t \notin k.announced /\ what = "dispatched")
          /\ Once(k.told[t], Closing) => Once(Announced(k, t), Closing)
          /\ (t \notin k.announced => ~ Says(k, t, "dispatched")) /\ Once(k.told[t], {"dispatched"})
               => Once(Announced(k, t), {"dispatched"})
        BY AnnouncedIs
    <3> HIDE DEF p
    <3> QED
        BY <3>1, <3>2 DEF Live
  <2>2. CASE e \notin {"settled", "aborted"}
    <3>1. p = k.told[t]
        BY <2>2 DEF Prelude
    <3> HIDE DEF p
    <3> QED
        BY <2>2, <3>1, <1>2 DEF Live, Says
  <2> QED
      BY <2>1, <2>2
<1>4. PICK v \in Closing : /\ v = "silent" => t \notin k.spoken
                           /\ r.told = [k.told EXCEPT ![t] = Append(p, v)]
    BY <1>1 DEF EndTold
<1> HIDE DEF p
<1>5. r.told[t] = Append(p, v)
    BY <1>4 DEF Tracker
<1>6. \A what \in Closing : ~ Has(p, what)
    BY <1>3 DEF Live, Over, Closing
<1>7. /\ \A what : Says(r, t, what) <=> Has(p, what) \/ what = v
      /\ Once(r.told[t], Closing)
      /\ Once(p, {"dispatched"}) => Once(r.told[t], {"dispatched"})
    BY <1>3, <1>5, <1>6, VerdictTold DEF Says
<1>8. Over(r, t)
    BY <1>7 DEF Over
<1>9. v # "spoke" /\ v # "dispatched"
    BY DEF Closing
<1>10. Says(r, t, "spoke") => t \in w.said
    BY <1>3, <1>7, <1>9 DEF Live
<1>11. Says(r, t, "silent") => t \notin w.heard
  <2>1. ~ Has(p, "silent")
      BY <1>6 DEF Closing
  <2> QED
      BY <2>1, <1>4, <1>7 DEF Live
<1>12. r.buffered[t] \notin Finished /\ r.buffered[t] \notin {<<"ended">>, <<"errored">>}
    BY <1>1, BufferShapes
<1>13. Owned(w, t) /\ t \notin w.pending /\ ~ Has(r.ignored, t)
    BY <1>1 DEF Live
<1>14. t \notin r.missed => Says(r, t, "dispatched") /\ r.buffered[t] = <<>>
    BY <1>1, <1>3, <1>7, BufferShapes
<1>15. t \notin r.evicted => Once(r.told[t], {"dispatched"})
    BY <1>1, <1>3, <1>7
<1>16. Has(r.early, t) <=> r.buffered[t] # <<>>
    BY <1>1
<1> QED
    BY <1>1, <1>7, <1>8, <1>10, <1>11, <1>12, <1>13, <1>14, <1>15, <1>16 DEF TurnStands

(* A live turn that did not end, if its end was not missed, and of which   *)
(* nothing is held back, unless some was missed.                           *)
LEMMA LiveStands ==
  ASSUME NEW r, NEW w, NEW t, Live(r, w, t),
         t \in w.closed => t \in r.missed /\ r.buffered[t] = <<>>,
         Has(r.early, t) <=> r.buffered[t] # <<>>,
         r.buffered[t] # <<>> => t \in w.running,
         r.buffered[t] \notin Finished,
         t \notin r.missed => r.buffered[t] = <<>> /\ (t \in w.running => Says(r, t, "dispatched"))
  PROVE  TurnStands(r, w, t)
<1>1. <<"ended">> \in Finished /\ <<"errored">> \in Finished /\ <<>> \notin Finished
    BY BufferShapes DEF Ends
<1>2. ~ Says(r, t, "silent")
    BY DEF Live, Over, Closing
<1>3. t \in w.closed => r.buffered[t] # <<"start">>
    BY BufferShapes
<1> QED
    BY <1>1, <1>2, <1>3 DEF Live, TurnStands

(* A turn that is no Window's.                                             *)
LEMMA OutsideStands ==
  ASSUME NEW k, NEW w, NEW x, NEW t, TurnStands(k, w, t), Kin(w, x, t), t \notin w.window,
         t \in w.running \cup w.closed => t \in x.running \cup x.closed,
         t \in w.closed => t \in x.closed,
         t \in x.pending => t \in w.pending
  PROVE  TurnStands(k, x, t)
<1>1. ~ Owned(w, t) /\ ~ Owned(x, t) /\ t \notin x.window
    BY DEF Owned, Kin
<1> QED
    BY <1>1 DEF TurnStands, Kin

(* Of a turn that has not ended no more than its start is buffered.        *)
LEMMA BufferedStill ==
  ASSUME NEW k \in Tracker, NEW w, NEW t \in Dispatch, TurnStands(k, w, t), t \notin w.closed
  PROVE  /\ k.buffered[t] \in {<<>>, <<"start">>}
         /\ t \notin w.running => k.buffered[t] = <<>>
         /\ ~ Over(k, t) /\ ~ Has(k.settled, t)
         /\ Owned(w, t) /\ t \notin w.pending /\ t \notin k.missed => k.buffered[t] = <<>>
<1>1. k.buffered[t] \in Buffers
    BY DEF Tracker
<1> QED
    BY <1>1, BufferShapes DEF TurnStands

(* When is an observation that must be held back of a turn that is held?   *)
LookedUp(w, t) ==
  /\ Resolves(t) => Owned(w, t) /\ t \notin w.pending
  /\ Owned(w, t) /\ w.receipt[t] = "done" /\ ~ Resolves(t) => t \in w.pending

(* A turn the process was told of is buffered only after its eviction.     *)
LEMMA HeldBack ==
  ASSUME NEW k \in Tracker, NEW w, NEW t \in Dispatch, TurnStands(k, w, t), t \notin w.closed,
         LookedUp(w, t), ~ Has(k.active, t), ~ Resolves(t), Owned(w, t), t \notin w.pending
  PROVE  t \in k.evicted
BY DEF LookedUp, TurnStands

(* A turn begins.                                                          *)
LEMMA IngestBegun ==
  ASSUME NEW k, NEW w, NEW x, NEW t \in Dispatch, TrackerStands(k, w),
         \A u \in Dispatch \ {t} : Alike(w, x, u), Kin(w, x, t),
         x.receipt[t] = w.receipt[t], t \in x.pending <=> t \in w.pending,
         t \notin w.running, t \notin w.closed, t \in x.running, t \notin x.closed,
         \A u \in w.running : TurnChat[u] # TurnChat[t],
         LookedUp(w, t), NEW r, r = Ingest(k, t, "start")
  PROVE  TrackerStands(r, x)
<1>1. k \in Tracker /\ Keys(k) /\ TurnStands(k, w, t)
    BY DEF TrackerStands
<1>2. Around(k, x, t)
    BY AroundIt
<1>3. k.buffered[t] = <<>> /\ ~ Over(k, t) /\ ~ Has(k.settled, t) /\ ~ Has(k.early, t)
    BY <1>1, BufferedStill DEF TurnStands
<1>4. k.byKey[TurnChat[t]] = NoDispatch
    BY ChatIs DEF TrackerStands, KeysStand
<1>5. \A c \in TurnChats : k.byKey[c] # t
    BY TurnConstants DEF TrackerStands, KeysStand
<1>6. Owned(w, t) <=> Owned(x, t)
    BY DEF Kin, Owned
<1>7. ASSUME NEW m, Around(m, x, t), Live(m, x, t), m.byKey[TurnChat[t]] = NoDispatch,
             m.buffered[t] = <<>>, ~ Has(m.early, t), r = Report(m, t, "start")
      PROVE  TrackerStands(r, x)
  <2>1. m \in Tracker /\ Keys(m) /\ Has(m.active, t)
      BY <1>7 DEF Around, Live
  <2>2. Around(r, x, t)
      BY <1>7, <2>1, AroundStart
  <2>3. /\ r \in Tracker
        /\ r.told = [m.told EXCEPT ![t] = Announced(m, t)]
        /\ r.active = m.active /\ r.early = m.early /\ r.buffered = m.buffered
        /\ r.settled = m.settled /\ r.ignored = m.ignored /\ r.announced = m.announced \cup {t}
        /\ r.byKey = [m.byKey EXCEPT ![TurnChat[t]] = t]
        /\ r.spoken = m.spoken /\ r.evicted = m.evicted /\ r.missed = m.missed
      BY <1>7, <2>1, StartIs
  <2>4. r.told[t] = Announced(m, t) /\ t \in r.announced /\ r.byKey[TurnChat[t]] = t
      BY <2>1, <2>3, ChatIs DEF Tracker
  <2>5. Live(r, x, t) /\ Says(r, t, "dispatched")
      BY <1>7, <2>1, <2>3, <2>4, LiveAnnounced
  <2>6. TurnStands(r, x, t)
      BY <1>7, <2>3, <2>5, LiveStands, BufferShapes
  <2> QED
      BY <2>2, <2>4, <2>5, <2>6, AllAround DEF Live
<1>8. CASE Has(k.settled, t) \/ Has(k.ignored, t)
  <2>0. r = k
      BY <1>8 DEF Ingest
  <2>1. r = k /\ t \notin w.window
      BY <1>1, <1>3, <1>8, <2>0 DEF TurnStands
  <2>2. TurnStands(k, x, t)
      BY <1>1, <2>1, OutsideStands
  <2>3. ~ Heeded(k, x, t)
      BY <2>1 DEF Heeded, Kin
  <2> QED
      BY <1>2, <1>5, <2>1, <2>2, <2>3, AllAround
<1>9. CASE ~ Has(k.ignored, t) /\ Has(k.active, t)
  <2>1. r = Report(k, t, "start")
      BY <1>3, <1>9 DEF Ingest
  <2>2. t \notin x.pending /\ Owned(x, t)
      BY <1>1, <1>6, <1>9 DEF TurnStands
  <2>3. Live(k, x, t)
      BY <1>1, <1>9, <2>2, LiveIt
  <2> QED
      BY <1>2, <1>3, <1>4, <2>1, <2>3, <1>7
<1>10. CASE ~ Has(k.ignored, t) /\ ~ Has(k.active, t) /\ Resolves(t)
  <2> DEFINE m == Remember(k, t)
  <2>1. r = Report(m, t, "start")
      BY <1>3, <1>10 DEF Ingest
  <2>2. Owned(x, t) /\ t \notin x.pending
      BY <1>6, <1>10 DEF LookedUp
  <2>3. /\ Live(m, x, t)
        /\ m.early = k.early /\ m.buffered = k.buffered
        /\ \A c \in TurnChats : m.byKey[c] \in {k.byKey[c], NoDispatch}
      BY <1>1, <1>3, <1>10, <2>2, LiveRemembered
  <2>4. Around(m, x, t)
      BY <1>2, <1>10, AroundRemember
  <2> HIDE DEF m
  <2>5. m.byKey[TurnChat[t]] = NoDispatch
      BY <1>4, <2>3, ChatIs
  <2> QED
      BY <1>3, <2>1, <2>3, <2>4, <2>5, <1>7
<1>11. CASE ~ Has(k.ignored, t) /\ ~ Has(k.active, t) /\ ~ Resolves(t)
  <2>1. r = Buffer(k, t, "start")
      BY <1>3, <1>11 DEF Ingest
  <2>2. Append(k.buffered[t], "start") = <<"start">> /\ Append(k.buffered[t], "start") \in Buffers
      BY <1>3, BufferShapes
  <2>3. Around(r, x, t) /\ r.byKey = k.byKey
      BY <1>2, <2>1, <2>2, AroundBuffer
  <2>4. /\ t \notin Shed(k, t)
        /\ r.told = k.told /\ r.active = k.active
        /\ Has(r.early, t)
        /\ r.buffered[t] = <<"start">>
        /\ r.settled = k.settled /\ r.ignored = k.ignored /\ r.announced = k.announced
        /\ r.byKey = k.byKey /\ r.spoken = k.spoken /\ r.evicted = k.evicted
        /\ r.missed = k.missed \cup Shed(k, t) \cup (IF t \in k.evicted THEN {t} ELSE {})
    <3>1. /\ Shed(k, t) \in SUBSET Dispatch /\ t \notin Shed(k, t)
          /\ r.told = k.told /\ r.active = k.active
          /\ \A u \in Dispatch : Has(r.early, u) <=> (Has(k.early, u) /\ u \notin Shed(k, t)) \/ u = t
          /\ \A u \in Dispatch :
               r.buffered[u] = IF u = t THEN Append(k.buffered[t], "start")
                               ELSE IF u \in Shed(k, t) THEN <<>> ELSE k.buffered[u]
          /\ r.settled = k.settled /\ r.ignored = k.ignored /\ r.announced = k.announced
          /\ r.byKey = k.byKey /\ r.spoken = k.spoken /\ r.evicted = k.evicted
          /\ r.missed = k.missed \cup Shed(k, t) \cup (IF t \in k.evicted THEN {t} ELSE {})
        BY <1>1, <2>1, <2>2, BufferIs
    <3>2. r.buffered[t] = Append(k.buffered[t], "start") /\ Has(r.early, t)
        BY <3>1
    <3> QED
        BY <2>2, <3>1, <3>2
  <2>5. t \in r.missed <=> t \in k.missed \/ t \in k.evicted
      BY <2>4
  <2>6. Owned(x, t) /\ t \notin x.pending => t \in r.missed
      BY <1>1, <1>6, <1>11, <2>5, HeldBack
  <2>7. (Over(r, t) <=> Over(k, t)) /\ \A what : Says(r, t, what) <=> Says(k, t, what)
      BY <2>4 DEF Over, Says
  <2>8. TurnStands(r, x, t)
      BY <1>1, <1>3, <1>6, <2>4, <2>5, <2>6, <2>7, BufferShapes DEF TurnStands, Kin
  <2> QED
      BY <1>5, <2>3, <2>4, <2>8, AllAround, BufferShapes
<1> QED
    BY <1>3, <1>8, <1>9, <1>10, <1>11

(* A turn ends.                                                            *)
LEMMA IngestEnded ==
  ASSUME NEW k, NEW w, NEW x, NEW t \in Dispatch, TrackerStands(k, w),
         \A u \in Dispatch \ {t} : Alike(w, x, u), Kin(w, x, t),
         x.receipt[t] = w.receipt[t], t \in x.pending <=> t \in w.pending,
         t \notin w.closed, t \notin x.running, t \in x.closed,
         NEW e \in Ends, e \in {"ended", "errored"} => t \in w.running,
         e \in {"ended", "errored"} \/ e \in {"settled", "aborted"},
         LookedUp(w, t), NEW r, r = Ingest(k, t, e)
  PROVE  TrackerStands(r, x)
<1>1. k \in Tracker /\ Keys(k) /\ TurnStands(k, w, t)
    BY DEF TrackerStands
<1>2. Around(k, x, t)
    BY AroundIt
<1>3. k.buffered[t] \in {<<>>, <<"start">>} /\ ~ Over(k, t) /\ ~ Has(k.settled, t)
        /\ (Owned(w, t) /\ t \notin w.pending /\ t \notin k.missed => k.buffered[t] = <<>>)
    BY <1>1, BufferedStill
<1>4. ~ Heeded(r, x, t)
    BY DEF Heeded
<1>5. Has(k.early, t) <=> k.buffered[t] # <<>>
    BY <1>1 DEF TurnStands
<1>6. Owned(w, t) <=> Owned(x, t)
    BY DEF Kin, Owned
<1>7. ASSUME NEW m, Around(m, x, t), Live(m, x, t), m.buffered[t] = k.buffered[t],
             Has(m.early, t) <=> Has(k.early, t), t \in m.missed <=> t \in k.missed,
             m.told[t] = k.told[t], r = Report(m, t, e)
      PROVE  TrackerStands(r, x)
  <2>1. m \in Tracker /\ Keys(m)
      BY <1>7 DEF Around
  <2>2. Around(r, x, t) /\ \A c \in TurnChats : r.byKey[c] # t
      BY <1>7, <2>1, AroundEnd
  <2>3. Owned(w, t) /\ t \in w.window /\ t \notin w.pending
      BY <1>6, <1>7 DEF Live, Owned
  <2>4. m.buffered[t] = <<>> \/ (m.buffered[t] = <<"start">> /\ t \in m.missed)
      BY <1>3, <1>7, <2>3
  <2>5. t \in m.missed \/ e \in {"settled", "aborted"} \/ Says(m, t, "dispatched")
    <3>1. CASE t \notin k.missed /\ e \in {"ended", "errored"}
      <4>1. k.buffered[t] = <<>>
          BY <1>3, <2>3, <3>1
      <4>2. Says(k, t, "dispatched")
          BY <1>1, <2>3, <3>1, <4>1, BufferShapes DEF TurnStands
      <4> QED
          BY <1>7, <4>2 DEF Says
    <3> QED
        BY <1>7, <3>1
  <2>6. TurnStands(r, x, t)
      BY <1>5, <1>7, <2>1, <2>4, <2>5, LiveEnds
  <2> QED
      BY <1>4, <2>2, <2>6, AllAround
<1>8. CASE Has(k.settled, t) \/ Has(k.ignored, t)
  <2>0. r = k
      BY <1>8 DEF Ingest
  <2>1. r = k /\ t \notin w.window
      BY <1>1, <1>3, <1>8, <2>0 DEF TurnStands
  <2>2. TurnStands(k, x, t)
      BY <1>1, <2>1, OutsideStands
  <2>3. \A c \in TurnChats : k.byKey[c] # t
    <3>1. ~ Has(k.active, t)
        BY <1>1, <2>1 DEF TurnStands, Owned
    <3> QED
        BY <3>1, TurnConstants DEF TrackerStands, KeysStand
  <2> QED
      BY <1>2, <1>4, <2>1, <2>2, <2>3, AllAround
<1>9. CASE ~ Has(k.ignored, t) /\ Has(k.active, t)
  <2>1. r = Report(k, t, e)
      BY <1>3, <1>9 DEF Ingest
  <2>2. t \notin x.pending /\ Owned(x, t)
      BY <1>1, <1>6, <1>9 DEF TurnStands
  <2>3. Live(k, x, t)
      BY <1>1, <1>9, <2>2, LiveIt
  <2> QED
      BY <1>2, <2>1, <2>3, <1>7
<1>10. CASE ~ Has(k.ignored, t) /\ ~ Has(k.active, t) /\ Resolves(t)
  <2> DEFINE m == Remember(k, t)
  <2>1. r = Report(m, t, e)
      BY <1>3, <1>10 DEF Ingest
  <2>2. Owned(x, t) /\ t \notin x.pending
      BY <1>6, <1>10 DEF LookedUp
  <2>3. /\ Live(m, x, t)
        /\ m.told[t] = k.told[t]
        /\ t \in m.missed <=> t \in k.missed
        /\ m.early = k.early /\ m.buffered = k.buffered
      BY <1>1, <1>3, <1>10, <2>2, LiveRemembered
  <2>4. Around(m, x, t)
      BY <1>2, <1>10, AroundRemember
  <2> HIDE DEF m
  <2> QED
      BY <2>1, <2>3, <2>4, <1>7
<1>11. CASE ~ Has(k.ignored, t) /\ ~ Has(k.active, t) /\ ~ Resolves(t)
  <2> DEFINE b == Append(k.buffered[t], e)
  <2>1. r = Buffer(k, t, e)
      BY <1>3, <1>11 DEF Ingest
  <2>2. /\ b \in Buffers /\ b \in Finished /\ b # <<>> /\ b # <<"start">>
        /\ b \in {<<"ended">>, <<"errored">>} => k.buffered[t] = <<>> /\ e \in {"ended", "errored"}
    <3>1. CASE k.buffered[t] = <<>>
      <4>1. b = <<e>>
          BY <3>1, BufferShapes
      <4> HIDE DEF b
      <4> QED
          BY <3>1, <4>1, BufferShapes
    <3>2. CASE k.buffered[t] = <<"start">>
      <4>1. b = <<"start", e>>
          BY <3>2, BufferShapes
      <4> HIDE DEF b
      <4> QED
          BY <4>1, BufferShapes
    <3> QED
        BY <1>3, <3>1, <3>2
  <2>3. Around(r, x, t) /\ r.byKey = k.byKey
      BY <1>2, <2>1, <2>2, AroundBuffer
  <2>4. /\ t \notin Shed(k, t)
        /\ r.told = k.told /\ r.active = k.active
        /\ Has(r.early, t)
        /\ r.buffered[t] = b
        /\ r.settled = k.settled /\ r.ignored = k.ignored /\ r.announced = k.announced
        /\ r.byKey = k.byKey /\ r.spoken = k.spoken /\ r.evicted = k.evicted
        /\ r.missed = k.missed \cup Shed(k, t) \cup (IF t \in k.evicted THEN {t} ELSE {})
    <3>1. /\ Shed(k, t) \in SUBSET Dispatch /\ t \notin Shed(k, t)
          /\ r.told = k.told /\ r.active = k.active
          /\ \A u \in Dispatch : Has(r.early, u) <=> (Has(k.early, u) /\ u \notin Shed(k, t)) \/ u = t
          /\ \A u \in Dispatch :
               r.buffered[u] = IF u = t THEN Append(k.buffered[t], e)
                               ELSE IF u \in Shed(k, t) THEN <<>> ELSE k.buffered[u]
          /\ r.settled = k.settled /\ r.ignored = k.ignored /\ r.announced = k.announced
          /\ r.byKey = k.byKey /\ r.spoken = k.spoken /\ r.evicted = k.evicted
          /\ r.missed = k.missed \cup Shed(k, t) \cup (IF t \in k.evicted THEN {t} ELSE {})
        BY <1>1, <2>1, <2>2, BufferIs
    <3>2. r.buffered[t] = Append(k.buffered[t], e) /\ Has(r.early, t)
        BY <3>1
    <3> QED
        BY <2>2, <3>1, <3>2
  <2> HIDE DEF b
  <2>5. t \in r.missed <=> t \in k.missed \/ t \in k.evicted
      BY <2>4
  <2>6. Owned(x, t) /\ t \notin x.pending => t \in r.missed
      BY <1>1, <1>6, <1>11, <2>5, HeldBack
  <2>7. (Over(r, t) <=> Over(k, t)) /\ \A what : Says(r, t, what) <=> Says(k, t, what)
      BY <2>4 DEF Over, Says
  <2>8. t \notin r.missed /\ t \in x.window /\ b \in {<<"ended">>, <<"errored">>} => Says(r, t, "dispatched")
    <3>1. t \notin k.missed /\ t \in w.window /\ t \in w.running /\ k.buffered[t] = <<>>
            => Says(k, t, "dispatched")
        BY <1>1, BufferShapes DEF TurnStands
    <3> QED
        BY <2>2, <2>5, <2>7, <3>1 DEF Kin
  <2>9. TurnStands(r, x, t)
      BY <1>1, <1>3, <1>6, <1>11, <2>2, <2>4, <2>5, <2>6, <2>7, <2>8 DEF TurnStands, Kin
  <2>10. \A c \in TurnChats : k.byKey[c] # t
      BY <1>11, TurnConstants DEF TrackerStands, KeysStand
  <2> QED
      BY <1>4, <2>3, <2>9, <2>10, AllAround
<1> QED
    BY <1>3, <1>8, <1>9, <1>10, <1>11

(* At most two observations of a turn are replayed.                        *)
LEMMA ReplayIs ==
  ASSUME NEW k, NEW t, NEW N \in 0..2, Len(k.buffered[t]) = N, NEW a, a = Drop(k, t),
         NEW b, b = Replayed(a, t, k.buffered[t][1]), NEW c, c = Replayed(b, t, k.buffered[t][2])
  PROVE  ReplayEarly(k, t) = IF N = 0 THEN a ELSE IF N = 1 THEN b ELSE c
<1> DEFINE events == k.buffered[t]
           F(g) == [n \in 0..N |-> IF n = 0 THEN a ELSE Replayed(g[n - 1], t, events[n])]
           h == CHOOSE g : g = F(g)
           run == [n \in 0..N |-> IF n = 0 THEN a ELSE IF n = 1 THEN b ELSE c]
<1>1. ReplayEarly(k, t) = h[N]
    BY Zenon DEF ReplayEarly
<1> HIDE DEF events
<1>2. \A n \in 0..N : n = 0 \/ (n = 1 /\ n - 1 = 0 /\ n - 1 \in 0..N) \/ (n = 2 /\ n - 1 = 1 /\ n - 1 \in 0..N)
    OBVIOUS
<1>3. N \in 0..N
    OBVIOUS
<1>4. run = F(run)
  <2>1. ASSUME NEW n \in 0..N PROVE run[n] = F(run)[n]
    <3>1. CASE n = 0
        BY <3>1
    <3>2. CASE n = 1 /\ n - 1 = 0 /\ n - 1 \in 0..N
        BY <3>2 DEF events
    <3>3. CASE n = 2 /\ n - 1 = 1 /\ n - 1 \in 0..N
        BY <3>3 DEF events
    <3> QED
        BY <1>2, <3>1, <3>2, <3>3
  <2>2. run = [n \in 0..N |-> run[n]]
      OBVIOUS
  <2> QED
      BY <2>1, <2>2
<1>5. h = F(h)
  <2> HIDE DEF F
  <2> QED
      BY <1>4, Zenon
<1> HIDE DEF h
<1>6. 0 \in 0..N /\ (N # 0 => 1 \in 0..N) /\ (N = 2 => 2 \in 0..N) /\ 1 - 1 = 0 /\ 2 - 1 = 1
    OBVIOUS
<1>7. h[0] = a
    BY <1>5, <1>6
<1>8. N # 0 => h[1] = b
  <2>1. N # 0 => h[1] = Replayed(h[1 - 1], t, events[1])
      BY <1>5, <1>6
  <2> QED
      BY <1>6, <1>7, <2>1 DEF events
<1>9. N = 2 => h[2] = c
  <2>1. N = 2 => h[2] = Replayed(h[2 - 1], t, events[2])
      BY <1>5, <1>6
  <2> QED
      BY <1>6, <1>8, <2>1 DEF events
<1> QED
    BY <1>1, <1>2, <1>3, <1>7, <1>8, <1>9

(* A live turn whose observations may have been held back.                 *)
Held(k, w, t) ==
  /\ Live(k, w, t)
  /\ Has(k.early, t) <=> k.buffered[t] # <<>>
  /\ k.buffered[t] = <<"start">> => t \in w.running /\ t \notin w.closed
  /\ k.buffered[t] \in Finished => t \in w.closed
  /\ t \notin k.missed =>
       /\ t \in w.closed => k.buffered[t] \in Finished
       /\ t \in w.running => Says(k, t, "dispatched") \/ k.buffered[t] \in Begun
       /\ k.buffered[t] \in {<<"ended">>, <<"errored">>} => Says(k, t, "dispatched")
  /\ Heeded(k, w, t) => k.buffered[t] \in Begun

(* What remains after the last of them.                                    *)
LEMMA ReplayEnds ==
  ASSUME NEW k, NEW t, NEW a, a = Drop(k, t), NEW b, b = Replayed(a, t, k.buffered[t][1]),
         NEW c, c = Replayed(b, t, k.buffered[t][2]), NEW r, r = ReplayEarly(k, t)
  PROVE  /\ Len(k.buffered[t]) = 0 => r = a
         /\ Len(k.buffered[t]) = 1 => r = b
         /\ Len(k.buffered[t]) = 2 => r = c
<1>1. ASSUME NEW N \in 0..2, Len(k.buffered[t]) = N
      PROVE  r = IF N = 0 THEN a ELSE IF N = 1 THEN b ELSE c
    BY <1>1, ReplayIs
<1> QED
    BY <1>1

(* A turn whose observations are dropped is still followed,                *)
LEMMA LiveDropped ==
  ASSUME NEW k \in Tracker, Keys(k), NEW w, NEW t \in Dispatch, Live(k, w, t), NEW d, d = Drop(k, t)
  PROVE  /\ Live(d, w, t)
         /\ d.buffered[t] = <<>> /\ ~ Has(d.early, t)
         /\ d.byKey = k.byKey /\ d.told = k.told /\ d.missed = k.missed /\ d.evicted = k.evicted
<1>1. /\ d.told = k.told
      /\ d.active = k.active
      /\ \A u : Has(d.early, u) <=> Has(k.early, u) /\ u # t
      /\ d.buffered = [k.buffered EXCEPT ![t] = <<>>]
      /\ d.settled = k.settled
      /\ d.ignored = k.ignored
      /\ d.announced = k.announced
      /\ d.byKey = k.byKey
      /\ d.spoken = k.spoken
      /\ d.evicted = k.evicted
      /\ d.missed = k.missed
    BY DropIs
<1>2. d.buffered[t] = <<>>
    BY <1>1 DEF Tracker
<1>3. (Over(d, t) <=> Over(k, t)) /\ \A what : Says(d, t, what) <=> Says(k, t, what)
    BY <1>1 DEF Over, Says
<1> QED
    BY <1>1, <1>2, <1>3 DEF Live

(* and so is one that starts.                                              *)
LEMMA LiveStarted ==
  ASSUME NEW k \in Tracker, Keys(k), NEW w, NEW t \in Dispatch, Live(k, w, t), NEW r, r = Report(k, t, "start")
  PROVE  /\ Live(r, w, t) /\ Says(r, t, "dispatched")
         /\ r.early = k.early /\ r.buffered = k.buffered
         /\ r.byKey[TurnChat[t]] = t /\ r.missed = k.missed /\ r.evicted = k.evicted
<1>1. /\ r \in Tracker
      /\ r.told = [k.told EXCEPT ![t] = Announced(k, t)]
      /\ r.active = k.active /\ r.early = k.early /\ r.buffered = k.buffered
      /\ r.settled = k.settled /\ r.ignored = k.ignored /\ r.announced = k.announced \cup {t}
      /\ r.byKey = [k.byKey EXCEPT ![TurnChat[t]] = t]
      /\ r.spoken = k.spoken /\ r.evicted = k.evicted /\ r.missed = k.missed
    BY StartIs
<1>2. r.told[t] = Announced(k, t) /\ t \in r.announced /\ r.byKey[TurnChat[t]] = t
    BY <1>1, ChatIs DEF Tracker
<1>3. Live(r, w, t) /\ Says(r, t, "dispatched")
    BY <1>1, <1>2, LiveAnnounced
<1> QED
    BY <1>1, <1>2, <1>3

(* Once replayed, it is in step with the process.                          *)
LEMMA ReplayStands ==
  ASSUME NEW k, NEW w, NEW t \in Dispatch, Around(k, w, t), Held(k, w, t),
         ~(t \in w.running /\ t \in w.closed),
         k.buffered[t] \in Begun => k.byKey[TurnChat[t]] = NoDispatch,
         \A c \in TurnChats : k.byKey[c] # t,
         NEW r, r = ReplayEarly(k, t)
  PROVE  TrackerStands(r, w)
<1>a. PICK d : d = Drop(k, t)
    OBVIOUS
<1>b. PICK b : b = Replayed(d, t, k.buffered[t][1])
    OBVIOUS
<1>c. PICK c : c = Replayed(b, t, k.buffered[t][2])
    OBVIOUS
<1>1. k \in Tracker /\ Keys(k) /\ Live(k, w, t) /\ k.buffered[t] \in Buffers
    BY DEF Around, Held, Tracker
<1>2. /\ Live(d, w, t)
      /\ d.buffered[t] = <<>> /\ ~ Has(d.early, t)
      /\ d.byKey = k.byKey /\ d.told = k.told /\ d.missed = k.missed /\ d.evicted = k.evicted
    BY <1>1, <1>a, LiveDropped
<1>3. Around(d, w, t)
    BY <1>a, AroundDrop
<1>4. d \in Tracker /\ Keys(d)
    BY <1>3 DEF Around
<1>5. \A what : Says(d, t, what) <=> Says(k, t, what)
    BY <1>2 DEF Says
<1>6. /\ Len(k.buffered[t]) = 0 => r = d
      /\ Len(k.buffered[t]) = 1 => r = b
      /\ Len(k.buffered[t]) = 2 => r = c
    BY <1>a, <1>b, <1>c, ReplayEnds
<1>7. ~ Has(d.settled, t) /\ Has(d.active, t)
    BY <1>2 DEF Live
<1>8. CASE k.buffered[t] = <<>>
  <2>1. r = d
      BY <1>6, <1>8
  <2>2. t \in w.closed => t \in d.missed
      BY <1>2, <1>8, BufferShapes DEF Held
  <2>3. t \notin d.missed /\ t \in w.running => Says(d, t, "dispatched")
      BY <1>2, <1>5, <1>8, BufferShapes DEF Held
  <2>4. TurnStands(d, w, t)
      BY <1>2, <2>2, <2>3, LiveStands, BufferShapes
  <2>5. ~ Heeded(d, w, t)
      BY <1>2, <1>8, BufferShapes DEF Held, Heeded
  <2> QED
      BY <1>2, <1>3, <2>1, <2>4, <2>5, AllAround
<1>9. CASE k.buffered[t] = <<"start">>
  <2>1. r = Report(d, t, "start")
    <3>1. Len(k.buffered[t]) = 1 /\ k.buffered[t][1] = "start"
        BY <1>9
    <3>2. r = b
        BY <1>6, <3>1
    <3> QED
        BY <1>b, <1>7, <3>1, <3>2 DEF Replayed
  <2>2. d.byKey[TurnChat[t]] = NoDispatch
      BY <1>2, <1>9, BufferShapes
  <2>3. Around(r, w, t)
      BY <1>3, <1>7, <2>1, <2>2, AroundStart
  <2>4. /\ Live(r, w, t) /\ Says(r, t, "dispatched")
        /\ r.early = d.early /\ r.buffered = d.buffered
        /\ r.byKey[TurnChat[t]] = t
      BY <1>2, <1>4, <2>1, LiveStarted
  <2>5. t \in w.running /\ t \notin w.closed
      BY <1>9 DEF Held
  <2>6. TurnStands(r, w, t)
      BY <1>2, <2>4, <2>5, LiveStands, BufferShapes
  <2> QED
      BY <2>3, <2>4, <2>5, <2>6, AllAround DEF Live
<1>10. ASSUME NEW m, Around(m, w, t), Live(m, w, t), m.buffered[t] = <<>>, ~ Has(m.early, t),
              NEW e \in Ends, t \in m.missed \/ e \in {"settled", "aborted"} \/ Says(m, t, "dispatched"),
              t \in w.closed, r = Report(m, t, e)
       PROVE  TrackerStands(r, w)
  <2>1. m \in Tracker /\ Keys(m)
      BY <1>10 DEF Around
  <2>2. TurnStands(r, w, t)
      BY <1>10, <2>1, LiveEnds
  <2>3. Around(r, w, t) /\ \A x \in TurnChats : r.byKey[x] # t
      BY <1>10, AroundEnd
  <2>4. ~ Heeded(r, w, t)
      BY <1>10 DEF Heeded
  <2> QED
      BY <2>2, <2>3, <2>4, AllAround
<1>11. ASSUME NEW e \in Ends, k.buffered[t] = <<e>> PROVE TrackerStands(r, w)
  <2>1. r = Report(d, t, e)
    <3>1. Len(k.buffered[t]) = 1 /\ k.buffered[t][1] = e
        BY <1>11
    <3>2. r = b
        BY <1>6, <3>1
    <3> QED
        BY <1>b, <1>7, <3>1, <3>2 DEF Replayed
  <2>2. t \in w.closed
      BY <1>11, BufferShapes DEF Held
  <2>3. e \in {"settled", "aborted"} \/ <<e>> \in {<<"ended">>, <<"errored">>}
      BY DEF Ends
  <2>4. t \in d.missed \/ e \in {"settled", "aborted"} \/ Says(d, t, "dispatched")
      BY <1>2, <1>5, <1>11, <2>3 DEF Held
  <2> QED
      BY <1>2, <1>3, <2>1, <2>2, <2>4, <1>10
<1>12. ASSUME NEW e \in Ends, k.buffered[t] = <<"start", e>> PROVE TrackerStands(r, w)
  <2> DEFINE m == Report(d, t, "start")
  <2>1. Len(k.buffered[t]) = 2 /\ k.buffered[t][1] = "start" /\ k.buffered[t][2] = e
      BY <1>12
  <2>2. b = m
      BY <1>b, <1>7, <2>1 DEF Replayed
  <2>3. d.byKey[TurnChat[t]] = NoDispatch
      BY <1>2, <1>12, BufferShapes
  <2>4. Around(m, w, t)
      BY <1>3, <1>7, <2>3, AroundStart
  <2>5. /\ Live(m, w, t) /\ Says(m, t, "dispatched")
        /\ m.early = d.early /\ m.buffered = d.buffered
      BY <1>2, <1>4, LiveStarted
  <2>6. r = Report(m, t, e)
    <3>1. r = c
        BY <1>6, <2>1
    <3>2. ~ Has(m.settled, t)
        BY <2>5 DEF Live
    <3> HIDE DEF m
    <3> QED
        BY <1>c, <2>1, <2>2, <3>1, <3>2 DEF Replayed
  <2>7. t \in w.closed
      BY <1>12, BufferShapes DEF Held
  <2> HIDE DEF m
  <2> QED
      BY <1>2, <2>4, <2>5, <2>6, <2>7, <1>10
<1> QED
    BY <1>1, <1>8, <1>9, <1>11, <1>12, BufferShapes

(* A remembered turn holds its observations until they are replayed.       *)
LEMMA HeldIt ==
  ASSUME NEW k, NEW w, NEW x, NEW t \in Dispatch, TrackerStands(k, w), Kin(w, x, t), t \in w.window,
         t \in x.running <=> t \in w.running, t \in x.closed <=> t \in w.closed,
         ~ Has(k.active, t), ~ Over(k, t),
         NEW n, Live(n, x, t), n.early = k.early, n.buffered = k.buffered,
         Says(k, t, "dispatched") => Says(n, t, "dispatched"),
         t \in n.missed <=> t \in k.missed, t \in n.evicted <=> t \in k.evicted
  PROVE  Held(n, x, t)
<1>1. k \in Tracker /\ TurnStands(k, w, t)
    BY DEF TrackerStands
<1>2. t \in x.window
    BY DEF Kin
<1>3. Heeded(n, x, t) => n.buffered[t] \in Begun
  <2>1. Heeded(n, x, t) => Heeded(k, w, t)
      BY DEF Heeded
  <2> QED
      BY <2>1 DEF TrackerStands, KeysStand
<1>4. n.buffered[t] = <<"start">> => t \in x.running /\ t \notin x.closed
    BY <1>1, BufferShapes DEF TurnStands
<1> QED
    BY <1>1, <1>2, <1>3, <1>4 DEF Held, TurnStands

(* A turn whose observations are gone.                                     *)
Dropped(k, d, t) ==
  /\ d \in Tracker /\ Keys(d)
  /\ d.told = k.told /\ d.active = k.active
  /\ \A u : Has(d.early, u) <=> Has(k.early, u) /\ u # t
  /\ d.buffered = [k.buffered EXCEPT ![t] = <<>>]
  /\ d.settled = k.settled /\ d.ignored = k.ignored /\ d.announced = k.announced
  /\ d.byKey = k.byKey /\ d.spoken = k.spoken /\ d.evicted = k.evicted /\ d.missed = k.missed

(* Dropping them touches nothing else.                                     *)
LEMMA Dropping ==
  ASSUME NEW k \in Tracker, Keys(k), NEW t \in Dispatch, NEW d, d = Drop(k, t)
  PROVE  Dropped(k, d, t)
BY DropIs DEF Dropped

(* The receipt of a turn comes.                                            *)
LEMMA AcceptStands ==
  ASSUME NEW k, NEW w, NEW x, NEW t \in Dispatch, TrackerStands(k, w), w.window = forWindow,
         \A u \in Dispatch \ {t} : Alike(w, x, u), Kin(w, x, t),
         ~ Owned(w, t), x.receipt[t] = "told", t \notin x.pending, t \notin w.heard,
         t \in x.running <=> t \in w.running, t \in x.closed <=> t \in w.closed,
         ~(t \in w.running /\ t \in w.closed),
         t \in w.window /\ k.buffered[t] \in Begun => k.byKey[TurnChat[t]] = NoDispatch,
         NEW r, r = AcceptTurn(k, t)
  PROVE  TrackerStands(r, x)
<1>1. k \in Tracker /\ Keys(k) /\ TurnStands(k, w, t)
    BY DEF TrackerStands
<1>2. Around(k, x, t)
    BY AroundIt
<1>3. ~ Has(k.active, t) /\ k.told[t] = <<>>
    BY <1>1 DEF TurnStands
<1>4. \A what : ~ Says(k, t, what)
    BY <1>3 DEF Says, Has
<1>5. ~ Over(k, t) /\ ~ Has(k.settled, t)
    BY <1>1, <1>4 DEF Over, TurnStands
<1>6. \A c \in TurnChats : k.byKey[c] # t
    BY <1>3, TurnConstants DEF TrackerStands, KeysStand
<1>7. CASE t \notin w.window
  <2>0. PICK d : d = Drop(k, t)
      OBVIOUS
  <2> DEFINE s == Append(Trim(d.ignored), t)
  <2>1. r = [d EXCEPT !.ignored = s]
      BY <1>7, <2>0 DEF AcceptTurn
  <2>a. Dropped(k, d, t)
      BY <1>1, <2>0, Dropping
  <2>2. /\ d \in Tracker /\ Keys(d)
        /\ d.told = k.told /\ d.active = k.active
        /\ \A u : Has(d.early, u) <=> Has(k.early, u) /\ u # t
        /\ d.buffered = [k.buffered EXCEPT ![t] = <<>>]
        /\ d.settled = k.settled /\ d.ignored = k.ignored /\ d.announced = k.announced
        /\ d.byKey = k.byKey /\ d.spoken = k.spoken /\ d.evicted = k.evicted /\ d.missed = k.missed
      BY <2>a DEF Dropped
  <2>3. Around(d, x, t)
      BY <1>2, <2>0, AroundDrop
  <2>4. s \in Seq(Dispatch) /\ \A u : Has(s, u) => Has(d.ignored, u) \/ u = t
    <3>1. d.ignored \in Seq(Dispatch)
        BY <2>2 DEF Tracker
    <3>2. Trim(d.ignored) \in Seq(Dispatch) /\ \A u : Has(Trim(d.ignored), u) => Has(d.ignored, u)
        BY <3>1, Trimmed
    <3>3. /\ Append(Trim(d.ignored), t) \in Seq(Dispatch)
          /\ \A u : Has(Append(Trim(d.ignored), t), u) <=> Has(Trim(d.ignored), u) \/ u = t
        BY <3>2, Appended
    <3> QED
        BY <3>2, <3>3
  <2> HIDE DEF s
  <2>5. /\ r \in Tracker /\ r.ignored = s
        /\ r.told = d.told /\ r.active = d.active /\ r.early = d.early /\ r.buffered = d.buffered
        /\ r.settled = d.settled /\ r.announced = d.announced /\ r.byKey = d.byKey
        /\ r.spoken = d.spoken /\ r.evicted = d.evicted /\ r.missed = d.missed
      BY <2>1, <2>2, <2>4 DEF Tracker
  <2>6. \A u \in Dispatch \ {t} : Same(d, r, u)
      BY <2>4, <2>5 DEF Same
  <2>7. Keys(r)
      BY <2>2, <2>5 DEF Keys
  <2>8. Around(r, x, t)
      BY <2>3, <2>5, <2>6, <2>7, AroundSame
  <2>9. r.buffered[t] = <<>> /\ ~ Has(r.early, t) /\ ~ Has(r.active, t) /\ r.told[t] = <<>>
      BY <1>1, <1>3, <2>2, <2>5 DEF Tracker
  <2>10. (\A what : ~ Says(r, t, what)) /\ ~ Over(r, t)
      BY <2>9 DEF Says, Has, Over
  <2>11. t \notin x.window /\ ~ Owned(x, t)
      BY <1>7 DEF Kin, Owned
  <2>12. ~ Has(r.settled, t) /\ t \notin r.announced
      BY <1>1, <1>4, <1>5, <2>2, <2>5 DEF TurnStands
  <2>13. (\A kinds : Once(r.told[t], kinds)) /\ r.buffered[t] \notin Finished
      BY <2>9, BufferShapes DEF Once
  <2>14. TurnStands(r, x, t)
      BY <2>9, <2>10, <2>11, <2>12, <2>13 DEF TurnStands
  <2>15. ~ Heeded(r, x, t)
      BY <2>11 DEF Heeded
  <2> QED
      BY <1>6, <2>2, <2>5, <2>8, <2>14, <2>15, AllAround
<1>8. CASE t \in w.window
  <2> DEFINE m == Remember(k, t)
             n == Announce(m, t)
  <2>1. r = ReplayEarly(n, t)
      BY <1>5, <1>8 DEF AcceptTurn
  <2>2. Owned(x, t)
      BY <1>8 DEF Owned, Kin
  <2>3. /\ Live(m, x, t)
        /\ t \in m.missed <=> t \in k.missed
        /\ t \in m.evicted <=> t \in k.evicted
        /\ m.early = k.early
        /\ m.buffered = k.buffered
        /\ \A c \in TurnChats : m.byKey[c] \in {k.byKey[c], NoDispatch}
      BY <1>1, <1>3, <1>5, <2>2, LiveRemembered
  <2>4. Around(m, x, t)
      BY <1>2, <1>3, AroundRemember
  <2>5. m \in Tracker
      BY <2>4 DEF Around
  <2> HIDE DEF m
  <2>6. /\ n \in Tracker
        /\ n.told = [m.told EXCEPT ![t] = Announced(m, t)]
        /\ n.active = m.active /\ n.early = m.early /\ n.buffered = m.buffered
        /\ n.settled = m.settled /\ n.ignored = m.ignored /\ n.announced = m.announced \cup {t}
        /\ n.byKey = m.byKey /\ n.spoken = m.spoken /\ n.evicted = m.evicted /\ n.missed = m.missed
      BY <2>5, AnnounceIs
  <2>7. Around(n, x, t)
      BY <2>4, AroundAnnounce
  <2> HIDE DEF n
  <2>8. n.told[t] = Announced(m, t) /\ t \in n.announced
      BY <2>5, <2>6 DEF Tracker
  <2>9. Live(n, x, t) /\ Says(n, t, "dispatched")
      BY <2>3, <2>5, <2>6, <2>8, LiveAnnounced
  <2>10. Held(n, x, t)
      BY <1>3, <1>5, <1>8, <2>3, <2>6, <2>9, HeldIt
  <2>11. /\ n.buffered[t] \in Begun => n.byKey[TurnChat[t]] = NoDispatch
         /\ \A c \in TurnChats : n.byKey[c] # t
      BY <1>6, <1>8, <2>3, <2>6, ChatIs, TurnConstants
  <2> QED
      BY <2>1, <2>7, <2>10, <2>11, ReplayStands
<1> QED
    BY <1>7, <1>8

(* The recovery lookup finds the admission of a turn.                      *)
LEMMA RecoveryStands ==
  ASSUME NEW k, NEW w, NEW x, NEW t \in Dispatch, TrackerStands(k, w),
         \A u \in Dispatch \ {t} : Alike(w, x, u), Kin(w, x, t),
         t \in w.pending, t \notin x.pending, Owned(x, t),
         t \in x.running <=> t \in w.running, t \in x.closed <=> t \in w.closed,
         ~(t \in w.running /\ t \in w.closed),
         k.buffered[t] \in Begun => k.byKey[TurnChat[t]] = NoDispatch,
         NEW r, r = ReplayEarly(Remember(k, t), t)
  PROVE  TrackerStands(r, x)
<1>1. k \in Tracker /\ Keys(k) /\ TurnStands(k, w, t)
    BY DEF TrackerStands
<1>2. Around(k, x, t)
    BY AroundIt
<1>3. ~ Has(k.active, t) /\ k.told[t] = <<>> /\ t \in w.window
    BY <1>1 DEF TurnStands, Owned, Kin
<1>4. \A what : ~ Says(k, t, what)
    BY <1>3 DEF Says, Has
<1>5. ~ Over(k, t)
    BY <1>4 DEF Over
<1>6. \A c \in TurnChats : k.byKey[c] # t
    BY <1>3, TurnConstants DEF TrackerStands, KeysStand
<1> DEFINE m == Remember(k, t)
<1>7. /\ Live(m, x, t)
      /\ m.told[t] = k.told[t]
      /\ t \in m.missed <=> t \in k.missed
      /\ t \in m.evicted <=> t \in k.evicted
      /\ m.early = k.early
      /\ m.buffered = k.buffered
      /\ \A c \in TurnChats : m.byKey[c] \in {k.byKey[c], NoDispatch}
    BY <1>1, <1>3, <1>5, LiveRemembered
<1>8. Around(m, x, t)
    BY <1>2, <1>3, AroundRemember
<1> HIDE DEF m
<1>9. Held(m, x, t)
    BY <1>3, <1>4, <1>5, <1>7, HeldIt
<1>10. /\ m.buffered[t] \in Begun => m.byKey[TurnChat[t]] = NoDispatch
       /\ \A c \in TurnChats : m.byKey[c] # t
    BY <1>6, <1>7, ChatIs, TurnConstants
<1> QED
    BY <1>8, <1>9, <1>10, ReplayStands DEF m

(* A set of numbers has a least one.                                       *)
LEMMA LeastNumber ==
  ASSUME NEW T \in SUBSET Nat, T # {}
  PROVE  \E n \in T : \A m \in T : n <= m
<1> DEFINE R == OpToRel(<, Nat)
<1>1. IsWellFoundedOn(R, Nat) BY NatLessThanWellFounded
<1>2. \E n \in T : \A m \in T : ~(<<m, n>> \in R)
  <2> HIDE DEF R
  <2> QED BY <1>1, WFMin
<1>3. \A m, n \in T : m < n => <<m, n>> \in R BY DEF OpToRel
<1> HIDE DEF R
<1>4. PICK n \in T : \A m \in T : ~(<<m, n>> \in R) BY <1>2
<1>5. \A m \in T : ~(m < n) BY <1>3, <1>4
<1>6. \A m \in T : n <= m BY <1>5
<1> QED BY <1>6

(* Induction up to a number, with a set for the predicate.                 *)
LEMMA CountUp ==
  ASSUME NEW N \in Nat, NEW T, 0 \in T, \A n \in 0..(N - 1) : n \in T => n + 1 \in T
  PROVE  \A n \in 0..N : n \in T
<1> DEFINE B == {n \in 0..N : n \notin T}
<1> SUFFICES ASSUME B # {} PROVE FALSE
    OBVIOUS
<1>1. PICK n \in B : \A k \in B : n <= k
  <2>1. B \in SUBSET Nat
      OBVIOUS
  <2> HIDE DEF B
  <2> QED
      BY <2>1, LeastNumber
<1>2. n \in 1..N
    BY <1>1
<1>3. n - 1 \notin B
    BY <1>1, <1>2
<1>4. n - 1 \in 0..(N - 1) /\ n - 1 \in T /\ (n - 1) + 1 = n
    BY <1>2, <1>3
<1> QED
    BY <1>1, <1>4

(* Two sequences of values, each made from the one before in the same way, *)
(* are the same.                                                           *)
LEMMA InStep ==
  ASSUME NEW N \in Nat, NEW a, NEW b, a[0] = b[0],
         \A n \in 1..N : a[n - 1] = b[n - 1] => a[n] = b[n]
  PROVE  a[N] = b[N]
<1> DEFINE T == {n \in 0..N : a[n] = b[n]}
<1>1. 0 \in T
    OBVIOUS
<1>2. ASSUME NEW n \in 0..(N - 1), n \in T PROVE n + 1 \in T
  <2>1. n + 1 \in 1..N /\ n + 1 \in 0..N /\ (n + 1) - 1 = n
      OBVIOUS
  <2>2. a[(n + 1) - 1] = b[(n + 1) - 1]
      BY <2>1, <1>2
  <2> QED
      BY <2>1, <2>2
<1>3. \A n \in 0..N : n \in T
  <2> HIDE DEF T
  <2> QED
      BY <1>1, <1>2, CountUp
<1>4. N \in 0..N
    OBVIOUS
<1> QED
    BY <1>3, <1>4

(* A step that stays in a set can be taken any number of times.            *)
Runs(N, S, b, F) ==
  {g \in [0..N -> S] : g[0] = b /\ \A n \in 1..N : g[n] = F[<<n, g[n - 1]>>]}

(* A function that is applied N times has a run.                           *)
LEMMA Iterated ==
  ASSUME NEW N \in Nat, NEW S, NEW b \in S, NEW F \in [(1..N) \X S -> S]
  PROVE  Runs(N, S, b, F) # {}
<1> DEFINE Taken(m, g) == g \in [0..m -> S] /\ g[0] = b /\ \A n \in 1..m : g[n] = F[<<n, g[n - 1]>>]
           T == {m \in 0..N : \E g : Taken(m, g)}
<1>1. 0 \in T
  <2> DEFINE g == [k \in 0..0 |-> b]
  <2>1. g \in [0..0 -> S] /\ g[0] = b
      OBVIOUS
  <2>2. \A n \in 1..0 : FALSE
      OBVIOUS
  <2> HIDE DEF g
  <2>3. Taken(0, g)
      BY <2>1, <2>2
  <2> QED
      BY <2>3
<1>2. ASSUME NEW m \in 0..(N - 1), m \in T PROVE m + 1 \in T
  <2>0. m \in Nat /\ m + 1 \in 1..N /\ m + 1 \in 0..N /\ m \in 0..m
      OBVIOUS
  <2>1. PICK g : Taken(m, g)
      BY <1>2
  <2> DEFINE h == [k \in 0..(m + 1) |-> IF k = m + 1 THEN F[<<m + 1, g[m]>>] ELSE g[k]]
  <2>2. g[m] \in S /\ F[<<m + 1, g[m]>>] \in S
      BY <2>0, <2>1
  <2>3. \A k \in 0..(m + 1) : k # m + 1 => k \in 0..m
      BY <2>0
  <2>4. h \in [0..(m + 1) -> S]
      BY <2>1, <2>2, <2>3
  <2>5. h[0] = b
      BY <2>0, <2>1
  <2>6. ASSUME NEW n \in 1..(m + 1) PROVE h[n] = F[<<n, h[n - 1]>>]
    <3>1. n \in 0..(m + 1) /\ n - 1 \in 0..(m + 1) /\ n - 1 # m + 1
        BY <2>0
    <3>2. h[n - 1] = g[n - 1]
        BY <3>1
    <3>3. CASE n = m + 1
      <4>1. n - 1 = m
          BY <3>3, <2>0
      <4> QED
          BY <3>1, <3>2, <3>3, <4>1
    <3>4. CASE n # m + 1
      <4>1. n \in 1..m
          BY <3>4, <2>0
      <4>2. h[n] = g[n]
          BY <3>4, <3>1
      <4> QED
          BY <4>1, <4>2, <3>2, <2>1
    <3> QED
        BY <3>3, <3>4
  <2>7. Taken(m + 1, h)
    <3> HIDE DEF h
    <3> QED
        BY <2>4, <2>5, <2>6
  <2> HIDE DEF Taken
  <2> QED
      BY <2>0, <2>7
<1>3. \A m \in 0..N : m \in T
  <2> HIDE DEF T
  <2> QED
      BY <1>1, <1>2, CountUp
<1>4. N \in 0..N
    OBVIOUS
<1> QED
    BY <1>3, <1>4 DEF Runs

-----------------------------------------------------------------------------
(* Recovering one turn after another.                                      *)
LEMMA ReplayedIs ==
  ASSUME NEW k \in Tracker, Keys(k), NEW t \in Dispatch, NEW event \in Ends \cup {"start"},
         NEW s, s = Replayed(k, t, event)
  PROVE  s \in Tracker /\ Keys(s) /\ (\A u : Has(s.active, u) => Has(k.active, u)) /\ s.early = k.early
<1>1. CASE Has(k.settled, t)
    BY <1>1 DEF Replayed
<1>2. CASE ~ Has(k.settled, t) /\ event = "start"
  <2>1. s = Report(k, t, "start")
      BY <1>2 DEF Replayed
  <2>2. /\ s \in Tracker /\ Keys(s)
        /\ s.told = [k.told EXCEPT ![t] = Announced(k, t)]
        /\ s.active = k.active /\ s.early = k.early /\ s.buffered = k.buffered
        /\ s.settled = k.settled /\ s.ignored = k.ignored /\ s.announced = k.announced \cup {t}
        /\ s.byKey = [k.byKey EXCEPT ![TurnChat[t]] = t]
        /\ s.spoken = k.spoken /\ s.evicted = k.evicted /\ s.missed = k.missed
      BY <2>1, StartIs
  <2> QED
      BY <2>2
<1>3. CASE ~ Has(k.settled, t) /\ event \in Ends
  <2>1. s = Report(k, t, event)
      BY <1>3 DEF Replayed
  <2>2. s \in Tracker /\ Keys(s) /\ (\A u : Has(s.active, u) <=> Has(k.active, u) /\ u # t) /\ s.early = k.early
      BY <1>3, <2>1, EndIs
  <2> QED
      BY <2>2
<1> QED
    BY <1>1, <1>2, <1>3

(* Recovering a turn adds no key but its own.                              *)
LEMMA RecoveredIs ==
  ASSUME NEW k \in Tracker, Keys(k), NEW t \in Dispatch, NEW r, r = Recovered(k, t)
  PROVE  /\ r \in Tracker /\ Keys(r)
         /\ \A u \in Dispatch : Has(r.active, u) => Has(k.active, u) \/ u = t
         /\ \A u \in Dispatch : Has(r.early, u) => Has(k.early, u)
<1>1. CASE receipt[t] # "done"
    BY <1>1 DEF Recovered
<1>2. CASE receipt[t] = "done"
  <2> DEFINE Fits(q) == /\ q \in Tracker /\ Keys(q)
                        /\ \A u \in Dispatch : Has(q.active, u) => Has(k.active, u) \/ u = t
                        /\ \A u \in Dispatch : Has(q.early, u) => Has(k.early, u)
             m == Remember(k, t)
             a == Drop(m, t)
             b == Replayed(a, t, m.buffered[t][1])
             c == Replayed(b, t, m.buffered[t][2])
  <2>1. r = ReplayEarly(m, t)
      BY <1>2 DEF Recovered
  <2>2. Fits(m)
    <3>1. /\ m \in Tracker
          /\ Keys(m)
          /\ \A u \in Dispatch : Has(m.active, u) <=> (Has(k.active, u) /\ u \notin Pushed(k, t)) \/ u = t
          /\ m.early = k.early
        BY RememberIs
    <3> HIDE DEF m
    <3> QED
        BY <3>1
  <2> HIDE DEF m
  <2>3. Fits(a)
    <3>1. /\ a \in Tracker
          /\ Keys(a)
          /\ a.active = m.active
          /\ \A u : Has(a.early, u) <=> Has(m.early, u) /\ u # t
        BY <2>2, DropIs
    <3> HIDE DEF a
    <3> QED
        BY <2>2, <3>1
  <2> HIDE DEF a
  <2>4. ASSUME NEW q, Fits(q), NEW event \in Ends \cup {"start"}
        PROVE  Fits(Replayed(q, t, event))
    <3>0. PICK s : s = Replayed(q, t, event)
        OBVIOUS
    <3>1. s \in Tracker /\ Keys(s) /\ (\A u : Has(s.active, u) => Has(q.active, u)) /\ s.early = q.early
        BY <2>4, <3>0, ReplayedIs
    <3> QED
        BY <2>4, <3>0, <3>1
  <2>5. m.buffered[t] \in Buffers
      BY <2>2 DEF Tracker
  <2>6. \E N \in 0..2 : Len(m.buffered[t]) = N /\ Fits(IF N = 0 THEN a ELSE IF N = 1 THEN b ELSE c)
    <3>1. CASE m.buffered[t] = <<>>
      <4>1. Len(m.buffered[t]) = 0
          BY <3>1
      <4> HIDE DEF Fits
      <4> QED
          BY <2>3, <4>1
    <3>2. CASE m.buffered[t] = <<"start">>
      <4>1. Len(m.buffered[t]) = 1 /\ m.buffered[t][1] = "start"
          BY <3>2
      <4>2. Fits(b)
          BY <2>3, <2>4, <4>1
      <4> HIDE DEF Fits, b
      <4> QED
          BY <4>1, <4>2
    <3>3. ASSUME NEW e \in Ends, m.buffered[t] = <<e>>
          PROVE \E N \in 0..2 : Len(m.buffered[t]) = N /\ Fits(IF N = 0 THEN a ELSE IF N = 1 THEN b ELSE c)
      <4>1. Len(m.buffered[t]) = 1 /\ m.buffered[t][1] = e
          BY <3>3
      <4>2. Fits(b)
          BY <2>3, <2>4, <4>1
      <4> HIDE DEF Fits, b
      <4> QED
          BY <4>1, <4>2
    <3>4. ASSUME NEW e \in Ends, m.buffered[t] = <<"start", e>>
          PROVE \E N \in 0..2 : Len(m.buffered[t]) = N /\ Fits(IF N = 0 THEN a ELSE IF N = 1 THEN b ELSE c)
      <4>1. Len(m.buffered[t]) = 2 /\ m.buffered[t][1] = "start" /\ m.buffered[t][2] = e
          BY <3>4
      <4>2. Fits(b)
          BY <2>3, <2>4, <4>1
      <4> HIDE DEF b
      <4>3. Fits(c)
          BY <2>4, <4>1, <4>2
      <4> HIDE DEF Fits, c
      <4> QED
          BY <4>1, <4>3
    <3> HIDE DEF Fits, b, c
    <3> QED
        BY <2>5, <3>1, <3>2, <3>3, <3>4, BufferShapes
  <2>7. PICK N \in 0..2 : Len(m.buffered[t]) = N /\ Fits(IF N = 0 THEN a ELSE IF N = 1 THEN b ELSE c)
    <3> HIDE DEF Fits, b, c
    <3> QED
        BY <2>6
  <2>8. ReplayEarly(m, t) = IF N = 0 THEN a ELSE IF N = 1 THEN b ELSE c
    <3>1. /\ a = Drop(m, t)
          /\ b = Replayed(a, t, m.buffered[t][1])
          /\ c = Replayed(b, t, m.buffered[t][2])
        BY DEF a
    <3> HIDE DEF b, c, Fits
    <3> QED
        BY <2>7, <3>1, ReplayIs
  <2>9. Fits(r)
    <3> HIDE DEF Fits, b, c
    <3> QED
        BY <2>1, <2>7, <2>8
  <2> QED
      BY <2>9
<1> QED
    BY <1>1, <1>2

Whole == {q \in Tracker : Keys(q)}

(* RecoverWith recovers the buffered turns one after another.              *)
LEMMA RecoveriesAre ==
  ASSUME NEW k \in Whole
  PROVE  \E g \in [0..Len(k.early) -> Whole] :
           /\ g[0] = k
           /\ \A n \in 1..Len(k.early) : g[n] = Recovered(g[n - 1], k.early[n])
           /\ RecoverWith(k) = g[Len(k.early)]
<1> DEFINE N == Len(k.early)
           F(g) == [n \in 0..N |-> IF n = 0 THEN k ELSE Recovered(g[n - 1], k.early[n])]
           h == CHOOSE g : g = F(g)
           M == [p \in (1..N) \X Whole |-> Recovered(p[2], k.early[p[1]])]
<1>0. k \in Tracker /\ Keys(k) /\ k.early \in Seq(Dispatch)
    BY DEF Whole, Tracker
<1>1. N \in Nat /\ \A n \in 1..N : k.early[n] \in Dispatch
    BY <1>0
<1>2. RecoverWith(k) = h[N]
    BY Zenon DEF RecoverWith
<1>3. M \in [(1..N) \X Whole -> Whole] /\ \A n \in 1..N, q \in Whole : M[<<n, q>>] = Recovered(q, k.early[n])
  <2>1. \A n \in 1..N, q \in Whole : Recovered(q, k.early[n]) \in Whole
    <3> SUFFICES ASSUME NEW n \in 1..N, NEW q \in Whole PROVE Recovered(q, k.early[n]) \in Whole
        OBVIOUS
    <3>1. PICK t \in Dispatch : t = k.early[n]
        BY <1>1
    <3>2. PICK s : s = Recovered(q, t)
        OBVIOUS
    <3>3. q \in Tracker /\ Keys(q)
        BY DEF Whole
    <3>4. /\ s \in Tracker /\ Keys(s)
          /\ \A u \in Dispatch : Has(s.active, u) => Has(q.active, u) \/ u = t
          /\ \A u \in Dispatch : Has(s.early, u) => Has(q.early, u)
        BY <3>2, <3>3, RecoveredIs
    <3> QED
        BY <3>1, <3>2, <3>4 DEF Whole
  <2> HIDE DEF N
  <2> QED
      BY <2>1
<1> HIDE DEF N
<1>4. PICK g \in [0..N -> Whole] : g[0] = k /\ \A n \in 1..N : g[n] = M[<<n, g[n - 1]>>]
  <2> HIDE DEF M
  <2>1. Runs(N, Whole, k, M) # {}
      BY <1>1, <1>3, Iterated
  <2> QED
      BY <2>1 DEF Runs
<1>5. \A n \in 1..N : n - 1 \in 0..N /\ n \in 0..N /\ n # 0
    BY <1>1
<1>6. \A n \in 1..N : g[n] = Recovered(g[n - 1], k.early[n])
  <2> HIDE DEF M
  <2> QED
      BY <1>3, <1>4, <1>5
<1>7. g = F(g)
  <2>1. \A n \in 0..N : n = 0 \/ n \in 1..N
      BY <1>1
  <2>2. \A n \in 0..N : g[n] = F(g)[n]
      BY <1>4, <1>6, <2>1
  <2>3. g = [n \in 0..N |-> g[n]]
      BY <1>4
  <2> QED
      BY <2>2, <2>3
<1>8. h = F(h)
  <2> HIDE DEF F
  <2> QED
      BY <1>7, Zenon
<1> HIDE DEF h
<1>9. /\ h[0] = g[0]
      /\ \A n \in 1..N : h[n - 1] = g[n - 1] => h[n] = g[n]
  <2>1. h[0] = k
      BY <1>1, <1>8
  <2>2. \A n \in 1..N : h[n] = Recovered(h[n - 1], k.early[n])
      BY <1>5, <1>8
  <2> HIDE DEF F, M
  <2> QED
      BY <2>1, <2>2, <1>4, <1>6
<1> HIDE DEF F, M
<1>10. h[N] = g[N]
    BY <1>1, <1>9, InStep
<1>11. RecoverWith(k) = g[N]
    BY <1>2, <1>10
<1> QED
    BY <1>4, <1>6, <1>11 DEF N

-----------------------------------------------------------------------------
(* The inductive invariant.                                                *)
Receipts == {"none", "coming", "told", "done", "unwritten", "lost"}
Queue(t) == turns[TurnChat[t]]

(* Flue's instances run the turns of their chats in order, and what the    *)
(* process knows of a turn fits what it has seen of it.                    *)
QueuesTyped ==
  /\ forWindow \in SUBSET Dispatch
  /\ receipt \in [Dispatch -> Receipts]
  /\ turns \in [TurnChats -> Seq(Dispatch)]
  /\ running \in SUBSET Dispatch /\ cut \in SUBSET Dispatch /\ closed \in SUBSET Dispatch
  /\ said \in SUBSET Dispatch /\ unheard \in SUBSET Dispatch
  /\ resolver \in BOOLEAN
  /\ canary \in {"idle", "sending", "waiting", "passed", "failed"}
  /\ canaryTurn \in Dispatch \cup {NoDispatch}

QueuesStand ==
  /\ \A c \in TurnChats : Distinct(turns[c])
  /\ \A c \in TurnChats, t \in Dispatch :
       Has(turns[c], t) => TurnChat[t] = c /\ receipt[t] # "none" /\ t \notin closed
  /\ \A t \in running \cup cut : AtHead(t)
  /\ running \cap cut = {}
  /\ \A t \in closed : receipt[t] # "none"
  /\ \A t \in Dispatch :
       /\ receipt[t] \in {"coming", "told", "unwritten"} => resolver
       /\ receipt[t] = "done" => t \in forWindow
  /\ said \subseteq running \cup closed
  /\ \A t \in said \ unheard : Known(t)

(* A Window whose receipt is still to come is the last of its chat.        *)
LastComing ==
  \A t, u \in forWindow :
    receipt[u] = "coming" /\ TurnChat[t] = TurnChat[u] /\ t # u /\ Has(Queue(t), t) => Before(Queue(t), t, u)

(* Until the lookup is installed, a chat's running turn is the last of its *)
(* buffered ones.                                                          *)
Starting ==
  ~ resolver =>
    /\ said = {} /\ canary \in {"idle", "failed"}
    /\ \A t \in running, u \in Dispatch :
         u # t /\ TurnChat[u] = TurnChat[t] /\ Has(tracker.early, t) /\ Has(tracker.early, u)
           => Before(tracker.early, u, t)

CanaryWaits ==
  /\ canary \in {"sending", "waiting"} =>
       canaryTurn \in forWindow /\ (Known(canaryTurn) => Told(canaryTurn, "dispatched"))
  /\ canary = "passed" => canaryTurn \in forWindow /\ Told(canaryTurn, "silent")
  /\ canary = "waiting" => Results(tracker.told[canaryTurn]) = {}

TurnInv ==
  /\ QueuesTyped /\ QueuesStand /\ LastComing /\ Starting /\ CanaryWaits
  /\ TrackerStands(tracker, World)

(* A chat's instance runs one turn at a time.                              *)
LEMMA HeadIs ==
  ASSUME QueuesTyped, QueuesStand, NEW t \in Dispatch, AtHead(t)
  PROVE  /\ Has(Queue(t), t)
         /\ t \notin closed /\ receipt[t] # "none"
         /\ \A u \in running \cup cut : TurnChat[u] = TurnChat[t] => u = t
<1>1. Queue(t) \in Seq(Dispatch) /\ Queue(t) # <<>> /\ Head(Queue(t)) = t /\ TurnChat[t] \in TurnChats
    BY ChatIs DEF QueuesTyped, AtHead, Queue
<1>2. Has(Queue(t), t)
    BY <1>1, TailIs
<1>3. t \notin closed /\ receipt[t] # "none"
    BY <1>1, <1>2 DEF QueuesStand, Queue
<1>4. \A u \in running \cup cut : TurnChat[u] = TurnChat[t] => u = t
    BY DEF QueuesStand, AtHead
<1> QED
    BY <1>2, <1>3, <1>4

(* While the first observations are recovered.                             *)
Midway(k, n) ==
  [window |-> forWindow, receipt |-> receipt, running |-> running, closed |-> closed,
   said |-> said, heard |-> said \ unheard,
   pending |-> {t \in Dispatch : receipt[t] = "done" /\ \A i \in 1..n : k.early[i] # t}]

Recovering(k, n, q) ==
  /\ TrackerStands(q, Midway(k, n))
  /\ \A u \in Dispatch : Has(q.active, u) => \E i \in 1..n : k.early[i] = u
  /\ \A u \in Dispatch : Has(q.early, u) => Has(k.early, u)

(* One turn more is recovered.                                             *)
LEMMA OneRecovered ==
  ASSUME QueuesTyped, QueuesStand, NEW k \in Tracker, Keys(k),
         \A t \in running, u \in Dispatch :
           u # t /\ TurnChat[u] = TurnChat[t] /\ Has(k.early, t) /\ Has(k.early, u) => Before(k.early, u, t),
         NEW n \in 1..Len(k.early), NEW q, Recovering(k, n - 1, q),
         NEW r, r = Recovered(q, k.early[n])
  PROVE  Recovering(k, n, r)
<1> DEFINE t == k.early[n]
           w == Midway(k, n - 1)
           x == Midway(k, n)
<1>0. k.early \in Seq(Dispatch)
    BY DEF Tracker
<1>1. t \in Dispatch /\ n \in Nat \ {0} /\ Len(k.early) \in Nat /\ DOMAIN k.early = 1..Len(k.early)
    BY <1>0
<1>2. /\ \A i \in 1..(n - 1) : i \in 1..n /\ i < n /\ i \in 1..Len(k.early)
      /\ \A i \in 1..n : i \in 1..(n - 1) \/ i = n
    BY <1>1
<1>3. q \in Tracker /\ Keys(q) /\ TrackerStands(q, w)
    BY DEF Recovering, TrackerStands
<1>4. /\ r \in Tracker /\ Keys(r)
      /\ \A u \in Dispatch : Has(r.active, u) => Has(q.active, u) \/ u = t
      /\ \A u \in Dispatch : Has(r.early, u) => Has(q.early, u)
    BY <1>1, <1>3, RecoveredIs
<1>5. \A i \in 1..(n - 1) : k.early[i] # t
    BY <1>1, <1>2 DEF Keys, Distinct
<1>6. /\ \A u \in Dispatch : u \in w.pending <=> receipt[u] = "done" /\ \A i \in 1..(n - 1) : k.early[i] # u
      /\ \A u \in Dispatch : u \in x.pending <=> receipt[u] = "done" /\ \A i \in 1..n : k.early[i] # u
      /\ w.window = forWindow /\ w.receipt = receipt /\ w.running = running /\ w.closed = closed
      /\ w.said = said /\ w.heard = said \ unheard
      /\ x.window = forWindow /\ x.receipt = receipt /\ x.running = running /\ x.closed = closed
      /\ x.said = said /\ x.heard = said \ unheard
    BY DEF Midway
<1>7. \A u \in Dispatch \ {t} : u \in x.pending <=> u \in w.pending
    BY <1>2, <1>6
<1>8. \A u \in Dispatch \ {t} : Alike(w, x, u)
    BY <1>6, <1>7 DEF Alike
<1>9. TrackerStands(r, x)
  <2>1. CASE receipt[t] # "done"
    <3>1. r = q
        BY <2>1 DEF Recovered
    <3>2. \A u \in Dispatch : Alike(w, x, u)
      <4>1. Alike(w, x, t)
          BY <1>1, <1>6, <2>1 DEF Alike
      <4> QED
          BY <4>1, <1>8
    <3>3. \A u \in Dispatch : TurnStands(q, x, u)
      <4> TAKE u \in Dispatch
      <4>1. Same(q, q, u)
          BY DEF Same
      <4> QED
          BY <1>3, <3>2, <4>1, Untouched DEF TrackerStands
    <3>4. KeysStand(q, x)
      <4>1. KeysStand(q, w)
          BY <1>3 DEF TrackerStands
      <4> HIDE DEF w, x
      <4> QED
          BY <1>6, <4>1 DEF KeysStand, Heeded
    <3> QED
        BY <1>3, <3>1, <3>3, <3>4 DEF TrackerStands
  <2>2. CASE receipt[t] = "done"
    <3>1. r = ReplayEarly(Remember(q, t), t)
        BY <2>2 DEF Recovered
    <3>2. t \in w.pending /\ t \notin x.pending
        BY <1>1, <1>2, <1>5, <1>6, <2>2
    <3>3. Kin(w, x, t) /\ Owned(x, t)
        BY <1>1, <1>6, <2>2 DEF Kin, Owned, QueuesStand
    <3>4. ~(t \in running /\ t \in closed)
        BY <1>1, HeadIs DEF QueuesStand
    <3>5. ASSUME q.byKey[TurnChat[t]] # NoDispatch PROVE q.buffered[t] \notin Begun
      <4> DEFINE u == q.byKey[TurnChat[t]]
      <4>1. TurnChat[t] \in TurnChats
          BY <1>1, ChatIs
      <4>2. u \in Dispatch
          BY <1>3, <3>5, <4>1 DEF Tracker
      <4>3. TurnChat[u] = TurnChat[t] /\ Has(q.active, u) /\ u \in running
          BY <1>3, <1>6, <3>5, <4>1 DEF TrackerStands, KeysStand
      <4> HIDE DEF u
      <4>4. PICK i \in 1..(n - 1) : k.early[i] = u
          BY <4>2, <4>3 DEF Recovering
      <4>5. u # t /\ Has(k.early, u) /\ Has(k.early, t)
          BY <1>1, <1>2, <1>5, <4>4 DEF Has
      <4>6. Before(k.early, t, u)
          BY <1>1, <4>3, <4>5
      <4>7. PICK a \in 1..Len(k.early), b \in 1..Len(k.early) : a < b /\ k.early[a] = t /\ k.early[b] = u
          BY <1>1, <4>6 DEF Before
      <4>8. a = n /\ b = i
          BY <1>1, <1>2, <4>4, <4>7 DEF Keys, Distinct
      <4> QED
          BY <1>1, <1>2, <4>4, <4>7, <4>8
    <3> HIDE DEF t, w, x
    <3> QED
        BY <1>1, <1>3, <1>6, <1>8, <3>1, <3>2, <3>3, <3>4, <3>5, RecoveryStands
  <2> QED
      BY <2>1, <2>2
<1>10. \A u \in Dispatch : Has(r.active, u) => \E i \in 1..n : k.early[i] = u
    BY <1>1, <1>2, <1>4 DEF Recovering
<1>11. \A u \in Dispatch : Has(r.early, u) => Has(k.early, u)
    BY <1>4 DEF Recovering
<1> QED
    BY <1>9, <1>10, <1>11 DEF Recovering

(* The lookup is installed.                                                *)
LEMMA RecoveryEnds ==
  ASSUME TurnInv, ~ resolver,
         NEW x, x.window = forWindow, x.receipt = receipt, x.running = running, x.closed = closed,
         x.said = said, x.heard = said \ unheard, x.pending = {}
  PROVE  TrackerStands(RecoverWith(tracker), x)
<1> DEFINE N == Len(tracker.early)
<1>1. QueuesTyped /\ QueuesStand /\ tracker \in Tracker /\ Keys(tracker) /\ TrackerStands(tracker, World)
    BY DEF TurnInv, TrackerStands
<1>2. tracker.early \in Seq(Dispatch) /\ N \in Nat /\ DOMAIN tracker.early = 1..N
  <2>1. tracker.early \in Seq(Dispatch)
      BY <1>1 DEF Tracker
  <2> QED
      BY <2>1
<1>3. PICK g \in [0..N -> Whole] :
        /\ g[0] = tracker
        /\ \A n \in 1..N : g[n] = Recovered(g[n - 1], tracker.early[n])
        /\ RecoverWith(tracker) = g[N]
  <2>1. tracker \in Whole
      BY <1>1 DEF Whole
  <2> QED
      BY <2>1, RecoveriesAre
<1>4. World.pending = {t \in Dispatch : receipt[t] = "done"}
    BY DEF World
<1> DEFINE T == {n \in 0..N : Recovering(tracker, n, g[n])}
<1> HIDE DEF N
<1>5. 0 \in T
  <2>1. Midway(tracker, 0) = World
    <3>1. {t \in Dispatch : receipt[t] = "done" /\ \A i \in 1..0 : tracker.early[i] # t}
            = {t \in Dispatch : receipt[t] = "done"}
        OBVIOUS
    <3> QED
        BY <3>1 DEF Midway, World
  <2>2. \A u \in Dispatch : ~ Has(tracker.active, u)
    <3> SUFFICES ASSUME NEW u \in Dispatch, Has(tracker.active, u) PROVE FALSE
        OBVIOUS
    <3>1. Owned(World, u) /\ u \notin World.pending
        BY <1>1 DEF TrackerStands, TurnStands
    <3>2. receipt[u] \in {"told", "done", "unwritten"}
        BY <3>1 DEF Owned, World
    <3> QED
        BY <1>1, <1>4, <3>1, <3>2 DEF QueuesStand
  <2>3. Recovering(tracker, 0, tracker)
      BY <1>1, <2>1, <2>2 DEF Recovering
  <2> QED
      BY <1>2, <1>3, <2>3
<1>6. ASSUME NEW n \in 0..(N - 1), n \in T PROVE n + 1 \in T
  <2>1. n + 1 \in 1..N /\ n + 1 \in 0..N /\ (n + 1) - 1 = n
      BY <1>2
  <2>2. PICK m \in 1..N : m = n + 1 /\ m - 1 = n
      BY <2>1
  <2>3. PICK q : q = g[n]
      OBVIOUS
  <2>4. PICK r : r = Recovered(q, tracker.early[m])
      OBVIOUS
  <2>5. Recovering(tracker, m - 1, q)
      BY <1>6, <2>2, <2>3
  <2>6. g[m] = r
      BY <1>3, <2>2, <2>3, <2>4
  <2>7. \A t \in running, u \in Dispatch :
           u # t /\ TurnChat[u] = TurnChat[t] /\ Has(tracker.early, t) /\ Has(tracker.early, u)
             => Before(tracker.early, u, t)
      BY DEF TurnInv, Starting
  <2>8. m \in 1..Len(tracker.early)
      BY DEF N
  <2>9. Recovering(tracker, m, r)
      BY <1>1, <2>4, <2>5, <2>7, <2>8, OneRecovered
  <2> QED
      BY <2>1, <2>2, <2>6, <2>9
<1>7. N \in T
  <2>1. \A n \in 0..N : n \in T
    <3> HIDE DEF T
    <3> QED
        BY <1>2, <1>5, <1>6, CountUp
  <2>2. N \in 0..N
      BY <1>2
  <2> QED
      BY <2>1, <2>2
<1>8. PICK r : r = RecoverWith(tracker)
    OBVIOUS
<1>9. Recovering(tracker, N, r)
    BY <1>3, <1>7, <1>8
<1> DEFINE w == Midway(tracker, N)
<1>10. TrackerStands(r, w)
    BY <1>9 DEF Recovering
<1>11. /\ \A u \in Dispatch : u \in w.pending => ~ Has(tracker.early, u)
       /\ w.window = forWindow /\ w.receipt = receipt /\ w.running = running /\ w.closed = closed
       /\ w.said = said /\ w.heard = said \ unheard
    BY <1>2 DEF Midway, Has
<1> HIDE DEF w
<1>12. \A u \in Dispatch : TurnStands(r, x, u)
  <2> TAKE u \in Dispatch
  <2>1. TurnStands(r, w, u)
      BY <1>10 DEF TrackerStands
  <2>2. CASE u \notin w.pending
    <3>1. Alike(w, x, u) /\ Same(r, r, u)
        BY <1>11, <2>2 DEF Alike, Same
    <3> QED
        BY <2>1, <3>1, Untouched
  <2>3. CASE u \in w.pending
    <3>1. ~ Has(r.early, u)
        BY <1>9, <1>11, <2>3 DEF Recovering
    <3>2. r.buffered[u] = <<>>
        BY <2>1, <3>1 DEF TurnStands
    <3>3. Owned(x, u) <=> Owned(w, u)
        BY <1>11 DEF Owned
    <3> QED
        BY <1>11, <2>1, <3>2, <3>3 DEF TurnStands
  <2> QED
      BY <2>2, <2>3
<1>13. KeysStand(r, x)
    BY <1>10, <1>11 DEF TrackerStands, KeysStand, Heeded
<1> QED
    BY <1>8, <1>10, <1>12, <1>13 DEF TrackerStands

-----------------------------------------------------------------------------
(* What was told stays told.                                               *)
Grows(k, r) == \A u \in Dispatch : \A what : Says(k, u, what) => Says(r, u, what)

(* Nothing that was told is untold by a report,                            *)
LEMMA ReportGrows ==
  ASSUME NEW k \in Tracker, Keys(k), NEW t \in Dispatch, NEW event \in Ends \cup {"start"},
         NEW r, r = Report(k, t, event)
  PROVE  r \in Tracker /\ Keys(r) /\ Grows(k, r) /\ r.early = k.early
<1>1. /\ Announced(k, t) \in Seq(Notices)
      /\ \A what : Says(k, t, what) => Has(Announced(k, t), what)
    BY AnnouncedIs
<1>2. CASE event = "start"
  <2>0. r = Report(k, t, "start")
      BY <1>2
  <2>1. /\ r \in Tracker /\ Keys(r)
        /\ r.told = [k.told EXCEPT ![t] = Announced(k, t)]
        /\ r.active = k.active /\ r.early = k.early /\ r.buffered = k.buffered
        /\ r.settled = k.settled /\ r.ignored = k.ignored /\ r.announced = k.announced \cup {t}
        /\ r.byKey = [k.byKey EXCEPT ![TurnChat[t]] = t]
        /\ r.spoken = k.spoken /\ r.evicted = k.evicted /\ r.missed = k.missed
      BY <2>0, StartIs
  <2>2. \A u \in Dispatch : r.told[u] = IF u = t THEN Announced(k, t) ELSE k.told[u]
      BY <2>1 DEF Tracker
  <2> QED
      BY <1>1, <2>1, <2>2 DEF Grows, Says
<1>3. CASE event \in Ends
  <2>1. r \in Tracker /\ Keys(r) /\ EndTold(k, r, t, event) /\ r.early = k.early
      BY <1>3, EndIs
  <2> DEFINE p == Prelude(k, t, event)
  <2>2. p \in Seq(Notices) /\ \A what : Says(k, t, what) => Has(p, what)
      BY <1>1 DEF Prelude, Says, Tracker
  <2>3. PICK v \in Closing : r.told = [k.told EXCEPT ![t] = Append(p, v)]
      BY <2>1 DEF EndTold
  <2> HIDE DEF p
  <2>4. v \in Notices
      BY DEF Closing, Notices
  <2>5. \A u : Has(p, u) => Has(Append(p, v), u)
      BY <2>2, <2>4, Appended
  <2>6. \A u \in Dispatch : r.told[u] = IF u = t THEN Append(p, v) ELSE k.told[u]
      BY <2>3 DEF Tracker
  <2> QED
      BY <2>1, <2>2, <2>5, <2>6 DEF Grows, Says
<1> QED
    BY <1>2, <1>3

(* by an observation,                                                      *)
LEMMA IngestGrows ==
  ASSUME NEW k \in Tracker, Keys(k), NEW t \in Dispatch, NEW event \in Ends \cup {"start"},
         Append(k.buffered[t], event) \in Buffers, NEW r, r = Ingest(k, t, event)
  PROVE  /\ r \in Tracker
         /\ Grows(k, r)
         /\ r.early = k.early \/ r = Buffer(k, t, event)
<1>1. CASE r = k
    BY <1>1 DEF Grows
<1>2. CASE r = Report(k, t, event)
    BY <1>2, ReportGrows
<1>3. CASE r = Report(Remember(k, t), t, event)
  <2>1. PICK m : m = Remember(k, t)
      OBVIOUS
  <2>2. m \in Tracker /\ Keys(m) /\ m.told = k.told /\ m.early = k.early
      BY <2>1, RememberIs
  <2>3. r \in Tracker /\ Grows(m, r) /\ r.early = m.early
      BY <1>3, <2>1, <2>2, ReportGrows
  <2> QED
      BY <2>2, <2>3 DEF Grows, Says
<1>4. CASE r = Buffer(k, t, event)
  <2>1. r \in Tracker /\ r.told = k.told
      BY <1>4, BufferIs
  <2> QED
      BY <1>4, <2>1 DEF Grows, Says
<1> QED
    BY <1>1, <1>2, <1>3, <1>4 DEF Ingest

(* by a buffered one,                                                      *)
LEMMA ReplayedGrows ==
  ASSUME NEW k \in Tracker, Keys(k), NEW t \in Dispatch, NEW event \in Ends \cup {"start"},
         NEW r, r = Replayed(k, t, event)
  PROVE  r \in Tracker /\ Keys(r) /\ Grows(k, r)
<1>1. CASE Has(k.settled, t)
    BY <1>1 DEF Replayed, Grows
<1>2. CASE ~ Has(k.settled, t)
  <2>1. r = Report(k, t, event)
      BY <1>2 DEF Replayed
  <2> QED
      BY <2>1, ReportGrows
<1> QED
    BY <1>1, <1>2

(* or by all of a turn's.                                                  *)
LEMMA ReplayGrows ==
  ASSUME NEW k \in Tracker, Keys(k), NEW t \in Dispatch, NEW r, r = ReplayEarly(k, t)
  PROVE  Grows(k, r)
<1>1. PICK a : a = Drop(k, t)
    OBVIOUS
<1>2. PICK b : b = Replayed(a, t, k.buffered[t][1])
    OBVIOUS
<1>3. PICK c : c = Replayed(b, t, k.buffered[t][2])
    OBVIOUS
<1>4. a \in Tracker /\ Keys(a) /\ a.told = k.told
    BY <1>1, DropIs
<1>5. Grows(k, a)
    BY <1>4 DEF Grows, Says
<1>6. k.buffered[t] \in Buffers
    BY DEF Tracker
<1>7. /\ Len(k.buffered[t]) = 0 => r = a
      /\ Len(k.buffered[t]) = 1 => r = b
      /\ Len(k.buffered[t]) = 2 => r = c
    BY <1>1, <1>2, <1>3, ReplayEnds
<1>8. CASE k.buffered[t] = <<>>
  <2>1. r = a
      BY <1>7, <1>8
  <2> QED
      BY <1>5, <2>1
<1>9. ASSUME NEW e \in Ends \cup {"start"}, k.buffered[t] = <<e>> PROVE Grows(k, r)
  <2>1. Len(k.buffered[t]) = 1 /\ k.buffered[t][1] = e
      BY <1>9
  <2>2. r = b
      BY <1>7, <2>1
  <2>3. Grows(a, b)
      BY <1>2, <1>4, <2>1, ReplayedGrows
  <2> QED
      BY <1>5, <2>2, <2>3 DEF Grows
<1>10. ASSUME NEW e \in Ends, k.buffered[t] = <<"start", e>> PROVE Grows(k, r)
  <2>1. Len(k.buffered[t]) = 2 /\ k.buffered[t][1] = "start" /\ k.buffered[t][2] = e
      BY <1>10
  <2>2. r = c
      BY <1>7, <2>1
  <2>3. b \in Tracker /\ Keys(b) /\ Grows(a, b)
      BY <1>2, <1>4, <2>1, ReplayedGrows
  <2>4. Grows(b, c)
      BY <1>3, <2>1, <2>3, ReplayedGrows
  <2> QED
      BY <1>5, <2>2, <2>3, <2>4 DEF Grows
<1> QED
    BY <1>6, <1>8, <1>9, <1>10, BufferShapes

(* A Window's turn is announced with its receipt.                          *)
LEMMA AcceptGrows ==
  ASSUME NEW k \in Tracker, Keys(k), NEW t \in Dispatch, ~ Has(k.settled, t),
         t \in k.announced => Says(k, t, "dispatched"), NEW r, r = AcceptTurn(k, t)
  PROVE  Grows(k, r) /\ (t \in forWindow => Says(r, t, "dispatched"))
<1>1. CASE t \notin forWindow
  <2>1. PICK d : d = Drop(k, t)
      OBVIOUS
  <2>2. d \in Tracker /\ d.told = k.told
      BY <2>1, DropIs
  <2>3. r = [d EXCEPT !.ignored = Append(Trim(d.ignored), t)]
      BY <1>1, <2>1 DEF AcceptTurn
  <2>4. r.told = d.told
      BY <2>2, <2>3 DEF Tracker
  <2> QED
      BY <1>1, <2>2, <2>4 DEF Grows, Says
<1>2. CASE t \in forWindow
  <2>1. PICK m : m = Remember(k, t)
      OBVIOUS
  <2>2. PICK n : n = Announce(m, t)
      OBVIOUS
  <2>3. r = ReplayEarly(n, t)
      BY <1>2, <2>1, <2>2 DEF AcceptTurn
  <2>4. m \in Tracker /\ Keys(m) /\ m.told = k.told /\ m.announced = k.announced \ Pushed(k, t)
      BY <2>1, RememberIs
  <2>5. /\ n \in Tracker /\ n.told = [m.told EXCEPT ![t] = Announced(m, t)]
        /\ n.active = m.active /\ n.early = m.early
      BY <2>2, <2>4, AnnounceIs
  <2>6. Keys(n)
      BY <2>4, <2>5 DEF Keys
  <2>7. \A u \in Dispatch : n.told[u] = IF u = t THEN Announced(m, t) ELSE m.told[u]
      BY <2>4, <2>5 DEF Tracker
  <2>8. \A what : Has(Announced(m, t), what) <=> Says(m, t, what) \/ (t \notin m.announced /\ what = "dispatched")
      BY <2>4, AnnouncedIs
  <2>9. Grows(k, n) /\ Says(n, t, "dispatched")
      BY <2>4, <2>7, <2>8 DEF Grows, Says
  <2>10. Grows(n, r)
      BY <2>3, <2>5, <2>6, ReplayGrows
  <2> QED
      BY <2>9, <2>10 DEF Grows
<1> QED
    BY <1>1, <1>2

-----------------------------------------------------------------------------
(* The canary.                                                             *)
LEMMA NothingHeard ==
  Results(<<>>) = {} /\ \A what : ~ Has(<<>>, what)
BY DEF Results, Has

(* What the canary makes of what it has heard.                             *)
LEMMA JudgedIs ==
  ASSUME NEW now, NEW told, NEW j, j = Judged(now, told)
  PROVE  /\ j = now \/ (now = "waiting" /\ j \in {"passed", "failed"})
         /\ j = "waiting" => ~ Has(told[canaryTurn], "dispatched") \/ Results(told[canaryTurn]) = {}
         /\ j = "passed" => now = "passed" \/ Has(told[canaryTurn], "silent")
<1>1. \A i \in Results(told[canaryTurn]) : i \in DOMAIN told[canaryTurn]
    BY DEF Results
<1> QED
    BY <1>1 DEF Judged, Has

(* The canary keeps waiting for a verdict that is still to come.           *)
LEMMA CanaryTracks ==
  ASSUME QueuesTyped, CanaryWaits, NEW now \in {"idle", "sending", "waiting", "passed", "failed"},
         now = canary \/ (now = "waiting" /\ canary = "sending"),
         canary' = Judged(now, tracker'.told), canaryTurn' = canaryTurn, forWindow' = forWindow,
         Grows(tracker, tracker'),
         \A t \in forWindow : Known(t)' => Known(t) \/ Says(tracker', t, "dispatched"),
         \A t \in forWindow : ~ Known(t)' => tracker'.told[t] = <<>>
  PROVE  CanaryWaits' /\ canary' \in {"idle", "sending", "waiting", "passed", "failed"}
<1>0. PICK ct : ct = canaryTurn /\ ct = canaryTurn'
    OBVIOUS
<1>1. PICK j : j = canary'
    OBVIOUS
<1>2. PICK told : told = tracker'.told
    OBVIOUS
<1>3. PICK k : k = tracker
    OBVIOUS
<1>4. PICK r : r = tracker'
    OBVIOUS
<1>5. /\ j = now \/ (now = "waiting" /\ j \in {"passed", "failed"})
      /\ j = "waiting" => ~ Has(told[ct], "dispatched") \/ Results(told[ct]) = {}
      /\ j = "passed" => now = "passed" \/ Has(told[ct], "silent")
    BY <1>0, <1>1, <1>2, JudgedIs
<1>6. \A t \in Dispatch : Told(t, "dispatched") => Says(r, t, "dispatched")
    BY <1>4 DEF Grows, Told, Says
<1>7. \A t \in Dispatch : Told(t, "silent") => Says(r, t, "silent")
    BY <1>4 DEF Grows, Told, Says
<1>8. \A t, what : Told(t, what)' <=> Says(r, t, what)
    BY <1>4 DEF Told, Says
<1>9. \A t, what : Has(told[t], what) <=> Says(r, t, what)
    BY <1>2, <1>4 DEF Says
<1>10. forWindow \in SUBSET Dispatch
    BY DEF QueuesTyped
<1>11. j \in {"sending", "waiting"} => ct \in forWindow /\ (Known(ct)' => Says(r, ct, "dispatched"))
  <2>1. j \in {"sending", "waiting"} => canary \in {"sending", "waiting"}
      BY <1>5
  <2> QED
      BY <1>0, <1>4, <1>6, <1>10, <2>1 DEF CanaryWaits
<1>12. j = "passed" => ct \in forWindow /\ Says(r, ct, "silent")
  <2>1. CASE now = "passed"
      BY <1>0, <2>1, <1>7, <1>10 DEF CanaryWaits
  <2>2. CASE now # "passed" /\ j = "passed"
    <3>1. canary \in {"sending", "waiting"}
        BY <1>5, <2>2
    <3> QED
        BY <1>0, <1>5, <1>9, <2>2, <3>1 DEF CanaryWaits
  <2> QED
      BY <2>1, <2>2
<1>13. j = "waiting" => Results(told[ct]) = {}
  <2>1. CASE j = "waiting" /\ ~ Has(told[ct], "dispatched")
    <3>1. ct \in forWindow /\ ~ Known(ct)'
        BY <1>9, <1>11, <2>1
    <3>2. told[ct] = <<>>
        BY <1>2, <3>1
    <3> QED
        BY <3>2, NothingHeard
  <2> QED
      BY <1>5, <2>1
<1>14. CanaryWaits'
    BY <1>0, <1>1, <1>2, <1>8, <1>11, <1>12, <1>13 DEF CanaryWaits, Known, Told
<1> QED
    BY <1>1, <1>5, <1>14

(* A receipt moves, and who owns its turn does not change.                 *)
LEMMA ReceiptMoves ==
  ASSUME NEW k, NEW w, NEW x, TrackerStands(k, w),
         x.window = w.window, x.running = w.running, x.closed = w.closed,
         x.said = w.said, x.heard = w.heard, x.pending = w.pending,
         \A t \in Dispatch : /\ Owned(x, t) <=> Owned(w, t)
                             /\ Owned(x, t) /\ x.receipt[t] # "done" => w.receipt[t] # "done"
  PROVE  TrackerStands(k, x)
<1>1. \A t \in Dispatch : TurnStands(k, x, t)
    BY DEF TrackerStands, TurnStands
<1>2. KeysStand(k, x)
    BY DEF TrackerStands, KeysStand, Heeded
<1> QED
    BY <1>1, <1>2 DEF TrackerStands

(* Nothing happens to the chats' turns.                                    *)
LEMMA QueuesStill ==
  ASSUME QueuesTyped, QueuesStand, LastComing, UNCHANGED runVars, resolver \in BOOLEAN, resolver' \in BOOLEAN,
         resolver => resolver', said' = said, unheard' = unheard,
         canary' \in {"idle", "sending", "waiting", "passed", "failed"}, canaryTurn' \in Dispatch \cup {NoDispatch}
  PROVE  QueuesTyped' /\ QueuesStand' /\ LastComing'
BY DEF QueuesTyped, QueuesStand, LastComing, runVars, AtHead, Known, Queue

(* The canary starts.                                                      *)
LEMMA StartCanaryKeeps ==
  ASSUME TurnInv, NEW t \in Dispatch, StartCanary(t)
  PROVE  TurnInv'
<1>1. QueuesTyped' /\ QueuesStand' /\ LastComing'
    BY QueuesStill DEF TurnInv, StartCanary, QueuesTyped
<1>2. World' = World /\ tracker' = tracker
    BY DEF World, StartCanary, runVars
<1>3. TrackerStands(tracker, World)'
    BY <1>2 DEF TurnInv
<1>4. Starting'
    BY DEF Starting, StartCanary
<1>5. CanaryWaits'
    BY DEF CanaryWaits, StartCanary, Known, runVars
<1> QED
    BY <1>1, <1>3, <1>4, <1>5 DEF TurnInv

(* Its message is sent, and its turn may have been announced before.       *)
LEMMA CanarySentKeeps ==
  ASSUME TurnInv, CanarySent
  PROVE  TurnInv'
<1>1. World' = World /\ tracker' = tracker /\ forWindow' = forWindow /\ receipt' = receipt
    BY DEF World, CanarySent, runVars
<1>2. TrackerStands(tracker, World)'
    BY <1>1 DEF TurnInv
<1>3. Starting'
    BY DEF TurnInv, Starting, CanarySent
<1>4. CanaryWaits' /\ canary' \in {"idle", "sending", "waiting", "passed", "failed"}
  <2>1. Grows(tracker, tracker')
      BY <1>1 DEF Grows
  <2>2. ASSUME NEW t \in forWindow, ~ Known(t) PROVE tracker.told[t] = <<>>
    <3>1. TurnStands(tracker, World, t)
        BY DEF TurnInv, QueuesTyped, TrackerStands
    <3> QED
        BY <2>2, <3>1 DEF TurnStands, Owned, World, Known
  <2>3. \A t : Known(t)' <=> Known(t)
      BY <1>1 DEF Known
  <2>4. canary = "sending" /\ canary' = Judged("waiting", tracker'.told) /\ canaryTurn' = canaryTurn
      BY <1>1 DEF CanarySent
  <2> QED
      BY <1>1, <2>1, <2>2, <2>3, <2>4, CanaryTracks DEF TurnInv
<1>5. QueuesTyped' /\ QueuesStand' /\ LastComing'
    BY <1>4, QueuesStill DEF TurnInv, CanarySent, QueuesTyped
<1> QED
    BY <1>2, <1>3, <1>4, <1>5 DEF TurnInv

(* The canary gives up.                                                    *)
LEMMA CanaryFailsKeeps ==
  ASSUME TurnInv, CanaryFails
  PROVE  TurnInv'
<1>1. QueuesTyped' /\ QueuesStand' /\ LastComing'
    BY QueuesStill DEF TurnInv, CanaryFails, QueuesTyped
<1>2. World' = World /\ tracker' = tracker
    BY DEF World, CanaryFails, runVars
<1>3. TrackerStands(tracker, World)'
    BY <1>2 DEF TurnInv
<1>4. Starting'
    BY DEF TurnInv, Starting, CanaryFails
<1>5. CanaryWaits'
    BY DEF CanaryWaits, CanaryFails
<1> QED
    BY <1>1, <1>3, <1>4, <1>5 DEF TurnInv

(* Nothing happens to the canary.                                          *)
LEMMA CanaryStill ==
  ASSUME QueuesTyped, CanaryWaits, UNCHANGED <<canaryVars, tracker, forWindow>>,
         \A t \in forWindow : Known(t)' => Known(t)
  PROVE  CanaryWaits'
<1>1. PICK ct : ct = canaryTurn /\ ct = canaryTurn'
    BY DEF canaryVars
<1>2. canary' = canary /\ tracker' = tracker /\ forWindow' = forWindow
    BY DEF canaryVars
<1>3. \A what : Told(ct, what)' <=> Told(ct, what)
    BY <1>2 DEF Told
<1>4. ct \in forWindow => (Known(ct)' => Known(ct))
    OBVIOUS
<1> QED
    BY <1>1, <1>2, <1>3, <1>4 DEF CanaryWaits, Known

(* A turn is dispatched to its chat's instance.                            *)
LEMMA DispatchTurnKeeps ==
  ASSUME TurnInv, NEW t \in Dispatch, DispatchTurn(t)
  PROVE  TurnInv'
<1> DEFINE c == TurnChat[t]
<1>1. QueuesTyped /\ QueuesStand /\ LastComing /\ CanaryWaits /\ TrackerStands(tracker, World) /\ Starting
    BY DEF TurnInv
<1>2. /\ resolver /\ receipt[t] = "none"
      /\ t \in forWindow => \A u \in forWindow : TurnChat[u] = c => receipt[u] \notin {"coming", "told"}
      /\ receipt' = [receipt EXCEPT ![t] = "coming"]
      /\ turns' = [turns EXCEPT ![c] = Append(@, t)]
      /\ forWindow' = forWindow /\ running' = running /\ cut' = cut /\ closed' = closed
      /\ resolver' = resolver /\ tracker' = tracker /\ canary' = canary /\ canaryTurn' = canaryTurn
      /\ said' = said /\ unheard' = unheard
    BY DEF DispatchTurn, canaryVars
<1>3. c \in TurnChats /\ turns[c] \in Seq(Dispatch)
    BY <1>1, ChatIs DEF QueuesTyped
<1>4. /\ Append(turns[c], t) \in Seq(Dispatch)
      /\ \A u : Has(Append(turns[c], t), u) <=> Has(turns[c], u) \/ u = t
      /\ Distinct(turns[c]) /\ ~ Has(turns[c], t) => Distinct(Append(turns[c], t))
      /\ \A u, v : Before(turns[c], u, v) => Before(Append(turns[c], t), u, v)
      /\ \A u : Has(turns[c], u) => Before(Append(turns[c], t), u, t)
    BY <1>3, Appended
<1>5. \A d \in TurnChats : turns'[d] = IF d = c THEN Append(turns[c], t) ELSE turns[d]
    BY <1>1, <1>2 DEF QueuesTyped
<1>6. /\ receipt' \in [Dispatch -> Receipts]
      /\ \A u \in Dispatch : receipt'[u] = IF u = t THEN "coming" ELSE receipt[u]
    BY <1>1, <1>2 DEF QueuesTyped, Receipts
<1>7. QueuesTyped'
  <2>1. turns' \in [TurnChats -> Seq(Dispatch)]
      BY <1>1, <1>2, <1>4 DEF QueuesTyped
  <2> QED
      BY <1>1, <1>2, <1>6, <2>1 DEF QueuesTyped
<1>8. t \notin closed /\ ~ Has(turns[c], t)
    BY <1>1, <1>2, <1>3 DEF QueuesStand
<1>9. QueuesStand'
  <2>1. \A d \in TurnChats : Distinct(turns'[d])
      BY <1>1, <1>4, <1>5, <1>8 DEF QueuesStand
  <2>2. ASSUME NEW d \in TurnChats, NEW u \in Dispatch, Has(turns'[d], u)
        PROVE  TurnChat[u] = d /\ receipt'[u] # "none" /\ u \notin closed'
      BY <1>1, <1>2, <1>4, <1>5, <1>6, <1>8, <2>2 DEF QueuesStand
  <2>3. ASSUME NEW u \in running' \cup cut' PROVE AtHead(u)'
    <3>1. u \in Dispatch /\ AtHead(u) /\ TurnChat[u] \in TurnChats
        BY <1>1, <1>2, ChatIs DEF QueuesStand, QueuesTyped
    <3>2. turns[c] # <<>> => Append(turns[c], t) # <<>> /\ Head(Append(turns[c], t)) = Head(turns[c])
        BY <1>3
    <3> QED
        BY <1>3, <1>5, <3>1, <3>2 DEF AtHead
  <2>4. \A u \in closed' : receipt'[u] # "none"
      BY <1>1, <1>2, <1>6 DEF QueuesStand, QueuesTyped
  <2>5. \A u \in Dispatch : /\ receipt'[u] \in {"coming", "told", "unwritten"} => resolver'
                            /\ receipt'[u] = "done" => u \in forWindow'
      BY <1>1, <1>2, <1>6 DEF QueuesStand
  <2>6. \A u \in (said \ unheard)' : Known(u)'
      BY <1>1, <1>2, <1>6 DEF QueuesStand, QueuesTyped, Known
  <2> QED
      BY <1>1, <1>2, <2>1, <2>2, <2>3, <2>4, <2>5, <2>6 DEF QueuesStand
<1>10. LastComing'
  <2>1. SUFFICES ASSUME NEW v \in forWindow, NEW u \in forWindow, receipt'[u] = "coming",
                        TurnChat[v] = TurnChat[u], v # u, Has(turns'[TurnChat[v]], v)
                 PROVE  Before(turns'[TurnChat[v]], v, u)
      BY <1>2 DEF LastComing, Queue
  <2>2. v \in Dispatch /\ u \in Dispatch /\ TurnChat[v] \in TurnChats
      BY <1>1, ChatIs DEF QueuesTyped
  <2>3. CASE u = t
      BY <1>4, <1>5, <2>1, <2>2, <2>3
  <2>4. CASE u # t
    <3>1. receipt[u] = "coming"
        BY <1>6, <2>1, <2>2, <2>4
    <3>2. v # t
        BY <1>2, <2>1, <3>1
    <3>3. Has(turns[TurnChat[v]], v)
        BY <1>4, <1>5, <2>1, <2>2, <3>2
    <3>4. Before(turns[TurnChat[v]], v, u)
        BY <1>1, <2>1, <3>1, <3>3 DEF LastComing, Queue
    <3> QED
        BY <1>4, <1>5, <2>2, <3>4
  <2> QED
      BY <2>3, <2>4
<1>11. \A u \in Dispatch : Known(u)' <=> Known(u)
    BY <1>2, <1>6 DEF Known
<1>12. CanaryWaits'
    BY <1>1, <1>2, <1>11, CanaryStill DEF canaryVars, QueuesTyped
<1>13. TrackerStands(tracker, World)'
  <2>1. PICK w : w = World
      OBVIOUS
  <2>2. PICK x : x = World'
      OBVIOUS
  <2>3. /\ x.window = w.window /\ x.running = w.running /\ x.closed = w.closed
        /\ x.said = w.said /\ x.heard = w.heard /\ x.pending = w.pending
        /\ w.receipt = receipt /\ x.receipt = receipt'
      BY <1>2, <2>1, <2>2 DEF World
  <2>4. \A u \in Dispatch : /\ Owned(x, u) <=> Owned(w, u)
                            /\ Owned(x, u) /\ x.receipt[u] # "done" => w.receipt[u] # "done"
      BY <1>2, <1>6, <2>3 DEF Owned
  <2>5. PICK k : k = tracker /\ TrackerStands(k, w)
      BY <1>1, <2>1
  <2>6. TrackerStands(k, x)
      BY <2>3, <2>4, <2>5, ReceiptMoves
  <2> QED
      BY <1>2, <2>2, <2>5, <2>6
<1> QED
    BY <1>1, <1>2, <1>7, <1>9, <1>10, <1>12, <1>13 DEF TurnInv, Starting

(* A receipt moves on.                                                     *)
LEMMA ReceiptMovesOn ==
  ASSUME TurnInv, NEW t \in Dispatch, NEW new \in {"done", "unwritten", "lost"},
         receipt[t] \in {"told", "coming"}, receipt' = [receipt EXCEPT ![t] = new],
         receipt[t] = "told" => new \in {"done", "unwritten"},
         receipt[t] = "coming" => new = "lost",
         new = "done" => t \in forWindow,
         UNCHANGED <<forWindow, turns, running, cut, closed, resolver, tracker, canaryVars, said, unheard>>
  PROVE  TurnInv'
<1>1. QueuesTyped /\ QueuesStand /\ LastComing /\ CanaryWaits /\ TrackerStands(tracker, World) /\ Starting
    BY DEF TurnInv
<1>2. /\ forWindow' = forWindow /\ turns' = turns /\ running' = running /\ cut' = cut /\ closed' = closed
      /\ resolver' = resolver /\ tracker' = tracker /\ canary' = canary /\ canaryTurn' = canaryTurn
      /\ said' = said /\ unheard' = unheard
    BY DEF canaryVars
<1>3. \A u \in Dispatch : receipt'[u] = IF u = t THEN new ELSE receipt[u]
    BY <1>1 DEF QueuesTyped
<1>4. resolver
    BY <1>1 DEF QueuesStand
<1>5. QueuesTyped'
    BY <1>1, <1>2 DEF QueuesTyped, Receipts
<1>6. \A u \in Dispatch : Known(u)' <=> Known(u)
    BY <1>3 DEF Known
<1>7. QueuesStand'
  <2>1. \A d \in TurnChats, u \in Dispatch :
          Has(turns'[d], u) => TurnChat[u] = d /\ receipt'[u] # "none" /\ u \notin closed'
      BY <1>1, <1>2, <1>3 DEF QueuesStand
  <2>2. \A u \in running' \cup cut' : AtHead(u)'
      BY <1>1, <1>2 DEF QueuesStand, AtHead
  <2>3. \A u \in closed' : receipt'[u] # "none"
      BY <1>1, <1>2, <1>3 DEF QueuesStand, QueuesTyped
  <2>4. \A u \in Dispatch : /\ receipt'[u] \in {"coming", "told", "unwritten"} => resolver'
                            /\ receipt'[u] = "done" => u \in forWindow'
      BY <1>1, <1>2, <1>3, <1>4 DEF QueuesStand
  <2>5. \A u \in (said \ unheard)' : Known(u)'
      BY <1>1, <1>2, <1>6 DEF QueuesStand, QueuesTyped
  <2> QED
      BY <1>1, <1>2, <2>1, <2>2, <2>3, <2>4, <2>5 DEF QueuesStand
<1>8. LastComing'
  <2>1. \A u \in forWindow : receipt'[u] = "coming" => receipt[u] = "coming"
      BY <1>1, <1>3 DEF QueuesTyped
  <2> QED
      BY <1>1, <1>2, <2>1 DEF LastComing, Queue
<1>9. CanaryWaits'
    BY <1>1, <1>2, <1>6, CanaryStill DEF canaryVars, QueuesTyped
<1>10. TrackerStands(tracker, World)'
  <2>1. PICK w : w = World
      OBVIOUS
  <2>2. PICK x : x = World'
      OBVIOUS
  <2>3. /\ x.window = w.window /\ x.running = w.running /\ x.closed = w.closed
        /\ x.said = w.said /\ x.heard = w.heard /\ x.pending = w.pending
        /\ w.receipt = receipt /\ x.receipt = receipt'
      BY <1>2, <1>4, <2>1, <2>2 DEF World
  <2>4. \A u \in Dispatch : /\ Owned(x, u) <=> Owned(w, u)
                            /\ Owned(x, u) /\ x.receipt[u] # "done" => w.receipt[u] # "done"
      BY <1>2, <1>3, <2>3 DEF Owned
  <2>5. PICK k : k = tracker /\ TrackerStands(k, w)
      BY <1>1, <2>1
  <2>6. TrackerStands(k, x)
      BY <2>3, <2>4, <2>5, ReceiptMoves
  <2> QED
      BY <1>2, <2>2, <2>5, <2>6
<1> QED
    BY <1>1, <1>2, <1>5, <1>7, <1>8, <1>9, <1>10 DEF TurnInv, Starting

(* The row of a turn is settled or not.                                    *)
LEMMA SettleTurnKeeps ==
  ASSUME TurnInv, NEW t \in Dispatch, SettleTurn(t)
  PROVE  TurnInv'
<1>1. PICK new \in {"done", "unwritten"} :
        receipt' = [receipt EXCEPT ![t] = new] /\ (new = "done" => t \in forWindow)
    BY DEF SettleTurn
<1>2. /\ receipt[t] = "told"
      /\ UNCHANGED <<forWindow, turns, running, cut, closed, resolver, tracker, canaryVars, said, unheard>>
    BY DEF SettleTurn
<1> QED
    BY <1>1, <1>2, ReceiptMovesOn

(* A receipt is lost.                                                      *)
LEMMA LoseReceiptKeeps ==
  ASSUME TurnInv, NEW t \in Dispatch, LoseReceipt(t)
  PROVE  TurnInv'
BY ReceiptMovesOn DEF LoseReceipt

(* What is told of whom, after a step of the tracker.                      *)
LEMMA UntoldIs ==
  ASSUME NEW k, NEW w, TrackerStands(k, w), NEW t \in Dispatch, ~ Owned(w, t)
  PROVE  k.told[t] = <<>>
BY DEF TrackerStands, TurnStands

(* A receipt arrives, and what was buffered of its turn is replayed.       *)
LEMMA ReceiveKeeps ==
  ASSUME TurnInv, NEW t \in Dispatch, Receive(t)
  PROVE  TurnInv'
<1>1. QueuesTyped /\ QueuesStand /\ LastComing /\ CanaryWaits /\ TrackerStands(tracker, World) /\ Starting
    BY DEF TurnInv
<1>2. /\ receipt[t] = "coming"
      /\ receipt' = [receipt EXCEPT ![t] = "told"]
      /\ tracker' = AcceptTurn(tracker, t) /\ canary' = Judged(canary, tracker'.told)
      /\ forWindow' = forWindow /\ turns' = turns /\ running' = running /\ cut' = cut /\ closed' = closed
      /\ resolver' = resolver /\ canaryTurn' = canaryTurn /\ said' = said /\ unheard' = unheard
    BY DEF Receive, Track
<1>3. \A u \in Dispatch : receipt'[u] = IF u = t THEN "told" ELSE receipt[u]
    BY <1>1, <1>2 DEF QueuesTyped
<1>4. resolver
    BY <1>1, <1>2 DEF QueuesStand
<1>5. \A u \in Dispatch : Known(u)' <=> Known(u) \/ u = t
    BY <1>3 DEF Known
<1>6. ~ Known(t)
    BY <1>2 DEF Known
<1>7. QueuesStand'
  <2>1. \A d \in TurnChats, u \in Dispatch :
          Has(turns'[d], u) => TurnChat[u] = d /\ receipt'[u] # "none" /\ u \notin closed'
      BY <1>1, <1>2, <1>3 DEF QueuesStand
  <2>2. \A u \in running' \cup cut' : AtHead(u)'
      BY <1>1, <1>2 DEF QueuesStand, AtHead
  <2>3. \A u \in closed' : receipt'[u] # "none"
      BY <1>1, <1>2, <1>3 DEF QueuesStand, QueuesTyped
  <2>4. \A u \in Dispatch : /\ receipt'[u] \in {"coming", "told", "unwritten"} => resolver'
                            /\ receipt'[u] = "done" => u \in forWindow'
      BY <1>1, <1>2, <1>3, <1>4 DEF QueuesStand
  <2>5. \A u \in (said \ unheard)' : Known(u)'
      BY <1>1, <1>2, <1>5 DEF QueuesStand, QueuesTyped
  <2> QED
      BY <1>1, <1>2, <2>1, <2>2, <2>3, <2>4, <2>5 DEF QueuesStand
<1>8. LastComing'
  <2>1. \A u \in forWindow : receipt'[u] = "coming" => receipt[u] = "coming"
      BY <1>1, <1>3 DEF QueuesTyped
  <2> QED
      BY <1>1, <1>2, <2>1 DEF LastComing, Queue
<1>9. PICK k : k = tracker
    OBVIOUS
<1>10. PICK r : r = tracker'
    OBVIOUS
<1>11. PICK w : w = World
    OBVIOUS
<1>12. PICK x : x = World'
    OBVIOUS
<1>13. /\ w.window = forWindow /\ w.receipt = receipt /\ w.running = running /\ w.closed = closed
       /\ w.said = said /\ w.heard = said \ unheard /\ w.pending = {}
       /\ x.window = forWindow /\ x.receipt = receipt' /\ x.running = running /\ x.closed = closed
       /\ x.said = said /\ x.heard = said \ unheard /\ x.pending = {}
    BY <1>2, <1>4, <1>11, <1>12 DEF World
<1>14. TrackerStands(k, w) /\ r = AcceptTurn(k, t)
    BY <1>1, <1>2, <1>9, <1>10, <1>11
<1>15. k \in Tracker /\ Keys(k) /\ TurnStands(k, w, t)
    BY <1>14 DEF TrackerStands
<1>16. \A u \in Dispatch \ {t} : Alike(w, x, u)
    BY <1>3, <1>13 DEF Alike
<1>17. /\ Kin(w, x, t) /\ ~ Owned(w, t) /\ x.receipt[t] = "told" /\ t \notin x.pending
       /\ t \notin w.heard
    BY <1>1, <1>2, <1>3, <1>6, <1>13 DEF Kin, Owned, QueuesStand
<1>18. ~(t \in w.running /\ t \in w.closed)
  <2>1. t \in running => AtHead(t)
      BY <1>1 DEF QueuesStand
  <2> QED
      BY <1>1, <1>13, <2>1, HeadIs
<1>19. ASSUME t \in forWindow, k.buffered[t] \in Begun, k.byKey[TurnChat[t]] # NoDispatch
       PROVE  FALSE
  <2> DEFINE u == k.byKey[TurnChat[t]]
  <2>1. TurnChat[t] \in TurnChats /\ u \in Dispatch
      BY <1>15, <1>19, ChatIs DEF Tracker
  <2>2. TurnChat[u] = TurnChat[t] /\ Has(k.active, u) /\ u \in running
      BY <1>13, <1>14, <1>19, <2>1 DEF TrackerStands, KeysStand
  <2> HIDE DEF u
  <2>3. Owned(w, u)
      BY <1>14, <2>1, <2>2 DEF TrackerStands, TurnStands
  <2>4. u \in forWindow /\ u # t
      BY <1>13, <1>17, <2>3 DEF Owned
  <2>5. AtHead(u)
      BY <1>1, <2>2 DEF QueuesStand
  <2>6. Has(Queue(u), u) /\ Queue(u) = Queue(t)
      BY <1>1, <2>1, <2>2, <2>5, HeadIs DEF Queue
  <2>7. Before(Queue(t), u, t)
      BY <1>1, <1>2, <1>19, <2>2, <2>4, <2>6 DEF LastComing
  <2>8. Has(turns[TurnChat[t]], t)
      BY <2>7 DEF Before, Has, Queue
  <2>9. t \notin closed
      BY <1>1, <2>1, <2>8 DEF QueuesStand
  <2>10. t \in running
      BY <1>13, <1>15, <1>19, <2>9, BufferShapes DEF TurnStands
  <2>11. AtHead(t)
      BY <1>1, <2>10 DEF QueuesStand
  <2> QED
      BY <1>1, <2>2, <2>4, <2>11, HeadIs
<1>20. TrackerStands(r, x)
    BY <1>13, <1>14, <1>16, <1>17, <1>18, <1>19, AcceptStands
<1>21. Grows(k, r) /\ (t \in forWindow => Says(r, t, "dispatched"))
  <2>1. k.told[t] = <<>>
      BY <1>14, <1>17, UntoldIs
  <2>2. ~ Over(k, t)
      BY <2>1, NothingHeard DEF Over, Says
  <2>3. ~ Has(k.settled, t) /\ (t \in k.announced => Says(k, t, "dispatched"))
      BY <1>15, <2>2 DEF TurnStands
  <2> QED
      BY <1>14, <1>15, <2>3, AcceptGrows
<1>22. CanaryWaits' /\ canary' \in {"idle", "sending", "waiting", "passed", "failed"}
  <2>1. ASSUME NEW u \in forWindow, ~ Known(u)' PROVE r.told[u] = <<>>
    <3>1. u \in Dispatch
        BY <1>1 DEF QueuesTyped
    <3>2. ~ Owned(x, u)
        BY <1>3, <1>13, <2>1, <3>1 DEF Owned, Known
    <3> QED
        BY <1>20, <3>1, <3>2, UntoldIs
  <2>2. \A u \in forWindow : Known(u)' => Known(u) \/ Says(r, u, "dispatched")
      BY <1>1, <1>5, <1>21 DEF QueuesTyped
  <2>3. canary \in {"idle", "sending", "waiting", "passed", "failed"}
      BY <1>1 DEF QueuesTyped
  <2>4. Grows(tracker, tracker')
      BY <1>9, <1>10, <1>21
  <2>5. /\ \A u \in forWindow : Known(u)' => Known(u) \/ Says(tracker', u, "dispatched")
        /\ \A u \in forWindow : ~ Known(u)' => tracker'.told[u] = <<>>
      BY <1>10, <2>1, <2>2
  <2> QED
      BY <1>1, <1>2, <2>3, <2>4, <2>5, CanaryTracks
<1>23. QueuesTyped'
    BY <1>1, <1>2, <1>22 DEF QueuesTyped, Receipts
<1>24. Starting'
    BY <1>2, <1>4 DEF Starting
<1> QED
    BY <1>7, <1>8, <1>10, <1>12, <1>20, <1>22, <1>23, <1>24 DEF TurnInv

(* An observation is held back until its turn is known.                    *)
LEMMA LookupIs ==
  ASSUME QueuesTyped, QueuesStand, NEW t \in Dispatch, NEW w, w = World
  PROVE  LookedUp(w, t)
BY DEF LookedUp, Resolves, Owned, World, QueuesStand

(* A turn begins, known or not.                                            *)
LEMMA BeginTurnKeeps ==
  ASSUME TurnInv, NEW t \in Dispatch, BeginTurn(t)
  PROVE  TurnInv'
<1>1. QueuesTyped /\ QueuesStand /\ LastComing /\ CanaryWaits /\ TrackerStands(tracker, World) /\ Starting
    BY DEF TurnInv
<1>2. /\ AtHead(t) /\ t \notin running
      /\ running' = running \cup {t} /\ cut' = cut \ {t}
      /\ tracker' = Ingest(tracker, t, "start") /\ canary' = Judged(canary, tracker'.told)
      /\ forWindow' = forWindow /\ receipt' = receipt /\ turns' = turns /\ closed' = closed
      /\ resolver' = resolver /\ canaryTurn' = canaryTurn /\ said' = said /\ unheard' = unheard
    BY DEF BeginTurn, Track
<1>3. /\ t \notin closed
      /\ \A u \in running : TurnChat[u] # TurnChat[t]
    BY <1>1, <1>2, HeadIs
<1>4. QueuesStand'
  <2>1. \A u \in running' \cup cut' : AtHead(u)'
      BY <1>1, <1>2 DEF QueuesStand, AtHead
  <2>2. \A u : Known(u)' <=> Known(u)
      BY <1>2 DEF Known
  <2>3. \A d \in TurnChats, u \in Dispatch :
          Has(turns'[d], u) => TurnChat[u] = d /\ receipt'[u] # "none" /\ u \notin closed'
      BY <1>1, <1>2 DEF QueuesStand
  <2>4. running' \cap cut' = {} /\ said' \subseteq running' \cup closed'
      BY <1>1, <1>2 DEF QueuesStand
  <2> QED
      BY <1>1, <1>2, <2>1, <2>2, <2>3, <2>4 DEF QueuesStand
<1>5. LastComing'
    BY <1>1, <1>2 DEF LastComing, Queue
<1>6. PICK k : k = tracker
    OBVIOUS
<1>7. PICK r : r = tracker'
    OBVIOUS
<1>8. PICK w : w = World
    OBVIOUS
<1>9. PICK x : x = World'
    OBVIOUS
<1>10. /\ w.window = forWindow /\ w.receipt = receipt /\ w.running = running /\ w.closed = closed
       /\ w.said = said /\ w.heard = said \ unheard
       /\ x.window = forWindow /\ x.receipt = receipt /\ x.running = running \cup {t} /\ x.closed = closed
       /\ x.said = said /\ x.heard = said \ unheard /\ x.pending = w.pending
    BY <1>2, <1>8, <1>9 DEF World
<1>11. TrackerStands(k, w) /\ r = Ingest(k, t, "start")
    BY <1>1, <1>2, <1>6, <1>7, <1>8
<1>12. \A u \in Dispatch \ {t} : Alike(w, x, u)
    BY <1>10 DEF Alike
<1>13. Kin(w, x, t)
    BY <1>10 DEF Kin
<1>14. LookedUp(w, t)
    BY <1>1, <1>8, LookupIs
<1>15. TrackerStands(r, x)
    BY <1>2, <1>3, <1>10, <1>11, <1>12, <1>13, <1>14, IngestBegun
<1>16. k \in Tracker /\ Keys(k) /\ TurnStands(k, w, t)
    BY <1>11 DEF TrackerStands
<1>17. k.buffered[t] = <<>> /\ ~ Has(k.early, t)
    BY <1>2, <1>3, <1>10, <1>16, BufferedStill DEF TurnStands
<1>18. Append(k.buffered[t], "start") \in Buffers
    BY <1>17, BufferShapes
<1>19. /\ Grows(k, r)
       /\ r.early = k.early \/ r = Buffer(k, t, "start")
    BY <1>11, <1>16, <1>18, IngestGrows
<1>20. CanaryWaits' /\ canary' \in {"idle", "sending", "waiting", "passed", "failed"}
  <2>1. ASSUME NEW u \in forWindow, ~ Known(u)' PROVE r.told[u] = <<>>
    <3>1. u \in Dispatch
        BY <1>1 DEF QueuesTyped
    <3>2. ~ Owned(x, u)
        BY <1>2, <1>10, <2>1 DEF Owned, Known
    <3> QED
        BY <1>15, <3>1, <3>2, UntoldIs
  <2>3. canary \in {"idle", "sending", "waiting", "passed", "failed"}
      BY <1>1 DEF QueuesTyped
  <2>4. Grows(tracker, tracker')
      BY <1>6, <1>7, <1>19
  <2>5. /\ \A u \in forWindow : Known(u)' => Known(u) \/ Says(tracker', u, "dispatched")
        /\ \A u \in forWindow : ~ Known(u)' => tracker'.told[u] = <<>>
      BY <1>2, <1>7, <2>1 DEF Known
  <2> QED
      BY <1>1, <1>2, <2>3, <2>4, <2>5, CanaryTracks
<1>21. QueuesTyped'
    BY <1>1, <1>2, <1>20 DEF QueuesTyped
<1>22. Starting'
  <2>1. SUFFICES ASSUME ~ resolver
                 PROVE  /\ canary' \in {"idle", "failed"}
                        /\ \A v \in running', u \in Dispatch :
                             u # v /\ TurnChat[u] = TurnChat[v] /\ Has(r.early, v) /\ Has(r.early, u)
                               => Before(r.early, u, v)
      BY <1>1, <1>2, <1>7 DEF Starting
  <2>2. canary' \in {"idle", "failed"}
    <3>1. canary \in {"idle", "failed"}
        BY <1>1, <2>1 DEF Starting
    <3>2. PICK told : told = tracker'.told
        OBVIOUS
    <3>3. canary' = Judged(canary, told)
        BY <1>2, <3>2
    <3> QED
        BY <3>1, <3>3 DEF Judged
  <2>3. ASSUME NEW v \in running', NEW u \in Dispatch,
               u # v, TurnChat[u] = TurnChat[v], Has(r.early, v), Has(r.early, u)
        PROVE  Before(r.early, u, v)
    <3>1. v \in Dispatch /\ (v \in running \/ v = t)
        BY <1>1, <1>2, <2>3 DEF QueuesTyped
    <3>2. ASSUME NEW y \in running, NEW z \in Dispatch,
                 z # y, TurnChat[z] = TurnChat[y], Has(k.early, y), Has(k.early, z)
          PROVE  Before(k.early, z, y)
        BY <1>1, <1>6, <2>1, <3>2 DEF Starting
    <3>3. CASE r.early = k.early
        BY <1>17, <2>3, <3>1, <3>2, <3>3
    <3>4. CASE r = Buffer(k, t, "start")
      <4>1. /\ \A y \in Dispatch : Has(r.early, y) <=> (Has(k.early, y) /\ y \notin Shed(k, t)) \/ y = t
            /\ \A y, z \in Dispatch :
                 Before(k.early, y, z) /\ {y, z} \cap Shed(k, t) = {} => Before(r.early, y, z)
            /\ \A y \in Dispatch : ~ Has(k.early, t) /\ Has(r.early, y) /\ y # t => Before(r.early, y, t)
          BY <1>16, <1>18, <3>4, BufferIs
      <4>2. CASE v = t
          BY <1>17, <2>3, <4>1, <4>2
      <4>3. CASE v # t
        <5>1. v \in running /\ u # t
            BY <1>3, <2>3, <3>1, <4>3
        <5>2. Has(k.early, v) /\ Has(k.early, u) /\ {u, v} \cap Shed(k, t) = {}
            BY <2>3, <3>1, <4>1, <4>3, <5>1
        <5> QED
            BY <2>3, <3>1, <3>2, <4>1, <5>1, <5>2
      <4> QED
          BY <4>2, <4>3
    <3> QED
        BY <1>19, <3>3, <3>4
  <2> QED
      BY <2>2, <2>3
<1> QED
    BY <1>4, <1>5, <1>7, <1>9, <1>15, <1>20, <1>21, <1>22 DEF TurnInv

(* A turn speaks: the correlator finds it by its chat, or nobody.          *)
LEMMA SayKeeps ==
  ASSUME TurnInv, NEW t \in Dispatch, Say(t)
  PROVE  TurnInv'
<1> DEFINE whose == tracker.byKey[TurnChat[t]]
<1>1. QueuesTyped /\ QueuesStand /\ LastComing /\ CanaryWaits /\ TrackerStands(tracker, World) /\ Starting
    BY DEF TurnInv
<1>2. /\ t \in running /\ t \notin said /\ resolver
      /\ IF whose # NoDispatch /\ Has(tracker.active, whose)
         THEN tracker' = Tells([tracker EXCEPT !.spoken = @ \cup {whose}], whose, "spoke")
         ELSE tracker' = tracker
      /\ canary' = Judged(canary, tracker'.told)
      /\ said' = said \cup {t}
      /\ unheard' = IF Known(t) /\ t \notin tracker.evicted \cup tracker.missed THEN unheard ELSE unheard \cup {t}
      /\ forWindow' = forWindow /\ receipt' = receipt /\ turns' = turns /\ running' = running
      /\ cut' = cut /\ closed' = closed /\ resolver' = resolver /\ canaryTurn' = canaryTurn
    BY DEF Say, Track, runVars
<1>3. PICK k : k = tracker
    OBVIOUS
<1>4. PICK r : r = tracker'
    OBVIOUS
<1>5. PICK w : w = World
    OBVIOUS
<1>6. PICK x : x = World'
    OBVIOUS
<1>7. /\ w.window = forWindow /\ w.receipt = receipt /\ w.running = running /\ w.closed = closed
      /\ w.said = said /\ w.heard = said \ unheard /\ w.pending = {}
      /\ x.window = forWindow /\ x.receipt = receipt /\ x.running = running /\ x.closed = closed
      /\ x.said = said \cup {t} /\ x.heard = said' \ unheard' /\ x.pending = {}
    BY <1>2, <1>5, <1>6 DEF World
<1>8. TrackerStands(k, w)
    BY <1>1, <1>3, <1>5
<1>9. k \in Tracker /\ Keys(k) /\ TurnStands(k, w, t) /\ TurnChat[t] \in TurnChats
    BY <1>8, ChatIs DEF TrackerStands
<1>10. whose = NoDispatch \/ (whose = t /\ Has(k.active, t))
  <2>1. SUFFICES ASSUME whose # NoDispatch PROVE whose = t /\ Has(k.active, t)
      OBVIOUS
  <2>2. whose \in Dispatch
      BY <1>3, <1>9, <2>1 DEF Tracker
  <2>3. TurnChat[whose] = TurnChat[t] /\ Has(k.active, whose) /\ whose \in running
      BY <1>3, <1>7, <1>8, <1>9, <2>1 DEF TrackerStands, KeysStand
  <2> HIDE DEF whose
  <2>4. AtHead(t)
      BY <1>1, <1>2 DEF QueuesStand
  <2> QED
      BY <1>1, <2>3, <2>4, HeadIs
<1>11. \A u \in Dispatch \ {t} : Alike(w, x, u)
  <2>1. \A u \in Dispatch \ {t} : u \in x.heard <=> u \in w.heard
      BY <1>2, <1>7
  <2> QED
      BY <1>7, <2>1 DEF Alike
<1>12. Owned(x, t) <=> Owned(w, t)
    BY <1>7 DEF Owned
<1>13. QueuesStand'
  <2>1. \A u : Known(u)' <=> Known(u)
      BY <1>2 DEF Known
  <2>2. \A u \in (said \ unheard)' : Known(u)'
      BY <1>1, <1>2, <2>1 DEF QueuesStand
  <2>3. \A u \in running' \cup cut' : AtHead(u)'
      BY <1>1, <1>2 DEF QueuesStand, AtHead
  <2>4. said' \subseteq running' \cup closed'
      BY <1>1, <1>2 DEF QueuesStand
  <2> QED
      BY <1>1, <1>2, <2>2, <2>3, <2>4 DEF QueuesStand
<1>14. LastComing'
    BY <1>1, <1>2 DEF LastComing, Queue
<1>15. ASSUME whose = t, Has(k.active, t)
      PROVE  TrackerStands(r, x) /\ Grows(k, r)
  <2>1. PICK m : m = [k EXCEPT !.spoken = @ \cup {t}]
      OBVIOUS
  <2>2. t # NoDispatch
      BY TurnConstants
  <2>3. r = Tells(m, t, "spoke")
      BY <1>2, <1>3, <1>4, <1>15, <2>1, <2>2
  <2>4. /\ m \in Tracker
        /\ m.spoken = k.spoken \cup {t}
        /\ m.active = k.active /\ m.early = k.early /\ m.buffered = k.buffered /\ m.settled = k.settled
        /\ m.ignored = k.ignored /\ m.announced = k.announced /\ m.byKey = k.byKey /\ m.told = k.told
        /\ m.evicted = k.evicted /\ m.missed = k.missed
      BY <1>9, <2>1 DEF Tracker
  <2>5. "spoke" \in Notices /\ "spoke" \notin Closing
      BY DEF Notices, Closing
  <2>6. /\ r \in Tracker
        /\ r.told = [m.told EXCEPT ![t] = Append(@, "spoke")]
        /\ r.active = m.active /\ r.early = m.early /\ r.buffered = m.buffered /\ r.settled = m.settled
        /\ r.ignored = m.ignored /\ r.announced = m.announced /\ r.byKey = m.byKey /\ r.spoken = m.spoken
        /\ r.evicted = m.evicted /\ r.missed = m.missed
      BY <2>3, <2>4, <2>5, TellsIs
  <2>7. /\ k.told \in [Dispatch -> Seq(Notices)]
        /\ \A u \in Dispatch : r.told[u] = IF u = t THEN Append(k.told[t], "spoke") ELSE k.told[u]
      BY <1>9, <2>4, <2>6 DEF Tracker
  <2>8. /\ r.active = k.active /\ r.early = k.early /\ r.buffered = k.buffered /\ r.settled = k.settled
        /\ r.ignored = k.ignored /\ r.announced = k.announced /\ r.byKey = k.byKey
        /\ r.spoken = k.spoken \cup {t} /\ r.evicted = k.evicted /\ r.missed = k.missed
      BY <2>4, <2>6
  <2>9. k.told[t] \in Seq(Notices)
      BY <2>7
  <2>10. /\ \A what : Says(r, t, what) <=> Says(k, t, what) \/ what = "spoke"
         /\ Once(k.told[t], Closing) => Once(r.told[t], Closing)
         /\ Once(k.told[t], {"dispatched"}) => Once(r.told[t], {"dispatched"})
    <3>1. r.told[t] = Append(k.told[t], "spoke")
        BY <2>7
    <3>2. "spoke" \notin {"dispatched"}
        OBVIOUS
    <3>3. \A u : Has(Append(k.told[t], "spoke"), u) <=> Has(k.told[t], u) \/ u = "spoke"
        BY <2>5, <2>9, Appended
    <3>4. Once(k.told[t], Closing) => Once(Append(k.told[t], "spoke"), Closing)
        BY <2>5, <2>9, OnceIs
    <3>5. Once(k.told[t], {"dispatched"}) => Once(Append(k.told[t], "spoke"), {"dispatched"})
        BY <2>5, <2>9, <3>2, OnceIs
    <3> QED
        BY <3>1, <3>3, <3>4, <3>5 DEF Says
  <2>11. ~ Over(k, t) /\ ~ Over(r, t) /\ Owned(x, t) /\ ~ Says(r, t, "silent")
    <3>1. ~ Over(k, t) /\ Owned(x, t)
        BY <1>9, <1>12, <1>15 DEF TurnStands
    <3>2. ~ Over(r, t)
        BY <2>5, <2>10, <3>1 DEF Over
    <3>3. "silent" \in Closing
        BY DEF Closing
    <3> QED
        BY <3>1, <3>2, <3>3 DEF Over
  <2>12. TurnStands(r, x, t)
    <3>1. /\ Has(r.early, t) <=> r.buffered[t] # <<>>
          /\ Has(r.settled, t) => Over(r, t)
          /\ Has(r.ignored, t) => t \notin x.window
          /\ r.buffered[t] # <<>> => t \in x.running \cup x.closed
          /\ r.buffered[t] \in Finished => t \in x.closed /\ ~ Over(r, t)
          /\ t \in x.window \cap x.closed /\ r.buffered[t] = <<"start">> => Over(r, t)
        BY <1>7, <1>9, <2>8, <2>11 DEF TurnStands
    <3>2. /\ Once(r.told[t], Closing)
          /\ t \in r.announced => Says(r, t, "dispatched")
        BY <1>9, <2>8, <2>10 DEF TurnStands
    <3>3. t \notin r.evicted =>
            /\ Once(r.told[t], {"dispatched"})
            /\ Says(r, t, "dispatched") => t \in r.announced \/ Over(r, t)
            /\ Owned(x, t) /\ x.receipt[t] # "done" /\ t \notin x.closed => Has(r.active, t)
        BY <1>9, <1>15, <2>8, <2>10, <2>11 DEF TurnStands
    <3>4. t \notin r.missed =>
            /\ t \in x.closed \cap x.window => Over(r, t) \/ r.buffered[t] \in Finished
            /\ Owned(x, t) /\ t \notin x.pending => r.buffered[t] = <<>>
            /\ t \in x.running \cap x.window => Says(r, t, "dispatched") \/ r.buffered[t] \in Begun
            /\ t \in x.window /\ r.buffered[t] \in {<<"ended">>, <<"errored">>} => Says(r, t, "dispatched")
        BY <1>7, <1>9, <1>12, <2>8, <2>10, <2>11 DEF TurnStands
    <3>5. t \in r.spoken /\ t \in x.said /\ t \notin x.pending
        BY <1>7, <2>8
    <3> QED
        BY <2>11, <3>1, <3>2, <3>3, <3>4, <3>5 DEF TurnStands
  <2>13. Around(k, x, t)
      BY <1>8, <1>11, AroundIt
  <2>14. \A u \in Dispatch \ {t} : Same(k, r, u)
      BY <2>7, <2>8 DEF Same
  <2>15. Keys(r)
      BY <1>9, <2>8 DEF Keys
  <2>16. Around(r, x, t)
      BY <2>6, <2>8, <2>13, <2>14, <2>15, AroundSame
  <2>17. TrackerStands(r, x)
    <3>1. r.byKey[TurnChat[t]] = t
        BY <1>3, <1>15, <2>8
    <3> QED
        BY <1>2, <1>7, <1>15, <2>8, <2>12, <2>16, <3>1, AllAround
  <2>18. Grows(k, r)
      BY <2>7, <2>10 DEF Grows, Says
  <2> QED
      BY <2>17, <2>18
<1>16. ASSUME whose = NoDispatch PROVE TrackerStands(r, x) /\ Grows(k, r)
  <2>1. r = k
      BY <1>2, <1>3, <1>4, <1>16
  <2>2. t \in x.heard => t \notin x.window
    <3>1. SUFFICES ASSUME t \in x.heard, t \in forWindow PROVE FALSE
        BY <1>7
    <3>2. Known(t) /\ t \notin k.evicted \cup k.missed
        BY <1>2, <1>3, <1>7, <3>1
    <3>3. Owned(w, t)
        BY <1>7, <3>1, <3>2 DEF Owned, Known
    <3>4. k.buffered[t] = <<>>
        BY <1>7, <1>9, <3>2, <3>3 DEF TurnStands
    <3>5. Heeded(k, w, t)
        BY <1>2, <1>7, <3>1, <3>2 DEF Heeded
    <3>6. k.byKey[TurnChat[t]] = t
        BY <1>8, <3>4, <3>5, BufferShapes DEF TrackerStands, KeysStand
    <3> QED
        BY <1>3, <1>16, <3>6, TurnConstants
  <2>3. TurnStands(k, x, t)
    <3>1. Says(k, t, "silent") => t \notin x.heard
      <4>1. Says(k, t, "silent") => k.told[t] # <<>>
          BY NothingHeard DEF Says
      <4>2. k.told[t] # <<>> => t \in x.window
          BY <1>7, <1>9 DEF TurnStands, Owned
      <4> QED
          BY <2>2, <4>1, <4>2
    <3> QED
        BY <1>7, <1>9, <1>12, <2>2, <3>1 DEF TurnStands
  <2>4. \A u \in Dispatch \ {t} : TurnStands(k, x, u)
    <3> TAKE u \in Dispatch \ {t}
    <3>1. Same(k, k, u) /\ TurnStands(k, w, u) /\ Alike(w, x, u)
        BY <1>8, <1>11 DEF Same, TrackerStands
    <3> QED
        BY <3>1, Untouched
  <2>5. KeysStand(k, x)
      BY <1>7, <1>8 DEF TrackerStands, KeysStand, Heeded
  <2>6. TrackerStands(k, x)
      BY <1>9, <2>3, <2>4, <2>5 DEF TrackerStands
  <2> QED
      BY <2>1, <2>6 DEF Grows
<1>17. TrackerStands(r, x) /\ Grows(k, r)
    BY <1>10, <1>15, <1>16
<1>18. CanaryWaits' /\ canary' \in {"idle", "sending", "waiting", "passed", "failed"}
  <2>1. ASSUME NEW u \in forWindow, ~ Known(u)' PROVE r.told[u] = <<>>
    <3>1. u \in Dispatch
        BY <1>1 DEF QueuesTyped
    <3>2. ~ Owned(x, u)
        BY <1>2, <1>7, <2>1 DEF Owned, Known
    <3> QED
        BY <1>17, <3>1, <3>2, UntoldIs
  <2>2. canary \in {"idle", "sending", "waiting", "passed", "failed"}
      BY <1>1 DEF QueuesTyped
  <2>3. Grows(tracker, tracker')
      BY <1>3, <1>4, <1>17
  <2>4. /\ \A u \in forWindow : Known(u)' => Known(u) \/ Says(tracker', u, "dispatched")
        /\ \A u \in forWindow : ~ Known(u)' => tracker'.told[u] = <<>>
      BY <1>2, <1>4, <2>1 DEF Known
  <2> QED
      BY <1>1, <1>2, <2>2, <2>3, <2>4, CanaryTracks
<1>19. QueuesTyped'
    BY <1>1, <1>2, <1>18 DEF QueuesTyped
<1>20. Starting'
    BY <1>2 DEF Starting
<1> QED
    BY <1>4, <1>6, <1>13, <1>14, <1>17, <1>18, <1>19, <1>20 DEF TurnInv

(* A turn ends, or Flue's recovery ends it.                                *)
LEMMA FinishTurnKeeps ==
  ASSUME TurnInv, NEW t \in Dispatch, AtHead(t), NEW e \in Ends,
         e \in {"ended", "errored"} \/ e \in {"settled", "aborted"},
         e \in {"ended", "errored"} => t \in running,
         FinishTurn(t, e)
  PROVE  TurnInv'
<1> DEFINE c == TurnChat[t]
<1>1. QueuesTyped /\ QueuesStand /\ LastComing /\ CanaryWaits /\ TrackerStands(tracker, World) /\ Starting
    BY DEF TurnInv
<1>2. /\ turns' = [turns EXCEPT ![c] = Tail(@)]
      /\ running' = running \ {t} /\ cut' = cut \ {t} /\ closed' = closed \cup {t}
      /\ tracker' = Ingest(tracker, t, e) /\ canary' = Judged(canary, tracker'.told)
      /\ forWindow' = forWindow /\ receipt' = receipt /\ resolver' = resolver
      /\ canaryTurn' = canaryTurn /\ said' = said /\ unheard' = unheard
    BY DEF FinishTurn, Track
<1>3. /\ Has(turns[c], t) /\ t \notin closed /\ receipt[t] # "none"
      /\ \A u \in running \cup cut : TurnChat[u] = c => u = t
    BY <1>1, HeadIs DEF Queue
<1>4. c \in TurnChats /\ turns[c] \in Seq(Dispatch) /\ turns[c] # <<>> /\ Head(turns[c]) = t /\ Distinct(turns[c])
    BY <1>1, ChatIs DEF QueuesTyped, QueuesStand, AtHead
<1>5. /\ Tail(turns[c]) \in Seq(Dispatch)
      /\ Distinct(Tail(turns[c])) /\ \A u : Has(Tail(turns[c]), u) <=> Has(turns[c], u) /\ u # t
      /\ \A u, v : Before(turns[c], u, v) /\ u # t => Before(Tail(turns[c]), u, v)
    BY <1>4, TailIs
<1>6. \A d \in TurnChats : turns'[d] = IF d = c THEN Tail(turns[c]) ELSE turns[d]
    BY <1>1, <1>2 DEF QueuesTyped
<1>7. \A u : Known(u)' <=> Known(u)
    BY <1>2 DEF Known
<1>8. QueuesStand'
  <2>1. \A d \in TurnChats : Distinct(turns'[d])
      BY <1>1, <1>5, <1>6 DEF QueuesStand
  <2>2. ASSUME NEW d \in TurnChats, NEW u \in Dispatch, Has(turns'[d], u)
        PROVE  TurnChat[u] = d /\ receipt'[u] # "none" /\ u \notin closed'
    <3>1. Has(turns[d], u) /\ (d = c => u # t)
        BY <1>5, <1>6, <2>2
    <3>2. TurnChat[u] = d /\ receipt[u] # "none" /\ u \notin closed
        BY <1>1, <3>1 DEF QueuesStand
    <3> QED
        BY <1>2, <3>1, <3>2
  <2>3. ASSUME NEW u \in running' \cup cut' PROVE AtHead(u)'
    <3>1. u \in running \cup cut /\ u # t
        BY <1>2, <2>3
    <3>2. u \in Dispatch /\ AtHead(u) /\ TurnChat[u] \in TurnChats /\ TurnChat[u] # c
        BY <1>1, <1>3, <3>1, ChatIs DEF QueuesTyped, QueuesStand
    <3> QED
        BY <1>6, <3>2 DEF AtHead
  <2>4. running' \cap cut' = {} /\ said' \subseteq running' \cup closed'
      BY <1>1, <1>2 DEF QueuesStand
  <2>5. \A u \in closed' : receipt'[u] # "none"
      BY <1>1, <1>2, <1>3 DEF QueuesStand
  <2>6. \A u \in (said \ unheard)' : Known(u)'
      BY <1>1, <1>2, <1>7 DEF QueuesStand
  <2>7. \A u \in Dispatch : /\ receipt'[u] \in {"coming", "told", "unwritten"} => resolver'
                            /\ receipt'[u] = "done" => u \in forWindow'
      BY <1>1, <1>2 DEF QueuesStand
  <2> QED
      BY <2>1, <2>2, <2>3, <2>4, <2>5, <2>6, <2>7 DEF QueuesStand
<1>9. LastComing'
  <2>1. SUFFICES ASSUME NEW v \in forWindow, NEW u \in forWindow, receipt[u] = "coming",
                        TurnChat[v] = TurnChat[u], v # u, Has(turns'[TurnChat[v]], v)
                 PROVE  Before(turns'[TurnChat[v]], v, u)
      BY <1>2 DEF LastComing, Queue
  <2>2. v \in Dispatch /\ TurnChat[v] \in TurnChats
      BY <1>1, ChatIs DEF QueuesTyped
  <2>3. Has(turns[TurnChat[v]], v) /\ (TurnChat[v] = c => v # t)
      BY <1>5, <1>6, <2>1, <2>2
  <2>4. Before(turns[TurnChat[v]], v, u)
      BY <1>1, <2>1, <2>3 DEF LastComing, Queue
  <2> QED
      BY <1>5, <1>6, <2>2, <2>3, <2>4
<1>10. PICK k : k = tracker
    OBVIOUS
<1>11. PICK r : r = tracker'
    OBVIOUS
<1>12. PICK w : w = World
    OBVIOUS
<1>13. PICK x : x = World'
    OBVIOUS
<1>14. /\ w.window = forWindow /\ w.receipt = receipt /\ w.running = running /\ w.closed = closed
       /\ w.said = said /\ w.heard = said \ unheard
       /\ x.window = forWindow /\ x.receipt = receipt /\ x.running = running \ {t}
       /\ x.closed = closed \cup {t}
       /\ x.said = said /\ x.heard = said \ unheard /\ x.pending = w.pending
    BY <1>2, <1>12, <1>13 DEF World
<1>15. TrackerStands(k, w) /\ r = Ingest(k, t, e)
    BY <1>1, <1>2, <1>10, <1>11, <1>12
<1>16. \A u \in Dispatch \ {t} : Alike(w, x, u)
    BY <1>14 DEF Alike
<1>17. Kin(w, x, t)
    BY <1>14 DEF Kin
<1>18. LookedUp(w, t)
    BY <1>1, <1>12, LookupIs
<1>19. TrackerStands(r, x)
  <2>1. /\ x.receipt[t] = w.receipt[t] /\ (t \in x.pending <=> t \in w.pending)
        /\ t \notin w.closed /\ t \notin x.running /\ t \in x.closed
        /\ e \in {"ended", "errored"} => t \in w.running
      BY <1>3, <1>14
  <2> QED
      BY <1>15, <1>16, <1>17, <1>18, <2>1, IngestEnded
<1>20. k \in Tracker /\ Keys(k) /\ TurnStands(k, w, t)
    BY <1>15 DEF TrackerStands
<1>21. Append(k.buffered[t], e) \in Buffers /\ (Has(k.early, t) => t \in running)
  <2>1. k.buffered[t] \in {<<>>, <<"start">>} /\ (t \notin running => k.buffered[t] = <<>>)
      BY <1>3, <1>14, <1>20, BufferedStill
  <2>2. Has(k.early, t) <=> k.buffered[t] # <<>>
      BY <1>20 DEF TurnStands
  <2>3. CASE k.buffered[t] = <<>>
    <3>1. Append(<<>>, e) \in Buffers
        BY BufferShapes
    <3> QED
        BY <2>2, <2>3, <3>1
  <2>4. CASE k.buffered[t] = <<"start">>
    <3>1. Append(<<"start">>, e) \in Buffers /\ <<"start">> # <<>>
        BY BufferShapes
    <3> QED
        BY <2>1, <2>4, <3>1
  <2> QED
      BY <2>1, <2>3, <2>4
<1>22. /\ Grows(k, r)
       /\ r.early = k.early \/ r = Buffer(k, t, e)
    BY <1>15, <1>20, <1>21, IngestGrows
<1>23. CanaryWaits' /\ canary' \in {"idle", "sending", "waiting", "passed", "failed"}
  <2>1. ASSUME NEW u \in forWindow, ~ Known(u)' PROVE r.told[u] = <<>>
    <3>1. u \in Dispatch
        BY <1>1 DEF QueuesTyped
    <3>2. ~ Owned(x, u)
        BY <1>2, <1>14, <2>1 DEF Owned, Known
    <3> QED
        BY <1>19, <3>1, <3>2, UntoldIs
  <2>2. canary \in {"idle", "sending", "waiting", "passed", "failed"}
      BY <1>1 DEF QueuesTyped
  <2>3. Grows(tracker, tracker')
      BY <1>10, <1>11, <1>22
  <2>4. /\ \A u \in forWindow : Known(u)' => Known(u) \/ Says(tracker', u, "dispatched")
        /\ \A u \in forWindow : ~ Known(u)' => tracker'.told[u] = <<>>
      BY <1>2, <1>11, <2>1 DEF Known
  <2> QED
      BY <1>1, <1>2, <2>2, <2>3, <2>4, CanaryTracks
<1>24. QueuesTyped'
  <2>1. turns' \in [TurnChats -> Seq(Dispatch)]
      BY <1>1, <1>2, <1>5 DEF QueuesTyped
  <2> QED
      BY <1>1, <1>2, <1>23, <2>1 DEF QueuesTyped
<1>25. Starting'
  <2>1. SUFFICES ASSUME ~ resolver
                 PROVE  /\ canary' \in {"idle", "failed"}
                        /\ \A v \in running', u \in Dispatch :
                             u # v /\ TurnChat[u] = TurnChat[v] /\ Has(r.early, v) /\ Has(r.early, u)
                               => Before(r.early, u, v)
      BY <1>1, <1>2, <1>11 DEF Starting
  <2>2. canary' \in {"idle", "failed"}
    <3>1. canary \in {"idle", "failed"}
        BY <1>1, <2>1 DEF Starting
    <3>2. PICK told : told = tracker'.told
        OBVIOUS
    <3>3. canary' = Judged(canary, told)
        BY <1>2, <3>2
    <3> QED
        BY <3>1, <3>3 DEF Judged
  <2>3. ASSUME NEW v \in running', NEW u \in Dispatch,
               u # v, TurnChat[u] = TurnChat[v], Has(r.early, v), Has(r.early, u)
        PROVE  Before(r.early, u, v)
    <3>1. v \in Dispatch /\ v \in running /\ v # t
        BY <1>1, <1>2 DEF QueuesTyped
    <3>2. ASSUME NEW y \in running, NEW z \in Dispatch,
                 z # y, TurnChat[z] = TurnChat[y], Has(k.early, y), Has(k.early, z)
          PROVE  Before(k.early, z, y)
        BY <1>1, <1>10, <2>1, <3>2 DEF Starting
    <3>3. u # t
        BY <1>3, <2>3, <3>1
    <3>4. CASE r.early = k.early
        BY <2>3, <3>1, <3>2, <3>4
    <3>5. CASE r = Buffer(k, t, e)
      <4>1. /\ \A y \in Dispatch : Has(r.early, y) <=> (Has(k.early, y) /\ y \notin Shed(k, t)) \/ y = t
            /\ \A y, z \in Dispatch :
                 Before(k.early, y, z) /\ {y, z} \cap Shed(k, t) = {} => Before(r.early, y, z)
          BY <1>20, <1>21, <3>5, BufferIs
      <4>2. Has(k.early, v) /\ Has(k.early, u) /\ {u, v} \cap Shed(k, t) = {}
          BY <2>3, <3>1, <3>3, <4>1
      <4> QED
          BY <2>3, <3>1, <3>2, <4>1, <4>2
    <3> QED
        BY <1>22, <3>4, <3>5
  <2> QED
      BY <2>2, <2>3
<1> QED
    BY <1>8, <1>9, <1>11, <1>13, <1>19, <1>23, <1>24, <1>25 DEF TurnInv

(* Flue ends a running turn.                                               *)
LEMMA EndTurnKeeps ==
  ASSUME TurnInv, NEW t \in Dispatch, EndTurn(t)
  PROVE  TurnInv'
<1>1. t \in running /\ AtHead(t)
    BY DEF EndTurn, TurnInv, QueuesStand
<1>2. PICK e \in {"ended", "errored"} : FinishTurn(t, e)
    BY DEF EndTurn
<1>3. e \in Ends
    BY DEF Ends
<1> QED
    BY <1>1, <1>2, <1>3, FinishTurnKeeps

(* Flue settles an interrupted one.                                        *)
LEMMA SettleInterruptedKeeps ==
  ASSUME TurnInv, NEW t \in Dispatch, SettleInterrupted(t)
  PROVE  TurnInv'
<1>1. AtHead(t)
    BY DEF SettleInterrupted
<1>2. PICK e \in {"settled", "aborted"} : FinishTurn(t, e)
    BY DEF SettleInterrupted
<1>3. e \in Ends /\ e \notin {"ended", "errored"}
    BY DEF Ends
<1> QED
    BY <1>1, <1>2, <1>3, FinishTurnKeeps

(* A new process has seen nothing.                                         *)
LEMMA FreshStands ==
  ASSUME NEW x, x.running = {}, x.closed = {}, x.said = {}, x.heard = {},
         \A t \in Dispatch : x.receipt[t] \notin {"told", "unwritten"}
  PROVE  TrackerStands(Fresh, x)
<1>1. /\ Fresh.active = <<>> /\ Fresh.early = <<>> /\ Fresh.settled = <<>> /\ Fresh.ignored = <<>>
      /\ Fresh.announced = {} /\ Fresh.spoken = {} /\ Fresh.evicted = {} /\ Fresh.missed = {}
      /\ \A t \in Dispatch : Fresh.buffered[t] = <<>> /\ Fresh.told[t] = <<>>
      /\ \A c \in TurnChats : Fresh.byKey[c] = NoDispatch
    BY DEF Fresh
<1>2. Fresh \in Tracker
    BY BufferShapes DEF Fresh, Tracker
<1>3. Keys(Fresh)
    BY <1>1 DEF Keys, Distinct
<1>4. ASSUME NEW t \in Dispatch PROVE TurnStands(Fresh, x, t)
  <2>1. /\ ~ Has(Fresh.early, t) /\ ~ Has(Fresh.active, t) /\ ~ Has(Fresh.settled, t) /\ ~ Has(Fresh.ignored, t)
        /\ \A what : ~ Says(Fresh, t, what)
      BY <1>1, NothingHeard DEF Says
  <2>2. ~ Over(Fresh, t)
      BY <2>1 DEF Over
  <2>3. \A kinds : Once(Fresh.told[t], kinds)
      BY <1>1 DEF Once
  <2>4. Fresh.buffered[t] = <<>> /\ Fresh.told[t] = <<>>
      BY <1>1
  <2>5. Owned(x, t) => x.receipt[t] = "done"
      BY DEF Owned
  <2>6. <<>> \notin Finished /\ <<>> # <<"start">> /\ <<>> \notin {<<"ended">>, <<"errored">>}
      BY BufferShapes
  <2> QED
      BY <1>1, <2>1, <2>2, <2>3, <2>4, <2>5, <2>6 DEF TurnStands
<1>5. KeysStand(Fresh, x)
    BY <1>1 DEF KeysStand, Heeded
<1> QED
    BY <1>2, <1>3, <1>4, <1>5 DEF TrackerStands

(* At first nothing has been dispatched.                                   *)
LEMMA TurnInitHolds ==
  ASSUME TurnInit
  PROVE  TurnInv
<1>1. QueuesTyped
  <2>1. turns \in [TurnChats -> Seq(Dispatch)]
      BY DEF TurnInit
  <2>2. receipt \in [Dispatch -> Receipts]
      BY DEF TurnInit, Receipts
  <2> QED
      BY <2>1, <2>2 DEF TurnInit, QueuesTyped
<1>2. QueuesStand
    BY NothingHeard DEF TurnInit, QueuesStand, Distinct
<1>3. LastComing
  <2>1. forWindow \in SUBSET Dispatch /\ \A t \in Dispatch : receipt[t] = "none"
      BY DEF TurnInit
  <2> QED
      BY <2>1 DEF LastComing
<1>4. Starting
    BY DEF TurnInit, Starting
<1>5. CanaryWaits
    BY DEF TurnInit, CanaryWaits
<1>6. TrackerStands(tracker, World)
  <2>1. PICK x : x = World
      OBVIOUS
  <2>2. x.running = {} /\ x.closed = {} /\ x.said = {} /\ x.heard = {} /\ x.receipt = receipt
      BY <2>1 DEF World, TurnInit
  <2>3. \A t \in Dispatch : x.receipt[t] \notin {"told", "unwritten"}
      BY <2>2 DEF TurnInit
  <2>4. TrackerStands(Fresh, x)
      BY <2>2, <2>3, FreshStands
  <2> QED
      BY <2>1, <2>4 DEF TurnInit
<1> QED
    BY <1>1, <1>2, <1>3, <1>4, <1>5, <1>6 DEF TurnInv

(* A crash forgets what the process held and not what Flue has queued.     *)
LEMMA CrashProcessKeeps ==
  ASSUME TurnInv, CrashProcess
  PROVE  TurnInv'
<1>1. QueuesTyped /\ QueuesStand
    BY DEF TurnInv
<1>2. /\ tracker' = Fresh /\ resolver' = FALSE
      /\ running' = {} /\ cut' = cut \cup running /\ closed' = {} /\ said' = {} /\ unheard' = {}
      /\ receipt' = [t \in Dispatch |-> IF receipt[t] \in {"coming", "told", "unwritten"} THEN "lost" ELSE receipt[t]]
      /\ canary' = "failed" /\ canaryTurn' = NoDispatch
      /\ forWindow' = forWindow /\ turns' = turns
    BY DEF CrashProcess
<1>3. \A t \in Dispatch :
        /\ receipt'[t] \in Receipts \ {"coming", "told", "unwritten"}
        /\ receipt'[t] = "none" <=> receipt[t] = "none"
        /\ receipt'[t] = "done" <=> receipt[t] = "done"
    BY <1>1, <1>2 DEF QueuesTyped, Receipts
<1>4. QueuesTyped'
  <2>1. receipt' \in [Dispatch -> Receipts]
      BY <1>2, <1>3
  <2> QED
      BY <1>1, <1>2, <2>1 DEF QueuesTyped
<1>5. QueuesStand'
  <2>1. \A c \in TurnChats, t \in Dispatch :
          Has(turns'[c], t) => TurnChat[t] = c /\ receipt'[t] # "none" /\ t \notin closed'
      BY <1>1, <1>2, <1>3 DEF QueuesStand
  <2>2. \A t \in running' \cup cut' : AtHead(t)'
      BY <1>1, <1>2 DEF QueuesStand, AtHead
  <2>3. \A t \in Dispatch : /\ receipt'[t] \in {"coming", "told", "unwritten"} => resolver'
                            /\ receipt'[t] = "done" => t \in forWindow'
      BY <1>1, <1>2, <1>3 DEF QueuesStand
  <2> QED
      BY <1>1, <1>2, <2>1, <2>2, <2>3 DEF QueuesStand
<1>6. LastComing'
  <2>1. forWindow' \in SUBSET Dispatch
      BY <1>1, <1>2 DEF QueuesTyped
  <2> QED
      BY <1>3, <2>1 DEF LastComing
<1>7. Starting' /\ CanaryWaits'
    BY <1>2 DEF Starting, CanaryWaits
<1>8. TrackerStands(tracker, World)'
  <2>1. PICK x : x = World'
      OBVIOUS
  <2>2. x.running = {} /\ x.closed = {} /\ x.said = {} /\ x.heard = {} /\ x.receipt = receipt'
      BY <1>2, <2>1 DEF World
  <2>3. \A t \in Dispatch : x.receipt[t] \notin {"told", "unwritten"}
      BY <1>3, <2>2
  <2>4. TrackerStands(Fresh, x)
      BY <2>2, <2>3, FreshStands
  <2>5. PICK r : r = tracker'
      OBVIOUS
  <2>6. TrackerStands(r, x)
      BY <1>2, <2>4, <2>5
  <2> QED
      BY <2>1, <2>5, <2>6
<1> QED
    BY <1>4, <1>5, <1>6, <1>7, <1>8 DEF TurnInv

(* The runtime stands, and the first observations are recovered.           *)
LEMMA InstallResolverKeeps ==
  ASSUME TurnInv, InstallResolver
  PROVE  TurnInv'
<1>1. QueuesTyped /\ QueuesStand /\ LastComing /\ Starting /\ CanaryWaits
    BY DEF TurnInv
<1>2. /\ ~ resolver /\ resolver' = TRUE
      /\ tracker' = RecoverWith(tracker) /\ canary' = Judged(canary, tracker'.told)
      /\ canaryTurn' = canaryTurn /\ said' = said /\ unheard' = unheard
      /\ UNCHANGED runVars
    BY DEF InstallResolver, Track
<1>3. canary' = canary /\ canary \in {"idle", "failed"}
  <2>1. canary \in {"idle", "failed"}
      BY <1>1, <1>2 DEF Starting
  <2>2. PICK told : told = tracker'.told
      OBVIOUS
  <2>3. canary' = Judged(canary, told)
      BY <1>2, <2>2
  <2> QED
      BY <2>1, <2>3 DEF Judged
<1>4. QueuesTyped' /\ QueuesStand' /\ LastComing'
  <2>1. canaryTurn' \in Dispatch \cup {NoDispatch}
      BY <1>1, <1>2 DEF QueuesTyped
  <2>2. resolver \in BOOLEAN /\ resolver' \in BOOLEAN /\ (resolver => resolver')
      BY <1>1, <1>2 DEF QueuesTyped
  <2>3. canary' \in {"idle", "sending", "waiting", "passed", "failed"}
      BY <1>3
  <2> QED
      BY <1>1, <1>2, <2>1, <2>2, <2>3, QueuesStill
<1>5. Starting' /\ CanaryWaits'
    BY <1>2, <1>3 DEF Starting, CanaryWaits
<1>6. TrackerStands(tracker, World)'
  <2>1. PICK x : x = World'
      OBVIOUS
  <2>2. PICK r : r = tracker'
      OBVIOUS
  <2>3. /\ x.window = forWindow /\ x.receipt = receipt /\ x.running = running /\ x.closed = closed
        /\ x.said = said /\ x.heard = said \ unheard /\ x.pending = {}
      BY <1>2, <2>1 DEF World, runVars
  <2>4. r = RecoverWith(tracker)
      BY <1>2, <2>2
  <2>5. TrackerStands(r, x)
      BY <1>2, <2>3, <2>4, RecoveryEnds
  <2> QED
      BY <2>1, <2>2, <2>5
<1> QED
    BY <1>4, <1>5, <1>6 DEF TurnInv

(* Nothing happens.                                                        *)
LEMMA TurnStutters ==
  ASSUME TurnInv, UNCHANGED turnVars
  PROVE  TurnInv'
BY DEF TurnInv, turnVars, runVars, canaryVars, QueuesTyped, QueuesStand, LastComing, Starting, CanaryWaits,
       World, AtHead, Known, Queue, Told

(* The correlator and its reporter stand in every state of the process:    *)
(* whatever order the receipts, the observations and the recovery came in, *)
(* what the maps hold of a turn fits what Flue has run of it.              *)
THEOREM TurnInvariant == TurnSpec => []TurnInv
<1>1. TurnInit => TurnInv
    BY TurnInitHolds
<1>2. TurnInv /\ [TurnNext]_turnVars => TurnInv'
  <2> SUFFICES ASSUME TurnInv, [TurnNext]_turnVars PROVE TurnInv'
      OBVIOUS
  <2>1. CASE CanarySent
      BY <2>1, CanarySentKeeps
  <2>2. CASE CanaryFails
      BY <2>2, CanaryFailsKeeps
  <2>3. CASE CrashProcess
      BY <2>3, CrashProcessKeeps
  <2>4. CASE InstallResolver
      BY <2>4, InstallResolverKeeps
  <2>5. ASSUME NEW t \in Dispatch, StartCanary(t) PROVE TurnInv'
      BY <2>5, StartCanaryKeeps
  <2>6. ASSUME NEW t \in Dispatch, DispatchTurn(t) PROVE TurnInv'
      BY <2>6, DispatchTurnKeeps
  <2>7. ASSUME NEW t \in Dispatch, Receive(t) PROVE TurnInv'
      BY <2>7, ReceiveKeeps
  <2>8. ASSUME NEW t \in Dispatch, SettleTurn(t) PROVE TurnInv'
      BY <2>8, SettleTurnKeeps
  <2>9. ASSUME NEW t \in Dispatch, LoseReceipt(t) PROVE TurnInv'
      BY <2>9, LoseReceiptKeeps
  <2>10. ASSUME NEW t \in Dispatch, BeginTurn(t) PROVE TurnInv'
      BY <2>10, BeginTurnKeeps
  <2>11. ASSUME NEW t \in Dispatch, Say(t) PROVE TurnInv'
      BY <2>11, SayKeeps
  <2>12. ASSUME NEW t \in Dispatch, EndTurn(t) PROVE TurnInv'
      BY <2>12, EndTurnKeeps
  <2>13. ASSUME NEW t \in Dispatch, SettleInterrupted(t) PROVE TurnInv'
      BY <2>13, SettleInterruptedKeeps
  <2>14. CASE UNCHANGED turnVars
      BY <2>14, TurnStutters
  <2> QED
      BY <2>1, <2>2, <2>3, <2>4, <2>5, <2>6, <2>7, <2>8, <2>9, <2>10, <2>11, <2>12, <2>13, <2>14 DEF TurnNext
<1> QED
    BY <1>1, <1>2, PTL DEF TurnSpec

(* The operator hears of every turn what happened: announced before its    *)
(* verdict and once, judged once, never silent when it spoke, and the      *)
(* canary passes only on a silence that was one.                           *)
THEOREM TurnsAreToldAlways == TurnSpec => []TurnsAreTold
<1>1. TurnInv => TurnsAreTold
  <2> SUFFICES ASSUME TurnInv PROVE TurnsAreTold
      OBVIOUS
  <2>1. QueuesTyped /\ QueuesStand /\ CanaryWaits
      BY DEF TurnInv
  <2>2. PICK k : k = tracker
      OBVIOUS
  <2>3. PICK w : w = World
      OBVIOUS
  <2>4. /\ w.window = forWindow /\ w.receipt = receipt /\ w.running = running /\ w.closed = closed
        /\ w.said = said /\ w.heard = said \ unheard
        /\ resolver => w.pending = {}
      BY <2>3 DEF World
  <2>5. \A t \in Dispatch : TurnStands(k, w, t)
      BY <2>2, <2>3 DEF TurnInv, TrackerStands
  <2>6. \A t : (Closed(t) <=> Over(k, t)) /\ \A what : Told(t, what) <=> Says(k, t, what)
      BY <2>2 DEF Closed, Over, Told, Says
  <2>7. \A t, kinds : AtMostOnce(t, kinds) <=> Once(k.told[t], kinds)
      BY <2>2 DEF AtMostOnce, Once
  <2>8. AnnouncedOnce
    <3>1. ASSUME NEW t \in Dispatch
          PROVE  /\ Closed(t) /\ t \notin tracker.missed => Told(t, "dispatched")
                 /\ t \notin tracker.evicted => AtMostOnce(t, {"dispatched"})
      <4>1. /\ Over(k, t) /\ t \notin k.missed => Says(k, t, "dispatched")
            /\ t \notin k.evicted => Once(k.told[t], {"dispatched"})
          BY <2>5 DEF TurnStands
      <4> QED
          BY <2>2, <2>6, <2>7, <4>1
    <3> QED
        BY <3>1 DEF AnnouncedOnce
  <2>9. VerdictOnce
    <3>1. ASSUME NEW t \in Dispatch, t \in closed \cap forWindow, t \notin tracker.missed, resolver, Known(t)
          PROVE  Closed(t)
      <4>1. Owned(w, t) /\ t \notin w.pending
          BY <2>4, <3>1 DEF Owned, Known
      <4>2. k.buffered[t] = <<>> /\ (Over(k, t) \/ k.buffered[t] \in Finished)
          BY <2>2, <2>4, <2>5, <3>1, <4>1 DEF TurnStands
      <4> QED
          BY <2>6, <4>2, BufferShapes
    <3> QED
        BY <2>5, <2>7, <3>1 DEF VerdictOnce, TurnStands
  <2>10. SilentIsTrue
    <3>1. ASSUME NEW t \in Dispatch
          PROVE  /\ Told(t, "silent") => t \notin said \ unheard
                 /\ Told(t, "spoke") => t \in said
                 /\ tracker.told[t] # <<>> => t \in forWindow
        BY <2>2, <2>4, <2>5, <2>6 DEF TurnStands, Owned
    <3> QED
        BY <3>1 DEF SilentIsTrue
  <2>11. CanaryTrue
    <3>1. canary = "passed" => canaryTurn \in Dispatch
        BY <2>1 DEF QueuesTyped, CanaryWaits
    <3> QED
        BY <2>1, <2>10, <3>1 DEF CanaryTrue, CanaryWaits, SilentIsTrue
  <2> QED
      BY <2>8, <2>9, <2>10, <2>11 DEF TurnsAreTold
<1> QED
    BY <1>1, TurnInvariant, PTL
=============================================================================
