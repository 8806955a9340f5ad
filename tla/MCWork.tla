-------------------------------- MODULE MCWork --------------------------------
(***************************************************************************)
(* What the Brain acts upon, for TLC: "part" says which of it moves in a   *)
(* behaviour, a Directive, a Specialist launch or the Graph. They share    *)
(* only the process. A Directive or a launch at rest belongs to a runtime  *)
(* that has failed, in which nothing of it is enabled.                     *)
(*                                                                         *)
(* The Graph moves in three parts: claims of one Entity that share some    *)
(* evidence, rulings about two Entities and an edge, merges of three       *)
(* Entities. The last two begin with Entities the Scribe has attested.     *)
(***************************************************************************)
EXTENDS DirectiveDelivery, SpecialistDelegation, GraphStore

CONSTANTS d1, w1, r1, r2, r3, ea, eb, ec, t1, t2, x, y

VARIABLE part

mcVars == <<vars, delegationVars, graphVars, part>>

ScribeSays(claim, evidence) ==
  [author |-> "scribe", claim |-> claim, sure |-> FALSE, evidence |-> evidence]

Seeds(ids) ==
  [n \in DOMAIN ids |-> ScribeSays([kind |-> "entity", id |-> ids[n], type |-> t1], {x})]

Seed == [directive |-> <<>>, launch |-> <<>>, evidence |-> <<>>,
         rulings |-> Seeds(<<ea, eb>>), merges |-> Seeds(<<ea, eb, ec>>)]

Depth == [evidence |-> 4, rulings |-> 5, merges |-> 6]

(* What is attested in each part of the Graph, to keep it small.           *)
SomeEvidence ==
  {ScribeSays([kind |-> "entity", id |-> ea, type |-> t], es) :
     t \in EntityType, es \in (SUBSET Evidence) \ {{}}}
    \cup
  {[author |-> "ingester", claim |-> [kind |-> "entity", id |-> ea, type |-> t],
    sure |-> TRUE, evidence |-> {y}] : t \in EntityType}

BrainSays(cs) ==
  {[author |-> "brain", claim |-> c, sure |-> TRUE, evidence |-> {x}] : c \in cs}

Mentions(ids, relations) ==
  {ScribeSays([kind |-> "entity", id |-> e, type |-> t1], {y}) : e \in ids}
    \cup
  {ScribeSays([kind |-> "relation", edge |-> t], {y}) : t \in ids \X relations \X ids}

Said ==
  [evidence |-> SomeEvidence \cup BrainSays({c \in RulingClaim : c.action = "confirm"}),
   rulings  |-> Mentions({ea, eb}, Relation) \cup BrainSays(RulingClaim),
   merges   |-> Mentions({ea, eb, ec}, {"blocks"}) \cup BrainSays(RulingClaim \cup MergeClaim)]

Begun(p) ==
  /\ part = p
  /\ InitAt(IF p = "directive" THEN "starting" ELSE "failed")
  /\ DelegationInitAt(IF p = "launch" THEN "starting" ELSE "failed")
  /\ attestations = Seed[p]
  /\ index = IndexOf(attestations)
  /\ beliefs = BeliefsOf(attestations, index)
  /\ edges = EdgesOf(attestations, index)
  /\ names = NamesOf(attestations, index)
  /\ opens = 0

MCInit == \E p \in DOMAIN Seed : Begun(p)

MCNext ==
  \/ part = "directive" /\ Next /\ UNCHANGED <<delegationVars, graphVars, part>>
  \/ part = "launch" /\ DelegationNext /\ UNCHANGED <<vars, graphVars, part>>
  \/ /\ part \in DOMAIN Said
     /\ \/ \E a \in Said[part] : AttestEntity(a) \/ AttestRelation(a) \/ AttestRuling(a)
        \/ OpenAgain
     /\ Len(attestations') <= Depth[part]
     /\ UNCHANGED <<vars, delegationVars, part>>

MCSpec == MCInit /\ [][MCNext]_mcVars /\ Fairness /\ DelegationFairness
=============================================================================
