------------------------------- MODULE MCEdges --------------------------------
(***************************************************************************)
(* The edges of the system for TLC, GitHub and the operator's commands:    *)
(* "part" says what moves in a behaviour.                                  *)
(*                                                                         *)
(* "writes": one Effect of any kind, one operator retry, MaxFates fates.   *)
(* "webhooks": one delivery of any content, MaxFates fates. Deliveries     *)
(* share nothing but the process.                                          *)
(* "correlation": one filing, one pull request that may refer to its       *)
(* issue, and two fates, among them the operator's doctor.                 *)
(* "directory": invocations of init, repair and start; of repair and start *)
(* where there is a former installation, and of start alone where that is  *)
(* on another file system.                                                 *)
(* "sessions": two sessions of config, of which each changes the model's   *)
(* provider or rotates the planner; "start": one session that changes      *)
(* anything, and a start beside it.                                        *)
(***************************************************************************)
EXTENDS GitHubIngress, Installation, ManagedConfiguration

CONSTANTS e1, d1, pa, pb

VARIABLE part

mcVars == <<allVars, installationVars, configurationVars, part>>

GitHubRests == OperationsBlank /\ kind = [e \in Effect |-> "filing"] /\ IngressIdle
                /\ what = [d \in Delivery |-> "other"] /\ wired = TRUE
GitHubBegins ==
  \/ /\ part = "writes" /\ OperationsInit
     /\ IngressIdle /\ what = [d \in Delivery |-> "other"] /\ wired = TRUE
  \/ /\ part = "webhooks" /\ IngressInit
     /\ OperationsBlank /\ kind = [e \in Effect |-> "filing"]
  \/ /\ part = "correlation" /\ OperationsBlank /\ kind = [e \in Effect |-> "filing"]
     /\ IngressIdle /\ what = [d \in Delivery |-> "opened"] /\ wired = TRUE
  \/ part \in {"directory", "sessions", "start"} /\ GitHubRests

Whichever == CHOOSE c \in Config : c.kind = "app" /\ ~c.extra /\ c.provider = Subscription

MCInit ==
  /\ part \in {"writes", "webhooks", "correlation", "directory", "sessions", "start"}
  /\ GitHubBegins
  /\ InstallationInit /\ (part # "directory" => home = "none")
  /\ ConfigurationInit /\ (part \notin {"sessions", "start"} => config = Whichever)

Changes(provider, extra, rotate) == [provider |-> provider, extra |-> extra, rotate |-> rotate]

Tasks == [none |-> {"init", "repair", "start"}, beside |-> {"repair", "start"}, apart |-> {"start"}]

SessionAsks == [sessions |-> {Changes(pa, FALSE, "none"), Changes(Nothing, FALSE, "planner")},
          start |-> {Changes(pa, FALSE, "none"), Changes(Subscription, FALSE, "none"),
                     Changes(Nothing, TRUE, "none"), Changes(Nothing, FALSE, "coder")}]

GitHubMoves ==
  \/ part = "writes" /\ OperationsNext /\ UNCHANGED ingressVars
  \/ part = "webhooks" /\ IngressNext
  \/ part = "correlation" /\ GitHubNext /\ fates' <= 2

MCNext ==
  /\ UNCHANGED part
  /\ \/ GitHubMoves /\ UNCHANGED <<installationVars, configurationVars>>
     \/ /\ part = "directory" /\ InstallationNext
        /\ \A c \in Invocation : task'[c] \in Tasks[home] \cup {"none"}
        /\ UNCHANGED <<allVars, configurationVars>>
     \/ /\ part \in {"sessions", "start"} /\ ConfigurationNext
        /\ \A s \in Session : change'[s] \in SessionAsks[part] \cup {Nothing}
        /\ IF part = "sessions" THEN booting' = "off" ELSE editing'[2] = "idle"
        /\ UNCHANGED <<allVars, installationVars>>

MCSpec == MCInit /\ [][MCNext]_mcVars /\ OperationsFairness /\ IngressFairness
=============================================================================
