------------------------------ MODULE Services ------------------------------
(***************************************************************************)
(* The services around the agents, for one run of the checker: the         *)
(* approval of a yellow tool (ApprovalGate), the tiers in memory           *)
(* (AutonomyTiers), the inbox of a role (AgentMessaging), the streams of a *)
(* goal's progress (ProgressStream), the index of a conversation           *)
(* (RagIngestion), a Discord channel (DiscordWatch) and the scheduler      *)
(* (Scheduler).  They share no variable, so a behaviour is a behaviour of  *)
(* one of them and the product of their states is not explored.            *)
(***************************************************************************)
EXTENDS ApprovalGate, AutonomyTiers, AgentMessaging, ProgressStream, RagIngestion,
        DiscordWatch, Scheduler

VARIABLE part   \* the service this behaviour is about

Part == {"gate", "tiers", "messages", "stream", "index", "discord", "scheduler"}

\* What the parts other than p keep.
Others(p) ==
  /\ part = p /\ UNCHANGED part
  /\ p # "gate" => UNCHANGED vars
  /\ p # "tiers" => UNCHANGED tierVars
  /\ p # "messages" => UNCHANGED messageVars
  /\ p # "stream" => UNCHANGED streamVars
  /\ p # "index" => UNCHANGED ingestionVars
  /\ p # "discord" => UNCHANGED discordVars
  /\ p # "scheduler" => UNCHANGED schedulerVars

ServicesInit ==
  /\ part \in Part
  /\ Init /\ TierInit /\ MessageInit /\ StreamInit /\ IngestionInit /\ DiscordInit /\ SchedulerInit
  /\ part # "gate" => autonomous = {}
  /\ part # "tiers" => tier = "green"

ServicesNext ==
  \/ Others("gate") /\ Next
  \/ Others("tiers") /\ TierNext
  \/ Others("messages") /\ MessageNext
  \/ Others("stream") /\ StreamNext
  \/ Others("index") /\ IngestionNext
  \/ Others("discord") /\ DiscordNext
  \/ Others("scheduler") /\ SchedulerNext

\* The fairness of the gate's fair specification.
ServicesSpec ==
  /\ ServicesInit
  /\ [][ServicesNext]_<<part, vars, tierVars, messageVars, streamVars, ingestionVars,
                        discordVars, schedulerVars>>
  /\ \A c \in Call : /\ WF_vars(part = "gate" /\ Step(c)) /\ WF_vars(part = "gate" /\ BecomeDue(c))
                     /\ WF_vars(part = "gate" /\ BecomeOld(c))
                     /\ WF_vars(part = "gate" /\ SweepDeny(c))
  /\ WF_vars(part = "gate" /\ Sweep)
=============================================================================
