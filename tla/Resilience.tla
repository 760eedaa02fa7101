----------------------------- MODULE Resilience -----------------------------
(***************************************************************************)
(* The three circuit breakers for one run of the checker: of a role        *)
(* (SelfHealing), of a provider (ProviderBreaker), and of deployments      *)
(* (DeployBreaker).  They share no state, so a behaviour is a behaviour of *)
(* one of them and the product of their states is not explored.            *)
(***************************************************************************)
EXTENDS SelfHealing, ProviderBreaker, DeployBreaker

CONSTANTS p1, p2

\* A route through two providers and its reverse.
BothWays == {<<p1, p2>>, <<p2, p1>>}

VARIABLE part   \* what this behaviour is about

ResilienceInit ==
  /\ part \in {"role", "provider", "deploy"}
  /\ Init /\ ProviderInit /\ BreakerInit

ResilienceNext ==
  \/ part = "role" /\ Next /\ UNCHANGED <<part, providerVars, breakerVars>>
  \/ part = "provider" /\ ProviderNext /\ UNCHANGED <<part, vars, breakerVars>>
  \/ part = "deploy" /\ BreakerNext /\ UNCHANGED <<part, vars, providerVars>>

\* The fairness of each part's own fair specification.
ResilienceSpec ==
  /\ ResilienceInit /\ [][ResilienceNext]_<<part, vars, providerVars, breakerVars>>
  /\ WF_vars(part = "role" /\ CoolDown)
  /\ \A s \in Slot : WF_vars(part = "role" /\ (Succeed(s) \/ Fail(s)))
  /\ \A c \in Completion : WF_providerVars(part = "provider" /\ CompletionStep(c))
  /\ \A p \in Provider : WF_providerVars(part = "provider" /\ CircuitExpires(p))
  /\ \A chain \in Chains :
       SF_providerVars(part = "provider" /\ \E c \in Completion : StartCompletion(c, chain))
  /\ WF_breakerVars(part = "deploy" /\ WindowPasses)
  /\ \A l \in Looker : /\ WF_breakerVars(part = "deploy" /\ Look(l))
                       /\ WF_breakerVars(part = "deploy" /\ ResetExpired(l))
=============================================================================
