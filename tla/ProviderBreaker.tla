-------------------------- MODULE ProviderBreaker --------------------------
(***************************************************************************)
(* LlmRegistry.complete (packages/llm/src/registry.ts): a completion walks *)
(* its chain of providers, skips those whose circuit is open, tries one    *)
(* again after a transient error and falls back to the next.  Calls run at *)
(* once; what lies between two awaits of a call is one step.               *)
(*                                                                         *)
(* Time: "expired" is that openUntil has passed.  The failures in a row    *)
(* are compared with failureThreshold only, so they stop there.  Providers *)
(* without a key are never in a chain here; the ranking by cost and the    *)
(* cost limit make any order and any subset of the others.                 *)
(***************************************************************************)
EXTENDS Integers, Sequences, FiniteSets

CONSTANTS Provider,
          Chains,             \* the chains that routes, ranking and limit produce
          Completion,         \* calls of complete() that can be under way at once
          FailureThreshold,   \* failureThreshold
          HalfOpenMax,        \* halfOpenMaxRequests
          MaxOutages          \* bound: how often a provider goes down

ASSUME ProviderAssumption ==
  /\ Chains \subseteq Seq(Provider)
  /\ IsFiniteSet(Completion)
  /\ FailureThreshold \in Nat \ {0} /\ HalfOpenMax \in Nat \ {0}
  /\ MaxOutages \in Nat

VARIABLES circuit,    \* CircuitBreaker.state of each provider
          failures,   \* consecutiveFailures
          expired,
          probes,     \* halfOpenRequests
          asked,      \* the provider that each call awaits, with its attempt, or waits to retry
          rest,       \* what is left of the chain of each call
          down,       \* providers that answer with errors
          outages

providerVars == <<circuit, failures, expired, probes, asked, rest, down, outages>>

\* A call that is over has the answer of its last provider, or has thrown.
Over == [state |-> "over"]
Asking(p, attempt) == [state |-> "asking", provider |-> p, attempt |-> attempt]
Pausing(p) == [state |-> "pausing", provider |-> p]

ProviderTypeOK ==
  /\ circuit \in [Provider -> {"closed", "open", "half-open"}]
  /\ failures \in [Provider -> 0..FailureThreshold]
  /\ expired \in [Provider -> BOOLEAN]
  /\ probes \in [Provider -> 0..HalfOpenMax]
  /\ asked \in [Completion -> {Over}
                  \cup {Asking(p, attempt) : p \in Provider, attempt \in {0, 1}}
                  \cup {Pausing(p) : p \in Provider}]
  /\ rest \in [Completion -> Seq(Provider)]
  /\ down \in SUBSET Provider
  /\ outages \in 0..MaxOutages

ProviderInit ==
  /\ circuit = [p \in Provider |-> "closed"]
  /\ failures = [p \in Provider |-> 0]
  /\ expired = [p \in Provider |-> FALSE]
  /\ probes = [p \in Provider |-> 0]
  /\ asked = [c \in Completion |-> Over]
  /\ rest = [c \in Completion |-> <<>>]
  /\ down = {} /\ outages = 0

AwaitsProvider(p) == {c \in Completion : \E n \in {0, 1} : asked[c] = Asking(p, n)}

----------------------------------------------------------------------------
(* The walk along a chain, from the breakers as they are after the outcome *)
(* that led to it: the first provider whose circuit lets the call pass.    *)

\* isCircuitOpen
Skips(state, over, count, p) ==
  \/ state[p] = "open" /\ ~over[p]
  \/ state[p] = "half-open" /\ count[p] >= HalfOpenMax

\* The call goes to the first provider of the chain that is not skipped: an open
\* circuit goes half-open, and a half-open one counts the probe.  After the last
\* provider it throws, and the call is over.
WalkOn(c, chain, state, over, count) ==
  \/ /\ \A i \in DOMAIN chain : Skips(state, over, count, chain[i])
     /\ asked' = [asked EXCEPT ![c] = Over]
     /\ rest' = [rest EXCEPT ![c] = <<>>]
     /\ circuit' = state /\ expired' = over /\ probes' = count
  \/ \E i \in DOMAIN chain :
       LET p == chain[i] IN
       /\ ~Skips(state, over, count, p)
       /\ \A j \in 1..(i - 1) : Skips(state, over, count, chain[j])
       /\ asked' = [asked EXCEPT ![c] = Asking(p, 0)]
       /\ rest' = [rest EXCEPT ![c] = SubSeq(chain, i + 1, Len(chain))]
       /\ circuit' = [state EXCEPT ![p] = IF @ = "open" THEN "half-open" ELSE @]
       /\ probes' = [count EXCEPT ![p] = IF state[p] = "open" THEN 1
                                         ELSE IF state[p] = "half-open" THEN @ + 1 ELSE @]
       /\ expired' = over

StartCompletion(c, chain) ==
  /\ asked[c] = Over
  /\ WalkOn(c, chain, circuit, expired, probes)
  /\ UNCHANGED <<failures, down, outages>>

----------------------------------------------------------------------------
(* Outcomes.                                                               *)

\* recordSuccess, and the answer.
ProviderAnswers(c) ==
  \E p \in Provider \ down :
    /\ c \in AwaitsProvider(p)
    /\ circuit' = [circuit EXCEPT ![p] = "closed"]
    /\ failures' = [failures EXCEPT ![p] = 0]
    /\ probes' = [probes EXCEPT ![p] = 0]
    /\ asked' = [asked EXCEPT ![c] = Over]
    /\ rest' = [rest EXCEPT ![c] = <<>>]
    /\ UNCHANGED <<expired, down, outages>>

OneMoreFailure(p) == IF failures[p] < FailureThreshold THEN failures[p] + 1 ELSE failures[p]

\* Mutant: only the error that reaches the threshold opens the circuit.
OpensOnce(p) == failures[p] + 1 = FailureThreshold

\* recordError opens the circuit, or opens it anew.
Opens(p) == circuit[p] = "half-open" \/ OneMoreFailure(p) >= FailureThreshold

\* The states and timers of the circuits after recordError for p.
CircuitAfter(p) == [circuit EXCEPT ![p] = IF Opens(p) THEN "open" ELSE @]
ExpiredAfter(p) == [expired EXCEPT ![p] = IF Opens(p) THEN FALSE ELSE @]

\* A transient error of the first attempt: a pause, whatever the circuit says now.
ProviderBusy(c) ==
  \E p \in down :
    /\ asked[c] = Asking(p, 0)
    /\ failures' = [failures EXCEPT ![p] = OneMoreFailure(p)]
    /\ circuit' = CircuitAfter(p) /\ expired' = ExpiredAfter(p)
    /\ asked' = [asked EXCEPT ![c] = Pausing(p)]
    /\ UNCHANGED <<probes, rest, down, outages>>

\* The second attempt does not look at the circuit.
RetryProvider(c) ==
  \E p \in Provider :
    /\ asked[c] = Pausing(p)
    /\ asked' = [asked EXCEPT ![c] = Asking(p, 1)]
    /\ UNCHANGED <<circuit, failures, expired, probes, rest, down, outages>>

\* Any other error: recordError, then the next provider of the chain.
ProviderFails(c) ==
  \E p \in down :
    /\ c \in AwaitsProvider(p)
    /\ failures' = [failures EXCEPT ![p] = OneMoreFailure(p)]
    /\ WalkOn(c, rest[c], CircuitAfter(p), ExpiredAfter(p), probes)
    /\ UNCHANGED <<down, outages>>

----------------------------------------------------------------------------
(* The providers themselves, and time.                                     *)

CircuitExpires(p) ==
  /\ circuit[p] = "open" /\ ~expired[p]
  /\ expired' = [expired EXCEPT ![p] = TRUE]
  /\ UNCHANGED <<circuit, failures, probes, asked, rest, down, outages>>

GoesDown(p) ==
  /\ p \notin down /\ outages < MaxOutages
  /\ down' = down \cup {p} /\ outages' = outages + 1
  /\ UNCHANGED <<circuit, failures, expired, probes, asked, rest>>

ComesBack(p) ==
  /\ p \in down
  /\ down' = down \ {p}
  /\ UNCHANGED <<circuit, failures, expired, probes, asked, rest, outages>>

CompletionStep(c) == ProviderAnswers(c) \/ ProviderBusy(c) \/ RetryProvider(c) \/ ProviderFails(c)

ProviderNext ==
  \/ \E c \in Completion :
       CompletionStep(c) \/ \E chain \in Chains : StartCompletion(c, chain)
  \/ \E p \in Provider : CircuitExpires(p) \/ GoesDown(p) \/ ComesBack(p)

ProviderSpec == ProviderInit /\ [][ProviderNext]_providerVars

\* A provider answers in time or times out, time passes, and calls keep coming: of
\* every chain again and again while a call is free to take it.
ProviderFairSpec ==
  /\ ProviderSpec
  /\ \A c \in Completion : WF_providerVars(CompletionStep(c))
  /\ \A p \in Provider : WF_providerVars(CircuitExpires(p))
  /\ \A chain \in Chains : SF_providerVars(\E c \in Completion : StartCompletion(c, chain))

----------------------------------------------------------------------------
\* The circuit of a provider is closed exactly while its failures in a row are
\* below the threshold, whatever calls from before it opened end after it, and
\* whatever a second attempt does that was never admitted.
CircuitExact ==
  \A p \in Provider : circuit[p] = "closed" <=> failures[p] < FailureThreshold

\* Every probe that a half-open circuit has counted is still awaited, so a circuit
\* that lets nothing pass any more waits for an answer that will close or open it:
\* no order of late answers leaves it half-open with its probes used up.
ProbesUnderWay ==
  \A p \in Provider :
    circuit[p] = "half-open" =>
      probes[p] \in 1..HalfOpenMax /\ Cardinality(AwaitsProvider(p)) >= probes[p]

\* A provider that works again is used again, as long as calls come that would
\* try it first: its circuit does not stay open or half-open for ever.
CircuitCloses ==
  \A p \in Provider : (circuit[p] # "closed") ~> (circuit[p] = "closed" \/ p \in down)
=============================================================================
