-------------------------- MODULE ResilienceProofs --------------------------
(***************************************************************************)
(* The breakers of roles and of providers, for every number of executions, *)
(* calls, roles, providers and chains and every pair of thresholds.  Of a  *)
(* role: one whose breaker is closed is never skipped, and one whose       *)
(* breaker is half-open only while a test is under way.  Of a provider:    *)
(* its circuit is closed exactly while its errors are below the threshold, *)
(* and a half-open circuit awaits every probe it has counted.  Of the      *)
(* deployments: no pause is without a window that will end it.             *)
(***************************************************************************)
EXTENDS Resilience, FiniteSetTheorems, TLAPS

\* Both counts are natural numbers up to SkipAfter, the failures in a row are
\* no more than the breaker's count, and a closed breaker is below Threshold.
CountsAgree ==
  /\ TypeOK
  /\ consecutive <= failureCount
  /\ status = "closed" => failureCount < Threshold

\* Counting stops at SkipAfter.
LEMMA OneMoreBounded ==
  \A n \in 0..SkipAfter : OneMore(n) \in 0..SkipAfter /\ OneMore(n) >= n
  BY HealingAssumption DEF OneMore

\* Counting keeps the order of the two counts.
LEMMA OneMoreMonotone ==
  \A m, n \in 0..SkipAfter : m <= n => OneMore(m) <= OneMore(n)
  BY HealingAssumption DEF OneMore

\* The counts agree before the first execution.
LEMMA CountsInit == Init => CountsAgree
  <1> SUFFICES ASSUME Init PROVE CountsAgree
    OBVIOUS
  <1>1. cooled \in BOOLEAN
    BY Zenon DEF Init
  <1>2. QED
    BY <1>1, HealingAssumption DEF Init, CountsAgree, TypeOK

\* No check, outcome, loss or passing of time makes the counts disagree.
LEMMA CountsStep == CountsAgree /\ [Next]_vars => CountsAgree'
  <1> SUFFICES ASSUME CountsAgree, [Next]_vars PROVE CountsAgree'
    OBVIOUS
  <1> USE HealingAssumption DEF CountsAgree, TypeOK
  <1>1. ASSUME NEW s \in Slot, TryHalfOpen(s) PROVE CountsAgree'
    BY <1>1 DEF TryHalfOpen
  <1>2. ASSUME NEW s \in Slot, Proceed(s) PROVE CountsAgree'
    BY <1>2 DEF Proceed
  <1>3. ASSUME NEW s \in Slot, Succeed(s) PROVE CountsAgree'
    <2>1. execution' \in [Slot -> {"none", "normal", "test"}]
      BY <1>3 DEF Succeed, Finish
    <2>2. failureCount' \in 0..SkipAfter /\ consecutive' = 0 /\ failureCount' <= failureCount
      BY <1>3 DEF Succeed
    <2>3. status' = "closed" => failureCount' < Threshold
      BY <1>3 DEF Succeed
    <2>4. QED
      BY <1>3, <2>1, <2>2, <2>3 DEF Succeed
  <1>4. ASSUME NEW s \in Slot, Fail(s) PROVE CountsAgree'
    <2>1. execution' \in [Slot -> {"none", "normal", "test"}]
      BY <1>4 DEF Fail, Finish
    <2>2. /\ failureCount' \in 0..SkipAfter
          /\ consecutive' \in 0..SkipAfter
          /\ consecutive' <= failureCount'
      BY <1>4, OneMoreBounded, OneMoreMonotone DEF Fail
    <2>3. status' = "closed" => failureCount' < Threshold
      BY <1>4, <2>2 DEF Fail
    <2>4. QED
      BY <1>4, <2>1, <2>2, <2>3 DEF Fail
  <1>5. ASSUME NEW s \in Slot, Lose(s) PROVE CountsAgree'
    BY <1>5 DEF Lose, Finish
  <1>6. CASE CoolDown
    BY <1>6 DEF CoolDown
  <1>7. CASE UNCHANGED vars
    BY <1>7 DEF vars
  <1>8. QED
    BY <1>1, <1>2, <1>3, <1>4, <1>5, <1>6, <1>7 DEF Next, Check, Outcome

\* A closed breaker is below its threshold and never skips a task.
THEOREM ClosedMeansHealthyHolds == Spec => []ClosedMeansHealthy
  <1>1. CountsAgree => ClosedMeansHealthy
    BY HealingAssumption DEF CountsAgree, TypeOK, ClosedMeansHealthy, Admits
  <1>2. QED
    BY <1>1, CountsInit, CountsStep, PTL DEF Spec

\* Every variable keeps its type.
THEOREM TypeCorrect == Spec => []TypeOK
  BY CountsInit, CountsStep, PTL DEF Spec, CountsAgree

\* A half-open breaker that skips waits for a test that is under way, or for an
\* outcome that was never recorded.
THEOREM TestUnderWayHolds == Spec => []TestUnderWay
  <1>1. Init => TestUnderWay
    BY DEF Init, TestUnderWay
  <1>2. TypeOK /\ TestUnderWay /\ [Next]_vars => TestUnderWay'
    <2> SUFFICES ASSUME TypeOK, TestUnderWay, [Next]_vars,
                        status' = "half-open", ~Admits', ~(lost' > 0)
                 PROVE  \E s \in Slot : execution'[s] = "test"
      BY DEF TestUnderWay
    <2> USE HealingAssumption DEF TypeOK, TestUnderWay, Admits
    <2>1. ASSUME NEW s \in Slot, TryHalfOpen(s) PROVE execution'[s] = "test"
      BY <2>1 DEF TryHalfOpen
    <2>2. ASSUME NEW s \in Slot, Proceed(s) PROVE execution'[s] = "test"
      BY <2>2 DEF Proceed
    <2>3. ASSUME NEW s \in Slot, Succeed(s) \/ Fail(s) PROVE FALSE
      BY <2>3 DEF Succeed, Fail
    <2>4. ASSUME NEW s \in Slot, Lose(s) PROVE FALSE
      BY <2>4 DEF Lose
    <2>5. CASE CoolDown
      BY <2>5 DEF CoolDown
    <2>6. CASE UNCHANGED vars
      BY <2>6 DEF vars
    <2>7. QED
      BY <2>1, <2>2, <2>3, <2>4, <2>5, <2>6 DEF Next, Check, Outcome
  <1>3. QED
    BY <1>1, <1>2, TypeCorrect, PTL DEF Spec

-----------------------------------------------------------------------------
\* Providers.

CircuitStates == [Provider -> {"closed", "open", "half-open"}]
Answers == {Over} \cup {Asking(p, attempt) : p \in Provider, attempt \in {0, 1}}
             \cup {Pausing(p) : p \in Provider}

ProvidersTyped ==
  /\ circuit \in CircuitStates
  /\ failures \in [Provider -> 0..FailureThreshold]
  /\ probes \in [Provider -> 0..HalfOpenMax]
  /\ asked \in [Completion -> Answers]
  /\ rest \in [Completion -> Seq(Provider)]
  /\ down \in SUBSET Provider

CircuitInv == ProvidersTyped /\ CircuitExact

\* What a walk of c leaves: no circuit is closed by it and no closed one opened.
Walked(c, state) ==
  /\ circuit' \in CircuitStates
  /\ probes' \in [Provider -> 0..HalfOpenMax]
  /\ asked' \in [Completion -> Answers]
  /\ rest' \in [Completion -> Seq(Provider)]
  /\ \A p \in Provider : circuit'[p] = "closed" <=> state[p] = "closed"

\* Where a call can be.
LEMMA AnswersMade ==
  /\ Over \in Answers
  /\ \A p \in Provider : Pausing(p) \in Answers /\ Asking(p, 0) \in Answers /\ Asking(p, 1) \in Answers
  BY DEF Answers

\* A walk reaches the end of its chain, or one of the chain's providers.
LEMMA WalkKeepsClosed ==
  ASSUME ProvidersTyped, NEW c \in Completion, NEW chain \in Seq(Provider),
         NEW state \in CircuitStates, NEW over, WalkOn(c, chain, state, over, probes)
  PROVE  Walked(c, state)
  <1> USE ProviderAssumption DEF ProvidersTyped
  <1>1. ASSUME asked' = [asked EXCEPT ![c] = Over], rest' = [rest EXCEPT ![c] = <<>>],
               circuit' = state, probes' = probes
        PROVE  Walked(c, state)
    <2>1. asked' \in [Completion -> Answers]
      BY <1>1, AnswersMade
    <2>2. <<>> \in Seq(Provider)
      OBVIOUS
    <2>3. rest' \in [Completion -> Seq(Provider)]
      BY <1>1, <2>2
    <2>4. QED
      BY <1>1, <2>1, <2>3 DEF Walked
  <1>2. ASSUME NEW i \in DOMAIN chain, NEW p \in Provider, p = chain[i],
               ~Skips(state, over, probes, p),
               asked' = [asked EXCEPT ![c] = Asking(p, 0)],
               rest' = [rest EXCEPT ![c] = SubSeq(chain, i + 1, Len(chain))],
               circuit' = [state EXCEPT ![p] = IF @ = "open" THEN "half-open" ELSE @],
               probes' = [probes EXCEPT ![p] = IF state[p] = "open" THEN 1
                                               ELSE IF state[p] = "half-open" THEN @ + 1 ELSE @]
        PROVE  Walked(c, state)
    <2>1. asked' \in [Completion -> Answers]
      BY <1>2, AnswersMade
    <2>2. SubSeq(chain, i + 1, Len(chain)) \in Seq(Provider)
      BY <1>2
    <2>3. rest' \in [Completion -> Seq(Provider)]
      BY <1>2, <2>2
    <2>4. state[p] = "half-open" => probes[p] < HalfOpenMax
      BY <1>2 DEF Skips
    <2>5. probes' \in [Provider -> 0..HalfOpenMax]
      BY <1>2, <2>4
    <2>6. circuit' \in CircuitStates /\ \A q \in Provider : circuit'[q] = "closed" <=> state[q] = "closed"
      BY <1>2 DEF CircuitStates
    <2>7. QED
      BY <2>1, <2>3, <2>5, <2>6 DEF Walked
  <1>3. ASSUME NEW i \in DOMAIN chain, NEW p, p = chain[i] PROVE p \in Provider
    BY <1>3
  <1>4. CASE \E i \in DOMAIN chain : \E p \in {chain[i]} :
          /\ ~Skips(state, over, probes, p)
          /\ asked' = [asked EXCEPT ![c] = Asking(p, 0)]
          /\ rest' = [rest EXCEPT ![c] = SubSeq(chain, i + 1, Len(chain))]
          /\ circuit' = [state EXCEPT ![p] = IF @ = "open" THEN "half-open" ELSE @]
          /\ probes' = [probes EXCEPT ![p] = IF state[p] = "open" THEN 1
                                             ELSE IF state[p] = "half-open" THEN @ + 1 ELSE @]
    BY <1>2, <1>3, <1>4
  <1>5. QED
    BY <1>1, <1>4 DEF WalkOn

\* recordError counts one more failure and opens the circuit at the threshold.
LEMMA ErrorIsExact ==
  ASSUME CircuitInv, NEW p \in Provider, failures' = [failures EXCEPT ![p] = OneMoreFailure(p)]
  PROVE  /\ CircuitAfter(p) \in CircuitStates
         /\ failures' \in [Provider -> 0..FailureThreshold]
         /\ \A q \in Provider : CircuitAfter(p)[q] = "closed" <=> failures'[q] < FailureThreshold
         /\ CircuitAfter(p)[p] # "half-open"
         /\ \A q \in Provider \ {p} : CircuitAfter(p)[q] = circuit[q]
  <1> USE ProviderAssumption DEF CircuitInv, ProvidersTyped, CircuitExact, CircuitStates
  <1>1. OneMoreFailure(p) \in 0..FailureThreshold
        /\ OneMoreFailure(p) = (IF failures[p] < FailureThreshold THEN failures[p] + 1 ELSE failures[p])
    BY DEF OneMoreFailure
  <1>2. /\ failures' \in [Provider -> 0..FailureThreshold] /\ failures'[p] = OneMoreFailure(p)
        /\ \A q \in Provider \ {p} : failures'[q] = failures[q]
    BY <1>1
  <1>3. /\ CircuitAfter(p) \in CircuitStates
        /\ CircuitAfter(p)[p] = IF Opens(p) THEN "open" ELSE circuit[p]
        /\ \A q \in Provider \ {p} : CircuitAfter(p)[q] = circuit[q]
    BY DEF CircuitAfter
  <1>4. /\ CircuitAfter(p)[p] = "closed" <=> failures'[p] < FailureThreshold
        /\ CircuitAfter(p)[p] # "half-open"
    BY <1>1, <1>2, <1>3 DEF Opens
  <1>5. QED
    BY <1>2, <1>3, <1>4

\* Outcomes of calls and time keep the circuits exact.
LEMMA CircuitStep == CircuitInv /\ [ProviderNext]_providerVars => CircuitInv'
  <1> SUFFICES ASSUME CircuitInv, [ProviderNext]_providerVars PROVE CircuitInv'
    OBVIOUS
  <1>0. ProvidersTyped /\ CircuitExact
    BY DEF CircuitInv
  <1> USE ProviderAssumption
  <1>1. ASSUME NEW c \in Completion, NEW chain \in Chains, StartCompletion(c, chain) PROVE CircuitInv'
    <2>1. WalkOn(c, chain, circuit, expired, probes) /\ UNCHANGED <<failures, down, outages>>
      BY <1>1 DEF StartCompletion
    <2>2. chain \in Seq(Provider) /\ circuit \in CircuitStates
      BY <1>0 DEF ProvidersTyped
    <2>3. Walked(c, circuit)
      BY <1>0, <2>1, <2>2, WalkKeepsClosed
    <2>4. QED
      BY <1>0, <2>1, <2>3 DEF Walked, CircuitInv, ProvidersTyped, CircuitExact
  <1>2. ASSUME NEW c \in Completion, ProviderAnswers(c) PROVE CircuitInv'
    <2>1. PICK p \in Provider :
            /\ circuit' = [circuit EXCEPT ![p] = "closed"] /\ failures' = [failures EXCEPT ![p] = 0]
            /\ probes' = [probes EXCEPT ![p] = 0] /\ asked' = [asked EXCEPT ![c] = Over]
            /\ rest' = [rest EXCEPT ![c] = <<>>] /\ UNCHANGED down
      BY <1>2 DEF ProviderAnswers
    <2>2. rest' \in [Completion -> Seq(Provider)] /\ asked' \in [Completion -> Answers]
      BY <1>0, <2>1, AnswersMade DEF ProvidersTyped
    <2>3. QED
      BY <1>0, <2>1, <2>2 DEF CircuitInv, ProvidersTyped, CircuitExact, CircuitStates
  <1>3. ASSUME NEW c \in Completion, ProviderBusy(c) PROVE CircuitInv'
    <2>1. PICK p \in Provider :
            /\ failures' = [failures EXCEPT ![p] = OneMoreFailure(p)]
            /\ circuit' = CircuitAfter(p) /\ asked' = [asked EXCEPT ![c] = Pausing(p)]
            /\ UNCHANGED <<probes, rest, down>>
      BY <1>0, <1>3 DEF ProviderBusy, ProvidersTyped
    <2>2. asked' \in [Completion -> Answers]
      BY <1>0, <2>1, AnswersMade DEF ProvidersTyped
    <2>3. QED
      BY <1>0, <2>1, <2>2, ErrorIsExact DEF CircuitInv, ProvidersTyped, CircuitExact
  <1>4. ASSUME NEW c \in Completion, RetryProvider(c) PROVE CircuitInv'
    <2>1. PICK p \in Provider : asked' = [asked EXCEPT ![c] = Asking(p, 1)]
      BY <1>4 DEF RetryProvider
    <2>2. asked' \in [Completion -> Answers]
      BY <1>0, <2>1, AnswersMade DEF ProvidersTyped
    <2>3. UNCHANGED <<circuit, failures, probes, rest, down>>
      BY <1>4 DEF RetryProvider
    <2>4. QED
      BY <1>0, <2>2, <2>3 DEF CircuitInv, ProvidersTyped, CircuitExact
  <1>5. ASSUME NEW c \in Completion, ProviderFails(c) PROVE CircuitInv'
    <2>1. PICK p \in Provider :
            /\ failures' = [failures EXCEPT ![p] = OneMoreFailure(p)]
            /\ WalkOn(c, rest[c], CircuitAfter(p), ExpiredAfter(p), probes)
            /\ UNCHANGED down
      BY <1>0, <1>5 DEF ProviderFails, ProvidersTyped
    <2>2. rest[c] \in Seq(Provider) /\ CircuitAfter(p) \in CircuitStates
      BY <1>0, <2>1, ErrorIsExact DEF ProvidersTyped
    <2>3. Walked(c, CircuitAfter(p))
      BY <1>0, <2>1, <2>2, WalkKeepsClosed
    <2>4. QED
      BY <1>0, <2>1, <2>3, ErrorIsExact DEF Walked, CircuitInv, ProvidersTyped, CircuitExact
  <1>6. ASSUME NEW p \in Provider, CircuitExpires(p) \/ GoesDown(p) \/ ComesBack(p) PROVE CircuitInv'
    <2>1. UNCHANGED <<circuit, failures, probes, asked, rest>> /\ down' \in SUBSET Provider
      BY <1>0, <1>6 DEF CircuitExpires, GoesDown, ComesBack, ProvidersTyped
    <2>2. QED
      BY <1>0, <2>1 DEF CircuitInv, ProvidersTyped, CircuitExact
  <1>7. CASE UNCHANGED providerVars
    BY <1>0, <1>7 DEF providerVars, CircuitInv, ProvidersTyped, CircuitExact
  <1>8. QED
    BY <1>1, <1>2, <1>3, <1>4, <1>5, <1>6, <1>7 DEF ProviderNext, CompletionStep

\* Every circuit is closed before the first call.
LEMMA CircuitInitial == ProviderInit => CircuitInv
  <1> SUFFICES ASSUME ProviderInit PROVE CircuitInv
    OBVIOUS
  <1>1. rest \in [Completion -> Seq(Provider)] /\ asked \in [Completion -> Answers]
    BY DEF ProviderInit, Answers
  <1>2. QED
    BY <1>1, ProviderAssumption DEF ProviderInit, CircuitInv, ProvidersTyped, CircuitExact, CircuitStates

\* The circuit of a provider is closed exactly while its errors in a row are below
\* the threshold (recordSuccess and recordError), whenever late calls end.
THEOREM CircuitExactHolds == ProviderSpec => []CircuitExact
  BY CircuitInitial, CircuitStep, PTL DEF ProviderSpec, CircuitInv

\* A call awaits one provider, and none while it is over or pauses.
LEMMA AnswersDiffer ==
  \A p, q, m, n : /\ Asking(p, m) = Asking(q, n) => p = q
                  /\ Asking(p, m) # Over /\ Asking(p, m) # Pausing(q)
  <1> SUFFICES ASSUME NEW p, NEW q, NEW m, NEW n
               PROVE  /\ Asking(p, m) = Asking(q, n) => p = q
                      /\ Asking(p, m) # Over /\ Asking(p, m) # Pausing(q)
    OBVIOUS
  <1>1. /\ Asking(p, m).state = "asking" /\ Over.state = "over" /\ Pausing(q).state = "pausing"
        /\ Asking(p, m).provider = p /\ Asking(q, n).provider = q
    BY DEF Asking, Over, Pausing
  <1>2. QED
    BY <1>1

\* Where one call moves, the others go on waiting for what they await.
LEMMA OthersAwait ==
  ASSUME ProvidersTyped, NEW c \in Completion, NEW answer, asked' = [asked EXCEPT ![c] = answer],
         NEW r \in Provider
  PROVE  /\ AwaitsProvider(r) \ {c} \subseteq AwaitsProvider(r)'
         /\ answer = Asking(r, 0) => AwaitsProvider(r)' = (AwaitsProvider(r) \ {c}) \cup {c}
         /\ IsFiniteSet(AwaitsProvider(r)) /\ IsFiniteSet(AwaitsProvider(r)')
  <1>1. asked'[c] = answer /\ \A a \in Completion \ {c} : asked'[a] = asked[a]
    BY DEF ProvidersTyped
  <1>2. AwaitsProvider(r) \subseteq Completion /\ AwaitsProvider(r)' \subseteq Completion
    BY DEF AwaitsProvider
  <1>3. IsFiniteSet(AwaitsProvider(r)) /\ IsFiniteSet(AwaitsProvider(r)')
    BY <1>2, FS_Subset, ProviderAssumption
  <1>4. QED
    BY <1>1, <1>3 DEF AwaitsProvider

\* A walk that ends at a half-open circuit adds itself to those that are awaited.
LEMMA WalkKeepsProbes ==
  ASSUME ProvidersTyped, NEW c \in Completion, NEW chain \in Seq(Provider),
         NEW state \in CircuitStates, NEW over, WalkOn(c, chain, state, over, probes),
         \A r \in Provider : state[r] = "half-open" =>
           probes[r] >= 1 /\ Cardinality(AwaitsProvider(r) \ {c}) >= probes[r]
  PROVE  ProbesUnderWay'
  <1> USE ProviderAssumption
  <1>1. Walked(c, state)
    BY WalkKeepsClosed
  <1> SUFFICES ASSUME NEW r \in Provider, circuit'[r] = "half-open"
               PROVE  probes'[r] \in 1..HalfOpenMax /\ Cardinality(AwaitsProvider(r)') >= probes'[r]
    BY DEF ProbesUnderWay
  <1>2. probes'[r] \in 0..HalfOpenMax /\ probes[r] \in 0..HalfOpenMax
    BY <1>1 DEF Walked, ProvidersTyped
  <1>3. ASSUME NEW answer, asked' = [asked EXCEPT ![c] = answer]
        PROVE  /\ IsFiniteSet(AwaitsProvider(r) \ {c})
               /\ Cardinality(AwaitsProvider(r) \ {c}) \in Nat /\ Cardinality(AwaitsProvider(r)') \in Nat
               /\ Cardinality(AwaitsProvider(r) \ {c}) <= Cardinality(AwaitsProvider(r)')
    <2>1. /\ AwaitsProvider(r) \ {c} \subseteq AwaitsProvider(r)'
          /\ IsFiniteSet(AwaitsProvider(r)) /\ IsFiniteSet(AwaitsProvider(r)')
      BY <1>3, OthersAwait
    <2>2. QED
      BY <2>1, FS_Subset, FS_CardinalityType
  <1>4. ASSUME state[r] = "half-open", probes'[r] = probes[r],
               NEW answer, asked' = [asked EXCEPT ![c] = answer]
        PROVE  probes'[r] \in 1..HalfOpenMax /\ Cardinality(AwaitsProvider(r)') >= probes'[r]
    <2>1. probes[r] >= 1 /\ Cardinality(AwaitsProvider(r) \ {c}) >= probes[r]
      BY <1>4
    <2>2. /\ Cardinality(AwaitsProvider(r) \ {c}) \in Nat /\ Cardinality(AwaitsProvider(r)') \in Nat
          /\ Cardinality(AwaitsProvider(r) \ {c}) <= Cardinality(AwaitsProvider(r)')
      BY <1>3, <1>4
    <2>3. QED
      BY <1>2, <1>4, <2>1, <2>2
  <1>5. CASE asked' = [asked EXCEPT ![c] = Over] /\ circuit' = state /\ probes' = probes
    BY <1>4, <1>5
  <1>6. ASSUME NEW p \in Provider, asked' = [asked EXCEPT ![c] = Asking(p, 0)],
               circuit' = [state EXCEPT ![p] = IF @ = "open" THEN "half-open" ELSE @],
               probes' = [probes EXCEPT ![p] = IF state[p] = "open" THEN 1
                                               ELSE IF state[p] = "half-open" THEN @ + 1 ELSE @]
        PROVE  probes'[r] \in 1..HalfOpenMax /\ Cardinality(AwaitsProvider(r)') >= probes'[r]
    <2>1. CASE r # p
      <3>1. state[r] = "half-open" /\ probes'[r] = probes[r]
        BY <1>6, <2>1 DEF ProvidersTyped, CircuitStates
      <3>2. QED
        BY <1>4, <1>6, <3>1
    <2>2. CASE r = p
      <3>1. Cardinality(AwaitsProvider(r)') = Cardinality(AwaitsProvider(r) \ {c}) + 1
        <4>1. AwaitsProvider(r)' = (AwaitsProvider(r) \ {c}) \cup {c} /\ IsFiniteSet(AwaitsProvider(r) \ {c})
          BY <1>3, <1>6, <2>2, OthersAwait
        <4>2. c \notin AwaitsProvider(r) \ {c}
          OBVIOUS
        <4>3. QED
          BY <4>1, <4>2, FS_AddElement
      <3>2. \/ state[r] = "open" /\ probes'[r] = 1
            \/ state[r] = "half-open" /\ probes'[r] = probes[r] + 1
        BY <1>6, <2>2 DEF ProvidersTyped, CircuitStates
      <3>3. Cardinality(AwaitsProvider(r) \ {c}) \in Nat
        BY <1>3, <1>6
      <3>4. QED
        BY <1>2, <3>1, <3>2, <3>3
    <2>3. QED
      BY <2>1, <2>2
  <1>7. ASSUME NEW i \in DOMAIN chain, NEW p, p = chain[i] PROVE p \in Provider
    BY <1>7
  <1>8. CASE \E i \in DOMAIN chain : \E p \in {chain[i]} :
          /\ asked' = [asked EXCEPT ![c] = Asking(p, 0)]
          /\ circuit' = [state EXCEPT ![p] = IF @ = "open" THEN "half-open" ELSE @]
          /\ probes' = [probes EXCEPT ![p] = IF state[p] = "open" THEN 1
                                             ELSE IF state[p] = "half-open" THEN @ + 1 ELSE @]
    BY <1>6, <1>7, <1>8
  <1>9. QED
    BY <1>5, <1>8 DEF WalkOn

\* A circuit that is still half-open awaits what it awaited, if nobody who was
\* awaited has moved on.
LEMMA StillAwaited ==
  ASSUME ProvidersTyped, ProbesUnderWay, UNCHANGED probes,
         NEW c \in Completion, NEW answer, asked' = [asked EXCEPT ![c] = answer],
         \A r \in Provider : circuit'[r] = "half-open" =>
           circuit[r] = "half-open" /\ c \notin AwaitsProvider(r)
  PROVE  ProbesUnderWay'
  <1> SUFFICES ASSUME NEW r \in Provider, circuit'[r] = "half-open"
               PROVE  probes[r] \in 1..HalfOpenMax /\ Cardinality(AwaitsProvider(r)') >= probes[r]
    BY DEF ProbesUnderWay
  <1>1. probes[r] \in 1..HalfOpenMax /\ Cardinality(AwaitsProvider(r)) >= probes[r]
    BY DEF ProbesUnderWay
  <1>2. AwaitsProvider(r) \subseteq AwaitsProvider(r)' /\ IsFiniteSet(AwaitsProvider(r)')
    <2>1. AwaitsProvider(r) \ {c} \subseteq AwaitsProvider(r)' /\ IsFiniteSet(AwaitsProvider(r)')
      BY OthersAwait
    <2>2. QED
      BY <2>1
  <1>3. /\ Cardinality(AwaitsProvider(r)) <= Cardinality(AwaitsProvider(r)')
        /\ Cardinality(AwaitsProvider(r)) \in Nat /\ Cardinality(AwaitsProvider(r)') \in Nat
    BY <1>2, FS_Subset, FS_CardinalityType
  <1>4. QED
    BY <1>1, <1>3, ProviderAssumption

\* No outcome takes a call off a half-open circuit without closing or opening it.
LEMMA ProbesStep == CircuitInv /\ ProbesUnderWay /\ [ProviderNext]_providerVars => ProbesUnderWay'
  <1> SUFFICES ASSUME CircuitInv, ProbesUnderWay, [ProviderNext]_providerVars PROVE ProbesUnderWay'
    OBVIOUS
  <1>0. ProvidersTyped
    BY DEF CircuitInv
  <1> USE ProviderAssumption
  <1>a. ASSUME NEW c \in Completion, NEW p \in Provider, c \in AwaitsProvider(p),
               NEW r \in Provider \ {p}
        PROVE  c \notin AwaitsProvider(r)
    BY <1>a, AnswersDiffer DEF AwaitsProvider
  <1>b. \A r \in Provider : circuit[r] = "half-open" =>
          probes[r] >= 1 /\ Cardinality(AwaitsProvider(r)) >= probes[r]
    BY DEF ProbesUnderWay
  <1>1. ASSUME NEW c \in Completion, NEW chain \in Chains, StartCompletion(c, chain)
        PROVE  ProbesUnderWay'
    <2>1. asked[c] = Over /\ WalkOn(c, chain, circuit, expired, probes)
      BY <1>1 DEF StartCompletion
    <2>2. \A r \in Provider : AwaitsProvider(r) \ {c} = AwaitsProvider(r)
      BY <2>1, AnswersDiffer DEF AwaitsProvider
    <2>3. chain \in Seq(Provider) /\ circuit \in CircuitStates
      BY <1>0 DEF ProvidersTyped
    <2>4. \A r \in Provider : circuit[r] = "half-open" =>
            probes[r] >= 1 /\ Cardinality(AwaitsProvider(r) \ {c}) >= probes[r]
      BY <1>b, <2>2
    <2>5. QED
      BY <1>0, <2>1, <2>3, <2>4, WalkKeepsProbes
  <1>2. ASSUME NEW c \in Completion, ProviderAnswers(c) PROVE ProbesUnderWay'
    <2>1. PICK p \in Provider :
            /\ c \in AwaitsProvider(p) /\ circuit' = [circuit EXCEPT ![p] = "closed"]
            /\ probes' = [probes EXCEPT ![p] = 0] /\ asked' = [asked EXCEPT ![c] = Over]
      BY <1>2 DEF ProviderAnswers
    <2> SUFFICES ASSUME NEW r \in Provider, circuit'[r] = "half-open"
                 PROVE  probes'[r] \in 1..HalfOpenMax /\ Cardinality(AwaitsProvider(r)') >= probes'[r]
      BY DEF ProbesUnderWay
    <2>2. r # p /\ circuit[r] = "half-open" /\ probes'[r] = probes[r]
      BY <1>0, <2>1 DEF ProvidersTyped, CircuitStates
    <2>3. AwaitsProvider(r) \subseteq AwaitsProvider(r)' /\ IsFiniteSet(AwaitsProvider(r)')
      <3>1. c \notin AwaitsProvider(r)
        BY <1>a, <2>1, <2>2
      <3>2. AwaitsProvider(r) \ {c} \subseteq AwaitsProvider(r)' /\ IsFiniteSet(AwaitsProvider(r)')
        BY <1>0, <2>1, OthersAwait
      <3>3. QED
        BY <3>1, <3>2
    <2>4. /\ Cardinality(AwaitsProvider(r)) <= Cardinality(AwaitsProvider(r)')
          /\ Cardinality(AwaitsProvider(r)) \in Nat /\ Cardinality(AwaitsProvider(r)') \in Nat
      BY <2>3, FS_Subset, FS_CardinalityType
    <2>5. probes[r] \in 1..HalfOpenMax /\ Cardinality(AwaitsProvider(r)) >= probes[r]
      BY <2>2 DEF ProbesUnderWay
    <2>6. QED
      BY <2>2, <2>4, <2>5
  <1>3. ASSUME NEW c \in Completion, ProviderBusy(c) PROVE ProbesUnderWay'
    <2>1. PICK p \in Provider :
            /\ asked[c] = Asking(p, 0) /\ asked' = [asked EXCEPT ![c] = Pausing(p)]
            /\ failures' = [failures EXCEPT ![p] = OneMoreFailure(p)]
            /\ circuit' = CircuitAfter(p) /\ UNCHANGED probes
      BY <1>0, <1>3 DEF ProviderBusy, ProvidersTyped
    <2>2. c \in AwaitsProvider(p)
      BY <2>1 DEF AwaitsProvider
    <2>3. \A r \in Provider : circuit'[r] = "half-open" => r # p /\ circuit[r] = "half-open"
      BY <2>1, ErrorIsExact
    <2>4. QED
      BY <1>0, <1>a, <2>1, <2>2, <2>3, StillAwaited
  <1>4. ASSUME NEW c \in Completion, RetryProvider(c) PROVE ProbesUnderWay'
    <2>1. PICK p \in Provider :
            /\ asked[c] = Pausing(p) /\ asked' = [asked EXCEPT ![c] = Asking(p, 1)]
            /\ UNCHANGED <<circuit, probes>>
      BY <1>4 DEF RetryProvider
    <2>2. \A r \in Provider : c \notin AwaitsProvider(r)
      BY <2>1, AnswersDiffer DEF AwaitsProvider
    <2>3. QED
      BY <1>0, <2>1, <2>2, StillAwaited
  <1>5. ASSUME NEW c \in Completion, ProviderFails(c) PROVE ProbesUnderWay'
    <2>1. PICK p \in Provider :
            /\ c \in AwaitsProvider(p) /\ failures' = [failures EXCEPT ![p] = OneMoreFailure(p)]
            /\ WalkOn(c, rest[c], CircuitAfter(p), ExpiredAfter(p), probes)
      BY <1>0, <1>5 DEF ProviderFails, ProvidersTyped
    <2>2. rest[c] \in Seq(Provider) /\ CircuitAfter(p) \in CircuitStates
      BY <1>0, <2>1, ErrorIsExact DEF ProvidersTyped
    <2>3. ASSUME NEW r \in Provider, CircuitAfter(p)[r] = "half-open"
          PROVE  probes[r] >= 1 /\ Cardinality(AwaitsProvider(r) \ {c}) >= probes[r]
      <3>1. r # p /\ circuit[r] = "half-open"
        BY <2>1, <2>3, ErrorIsExact
      <3>2. AwaitsProvider(r) \ {c} = AwaitsProvider(r)
        BY <1>a, <2>1, <3>1
      <3>3. QED
        BY <1>b, <3>1, <3>2
    <2>4. QED
      BY <1>0, <2>1, <2>2, <2>3, WalkKeepsProbes
  <1>6. ASSUME NEW p \in Provider, CircuitExpires(p) \/ GoesDown(p) \/ ComesBack(p)
        PROVE  ProbesUnderWay'
    BY <1>6 DEF CircuitExpires, GoesDown, ComesBack, ProbesUnderWay, AwaitsProvider
  <1>7. CASE UNCHANGED providerVars
    BY <1>7 DEF providerVars, ProbesUnderWay, AwaitsProvider
  <1>8. QED
    BY <1>1, <1>2, <1>3, <1>4, <1>5, <1>6, <1>7 DEF ProviderNext, CompletionStep

\* Every probe a half-open circuit has counted is awaited, so that one which lets
\* nothing pass waits for an answer (isCircuitOpen and the counting of its probes).
THEOREM ProbesUnderWayHolds == ProviderSpec => []ProbesUnderWay
  <1>1. ProviderInit => ProbesUnderWay
    BY DEF ProviderInit, ProbesUnderWay
  <1>2. QED
    BY <1>1, CircuitInitial, CircuitStep, ProbesStep, PTL DEF ProviderSpec

-----------------------------------------------------------------------------\* Deployments: the breaker that pauses them.

Readings == [count : 0..PauseAt, paused : BOOLEAN, old : BOOLEAN, read : BOOLEAN]

PauseInv ==
  /\ deployFailures \in 0..PauseAt /\ isPaused \in BOOLEAN /\ windowOld \in BOOLEAN
  /\ readings \in [Recorder -> Readings]
  /\ PauseHasWindow

\* A write leaves a pause with a window, however stale what it read.
LEMMA WriteKeepsWindow ==
  ASSUME PauseInv, NEW r \in Recorder, WriteCount(r)
  PROVE  PauseInv'
  <1> USE DEF PauseInv, PauseHasWindow, PauseAt, Readings, NotRead
  <1>1. readings[r] \in Readings
    OBVIOUS
  <1>2. readings' \in [Recorder -> Readings]
    BY DEF WriteCount, Forget
  <1> DEFINE was == readings[r]
             count == IF was.old THEN 1 ELSE IF was.count < 3 THEN was.count + 1 ELSE 3
  <1>3. was.count \in 0..3 /\ was.paused \in BOOLEAN /\ was.old \in BOOLEAN
    BY <1>1
  <1>4. /\ deployFailures' = count
        /\ isPaused' = (was.paused \/ count >= 3)
        /\ windowOld' = (windowOld /\ ~was.old /\ was.count > 0)
    BY DEF WriteCount
  <1> HIDE DEF was
  <1>5. count \in 1..3
    BY <1>3
  <1> HIDE DEF count
  <1>6. isPaused' \in BOOLEAN /\ windowOld' \in BOOLEAN
    BY <1>4, Zenon
  <1>7. count >= 3 => isPaused'
    BY <1>4, Zenon
  <1>8. QED
    BY <1>2, <1>4, <1>5, <1>6, <1>7

\* Reading, and the death of the server with what it has read, are harmless.
LEMMA ReadingsKeepWindow ==
  ASSUME PauseInv, UNCHANGED pauseVars,
         UNCHANGED readings \/ readings' = [r \in Recorder |-> NotRead]
           \/ \E r \in Recorder : ReadCount(r)
  PROVE  PauseInv'
  <1> USE DEF PauseInv, PauseHasWindow, PauseAt, Readings
  <1>1. CASE UNCHANGED readings
    BY <1>1 DEF pauseVars
  <1>2. CASE readings' = [r \in Recorder |-> NotRead]
    BY <1>2 DEF pauseVars, NotRead
  <1>3. ASSUME NEW r \in Recorder, ReadCount(r) PROVE PauseInv'
    <2>1. [count |-> deployFailures, paused |-> isPaused, old |-> windowOld, read |-> TRUE] \in Readings
      OBVIOUS
    <2>2. readings' \in [Recorder -> Readings]
      BY <1>3, <2>1 DEF ReadCount
    <2>3. QED
      BY <2>2 DEF pauseVars
  <1>4. QED
    BY <1>1, <1>2, <1>3
\* So is a reset.
LEMMA ResetKeepsWindow ==
  ASSUME PauseInv, ResetBreaker, UNCHANGED readings
  PROVE  PauseInv'
  <1>1. deployFailures' = 0 /\ ~isPaused' /\ isPaused' \in BOOLEAN /\ windowOld' \in BOOLEAN
    BY Zenon DEF ResetBreaker
  <1>2. QED
    BY <1>1 DEF PauseInv, PauseHasWindow, PauseAt

\* No failure, look, reset, passing of time or death leaves the invariant.
LEMMA PauseStep == PauseInv /\ [BreakerNext]_breakerVars => PauseInv'
  <1> SUFFICES ASSUME PauseInv, [BreakerNext]_breakerVars PROVE PauseInv'
    OBVIOUS
  <1>1. ASSUME NEW r \in Recorder, ReadCount(r) PROVE PauseInv'
    BY <1>1, ReadingsKeepWindow DEF ReadCount
  <1>2. ASSUME NEW r \in Recorder, WriteCount(r) PROVE PauseInv'
    BY <1>2, WriteKeepsWindow
  <1>3. ASSUME NEW r \in Recorder, WriteFails(r) PROVE PauseInv'
    BY <1>3 DEF WriteFails, Forget, NotRead, PauseInv, PauseHasWindow, Readings, pauseVars, PauseAt
  <1>4. ASSUME NEW l \in Looker, Look(l) PROVE PauseInv'
    BY <1>4, ReadingsKeepWindow DEF Look
  <1>5. ASSUME NEW l \in Looker, ResetExpired(l) PROVE PauseInv'
    BY <1>5, ResetKeepsWindow, ReadingsKeepWindow DEF ResetExpired
  <1>6. CASE Resume
    BY <1>6, ResetKeepsWindow DEF Resume
  <1>7. CASE WindowPasses
    BY <1>7 DEF WindowPasses, PauseInv, PauseHasWindow
  <1>8. CASE DieDeploying
    BY <1>8, ReadingsKeepWindow DEF DieDeploying
  <1>9. CASE UNCHANGED breakerVars
    BY <1>9, ReadingsKeepWindow DEF breakerVars
  <1>10. QED
    BY <1>1, <1>2, <1>3, <1>4, <1>5, <1>6, <1>7, <1>8, <1>9 DEF BreakerNext

\* A pause never outlives its window for want of one: a paused breaker has counted a
\* failure, whatever was reset or counted between the reading and the writing.
THEOREM PauseHasWindowHolds == BreakerSpec => []PauseHasWindow
  <1>1. BreakerInit => PauseInv
    <2> SUFFICES ASSUME BreakerInit PROVE PauseInv
      OBVIOUS
    <2>1. NotRead \in Readings
      BY DEF NotRead, Readings, PauseAt
    <2>2. readings \in [Recorder -> Readings]
      BY <2>1 DEF BreakerInit
    <2>3. deployFailures = 0 /\ ~isPaused /\ isPaused \in BOOLEAN /\ windowOld \in BOOLEAN
      BY Zenon DEF BreakerInit
    <2>4. QED
      BY <2>2, <2>3 DEF PauseInv, PauseHasWindow, PauseAt
  <1>2. QED
    BY <1>1, PauseStep, PTL DEF BreakerSpec, PauseInv

-----------------------------------------------------------------------------
\* The steps of one breaker are steps of all three, of which two stand still, so
\* what was proved of each holds in every behaviour of the specification that the
\* runs check, without bounds.
THEOREM PartsAreFaithful == ResilienceSpec => Spec /\ ProviderSpec /\ BreakerSpec
  <1>1. ResilienceInit => Init /\ ProviderInit /\ BreakerInit
    BY DEF ResilienceInit
  <1>2. [ResilienceNext]_<<part, vars, providerVars, breakerVars>> =>
          [Next]_vars /\ [ProviderNext]_providerVars /\ [BreakerNext]_breakerVars
    BY DEF ResilienceNext
  <1>3. QED
    BY <1>1, <1>2, PTL DEF ResilienceSpec, Spec, ProviderSpec, BreakerSpec

\* The invariants that the run of the breakers checks hold for every instance.
THEOREM BreakersSound ==
  ResilienceSpec => [](ClosedMeansHealthy /\ TestUnderWay /\ ProbesUnderWay)
  BY PartsAreFaithful, ClosedMeansHealthyHolds, TestUnderWayHolds, ProbesUnderWayHolds, PTL
=============================================================================
