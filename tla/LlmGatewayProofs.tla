-------------------------- MODULE LlmGatewayProofs --------------------------
(***************************************************************************)
(* Theorems about LlmGateway, for every finite set of callers, every set   *)
(* of providers and chains, and every threshold and number of probe slots. *)
(***************************************************************************)
EXTENDS LlmGateway, FiniteSetTheorems, TLAPS

(***************************************************************************)
(* A breaker between two operations.                                       *)
(***************************************************************************)
Sound(b) ==
    /\ b \in ProviderState
    /\ b.state = "closed" => b.failures < FailureThreshold
    /\ b.state # "half_open" => b.inFlight = 0

LEMMA NewProviderSound == Sound(NewProvider)
BY BreakerAssumption DEF Sound, NewProvider, ProviderState, CircuitState

LEMMA AdmittedSound ==
    ASSUME NEW b, Sound(b), ~Refuses(b)
    PROVE  /\ Sound(Admitted(b))
           /\ Admitted(b).state = "half_open" =>
                \/ b.state = "half_open" /\ Admitted(b).inFlight = b.inFlight + 1
                \/ b.state # "half_open" /\ Admitted(b).inFlight = 1
           /\ b.state = "closed" => Admitted(b) = b
<1> DEFINE a == [b EXCEPT !.state = "half_open", !.inFlight = @ + 1]
<1>1. CASE b.state = "closed"
  BY <1>1 DEF Admitted, Ready
<1>2. CASE b.state # "closed"
  <2>1. Admitted(b) = a
    <3>1. CASE b.state = "half_open"
      BY <3>1 DEF Admitted, Ready, Sound, ProviderState
    <3>2. CASE b.state = "open"
      BY <3>2 DEF Admitted, Ready, Refuses, ToHalfOpen, Sound, ProviderState
    <3> QED
      BY <1>2, <3>1, <3>2 DEF Sound, ProviderState, CircuitState
  <2>2. b.inFlight \in 0..HalfOpenMaxCalls /\ b.inFlight + 1 \in 0..HalfOpenMaxCalls
    BY <1>2, BreakerAssumption DEF Sound, Refuses, ProviderState, CircuitState
  <2>3. a \in ProviderState /\ a.state = "half_open" /\ a.inFlight = b.inFlight + 1
    BY <2>2 DEF Sound, ProviderState, CircuitState
  <2> QED
    BY <2>1, <2>2, <2>3, <1>2 DEF Sound
<1> QED
  BY <1>1, <1>2

\* A recorded result takes a breaker out of the half-open state.
LEMMA SucceededSound ==
    ASSUME NEW b, Sound(b)
    PROVE  /\ Sound(Succeeded(b)) /\ Succeeded(b).state # "half_open"
           /\ b.state = "closed" => Succeeded(b).state = "closed"
<1>1. CASE b.state = "half_open"
  BY <1>1, NewProviderSound DEF Succeeded, ToClosed, NewProvider
<1>2. CASE b.state # "half_open"
  <2> DEFINE s == [state |-> b.state, failures |-> 0, inFlight |-> 0, elapsed |-> b.elapsed]
  <2>1. Succeeded(b) = s
    BY <1>2 DEF Succeeded
  <2>3. s \in ProviderState /\ s.state = b.state /\ s.failures = 0 /\ s.inFlight = 0
    BY BreakerAssumption DEF Sound, ProviderState
  <2> QED
    BY <2>1, <2>3, <1>2, BreakerAssumption DEF Sound
<1> QED
  BY <1>1, <1>2

LEMMA FailedSound ==
    ASSUME NEW b, Sound(b), NEW transient \in BOOLEAN
    PROVE  Sound(Failed(b, transient)) /\ Failed(b, transient).state # "half_open"
<1> DEFINE n == Counted(b)
<1>0. \A x \in ProviderState : Sound(ToOpen(x)) /\ ToOpen(x).state = "open"
  <2> SUFFICES ASSUME NEW x \in ProviderState
               PROVE  Sound(ToOpen(x)) /\ ToOpen(x).state = "open"
    OBVIOUS
  <2>1. /\ ToOpen(x) \in ProviderState
        /\ ToOpen(x).state = "open" /\ ToOpen(x).inFlight = 0
    BY BreakerAssumption DEF ToOpen, ProviderState, CircuitState
  <2> QED
    BY <2>1 DEF Sound
<1>1. Sound(ToOpen(b)) /\ ToOpen(b).state = "open"
  BY <1>0 DEF Sound
<1>5. /\ n \in ProviderState /\ n.state = b.state /\ n.inFlight = b.inFlight
  <2>1. CASE b.failures < FailureThreshold
    BY <2>1, BreakerAssumption DEF Counted, Sound, ProviderState
  <2>2. CASE ~(b.failures < FailureThreshold)
    BY <2>2 DEF Counted, Sound
  <2> QED
    BY <2>1, <2>2
<1>2. CASE b.state = "half_open"
  BY <1>1, <1>2 DEF Failed
<1>3. CASE b.state # "half_open" /\ ~transient
  BY <1>3 DEF Failed
<1>4. CASE b.state # "half_open" /\ transient
  <2> HIDE DEF n
  <2>1. CASE b.state = "closed" /\ n.failures >= FailureThreshold
    BY <2>1, <1>0, <1>4, <1>5 DEF Failed, n
  <2>2. CASE ~(b.state = "closed" /\ n.failures >= FailureThreshold)
    <3>1. Failed(b, transient) = n
      BY <2>2, <1>4 DEF Failed, n
    <3>2. n.failures \in Nat
      BY <1>5, BreakerAssumption DEF ProviderState
    <3> QED
      BY <3>1, <3>2, <2>2, <1>4, <1>5, BreakerAssumption DEF Sound
  <2> QED
    BY <2>1, <2>2
<1> QED
  BY <1>2, <1>3, <1>4

(***************************************************************************)
(* The inductive invariant, in four parts.  It is TypeOK, TripsAtThreshold *)
(* and ProbeQuota, and what the steps need besides: a breaker that is not  *)
(* half-open has no probes.                                                *)
(***************************************************************************)
BreakerInv ==
    /\ breaker \in [Providers -> ProviderState]
    /\ \A p \in Providers : Sound(breaker[p])

GateInv == gate \in [Providers -> [samples : 0..MinSamples, demoted : Demotion]]

CallInv ==
    /\ call \in [Callers -> CallType]
    /\ \A c \in Callers : call[c].pc \in {"sent", "resent", "served"} => call[c].rest # <<>>

ProbeInv ==
    /\ probes \in [Providers -> SUBSET Callers]
    /\ \A p \in Providers : /\ breaker[p].state # "half_open" => probes[p] = {}
                            /\ Cardinality(probes[p]) <= breaker[p].inFlight

GatewayInv == BreakerInv /\ GateInv /\ CallInv /\ ProbeInv

LEMMA GatewayInvImplies == GatewayInv => TypeOK /\ TripsAtThreshold /\ ProbeQuota
BY DEF GatewayInv, BreakerInv, GateInv, CallInv, ProbeInv, Sound, ProviderState,
       TypeOK, TripsAtThreshold, ProbeQuota

LEMMA GatewayInit == Init => GatewayInv
<1> SUFFICES ASSUME Init PROVE GatewayInv
  OBVIOUS
<1>1. BreakerInv
  BY NewProviderSound DEF Init, BreakerInv, Sound
<1>2. GateInv
  BY GatewayAssumption DEF Init, GateInv, Demotion
<1>3. CallInv
  BY DEF Init, CallInv, CallType, NoCall, Pcs
<1>4. ProbeInv
  BY FS_EmptySet DEF Init, ProbeInv, NewProvider
<1> QED
  BY <1>1, <1>2, <1>3, <1>4 DEF GatewayInv

\* A breaker that has just recorded a result: it is not half-open.
LEMMA Settles ==
    ASSUME BreakerInv, ProbeInv, NEW p \in Providers, NEW b,
           Sound(b), b.state # "half_open", SetBreaker(p, b)
    PROVE  BreakerInv' /\ ProbeInv'
<1>1. b \in ProviderState /\ b.inFlight \in Nat
  BY BreakerAssumption DEF Sound, ProviderState
<1>2. BreakerInv'
  BY <1>1 DEF BreakerInv, SetBreaker
<1>3. /\ probes' = [probes EXCEPT ![p] = {}] /\ breaker' = [breaker EXCEPT ![p] = b]
      /\ Cardinality({}) = 0
  BY FS_EmptySet DEF SetBreaker
<1>4. ProbeInv'
  <2>1. probes' \in [Providers -> SUBSET Callers]
    BY <1>3 DEF ProbeInv
  <2>2. ASSUME NEW q \in Providers
        PROVE  /\ breaker'[q].state # "half_open" => probes'[q] = {}
               /\ Cardinality(probes'[q]) <= breaker'[q].inFlight
    <3>1. CASE q = p
      BY <3>1, <1>1, <1>3 DEF ProbeInv, BreakerInv
    <3>2. CASE q # p
      BY <3>2, <1>3 DEF ProbeInv, BreakerInv
    <3> QED
      BY <3>1, <3>2
  <2> QED
    BY <2>1, <2>2 DEF ProbeInv
<1> QED
  BY <1>2, <1>4

\* A call is let through: the new probe takes a slot of its own.
LEMMA Admits ==
    ASSUME BreakerInv, ProbeInv, NEW c \in Callers, Attempt(c) \in Providers, Admit(c)
    PROVE  BreakerInv' /\ ProbeInv'
<1> DEFINE p == Attempt(c)
           a == Admitted(breaker[p])
<1>1. Sound(breaker[p]) /\ ~Refuses(breaker[p]) /\ breaker' = [breaker EXCEPT ![p] = a]
  BY DEF Admit, BreakerInv
<1>2. probes' = [probes EXCEPT ![p] = IF a.state = "half_open" THEN @ \cup {c} ELSE @]
  BY DEF Admit
<1>3. /\ Sound(a) /\ a \in ProviderState /\ a.inFlight \in Nat /\ breaker[p].inFlight \in Nat
      /\ a.state = "half_open" =>
           \/ breaker[p].state = "half_open" /\ a.inFlight = breaker[p].inFlight + 1
           \/ breaker[p].state # "half_open" /\ a.inFlight = 1
  BY <1>1, AdmittedSound, BreakerAssumption DEF Sound, ProviderState
<1>4. BreakerInv'
  BY <1>1, <1>3 DEF BreakerInv
<1>5. IsFiniteSet(probes[p]) /\ probes[p] \subseteq Callers /\ Cardinality(probes[p]) \in Nat
  BY GatewayAssumption, FS_Subset, FS_CardinalityType DEF ProbeInv
<1>6. Cardinality(probes[p] \cup {c}) <= Cardinality(probes[p]) + 1
  <2>1. Cardinality(probes[p] \cup {c})
          = IF c \in probes[p] THEN Cardinality(probes[p]) ELSE Cardinality(probes[p]) + 1
    BY <1>5, FS_AddElement, Zenon
  <2> QED
    BY <2>1, <1>5
<1>7. Cardinality({}) = 0
  BY FS_EmptySet
<1>8. /\ probes'[p] \subseteq Callers
      /\ a.state # "half_open" => probes'[p] = {}
      /\ Cardinality(probes'[p]) <= a.inFlight
  <2>1. CASE a.state = "half_open" /\ breaker[p].state = "half_open"
    <3>1. probes'[p] = probes[p] \cup {c} /\ Cardinality(probes[p]) <= breaker[p].inFlight
      BY <2>1, <1>2 DEF ProbeInv
    <3>2. Cardinality(probes'[p]) <= a.inFlight
      <4>1. Cardinality(probes[p] \cup {c}) \in Nat
        BY <1>5, FS_AddElement
      <4> QED
        BY <4>1, <3>1, <1>3, <1>5, <1>6, <2>1
    <3> QED
      BY <3>1, <3>2, <2>1, <1>5
  <2>2. CASE a.state = "half_open" /\ breaker[p].state # "half_open"
    <3>1. probes[p] = {} /\ probes'[p] = {c}
      BY <2>2, <1>2 DEF ProbeInv
    <3>2. Cardinality({c}) = 1
      BY FS_Singleton
    <3> QED
      BY <3>1, <3>2, <1>3, <2>2
  <2>3. CASE a.state # "half_open"
    <3>1. breaker[p].state # "half_open"
      BY <2>3 DEF Admitted, Ready, ToHalfOpen
    <3> QED
      BY <3>1, <2>3, <1>2, <1>3, <1>7 DEF ProbeInv
  <2> QED
    BY <2>1, <2>2, <2>3
<1>9. ProbeInv'
  BY <1>1, <1>2, <1>8 DEF ProbeInv, BreakerInv
<1> QED
  BY <1>4, <1>9

\* A well-typed record in the place of a call.
LEMMA CallPut ==
    ASSUME CallInv, NEW c \in Callers, NEW x \in CallType,
           x.pc \in {"sent", "resent", "served"} => x.rest # <<>>,
           call' = [call EXCEPT ![c] = x]
    PROVE  CallInv'
BY DEF CallInv

\* The call moves to the next provider of its chain.
LEMMA Advances ==
    ASSUME CallInv, NEW c \in Callers, call[c].rest # <<>>, call' = Advance(c)
    PROVE  CallInv'
<1> DEFINE x == [ pc |-> "walk", chain |-> call[c].chain, rest |-> Tail(call[c].rest),
                  late |-> call[c].late, stages |-> 0 ]
<1>1. call[c] \in CallType
  BY DEF CallInv
<1>2. x \in CallType
  BY <1>1 DEF CallType, Pcs
<1>3. call' = [call EXCEPT ![c] = x]
  BY DEF Advance
<1> QED
  BY <1>2, <1>3, CallPut

LEMMA AttemptType ==
    ASSUME CallInv, NEW c \in Callers, call[c].rest # <<>>
    PROVE  Attempt(c) \in Providers
BY DEF CallInv, CallType, Attempt

LEMMA NoCallPut ==
    ASSUME CallInv, NEW c \in Callers, call' = [call EXCEPT ![c] = NoCall]
    PROVE  CallInv'
<1>1. NoCall \in CallType /\ NoCall.pc = "idle"
  BY DEF NoCall, CallType, Pcs
<1> QED
  BY <1>1, CallPut

\* Steps that leave the breakers alone, and steps that leave the gate alone.
LEMMA BreakersUnchanged ==
    ASSUME BreakerInv, ProbeInv, UNCHANGED <<breaker, probes>>
    PROVE  BreakerInv' /\ ProbeInv'
BY DEF BreakerInv, ProbeInv

LEMMA GateUnchanged == ASSUME GateInv, UNCHANGED gate PROVE GateInv'
BY DEF GateInv

LEMMA NextStages ==
    ASSUME CallInv, NEW c \in Callers, call[c].rest # <<>>, call[c].pc = "resent",
           call' = NextStage(c)
    PROVE  CallInv'
<1>1. CASE call[c].stages > 1
  <2> DEFINE x == [call[c] EXCEPT !.stages = @ - 1]
  <2>1. call[c] \in CallType
    BY DEF CallInv
  <2>2. x \in CallType /\ x.rest # <<>>
    BY <2>1, <1>1 DEF CallType
  <2>3. call' = [call EXCEPT ![c] = x]
    BY <1>1 DEF NextStage
  <2> QED
    BY <2>2, <2>3, CallPut
<1>2. CASE ~(call[c].stages > 1)
  BY <1>2, Advances DEF NextStage
<1> QED
  BY <1>1, <1>2

LEMMA GatewayStep == GatewayInv /\ [Next]_vars => GatewayInv'
<1> SUFFICES ASSUME GatewayInv, [Next]_vars PROVE GatewayInv'
  OBVIOUS
<1> USE DEF GatewayInv
<1>1. ASSUME NEW c \in Callers, StartCall(c) PROVE GatewayInv'
  <2>1. PICK chain \in Chains :
          call' = [call EXCEPT ![c] = [NoCall EXCEPT !.pc = "walk",
                                                     !.chain = chain, !.rest = chain]]
    BY <1>1 DEF StartCall
  <2> DEFINE y == [NoCall EXCEPT !.pc = "walk"]
           z == [y EXCEPT !.chain = chain]
           x == [z EXCEPT !.rest = chain]
  <2>2. chain \in Seq(Providers)
    BY GatewayAssumption
  <2>0. NoCall \in CallType
    BY DEF NoCall, CallType, Pcs
  <2>3. y \in CallType /\ y.pc = "walk"
    BY <2>0 DEF CallType, Pcs
  <2>4. z \in CallType /\ z.pc = "walk"
    BY <2>2, <2>3 DEF CallType
  <2>5. x \in CallType /\ x.pc = "walk"
    BY <2>2, <2>4 DEF CallType
  <2>a. BreakerInv' /\ ProbeInv'
    BY <1>1, BreakersUnchanged DEF StartCall
  <2>b. GateInv'
    BY <1>1, GateUnchanged DEF StartCall
  <2>c. CallInv'
    BY <2>1, <2>5, CallPut
  <2> QED
    BY <2>a, <2>b, <2>c
<1>2. ASSUME NEW c \in Callers, GiveUp(c) PROVE GatewayInv'
  <2>a. BreakerInv' /\ ProbeInv'
    BY <1>2, BreakersUnchanged DEF GiveUp
  <2>b. GateInv'
    BY <1>2, GateUnchanged DEF GiveUp
  <2>c. CallInv'
    BY <1>2, NoCallPut DEF GiveUp
  <2> QED
    BY <2>a, <2>b, <2>c
<1>3. ASSUME NEW c \in Callers, SkipOpen(c) PROVE GatewayInv'
  <2>1. call[c].rest # <<>>
    BY <1>3 DEF SkipOpen, Trying
  <2>a. BreakerInv' /\ ProbeInv'
    BY <1>3, BreakersUnchanged DEF SkipOpen
  <2>b. GateInv'
    BY <1>3, GateUnchanged DEF SkipOpen
  <2>c. CallInv'
    BY <1>3, <2>1, Advances DEF SkipOpen
  <2> QED
    BY <2>a, <2>b, <2>c
<1>4. ASSUME NEW c \in Callers, SkipDemoted(c) PROVE GatewayInv'
  <2>1. call[c].rest # <<>> /\ Attempt(c) \in Providers
    BY <1>4, AttemptType DEF SkipDemoted, Trying
  <2>a. BreakerInv' /\ ProbeInv'
    BY <1>4, <2>1, Admits DEF SkipDemoted
  <2>b. GateInv'
    BY <1>4, GateUnchanged DEF SkipDemoted
  <2>c. CallInv'
    BY <1>4, <2>1, Advances DEF SkipDemoted
  <2> QED
    BY <2>a, <2>b, <2>c
<1>5. ASSUME NEW c \in Callers, Send(c) PROVE GatewayInv'
  <2>1. call[c].rest # <<>> /\ Attempt(c) \in Providers
    BY <1>5, AttemptType DEF Send, Trying
  <2>a. BreakerInv' /\ ProbeInv'
    BY <1>5, <2>1, Admits DEF Send
  <2>2. gate[Attempt(c)] \in [samples : 0..MinSamples, demoted : Demotion]
    BY <2>1 DEF GateInv
  <2>3. Readmitted(gate[Attempt(c)]) \in [samples : 0..MinSamples, demoted : Demotion]
    BY <2>2 DEF Readmitted, Demotion
  <2>4. gate' = [gate EXCEPT ![Attempt(c)] = Readmitted(gate[Attempt(c)])]
    BY <1>5 DEF Send
  <2>b. GateInv'
    BY <2>1, <2>3, <2>4 DEF GateInv
  <2> DEFINE x == [call[c] EXCEPT !.pc = "sent"]
  <2>6. call[c] \in CallType
    BY DEF CallInv
  <2>8. x \in CallType /\ x.rest = call[c].rest
    BY <2>6 DEF CallType, Pcs
  <2>9. call' = [call EXCEPT ![c] = x]
    BY <1>5 DEF Send
  <2>c. CallInv'
    BY <2>1, <2>8, <2>9, CallPut
  <2> QED
    BY <2>a, <2>b, <2>c
<1>6. ASSUME NEW c \in Callers, Succeed(c) PROVE GatewayInv'
  <2>1. call[c].rest # <<>> /\ Attempt(c) \in Providers
    BY <1>6, AttemptType DEF Succeed, Sent, CallInv
  <2>2. Sound(breaker[Attempt(c)])
    BY <2>1 DEF BreakerInv
  <2>3. SetBreaker(Attempt(c), Succeeded(breaker[Attempt(c)]))
    BY <1>6 DEF Succeed
  <2>a. BreakerInv' /\ ProbeInv'
    BY <2>1, <2>2, <2>3, SucceededSound, Settles
  <2>b. GateInv'
    BY <1>6, GateUnchanged DEF Succeed
  <2> DEFINE x == [call[c] EXCEPT !.pc = "served"]
  <2>7. call[c] \in CallType
    BY DEF CallInv
  <2>8. x \in CallType /\ x.rest = call[c].rest
    BY <2>7, <1>6 DEF CallType, Pcs
  <2>9. call' = [call EXCEPT ![c] = x]
    BY <2>7, <1>6 DEF Succeed, CallType
  <2>c. CallInv'
    BY <2>8, <2>9, <2>1, CallPut
  <2> QED
    BY <2>a, <2>b, <2>c
<1>7. ASSUME NEW c \in Callers, FailToParse(c) PROVE GatewayInv'
  <2>1. call[c].rest # <<>> /\ Attempt(c) \in Providers
    BY <1>7, AttemptType DEF FailToParse, Sent, CallInv
  <2>2. Sound(breaker[Attempt(c)])
    BY <2>1 DEF BreakerInv
  <2>3. SetBreaker(Attempt(c), Failed(Succeeded(breaker[Attempt(c)]), TRUE))
    BY <1>7 DEF FailToParse
  <2>a. BreakerInv' /\ ProbeInv'
    BY <2>1, <2>2, <2>3, SucceededSound, FailedSound, Settles
  <2>b. GateInv'
    BY <1>7, GateUnchanged DEF FailToParse
  <2>c. CallInv'
    BY <1>7, <2>1, Advances DEF FailToParse
  <2> QED
    BY <2>a, <2>b, <2>c
<1>8. ASSUME NEW c \in Callers, FailTransiently(c) PROVE GatewayInv'
  <2>1. call[c].rest # <<>> /\ Attempt(c) \in Providers
    BY <1>8, AttemptType DEF FailTransiently, Sent, CallInv
  <2>2. Sound(breaker[Attempt(c)])
    BY <2>1 DEF BreakerInv
  <2>3. SetBreaker(Attempt(c), Failed(breaker[Attempt(c)], TRUE))
    BY <1>8 DEF FailTransiently
  <2>a. BreakerInv' /\ ProbeInv'
    BY <2>1, <2>2, <2>3, FailedSound, Settles
  <2>b. GateInv'
    BY <1>8, GateUnchanged DEF FailTransiently
  <2>c. CallInv'
    BY <1>8, <2>1, Advances DEF FailTransiently
  <2> QED
    BY <2>a, <2>b, <2>c
<1>9. ASSUME NEW c \in Callers, RejectCall(c) PROVE GatewayInv'
  <2>1. call[c].rest # <<>> /\ Attempt(c) \in Providers
    BY <1>9, AttemptType DEF RejectCall, Rejected, Sent, CallInv
  <2>2. Sound(breaker[Attempt(c)])
    BY <2>1 DEF BreakerInv
  <2>3. SetBreaker(Attempt(c), Failed(breaker[Attempt(c)], FALSE))
    BY <1>9 DEF RejectCall, Rejected
  <2>a. BreakerInv' /\ ProbeInv'
    BY <2>1, <2>2, <2>3, FailedSound, Settles
  <2>b. GateInv'
    BY <1>9, GateUnchanged DEF RejectCall, Rejected
  <2>c. CallInv'
    BY <1>9, <2>1, Advances DEF RejectCall
  <2> QED
    BY <2>a, <2>b, <2>c
<1>10. ASSUME NEW c \in Callers, RejectToolChoice(c) PROVE GatewayInv'
  <2>1. call[c].rest # <<>> /\ Attempt(c) \in Providers
    BY <1>10, AttemptType DEF RejectToolChoice, Rejected, Sent, CallInv
  <2>2. Sound(breaker[Attempt(c)])
    BY <2>1 DEF BreakerInv
  <2>3. SetBreaker(Attempt(c), Failed(breaker[Attempt(c)], FALSE))
    BY <1>10 DEF RejectToolChoice, Rejected
  <2>a. BreakerInv' /\ ProbeInv'
    BY <2>1, <2>2, <2>3, FailedSound, Settles
  <2>b. GateInv'
    BY <1>10, GateUnchanged DEF RejectToolChoice, Rejected
  <2>6. PICK n \in 1..2 : call' = [call EXCEPT ![c].pc = "resent", ![c].stages = n]
    BY <1>10 DEF RejectToolChoice
  <2> DEFINE x == [ pc |-> "resent", chain |-> call[c].chain, rest |-> call[c].rest, late |-> call[c].late, stages |-> n ]
  <2>7. call[c] \in CallType
    BY DEF CallInv
  <2>8. x \in CallType /\ x.rest = call[c].rest
    BY <2>7, <1>10, <2>6 DEF CallType, Pcs
  <2>9. call' = [call EXCEPT ![c] = x]
    BY <2>7, <1>10, <2>6 DEF RejectToolChoice, CallType
  <2>c. CallInv'
    BY <2>8, <2>9, <2>1, CallPut
  <2> QED
    BY <2>a, <2>b, <2>c
<1>11. ASSUME NEW c \in Callers, SucceedResent(c) PROVE GatewayInv'
  <2>1. call[c].rest # <<>> /\ Attempt(c) \in Providers
    BY <1>11, AttemptType DEF SucceedResent, Resent, CallInv
  <2>2. Sound(breaker[Attempt(c)])
    BY <2>1 DEF BreakerInv
  <2>3. SetBreaker(Attempt(c), Succeeded(breaker[Attempt(c)]))
    BY <1>11 DEF SucceedResent
  <2>a. BreakerInv' /\ ProbeInv'
    BY <2>1, <2>2, <2>3, SucceededSound, Settles
  <2>b. GateInv'
    BY <1>11, GateUnchanged DEF SucceedResent
  <2> DEFINE x == [call[c] EXCEPT !.pc = "served"]
  <2>7. call[c] \in CallType
    BY DEF CallInv
  <2>8. x \in CallType /\ x.rest = call[c].rest
    BY <2>7, <1>11 DEF CallType, Pcs
  <2>9. call' = [call EXCEPT ![c] = x]
    BY <2>7, <1>11 DEF SucceedResent, CallType
  <2>c. CallInv'
    BY <2>8, <2>9, <2>1, CallPut
  <2> QED
    BY <2>a, <2>b, <2>c
<1>12. ASSUME NEW c \in Callers, FailResent(c) PROVE GatewayInv'
  <2>1. call[c].rest # <<>>
    BY <1>12 DEF FailResent, Resent, CallInv
  <2>a. BreakerInv' /\ ProbeInv'
    BY <1>12, BreakersUnchanged DEF FailResent
  <2>b. GateInv'
    BY <1>12, GateUnchanged DEF FailResent
  <2>c. CallInv'
    BY <1>12, <2>1, NextStages DEF FailResent, Resent
  <2> QED
    BY <2>a, <2>b, <2>c
<1>13. ASSUME NEW c \in Callers, FailToParseResent(c) PROVE GatewayInv'
  <2>1. call[c].rest # <<>> /\ Attempt(c) \in Providers
    BY <1>13, AttemptType DEF FailToParseResent, Resent, CallInv
  <2>2. Sound(breaker[Attempt(c)])
    BY <2>1 DEF BreakerInv
  <2>3. SetBreaker(Attempt(c), Succeeded(breaker[Attempt(c)]))
    BY <1>13 DEF FailToParseResent
  <2>a. BreakerInv' /\ ProbeInv'
    BY <2>1, <2>2, <2>3, SucceededSound, Settles
  <2>b. GateInv'
    BY <1>13, GateUnchanged DEF FailToParseResent
  <2>c. CallInv'
    BY <1>13, <2>1, NextStages DEF FailToParseResent, Resent
  <2> QED
    BY <2>a, <2>b, <2>c
<1>14. ASSUME NEW c \in Callers, Return(c) PROVE GatewayInv'
  <2>1. call[c].rest # <<>> /\ Attempt(c) \in Providers
    BY <1>14, AttemptType DEF Return, CallInv
  <2>a. BreakerInv' /\ ProbeInv'
    BY <1>14, BreakersUnchanged DEF Return
  <2>2. PICK slow \in BOOLEAN :
          gate' = [gate EXCEPT ![Attempt(c)] = IF GateEnabled THEN Recorded(@, slow) ELSE @]
    BY <1>14 DEF Return
  <2>3. gate[Attempt(c)] \in [samples : 0..MinSamples, demoted : Demotion]
    BY <2>1 DEF GateInv
  <2>4. Recorded(gate[Attempt(c)], slow) \in [samples : 0..MinSamples, demoted : Demotion]
    BY <2>3, GatewayAssumption DEF Recorded, Demotion
  <2>b. GateInv'
    BY <2>1, <2>2, <2>3, <2>4 DEF GateInv
  <2>c. CallInv'
    BY <1>14, NoCallPut DEF Return
  <2> QED
    BY <2>a, <2>b, <2>c
<1>15. ASSUME NEW c \in Callers, DeadlinePasses(c) PROVE GatewayInv'
  <2>1. call[c].rest # <<>>
    BY <1>15 DEF DeadlinePasses, CallInv
  <2>a. BreakerInv' /\ ProbeInv'
    BY <1>15, BreakersUnchanged DEF DeadlinePasses
  <2>b. GateInv'
    BY <1>15, GateUnchanged DEF DeadlinePasses
  <2> DEFINE x == [call[c] EXCEPT !.late = TRUE]
  <2>7. call[c] \in CallType
    BY DEF CallInv
  <2>8. x \in CallType /\ x.rest = call[c].rest
    BY <2>7, <1>15 DEF CallType, Pcs
  <2>9. call' = [call EXCEPT ![c] = x]
    BY <2>7, <1>15 DEF DeadlinePasses, CallType
  <2>c. CallInv'
    BY <2>8, <2>9, <2>1, CallPut
  <2> QED
    BY <2>a, <2>b, <2>c
<1>16. ASSUME NEW p \in Providers, RecoveryElapses(p) PROVE GatewayInv'
  <2> DEFINE e == [breaker[p] EXCEPT !.elapsed = TRUE]
  <2>1. Sound(breaker[p]) /\ breaker[p] \in ProviderState
    BY DEF BreakerInv
  <2>2. Sound(e) /\ e.state = breaker[p].state /\ e.inFlight = breaker[p].inFlight
    BY <2>1 DEF Sound, ProviderState
  <2>3. breaker' = [breaker EXCEPT ![p] = e] /\ probes' = probes
    BY <1>16 DEF RecoveryElapses
  <2>4. BreakerInv'
    BY <2>2, <2>3 DEF BreakerInv, Sound
  <2>5. ProbeInv'
    BY <2>1, <2>2, <2>3 DEF ProbeInv, BreakerInv
  <2>a. BreakerInv' /\ ProbeInv'
    BY <2>4, <2>5
  <2>b. GateInv'
    BY <1>16, GateUnchanged DEF RecoveryElapses
  <2>c. CallInv'
    BY <1>16 DEF RecoveryElapses, CallInv
  <2> QED
    BY <2>a, <2>b, <2>c
<1>17. ASSUME NEW p \in Providers, CooldownElapses(p) PROVE GatewayInv'
  <2>a. BreakerInv' /\ ProbeInv'
    BY <1>17, BreakersUnchanged DEF CooldownElapses
  <2>1. gate[p] \in [samples : 0..MinSamples, demoted : Demotion]
    BY DEF GateInv
  <2>2. [gate[p] EXCEPT !.demoted = "cooled"] \in [samples : 0..MinSamples, demoted : Demotion]
    BY <2>1 DEF Demotion
  <2>3. gate' = [gate EXCEPT ![p] = [gate[p] EXCEPT !.demoted = "cooled"]]
    BY <1>17 DEF CooldownElapses
  <2>b. GateInv'
    BY <2>2, <2>3 DEF GateInv
  <2>c. CallInv'
    BY <1>17 DEF CooldownElapses, CallInv
  <2> QED
    BY <2>a, <2>b, <2>c
<1>18. CASE UNCHANGED vars
  BY <1>18 DEF vars, BreakerInv, GateInv, CallInv, ProbeInv
<1> QED
  BY <1>1, <1>2, <1>3, <1>4, <1>5, <1>6, <1>7, <1>8, <1>9, <1>10, <1>11, <1>12, <1>13, <1>14, <1>15, <1>16, <1>17, <1>18
     DEF Next, CallerStep, Walk, Answer

LEMMA GatewayInvariant == Spec => []GatewayInv
<1> QED
  BY GatewayInit, GatewayStep, PTL DEF Spec

\* The gateway's state keeps its type, whatever the providers answer and however
\* the calls interleave (LLMGateway._execute_with_fallback).
THEOREM GatewayTypeCorrect == Spec => []TypeOK
BY GatewayInvariant, GatewayInvImplies, PTL

\* A closed breaker is always below its threshold (CircuitBreaker.record_failure).
THEOREM ClosedBelowThreshold == Spec => []TripsAtThreshold
BY GatewayInvariant, GatewayInvImplies, PTL

\* A half-open era admits no more callers than it has probe slots
\* (CircuitBreaker.before_call).
THEOREM ProbesWithinQuota == Spec => []ProbeQuota
BY GatewayInvariant, GatewayInvImplies, PTL

-----------------------------------------------------------------------------
(***************************************************************************)
(* The fallback chain with the latency gate off: the breaker of a healthy  *)
(* provider never opens, and such a provider stays ahead of a call until   *)
(* the call is served by it.                                               *)
(***************************************************************************)
HealthyClosed == \A p \in Healthy : breaker[p].state = "closed"

HealthyAhead ==
    \A c \in Callers :
        /\ call[c].pc = "resent" => Attempt(c) \notin Healthy
        /\ call[c].pc # "idle" => Members(call[c].chain) \cap Healthy \subseteq Members(call[c].rest)

FallbackInv == GatewayInv /\ HealthyClosed /\ HealthyAhead

LEMMA EmptyChain == Members(<<>>) = {}
BY DEF Members

LEMMA TailKeeps ==
    ASSUME NEW s \in Seq(Providers), s # <<>>, NEW h \in Members(s), h # Head(s)
    PROVE  h \in Members(Tail(s))
<1>1. PICK i \in 1..Len(s) : h = s[i]
  BY DEF Members
<1>2. i # 1
  BY <1>1
<1>3. i - 1 \in 1..Len(Tail(s)) /\ Tail(s)[i - 1] = s[i]
  BY <1>1, <1>2
<1> QED
  BY <1>1, <1>3 DEF Members

\* A call that gives up a provider which may fail keeps the healthy ones ahead.
LEMMA PassesUnhealthy ==
    ASSUME CallInv, HealthyAhead, NEW c \in Callers, call[c].rest # <<>>,
           call[c].pc # "idle", Attempt(c) \notin Healthy, call' = Advance(c)
    PROVE  HealthyAhead'
<1> DEFINE x == [ pc |-> "walk", chain |-> call[c].chain, rest |-> Tail(call[c].rest),
                  late |-> call[c].late, stages |-> 0 ]
<1>1. call' = [call EXCEPT ![c] = x] /\ c \in DOMAIN call
  BY DEF Advance, CallInv
<1>2. call[c].rest \in Seq(Providers)
  BY DEF CallInv, CallType
<1>3. Members(call[c].chain) \cap Healthy \subseteq Members(Tail(call[c].rest))
  BY <1>2, TailKeeps DEF HealthyAhead, Attempt
<1>4. /\ call'[c].pc = "walk" /\ call'[c].chain = call[c].chain
      /\ call'[c].rest = Tail(call[c].rest)
      /\ \A d \in Callers \ {c} : call'[d] = call[d]
  BY <1>1 DEF CallInv
<1>5. ASSUME NEW d \in Callers
      PROVE  /\ call'[d].pc = "resent" => Head(call'[d].rest) \notin Healthy
             /\ call'[d].pc # "idle" =>
                    Members(call'[d].chain) \cap Healthy \subseteq Members(call'[d].rest)
  <2>1. CASE d = c
    BY <2>1, <1>3, <1>4
  <2>2. CASE d # c
    BY <2>2, <1>4 DEF HealthyAhead, Attempt
  <2> QED
    BY <2>1, <2>2
<1> QED
  BY <1>5 DEF HealthyAhead, Attempt

LEMMA OneBreaker ==
    ASSUME BreakerInv, HealthyClosed, NEW p \in Providers, NEW b, SetBreaker(p, b),
           p \in Healthy => b.state = "closed"
    PROVE  HealthyClosed'
BY GatewayAssumption DEF HealthyClosed, SetBreaker, BreakerInv

\* Another record in the place of a call that keeps chain and rest.
LEMMA SameRest ==
    ASSUME CallInv, HealthyAhead, NEW c \in Callers, call[c].pc # "idle",
           NEW x, call' = [call EXCEPT ![c] = x],
           x.chain = call[c].chain, x.rest = call[c].rest,
           x.pc = "resent" => Attempt(c) \notin Healthy
    PROVE  HealthyAhead'
<1>1. call'[c] = x /\ \A d \in Callers \ {c} : call'[d] = call[d]
  BY DEF CallInv
<1> QED
  BY <1>1 DEF HealthyAhead, Attempt

LEMMA BackToIdle ==
    ASSUME CallInv, HealthyAhead, NEW c \in Callers, call' = [call EXCEPT ![c] = NoCall]
    PROVE  HealthyAhead'
<1>1. call'[c] = NoCall /\ \A d \in Callers \ {c} : call'[d] = call[d]
  BY DEF CallInv
<1>2. NoCall.pc = "idle"
  BY DEF NoCall
<1> QED
  BY <1>1, <1>2 DEF HealthyAhead, Attempt

LEMMA StaysAhead ==
    ASSUME CallInv, HealthyAhead, NEW c \in Callers, call[c].rest # <<>>,
           call[c].pc = "resent", Attempt(c) \notin Healthy, call' = NextStage(c)
    PROVE  HealthyAhead'
<1>1. CASE call[c].stages > 1
  <2> DEFINE x == [call[c] EXCEPT !.stages = @ - 1]
  <2>1. x.chain = call[c].chain /\ x.rest = call[c].rest /\ x.pc = "resent"
    BY DEF CallInv, CallType
  <2>2. call' = [call EXCEPT ![c] = x]
    BY <1>1 DEF NextStage
  <2> QED
    BY <2>1, <2>2, SameRest
<1>2. CASE ~(call[c].stages > 1)
  BY <1>2, PassesUnhealthy DEF NextStage
<1> QED
  BY <1>1, <1>2

LEMMA FallbackInit == Init => FallbackInv
<1> SUFFICES ASSUME Init PROVE FallbackInv
  OBVIOUS
<1>1. HealthyClosed
  BY GatewayAssumption DEF Init, HealthyClosed, NewProvider
<1>2. HealthyAhead
  BY DEF Init, HealthyAhead, NoCall
<1> QED
  BY <1>1, <1>2, GatewayInit DEF FallbackInv

LEMMA FallbackStep ==
    ASSUME GateEnabled = FALSE, FallbackInv, [Next]_vars
    PROVE  FallbackInv'
<1> USE GatewayAssumption DEF FallbackInv, GatewayInv
<1>0. GatewayInv'
  BY GatewayStep
<1>1. ASSUME NEW c \in Callers, StartCall(c) PROVE HealthyClosed' /\ HealthyAhead'
  <2>1. PICK chain \in Chains :
          call' = [call EXCEPT ![c] = [NoCall EXCEPT !.pc = "walk",
                                                     !.chain = chain, !.rest = chain]]
    BY <1>1 DEF StartCall
  <2> DEFINE x == [NoCall EXCEPT !.pc = "walk", !.chain = chain, !.rest = chain]
  <2>2. x.pc = "walk" /\ x.chain = chain /\ x.rest = chain
    BY DEF NoCall
  <2>3. call'[c] = x /\ \A d \in Callers \ {c} : call'[d] = call[d]
    BY <2>1 DEF CallInv
  <2>a. HealthyClosed'
    BY <1>1 DEF StartCall, HealthyClosed
  <2>b. HealthyAhead'
    BY <2>2, <2>3 DEF HealthyAhead, Attempt
  <2> QED
    BY <2>a, <2>b
<1>2. ASSUME NEW c \in Callers, GiveUp(c) PROVE HealthyClosed' /\ HealthyAhead'
  <2>a. HealthyClosed'
    BY <1>2 DEF GiveUp, HealthyClosed
  <2>b. HealthyAhead'
    BY <1>2, BackToIdle DEF GiveUp
  <2> QED
    BY <2>a, <2>b
<1>3. ASSUME NEW c \in Callers, SkipOpen(c) PROVE HealthyClosed' /\ HealthyAhead'
  <2>1. call[c].rest # <<>> /\ call[c].pc = "walk"
    BY <1>3 DEF SkipOpen, Trying, Walking
  <2>2. Attempt(c) \notin Healthy
    BY <1>3 DEF SkipOpen, Refuses, HealthyClosed
  <2>a. HealthyClosed'
    BY <1>3 DEF SkipOpen, HealthyClosed
  <2>b. HealthyAhead'
    BY <1>3, <2>1, <2>2, PassesUnhealthy DEF SkipOpen
  <2> QED
    BY <2>a, <2>b
<1>4. ASSUME NEW c \in Callers, SkipDemoted(c) PROVE HealthyClosed' /\ HealthyAhead'
  <2>a. HealthyClosed'
    BY <1>4 DEF SkipDemoted, Demotes
  <2>b. HealthyAhead'
    BY <1>4 DEF SkipDemoted, Demotes
  <2> QED
    BY <2>a, <2>b
<1>5. ASSUME NEW c \in Callers, Send(c) PROVE HealthyClosed' /\ HealthyAhead'
  <2>1. call[c].rest # <<>> /\ call[c].pc = "walk" /\ Attempt(c) \in Providers
    BY <1>5, AttemptType DEF Send, Trying, Walking
  <2>2. Attempt(c) \in Healthy => Admitted(breaker[Attempt(c)]).state = "closed"
    BY DEF HealthyClosed, Admitted, Ready
  <2>3. breaker' = [breaker EXCEPT ![Attempt(c)] = Admitted(breaker[Attempt(c)])]
    BY <1>5 DEF Send, Admit
  <2> DEFINE x == [call[c] EXCEPT !.pc = "sent"]
  <2>4. x.chain = call[c].chain /\ x.rest = call[c].rest /\ x.pc = "sent"
    BY DEF CallInv, CallType
  <2>5. call' = [call EXCEPT ![c] = x]
    BY <1>5 DEF Send
  <2>a. HealthyClosed'
    BY <2>2, <2>3 DEF HealthyClosed, BreakerInv
  <2>b. HealthyAhead'
    BY <2>1, <2>4, <2>5, SameRest
  <2> QED
    BY <2>a, <2>b
<1>6. ASSUME NEW c \in Callers, Succeed(c) PROVE HealthyClosed' /\ HealthyAhead'
  <2>1. call[c].rest # <<>> /\ call[c].pc = "sent" /\ Attempt(c) \in Providers
    BY <1>6, AttemptType DEF Succeed, Sent, CallInv
  <2>2. Attempt(c) \in Healthy => Succeeded(breaker[Attempt(c)]).state = "closed"
    BY DEF HealthyClosed, Succeeded
  <2> DEFINE x == [call[c] EXCEPT !.pc = "served"]
  <2>4. x.chain = call[c].chain /\ x.rest = call[c].rest /\ x.pc = "served"
    BY DEF CallInv, CallType
  <2>5. call' = [call EXCEPT ![c] = x]
    BY <1>6 DEF Succeed
  <2>a. HealthyClosed'
    BY <1>6, <2>1, <2>2, OneBreaker DEF Succeed
  <2>b. HealthyAhead'
    BY <2>1, <2>4, <2>5, SameRest
  <2> QED
    BY <2>a, <2>b
<1>7. ASSUME NEW c \in Callers, FailToParse(c) PROVE HealthyClosed' /\ HealthyAhead'
  <2>1. call[c].rest # <<>> /\ call[c].pc = "sent" /\ Attempt(c) \in Providers
    BY <1>7, AttemptType DEF FailToParse, Sent, CallInv
  <2>2. Attempt(c) \notin Healthy
    BY <1>7 DEF FailToParse, MayFail
  <2>a. HealthyClosed'
    BY <1>7, <2>1, <2>2, OneBreaker DEF FailToParse
  <2>b. HealthyAhead'
    BY <1>7, <2>1, <2>2, PassesUnhealthy DEF FailToParse
  <2> QED
    BY <2>a, <2>b
<1>8. ASSUME NEW c \in Callers, FailTransiently(c) PROVE HealthyClosed' /\ HealthyAhead'
  <2>1. call[c].rest # <<>> /\ call[c].pc = "sent" /\ Attempt(c) \in Providers
    BY <1>8, AttemptType DEF FailTransiently, Sent, CallInv
  <2>2. Attempt(c) \notin Healthy
    BY <1>8 DEF FailTransiently, MayFail
  <2>a. HealthyClosed'
    BY <1>8, <2>1, <2>2, OneBreaker DEF FailTransiently
  <2>b. HealthyAhead'
    BY <1>8, <2>1, <2>2, PassesUnhealthy DEF FailTransiently
  <2> QED
    BY <2>a, <2>b
<1>9. ASSUME NEW c \in Callers, RejectCall(c) PROVE HealthyClosed' /\ HealthyAhead'
  <2>1. call[c].rest # <<>> /\ call[c].pc = "sent" /\ Attempt(c) \in Providers
    BY <1>9, AttemptType DEF RejectCall, Rejected, Sent, CallInv
  <2>2. Attempt(c) \notin Healthy
    BY <1>9 DEF RejectCall, Rejected, MayFail
  <2>a. HealthyClosed'
    BY <1>9, <2>1, <2>2, OneBreaker DEF RejectCall, Rejected
  <2>b. HealthyAhead'
    BY <1>9, <2>1, <2>2, PassesUnhealthy DEF RejectCall
  <2> QED
    BY <2>a, <2>b
<1>10. ASSUME NEW c \in Callers, RejectToolChoice(c) PROVE HealthyClosed' /\ HealthyAhead'
  <2>1. call[c].rest # <<>> /\ call[c].pc = "sent" /\ Attempt(c) \in Providers
    BY <1>10, AttemptType DEF RejectToolChoice, Rejected, Sent, CallInv
  <2>2. Attempt(c) \notin Healthy
    BY <1>10 DEF RejectToolChoice, Rejected, MayFail
  <2>3. PICK n \in 1..2 : call' = [call EXCEPT ![c].pc = "resent", ![c].stages = n]
    BY <1>10 DEF RejectToolChoice
  <2> DEFINE x == [call[c] EXCEPT !.pc = "resent", !.stages = n]
  <2>4. x.chain = call[c].chain /\ x.rest = call[c].rest /\ x.pc = "resent"
    BY DEF CallInv, CallType
  <2>5. call' = [call EXCEPT ![c] = x]
    BY <2>3
  <2>a. HealthyClosed'
    BY <1>10, <2>1, <2>2, OneBreaker DEF RejectToolChoice, Rejected
  <2>b. HealthyAhead'
    BY <2>1, <2>2, <2>4, <2>5, SameRest
  <2> QED
    BY <2>a, <2>b
<1>11. ASSUME NEW c \in Callers, SucceedResent(c) PROVE HealthyClosed' /\ HealthyAhead'
  <2>1. call[c].rest # <<>> /\ call[c].pc = "resent" /\ Attempt(c) \in Providers
    BY <1>11, AttemptType DEF SucceedResent, Resent, CallInv
  <2>2. Attempt(c) \notin Healthy
    BY <2>1 DEF HealthyAhead
  <2> DEFINE x == [call[c] EXCEPT !.pc = "served"]
  <2>4. x.chain = call[c].chain /\ x.rest = call[c].rest /\ x.pc = "served"
    BY DEF CallInv, CallType
  <2>5. call' = [call EXCEPT ![c] = x]
    BY <1>11 DEF SucceedResent
  <2>a. HealthyClosed'
    BY <1>11, <2>1, <2>2, OneBreaker DEF SucceedResent
  <2>b. HealthyAhead'
    BY <2>1, <2>4, <2>5, SameRest
  <2> QED
    BY <2>a, <2>b
<1>12. ASSUME NEW c \in Callers, FailResent(c) PROVE HealthyClosed' /\ HealthyAhead'
  <2>1. call[c].rest # <<>> /\ call[c].pc = "resent" /\ Attempt(c) \in Providers
    BY <1>12, AttemptType DEF FailResent, Resent, CallInv
  <2>2. Attempt(c) \notin Healthy
    BY <2>1 DEF HealthyAhead
  <2>a. HealthyClosed'
    BY <1>12 DEF FailResent, HealthyClosed
  <2>b. HealthyAhead'
    BY <1>12, <2>1, <2>2, StaysAhead DEF FailResent
  <2> QED
    BY <2>a, <2>b
<1>13. ASSUME NEW c \in Callers, FailToParseResent(c) PROVE HealthyClosed' /\ HealthyAhead'
  <2>1. call[c].rest # <<>> /\ call[c].pc = "resent" /\ Attempt(c) \in Providers
    BY <1>13, AttemptType DEF FailToParseResent, Resent, CallInv
  <2>2. Attempt(c) \notin Healthy
    BY <2>1 DEF HealthyAhead
  <2>a. HealthyClosed'
    BY <1>13, <2>1, <2>2, OneBreaker DEF FailToParseResent
  <2>b. HealthyAhead'
    BY <1>13, <2>1, <2>2, StaysAhead DEF FailToParseResent
  <2> QED
    BY <2>a, <2>b
<1>14. ASSUME NEW c \in Callers, Return(c) PROVE HealthyClosed' /\ HealthyAhead'
  <2>a. HealthyClosed'
    BY <1>14 DEF Return, HealthyClosed
  <2>b. HealthyAhead'
    BY <1>14, BackToIdle DEF Return
  <2> QED
    BY <2>a, <2>b
<1>15. ASSUME NEW c \in Callers, DeadlinePasses(c) PROVE HealthyClosed' /\ HealthyAhead'
  <2>1. call[c].pc # "idle" /\ (call[c].pc = "resent" => Attempt(c) \notin Healthy)
    BY <1>15 DEF DeadlinePasses, HealthyAhead
  <2> DEFINE x == [call[c] EXCEPT !.late = TRUE]
  <2>4. x.chain = call[c].chain /\ x.rest = call[c].rest /\ x.pc = call[c].pc
    BY DEF CallInv, CallType
  <2>5. call' = [call EXCEPT ![c] = x]
    BY <1>15 DEF DeadlinePasses
  <2>a. HealthyClosed'
    BY <1>15 DEF DeadlinePasses, HealthyClosed
  <2>b. HealthyAhead'
    BY <2>1, <2>4, <2>5, SameRest
  <2> QED
    BY <2>a, <2>b
<1>16. ASSUME NEW p \in Providers, RecoveryElapses(p) PROVE HealthyClosed' /\ HealthyAhead'
  <2>1. p \notin Healthy
    BY <1>16 DEF RecoveryElapses, HealthyClosed
  <2>2. \A q \in Healthy : breaker'[q] = breaker[q]
    BY <1>16, <2>1 DEF RecoveryElapses, BreakerInv
  <2>a. HealthyClosed'
    BY <2>2 DEF HealthyClosed
  <2>b. HealthyAhead'
    BY <1>16 DEF RecoveryElapses, HealthyAhead, Attempt
  <2> QED
    BY <2>a, <2>b
<1>17. ASSUME NEW p \in Providers, CooldownElapses(p) PROVE HealthyClosed' /\ HealthyAhead'
  <2>a. HealthyClosed'
    BY <1>17 DEF CooldownElapses, HealthyClosed
  <2>b. HealthyAhead'
    BY <1>17 DEF CooldownElapses, HealthyAhead, Attempt
  <2> QED
    BY <2>a, <2>b
<1>18. ASSUME UNCHANGED vars PROVE HealthyClosed' /\ HealthyAhead'
  BY <1>18 DEF vars, HealthyClosed, HealthyAhead, Attempt
<1>19. HealthyClosed' /\ HealthyAhead'
  BY <1>1, <1>2, <1>3, <1>4, <1>5, <1>6, <1>7, <1>8, <1>9, <1>10, <1>11, <1>12, <1>13, <1>14, <1>15, <1>16, <1>17, <1>18
     DEF Next, CallerStep, Walk, Answer
<1> QED
  BY <1>0, <1>19

\* With the latency gate off no call fails while a provider of its chain answers
\* everything: neither the failures of others nor the calls beside it take that
\* provider away from it (LLMGateway._execute_with_fallback).
THEOREM FallbackReachesHealthy ==
    ASSUME GateEnabled = FALSE
    PROVE  Spec => []FallbackServes
<1>1. Init => FallbackInv
  BY FallbackInit
<1>2. FallbackInv /\ [Next]_vars => FallbackInv'
  BY FallbackStep
<1>3. FallbackInv => FallbackServes
  BY EmptyChain DEF FallbackInv, HealthyAhead, FallbackServes
<1> QED
  BY <1>1, <1>2, <1>3, PTL DEF Spec
=============================================================================
