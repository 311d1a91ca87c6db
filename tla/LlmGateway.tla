----------------------------- MODULE LlmGateway -----------------------------
(***************************************************************************)
(* LLMGateway._execute_with_fallback (llm/gateway.py): concurrent model    *)
(* calls through one gateway, each walking its fallback chain, gated per   *)
(* provider by the circuit breaker (module CircuitBreaker) and the latency *)
(* gate (llm/latency_gate.py).                                             *)
(*                                                                         *)
(* A gateway is built per run, and its callers are the coroutines that     *)
(* share it: parallel sub-agents and the members of an abatch.  They are   *)
(* scheduled by one asyncio event loop, so a caller that is walking its    *)
(* chain runs until it awaits the provider: `Loop(c)' keeps the others     *)
(* waiting.  What happens inside _retry_call (tenacity's attempts, rate    *)
(* pacing, the hard timeout) is one wait that ends in an answer.           *)
(***************************************************************************)
EXTENDS CircuitBreaker, Sequences, FiniteSets

CONSTANTS
    Providers,
    Callers,
    Chains,         \* the chains of providers calls are made with
    Healthy,        \* providers that answer every call
    GateEnabled,    \* latency_gate_enabled
    MinSamples,     \* latency_gate_min_samples
    MasterBudget    \* request_total_timeout > 0

ASSUME GatewayAssumption ==
    /\ Chains \subseteq Seq(Providers)
    /\ Healthy \subseteq Providers
    /\ GateEnabled \in BOOLEAN
    /\ MinSamples \in Nat \ {0}
    /\ MasterBudget \in BOOLEAN
    /\ IsFiniteSet(Callers)

VARIABLES
    breaker,    \* [Providers -> ProviderState]
    gate,       \* [Providers -> latency bookkeeping]
    call,       \* [Callers -> the call in progress]
    probes      \* history: callers admitted since the provider turned half-open

vars == <<breaker, gate, call, probes>>

-----------------------------------------------------------------------------
(***************************************************************************)
(* The latency gate.  The moving average is abstracted to whether it is    *)
(* above the threshold when a latency is recorded, demoted_until to        *)
(* whether the cooldown is still running.  Samples past the minimum make   *)
(* no difference.                                                          *)
(***************************************************************************)
Demotion == {"none", "cooling", "cooled"}

Demotes(p) == GateEnabled /\ gate[p].demoted = "cooling"

\* LatencyGate.before_call, when it does not raise: a demotion whose cooldown
\* is over is lifted.
Readmitted(g) == [g EXCEPT !.demoted = "none"]

\* LatencyGate.record_call.  A call that was sent before the demotion can
\* still be recorded during it.
Recorded(g, slow) ==
    LET n == IF g.samples < MinSamples THEN g.samples + 1 ELSE g.samples
    IN  [ samples |-> n,
          demoted |-> IF g.demoted = "none" /\ n >= MinSamples /\ slow
                      THEN "cooling" ELSE g.demoted ]

-----------------------------------------------------------------------------
(***************************************************************************)
(* Calls.  `chain' is the filtered fallback chain, `rest' what of it is    *)
(* left to try; its head is attempt_provider.  `late' says that            *)
(* chain_deadline has passed, `stages' counts the same-provider retries    *)
(* left after a tool_choice conflict.                                      *)
(***************************************************************************)
Pcs == {"idle", "walk", "sent", "resent", "served"}

NoCall == [ pc |-> "idle", chain |-> <<>>, rest |-> <<>>, late |-> FALSE,
            stages |-> 0 ]

Attempt(c) == Head(call[c].rest)

\* The next model of the chain, or the RuntimeError at its end.
Advance(c) ==
    [call EXCEPT ![c] = [ pc |-> "walk", chain |-> @.chain, rest |-> Tail(@.rest),
                          late |-> @.late, stages |-> 0 ]]

\* No other caller is between two awaits.
Loop(c) == \A d \in Callers \ {c} : call[d].pc # "walk"

\* The breaker of provider p becomes b.  Who was admitted as a probe matters
\* only while the provider stays half-open.
SetBreaker(p, b) ==
    /\ breaker' = [breaker EXCEPT ![p] = b]
    /\ probes' = [probes EXCEPT ![p] = IF b.state = "half_open" THEN @ ELSE {}]

Init ==
    /\ breaker = [p \in Providers |-> NewProvider]
    /\ gate = [p \in Providers |-> [samples |-> 0, demoted |-> "none"]]
    /\ call = [c \in Callers |-> NoCall]
    /\ probes = [p \in Providers |-> {}]

\* acompletion reaches _execute_with_fallback with some chain.
StartCall(c) ==
    /\ call[c].pc = "idle" /\ Loop(c)
    /\ \E chain \in Chains :
          call' = [call EXCEPT ![c] = [NoCall EXCEPT !.pc = "walk",
                                                     !.chain = chain, !.rest = chain]]
    /\ UNCHANGED <<breaker, gate, probes>>

(***************************************************************************)
(* One turn of the loop over the chain, up to the await of _retry_call.    *)
(***************************************************************************)
Walking(c) == call[c].pc = "walk" /\ Loop(c)

\* The chain is exhausted, or the master budget over: RuntimeError.
GiveUp(c) ==
    /\ Walking(c)
    /\ call[c].rest = <<>> \/ call[c].late
    /\ call' = [call EXCEPT ![c] = NoCall]
    /\ UNCHANGED <<breaker, gate, probes>>

Trying(c) == Walking(c) /\ call[c].rest # <<>> /\ ~call[c].late

\* an open provider ends the walk
M_SkipOpen(c) ==
    /\ Trying(c) /\ Refuses(breaker[Attempt(c)])
    /\ call' = [call EXCEPT ![c].rest = <<>>]
    /\ UNCHANGED <<breaker, gate, probes>>

\* CircuitBreakerOpenError
SkipOpen(c) ==
    /\ Trying(c) /\ Refuses(breaker[Attempt(c)])
    /\ call' = Advance(c)
    /\ UNCHANGED <<breaker, gate, probes>>

\* The breaker lets the attempt through and counts it if it is a probe.
Admit(c) ==
    LET p == Attempt(c)
        b == Admitted(breaker[p])
    IN  /\ ~Refuses(breaker[p])
        /\ breaker' = [breaker EXCEPT ![p] = b]
        /\ probes' = [probes EXCEPT ![p] = IF b.state = "half_open" THEN @ \cup {c} ELSE @]

\* LatencyGateOpenError: the provider is skipped after the breaker admitted it.
SkipDemoted(c) ==
    /\ Trying(c) /\ Admit(c) /\ Demotes(Attempt(c))
    /\ call' = Advance(c)
    /\ UNCHANGED gate

Send(c) ==
    /\ Trying(c) /\ Admit(c) /\ ~Demotes(Attempt(c))
    /\ gate' = [gate EXCEPT ![Attempt(c)] = Readmitted(@)]
    /\ call' = [call EXCEPT ![c].pc = "sent"]

-----------------------------------------------------------------------------
(***************************************************************************)
(* What the provider answers.                                              *)
(***************************************************************************)
Sent(c) == call[c].pc = "sent" /\ Loop(c)
MayFail(c) == Attempt(c) \notin Healthy

Succeed(c) ==
    /\ Sent(c)
    /\ SetBreaker(Attempt(c), Succeeded(breaker[Attempt(c)]))
    /\ call' = [call EXCEPT ![c].pc = "served"]
    /\ UNCHANGED gate

\* record_success, and then _parse_response raises into the same try.
FailToParse(c) ==
    /\ Sent(c) /\ MayFail(c)
    /\ SetBreaker(Attempt(c), Failed(Succeeded(breaker[Attempt(c)]), TRUE))
    /\ call' = Advance(c)
    /\ UNCHANGED gate

\* _TRANSIENT_ERRORS, and any error that is not one of the provider's own.
FailTransiently(c) ==
    /\ Sent(c) /\ MayFail(c)
    /\ SetBreaker(Attempt(c), Failed(breaker[Attempt(c)], TRUE))
    /\ call' = Advance(c)
    /\ UNCHANGED gate

\* AuthenticationError or BadRequestError.
Rejected(c) ==
    /\ Sent(c) /\ MayFail(c)
    /\ SetBreaker(Attempt(c), Failed(breaker[Attempt(c)], FALSE))
    /\ UNCHANGED gate

RejectCall(c) == Rejected(c) /\ call' = Advance(c)

\* A 400 about tool_choice: the same provider is asked again, without the
\* breaker, thinking disabled or "required" first where that applies (two
\* stages), with tool_choice dropped last.
RejectToolChoice(c) ==
    /\ Rejected(c)
    /\ \E n \in 1..2 : call' = [call EXCEPT ![c].pc = "resent", ![c].stages = n]

Resent(c) == call[c].pc = "resent" /\ Loop(c)

SucceedResent(c) ==
    /\ Resent(c)
    /\ SetBreaker(Attempt(c), Succeeded(breaker[Attempt(c)]))
    /\ call' = [call EXCEPT ![c].pc = "served"]
    /\ UNCHANGED gate

\* stages are not used up
M_NextStageLoops(c) == IF call[c].stages > 1 THEN call ELSE Advance(c)

\* A failed stage is logged, never recorded.
NextStage(c) ==
    IF call[c].stages > 1 THEN [call EXCEPT ![c].stages = @ - 1] ELSE Advance(c)

FailResent(c) ==
    /\ Resent(c)
    /\ call' = NextStage(c)
    /\ UNCHANGED <<breaker, gate, probes>>

\* The retry succeeded and its answer does not parse.
FailToParseResent(c) ==
    /\ Resent(c)
    /\ SetBreaker(Attempt(c), Succeeded(breaker[Attempt(c)]))
    /\ call' = NextStage(c)
    /\ UNCHANGED gate

\* acompletion, after the awaits of the cost ledger: latency_gate.record_call.
Return(c) ==
    /\ call[c].pc = "served" /\ Loop(c)
    /\ \E slow \in BOOLEAN :
          gate' = [gate EXCEPT ![Attempt(c)] = IF GateEnabled THEN Recorded(@, slow) ELSE @]
    /\ call' = [call EXCEPT ![c] = NoCall]
    /\ UNCHANGED <<breaker, probes>>

-----------------------------------------------------------------------------
(***************************************************************************)
(* Time.  The clocks are read between awaits, so they move while every     *)
(* caller waits.                                                           *)
(***************************************************************************)
Waiting == \A c \in Callers : call[c].pc # "walk"

RecoveryElapses(p) ==
    /\ Waiting
    /\ breaker[p].state = "open" /\ ~breaker[p].elapsed
    /\ breaker' = [breaker EXCEPT ![p].elapsed = TRUE]
    /\ UNCHANGED <<gate, call, probes>>

CooldownElapses(p) ==
    /\ Waiting
    /\ gate[p].demoted = "cooling"
    /\ gate' = [gate EXCEPT ![p].demoted = "cooled"]
    /\ UNCHANGED <<breaker, call, probes>>

DeadlinePasses(c) ==
    /\ Waiting /\ MasterBudget
    /\ call[c].pc \in {"sent", "resent"} /\ ~call[c].late
    /\ call' = [call EXCEPT ![c].late = TRUE]
    /\ UNCHANGED <<breaker, gate, probes>>

Walk(c) == GiveUp(c) \/ SkipOpen(c) \/ SkipDemoted(c) \/ Send(c)

Answer(c) ==
    \/ Succeed(c) \/ FailToParse(c) \/ FailTransiently(c)
    \/ RejectCall(c) \/ RejectToolChoice(c)
    \/ SucceedResent(c) \/ FailResent(c) \/ FailToParseResent(c)

CallerStep(c) == StartCall(c) \/ Walk(c) \/ Answer(c) \/ Return(c) \/ DeadlinePasses(c)

Next ==
    \/ \E c \in Callers : CallerStep(c)
    \/ \E p \in Providers : RecoveryElapses(p) \/ CooldownElapses(p)

Spec == Init /\ [][Next]_vars

(***************************************************************************)
(* Fairness.  The event loop resumes whoever has its answer, every         *)
(* provider answers or runs into the hard timeout of _retry_call, and      *)
(* clocks move.  A caller waits while another one walks its chain, hence   *)
(* strong fairness; nothing obliges a caller to make another call, and the *)
(* chain deadline may never pass.                                          *)
(***************************************************************************)
Fairness ==
    /\ \A c \in Callers : /\ WF_vars(Walk(c))
                          /\ SF_vars(Answer(c))
                          /\ SF_vars(Return(c))
    /\ \A p \in Providers : SF_vars(RecoveryElapses(p)) /\ SF_vars(CooldownElapses(p))

FairSpec == Spec /\ Fairness

-----------------------------------------------------------------------------
(***************************************************************************)
(* Properties                                                              *)
(***************************************************************************)
CallType == [ pc : Pcs, chain : Seq(Providers), rest : Seq(Providers),
              late : BOOLEAN, stages : 0..2 ]

\* The type invariant of the gateway's state: a call past its walk has a
\* provider to talk to.
TypeOK ==
    /\ breaker \in [Providers -> ProviderState]
    /\ gate \in [Providers -> [samples : 0..MinSamples, demoted : Demotion]]
    /\ call \in [Callers -> CallType]
    /\ \A c \in Callers : call[c].pc \in {"sent", "resent", "served"} => call[c].rest # <<>>
    /\ probes \in [Providers -> SUBSET Callers]

\* A closed breaker has counted fewer transient failures than its threshold,
\* whatever answers arrive late from calls sent before it last opened
\* (CircuitBreaker.record_failure).
TripsAtThreshold ==
    \A p \in Providers : breaker[p].state = "closed" => breaker[p].failures < FailureThreshold

\* Since a provider turned half-open no more callers have been let through to
\* it than it has probe slots, each of them holds one, and an open or closed
\* provider has none taken (half_open_in_flight in before_call, _transition).
ProbeQuota ==
    \A p \in Providers :
        /\ Cardinality(probes[p]) <= breaker[p].inFlight
        /\ breaker[p].inFlight <= HalfOpenMaxCalls
        /\ breaker[p].state # "half_open" => breaker[p].inFlight = 0

Members(chain) == {chain[i] : i \in 1..Len(chain)}

\* The fallback chain does its job: a call never runs out of providers while
\* one of those in its chain answers everything, whatever the others do and
\* whichever calls run beside it.  It needs the latency gate off.
FallbackServes ==
    \A c \in Callers :
        call[c].pc = "walk" /\ call[c].rest = <<>> => Members(call[c].chain) \cap Healthy = {}

\* Every call ends, with a response or an error.
CallReturns == \A c \in Callers : call[c].pc # "idle" ~> call[c].pc = "idle"

\* No provider is refused for ever: whatever happened to it, it comes back to
\* a state in which a call may be sent to it (recovery probe of the breaker;
\* latency_gate.py:15-18 says the same of a demotion).
SelfHealing == \A p \in Providers : []<>~Refuses(breaker[p])
=============================================================================
