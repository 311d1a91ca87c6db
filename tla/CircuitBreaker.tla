--------------------------- MODULE CircuitBreaker ---------------------------
(***************************************************************************)
(* One provider's circuit breaker (llm/circuit_breaker.py) as a data type: *)
(* the record _ProviderState and the three operations of CircuitBreaker on *)
(* it.  Every operation holds the breaker's asyncio.Lock and awaits        *)
(* nothing inside it, so each is one indivisible update.                   *)
(*                                                                         *)
(* opened_at is abstracted to `elapsed': whether recovery_timeout has      *)
(* passed since the breaker last opened.                                   *)
(***************************************************************************)
EXTENDS Naturals

CONSTANTS
    FailureThreshold,   \* cb_failure_threshold
    HalfOpenMaxCalls    \* cb_half_open_max_calls

\* CircuitBreakerSettings.validate_positive_int rejects anything below 1.
ASSUME BreakerAssumption ==
    /\ FailureThreshold \in Nat \ {0}
    /\ HalfOpenMaxCalls \in Nat \ {0}

CircuitState == {"closed", "open", "half_open"}

ProviderState == [ state    : CircuitState,
                   failures : 0..FailureThreshold,    \* failure_count
                   inFlight : 0..HalfOpenMaxCalls,    \* half_open_in_flight
                   elapsed  : BOOLEAN ]

NewProvider == [ state |-> "closed", failures |-> 0, inFlight |-> 0, elapsed |-> FALSE ]

(***************************************************************************)
(* A definition named M_x is a defective variant of the definition after   *)
(* it, used to show that a property can fail; the specification does not   *)
(* use it.                                                                 *)
(***************************************************************************)
\* opening keeps the probe slots taken
M_ToOpen(b) == [b EXCEPT !.state = "open", !.elapsed = FALSE]

\* _transition: HALF_OPEN keeps the counters, the other two reset them.
ToClosed(b)   == NewProvider
ToOpen(b)     == [ state |-> "open", failures |-> b.failures, inFlight |-> 0, elapsed |-> FALSE ]
ToHalfOpen(b) == [b EXCEPT !.state = "half_open"]

-----------------------------------------------------------------------------
\* before_call: an open breaker whose recovery time is over turns half-open
\* first, and a half-open one admits while a probe slot is free.
Ready(b) == b.state = "open" /\ b.elapsed

Refuses(b) ==
    \/ b.state = "open" /\ ~b.elapsed
    \/ b.state = "half_open" /\ b.inFlight >= HalfOpenMaxCalls

Admitted(b) ==
    LET probing == IF Ready(b) THEN ToHalfOpen(b) ELSE b
    IN  IF probing.state = "half_open" THEN [probing EXCEPT !.inFlight = @ + 1] ELSE probing

\* record_success
Succeeded(b) ==
    IF b.state = "half_open" THEN ToClosed(b)
    ELSE [ state |-> b.state, failures |-> 0, inFlight |-> 0, elapsed |-> b.elapsed ]

\* record_failure: while half-open any failure reopens, and outside it only a
\* transient one is counted.  Only a closed breaker compares its count with
\* the threshold, so what an open one counts beyond it is left out.
Counted(b) == IF b.failures < FailureThreshold THEN [b EXCEPT !.failures = @ + 1] ELSE b

\* the threshold is passed instead of reached
M_FailedLate(b, transient) ==
    IF b.state = "half_open" THEN ToOpen(b)
    ELSE IF ~transient THEN b
    ELSE IF b.state = "closed" /\ b.failures >= FailureThreshold
         THEN ToOpen(b)
         ELSE Counted(b)

\* a rejected probe is dropped before it gives its slot back
M_FailedEarlyReturn(b, transient) ==
    IF ~transient THEN b
    ELSE IF b.state = "half_open" THEN ToOpen(b)
    ELSE IF b.state = "closed" /\ Counted(b).failures >= FailureThreshold
         THEN ToOpen(Counted(b))
         ELSE Counted(b)

Failed(b, transient) ==
    IF b.state = "half_open" THEN ToOpen(b)
    ELSE IF ~transient THEN b
    ELSE IF b.state = "closed" /\ Counted(b).failures >= FailureThreshold
         THEN ToOpen(Counted(b))
         ELSE Counted(b)
=============================================================================
