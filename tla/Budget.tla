------------------------------- MODULE Budget -------------------------------
(***************************************************************************)
(* What the language-model calls of a run may cost (llm/cost_tracker.py,   *)
(* the budget gate of llm/gateway.py) and who makes them: the nodes of the *)
(* run's graph one after the other, and the helpers a node fans out to and *)
(* waits for -- delegated sub-agents (agents/runner.py) or the three calls *)
(* of a memory fold -- all on the run's one gateway and one ledger.        *)
(*                                                                         *)
(* The gate is read before a call and the ledger written after it.  A run  *)
(* is attempted again when its worker dies or when it is put on the queue  *)
(* once more; an attempt starts a fresh tracker, whose baselines make the  *)
(* per-attempt caps count from its own start.                              *)
(***************************************************************************)
EXTENDS Integers, FiniteSets

CONSTANTS
  Runs,           \* run ids: the key the ledger's rows are summed by
  Helpers,        \* the calls a fan-out of one run may hold in parallel
  Main,           \* the graph of the run itself
  TopTier,        \* tiers 0 .. TopTier, 0 the cheapest (_TIER_ORDER)
  Charges,        \* tier -> what one call of it may be charged: <<tokens, cost>>
  MaxTokens,      \* the largest charge of one call
  MaxCost,
  TaskTokens,     \* per_task_token_limit: tokens of one attempt; 0 disables
  RunTokens,      \* per_run_token_limit_absolute: tokens of all attempts; 0 disables
  TaskCost,       \* per_run_cost_limit; 0 disables
  RunCost,        \* per_run_cost_limit_absolute; 0 disables
  DayCost,        \* max_cost_usd: what all runs may spend in a day
  MaxAttempts,    \* bound of the model on the attempts of a run
  MaxLedger,      \* bound of the model on the tokens of a run
  MaxDays         \* bound of the model on midnights

Tiers   == 0 .. TopTier
Callers == Helpers \cup {Main}
NoCall  == -1
Unwritten == <<0, 0>>

ASSUME BudgetAssumption ==
  /\ IsFiniteSet(Runs)
  /\ IsFiniteSet(Helpers) /\ Helpers # {} /\ Main \notin Helpers
  /\ TopTier \in Nat
  /\ MaxTokens \in Nat /\ MaxCost \in Nat
  /\ Charges \in [Tiers -> SUBSET ((0 .. MaxTokens) \X (0 .. MaxCost))]
  /\ {TaskTokens, RunTokens, TaskCost, RunCost, DayCost} \subseteq Nat
  /\ MaxAttempts \in Nat /\ MaxLedger \in Nat /\ MaxDays \in Nat

VARIABLES
  hardStop,   \* the setting budget_hard_stop
  attempt,    \* run -> "waiting", "running", "stopped" (BUDGET_EXHAUSTED) or "finished"
  attempts,   \* run -> attempts begun so far
  tracked,    \* run -> the attempt has a tracker (the database was reachable)
  base,       \* run -> <<tokens, cost>> the attempt's tracker subtracts
  start,      \* run -> <<tokens, cost>> its rows held when the attempt began
              \* (history: nothing in the code keeps it)
  ledger,     \* run -> <<tokens, cost>> summed over its rows
  today,      \* cost of the rows of the current day, all runs
  days,       \* midnights so far
  phase,      \* run -> caller -> "rest", "think", "act" or "wait"
  call        \* run -> caller -> the tier of its call in flight, or NoCall

tracker  == <<tracked, base, start>>
spending == <<ledger, today, days>>
vars == <<hardStop, attempt, attempts, tracker, spending, phase, call>>

Tokens(r) == ledger[r][1]
Cost(r)   == ledger[r][2]

(***************************************************************************)
(* check_budget.  What the attempt has spent is what the run's rows hold   *)
(* more than the baseline.                                                 *)
(***************************************************************************)
Spent(r, k) == IF ledger[r][k] > base[r][k] THEN ledger[r][k] - base[r][k] ELSE 0

Over(cap, spent) == cap > 0 /\ spent >= cap

\* Mutant: the absolute caps subtract the baseline too.
M_RunCapped(r) ==
  \/ Over(TaskTokens, Spent(r, 1))
  \/ Over(RunTokens, Spent(r, 1))
  \/ Over(TaskCost, Spent(r, 2))
  \/ Over(RunCost, Spent(r, 2))

RunCapped(r) ==
  \/ Over(TaskTokens, Spent(r, 1))
  \/ Over(RunTokens, Tokens(r))
  \/ Over(TaskCost, Spent(r, 2))
  \/ Over(RunCost, Cost(r))

WithinBudget(r) == today < DayCost /\ ~RunCapped(r)

-----------------------------------------------------------------------------
Init ==
  /\ hardStop \in BOOLEAN
  /\ attempt = [r \in Runs |-> "waiting"]
  /\ attempts = [r \in Runs |-> 0]
  /\ tracked = [r \in Runs |-> FALSE]
  /\ base = [r \in Runs |-> <<0, 0>>]
  /\ start = [r \in Runs |-> <<0, 0>>]
  /\ ledger = [r \in Runs |-> <<0, 0>>]
  /\ today = 0
  /\ days = 0
  /\ phase = [r \in Runs |-> [w \in Callers |-> "rest"]]
  /\ call = [r \in Runs |-> [w \in Callers |-> NoCall]]

(***************************************************************************)
(* execute_run: a new tracker reads the run's tokens and then its cost.    *)
(* Either query may fail, and so may the database altogether: the baseline *)
(* then stays 0, or the attempt runs without a tracker.                    *)
(***************************************************************************)
Baselines(r) == {<<0, 0>>, <<Tokens(r), 0>>, ledger[r]}

Begin(r) ==
  /\ attempt[r] = "waiting"
  /\ attempts[r] < MaxAttempts
  /\ attempts' = [attempts EXCEPT ![r] = @ + 1]
  /\ attempt' = [attempt EXCEPT ![r] = "running"]
  /\ \E t \in BOOLEAN, b \in Baselines(r) :
       /\ tracked' = [tracked EXCEPT ![r] = t]
       /\ base' = [base EXCEPT ![r] = b]
  /\ start' = [start EXCEPT ![r] = ledger[r]]
  /\ phase' = [phase EXCEPT ![r][Main] = "think"]
  /\ UNCHANGED <<hardStop, spending, call>>

(***************************************************************************)
(* A caller that deliberates (classify, plan, reflect, verify) lets a      *)
(* budget refusal through; one that acts (execute) catches every exception *)
(* and goes on with a simulated result.                                    *)
(***************************************************************************)
Moved(r, w) == IF phase[r][w] = "think" THEN "act" ELSE "think"

Asks(r, w) ==
  /\ attempt[r] = "running"
  /\ phase[r][w] \in {"think", "act"}
  /\ call[r][w] = NoCall

\* the prompt cache answers before the budget is looked at
Cached(r, w) ==
  /\ Asks(r, w)
  /\ phase' = [phase EXCEPT ![r][w] = Moved(r, w)]
  /\ UNCHANGED <<hardStop, attempt, attempts, tracker, spending, call>>

Send(r, w, t) ==
  /\ call' = [call EXCEPT ![r][w] = t]
  /\ UNCHANGED <<hardStop, attempt, attempts, tracker, spending, phase>>

Admit(r, w) ==
  /\ Asks(r, w)
  /\ tracked[r] => WithinBudget(r)
  /\ \E t \in Tiers : Send(r, w, t)

\* _get_cheaper_fallback: any model of a lower tier whose provider is enabled
Downgrade(r, w) ==
  /\ Asks(r, w)
  /\ tracked[r] /\ ~WithinBudget(r) /\ ~hardStop
  /\ \E t \in Tiers : t < TopTier /\ Send(r, w, t)

(***************************************************************************)
(* BudgetExhaustedError: with the hard stop always, else when there is no  *)
(* cheaper model.  In a deliberating node of the graph it ends the attempt *)
(* for good; a helper returns a failure to whoever waits for it.           *)
(***************************************************************************)
Refused(r, w) == Asks(r, w) /\ tracked[r] /\ ~WithinBudget(r)

\* Mutant: a deliberating node swallows the refusal like every other exception.
M_StopRun(r) ==
  /\ Refused(r, Main)
  /\ phase[r][Main] = "think"
  /\ phase' = [phase EXCEPT ![r][Main] = "act"]
  /\ UNCHANGED <<hardStop, attempt, attempts, tracker, spending, call>>

StopRun(r) ==
  /\ Refused(r, Main)
  /\ phase[r][Main] = "think"
  /\ attempt' = [attempt EXCEPT ![r] = "stopped"]
  /\ phase' = [phase EXCEPT ![r][Main] = "rest"]
  /\ UNCHANGED <<hardStop, attempts, tracker, spending, call>>

FailHelper(r, h) ==
  /\ Refused(r, h)
  /\ phase[r][h] = "think"
  /\ phase' = [phase EXCEPT ![r][h] = "rest"]
  /\ UNCHANGED <<hardStop, attempt, attempts, tracker, spending, call>>

Simulate(r, w) ==
  /\ Refused(r, w)
  /\ phase[r][w] = "act"
  /\ phase' = [phase EXCEPT ![r][w] = "think"]
  /\ UNCHANGED <<hardStop, attempt, attempts, tracker, spending, call>>

(***************************************************************************)
(* record_usage, once the call is back.  The fallback chain may have been  *)
(* served by any tier.  Nothing is written when every provider failed,     *)
(* when the insert fails (it is rolled back) or without a tracker; the     *)
(* run goes on either way.                                                 *)
(***************************************************************************)
Recorded(r) == {Unwritten} \cup (IF tracked[r] THEN UNION {Charges[t] : t \in Tiers} ELSE {})

Record(r, w) ==
  /\ call[r][w] # NoCall
  /\ \E ch \in Recorded(r) :
       /\ Tokens(r) + ch[1] <= MaxLedger
       /\ ledger' = [ledger EXCEPT ![r] = <<@[1] + ch[1], @[2] + ch[2]>>]
       /\ today' = today + ch[2]
  /\ call' = [call EXCEPT ![r][w] = NoCall]
  /\ phase' = [phase EXCEPT ![r][w] = Moved(r, w)]
  /\ UNCHANGED <<hardStop, attempt, attempts, tracker, days>>

(***************************************************************************)
(* run_parallel (and the gather of a fold): the helpers run side by side   *)
(* while the graph waits for all of them; what one raises is its result.   *)
(***************************************************************************)
FanOut(r) ==
  /\ Asks(r, Main)
  /\ phase[r][Main] = "act"
  /\ \E S \in SUBSET Helpers :
       /\ S # {}
       /\ phase' = [phase EXCEPT ![r] = [w \in Callers |->
            IF w = Main THEN "wait" ELSE IF w \in S THEN "think" ELSE "rest"]]
  /\ UNCHANGED <<hardStop, attempt, attempts, tracker, spending, call>>

Leave(r, h) ==
  /\ Asks(r, h)
  /\ phase[r][h] = "think"
  /\ phase' = [phase EXCEPT ![r][h] = "rest"]
  /\ UNCHANGED <<hardStop, attempt, attempts, tracker, spending, call>>

Join(r) ==
  /\ phase[r][Main] = "wait"
  /\ \A h \in Helpers : phase[r][h] = "rest"
  /\ phase' = [phase EXCEPT ![r][Main] = "think"]
  /\ UNCHANGED <<hardStop, attempt, attempts, tracker, spending, call>>

Finish(r) ==
  /\ Asks(r, Main)
  /\ phase[r][Main] = "think"
  /\ attempt' = [attempt EXCEPT ![r] = "finished"]
  /\ phase' = [phase EXCEPT ![r][Main] = "rest"]
  /\ UNCHANGED <<hardStop, attempts, tracker, spending, call>>

(***************************************************************************)
(* The worker dies or times the attempt out: the calls in flight are paid  *)
(* for but never written.  The entry is delivered again.                   *)
(***************************************************************************)
Abort(r) ==
  /\ attempt[r] = "running"
  /\ attempt' = [attempt EXCEPT ![r] = "waiting"]
  /\ phase' = [phase EXCEPT ![r] = [w \in Callers |-> "rest"]]
  /\ call' = [call EXCEPT ![r] = [w \in Callers |-> NoCall]]
  /\ UNCHANGED <<hardStop, attempts, tracker, spending>>

\* an operator resumes a stopped run, or enqueues a run id once more
Resume(r) ==
  /\ attempt[r] \in {"stopped", "finished"}
  /\ attempt' = [attempt EXCEPT ![r] = "waiting"]
  /\ UNCHANGED <<hardStop, attempts, tracker, spending, phase, call>>

Midnight ==
  /\ days < MaxDays
  /\ days' = days + 1
  /\ today' = 0
  /\ UNCHANGED <<hardStop, attempt, attempts, tracker, ledger, phase, call>>

Step(r, w) == Admit(r, w) \/ Simulate(r, w) \/ Record(r, w)

Next ==
  \/ \E r \in Runs :
       \/ Begin(r) \/ StopRun(r) \/ FanOut(r) \/ Join(r) \/ Finish(r)
       \/ Abort(r) \/ Resume(r)
       \/ \E h \in Helpers : FailHelper(r, h) \/ Leave(r, h)
       \/ \E w \in Callers :
            Admit(r, w) \/ Cached(r, w) \/ Downgrade(r, w) \/ Simulate(r, w) \/ Record(r, w)
  \/ Midnight

(***************************************************************************)
(* Every call returns (the gateway's timeouts), every caller goes on, and  *)
(* a node that deliberates is not answered from the cache for ever: the    *)
(* prompt it sends holds the history of the run, which grows.              *)
(***************************************************************************)
Fairness ==
  \A r \in Runs :
    /\ WF_vars(Join(r))
    /\ WF_vars(Step(r, Main) \/ FanOut(r))
    /\ SF_vars(StopRun(r))
    /\ \A h \in Helpers : WF_vars(Step(r, h)) /\ SF_vars(FailHelper(r, h))

Spec == Init /\ [][Next]_vars /\ Fairness

-----------------------------------------------------------------------------
(* The state has its type. *)
TypeOK ==
  /\ hardStop \in BOOLEAN
  /\ attempt \in [Runs -> {"waiting", "running", "stopped", "finished"}]
  /\ attempts \in [Runs -> 0 .. MaxAttempts]
  /\ tracked \in [Runs -> BOOLEAN]
  /\ base \in [Runs -> Nat \X Nat]
  /\ start \in [Runs -> Nat \X Nat]
  /\ ledger \in [Runs -> Nat \X Nat]
  /\ today \in Nat
  /\ days \in 0 .. MaxDays
  /\ phase \in [Runs -> [Callers -> {"rest", "think", "act", "wait"}]]
  /\ call \in [Runs -> [Callers -> Tiers \cup {NoCall}]]

\* one call of each helper may pass the gate on the same reading of the ledger
Overshoot(charge) == charge * Cardinality(Helpers)

Below(cap, spent, charge) == cap > 0 => spent < cap + Overshoot(charge)

RunCeilings(r) ==
  /\ Below(RunTokens, Tokens(r), MaxTokens)
  /\ Below(RunCost, Cost(r), MaxCost)

AttemptCeilings(r) ==
  /\ Below(TaskTokens, Tokens(r) - start[r][1], MaxTokens)
  /\ Below(TaskCost, Cost(r) - start[r][2], MaxCost)

DayCeiling == Below(DayCost, today, MaxCost * Cardinality(Runs))

(***************************************************************************)
(* With the hard stop, what the ledger shows for a run overshoots a cap by *)
(* less than one call per parallel helper -- over all its attempts for the *)
(* absolute caps, within one for the others -- and the day's pool by less  *)
(* than that for every run: check_budget reads before the call what        *)
(* record_usage writes after it.                                           *)
(***************************************************************************)
SpendCapped ==
  hardStop => DayCeiling /\ \A r \in Runs : RunCeilings(r) /\ AttemptCeilings(r)

(***************************************************************************)
(* With the hard stop, an attempt whose run is over one of its caps does   *)
(* not go on for ever: although helpers and acting nodes swallow the       *)
(* refusal, the next node that deliberates ends the attempt.               *)
(***************************************************************************)
CappedRunStops ==
  \A r \in Runs :
    (hardStop /\ attempt[r] = "running" /\ tracked[r] /\ RunCapped(r))
      ~> (attempt[r] # "running")
=============================================================================
