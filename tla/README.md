# Verification of evolutionary-agents

TLA+ models of the parts of this repository whose correctness depends on the order
in which things happen: the durable run queue, the LLM gateway with its circuit
breaker and its budget, the nightly battery and the agents' own cron, the task graph of
a run, the catalog of generated tools and its governance, the evolution of prompts
and code, and the memory the runs share. TLC checks them on small instances; TLAPS proves the main results for every
value of the constants.
Paths below are relative to `src/src/` unless they start with `docs/`.

## 1. The system

A goal comes in through the API (`POST /api/v1/agent/run`) or from a scheduler, is
put on a Redis stream, and is picked up by a worker process. The worker holds a lease
on the run while an executor drives the task graph: a LangGraph state machine that
plans, executes steps with tools, reflects, verifies, may spawn sub-agents, create
tools and evolve its own prompts and tools. Every node talks to models through one
gateway, which picks a provider and falls back along a chain. Results go to files, to
Redis status hashes and to Postgres.

| component | state it keeps | operations | talks to | hard behaviour | correct when |
|---|---|---|---|---|---|
| Run queue and workers (`worker/`, `api/routes/agent.py`, `runner.py`) | stream, pending list, lease keys, status hashes, cancel flags, attempt counters, checkpoint threads | enqueue, cancel, read, reclaim, lock, mark, ack, dead-letter, watchdog | Redis, Postgres saver, task graph | duplicate delivery, crashes, stalls, zombies, three-call requests | one execution of a run at a time, no accepted run lost or repeated once settled, every entry is acked or deleted in the end |
| LLM gateway (`llm/gateway.py`, `circuit_breaker.py`, `latency_gate.py`) | per provider: breaker state, failures, probe slots, demotion | completion, fallback, re-sent stages, success and failure reports | providers, every node | answers that arrive in a later era, slots taken and not given back | breaker trips at its threshold, quota of probes kept, a healthy provider reached, nobody banned for ever |
| Cost and rate limits (`llm/cost_tracker.py`, `rate_limiter.py`) | ledger rows per run, baselines of an attempt, Redis windows | check, charge, downgrade, refuse | gateway, sub-agents, worker | check then charge under concurrency, rows lost, refusals swallowed | overspend bounded by the calls in flight, a capped attempt ends |
| Nightly battery (`scheduler/battery.py`) | set of enqueued goals, deadline | release of dependents | queue, status hashes | status read while workers change it, retries | dependents after upstreams, everything enqueued in the end |
| Other scheduled jobs (`scheduler/cron_consumer.py`, `checkpoint_gc.py`, `tools/builtin/schedule_task.py`) | task rows, in-memory jobs, checkpoint threads | create, revise, reconcile, fire, collect | APScheduler, Postgres, queue | jobs replaced while they wait, a read used after an await, a collector beside a resume | no superseded schedule fires, an enabled task goes on firing, no live thread collected |
| Task graph (`graph/`) | the agent state | seventeen nodes, fourteen routers | gateway, tools, memory, agents, evolution | nested loops with different caps, stale fields | terminates within its caps, ends on a verdict about all its work |
| Sub-agents (`agents/`) | registry with a cap | spawn, delegate | task graph, budget | parallel fan-out | cap and budget kept |
| Evolution (`evolution/`, `optimizer/`) | mutations, shadow repository, artifacts, pointer file with histories, canary candidate | propose, test, deploy, verify, canary, promote, roll back | git, Postgres, the prompts of every node | steps that fail in the middle, one file and one repository for all processes, cancellation | only proven guidance is served, histories can be rolled back, what was condemned stays out |
| Governance (`governance/`, part of `tools/dynamic/persister.py`) | the table of registrations | caps, unfit and unused tools, duplicates, re-pointing | tools, sub-agents | two passes on different readings | no capability lost as its own duplicate |
| Memory (`memory/`) | facts with embeddings, skills, episodes, recent observations; a session per run | store, recall, fold, consolidate | Redis, Postgres, embedding provider | two runs on one key, a lock across a call, a cancelled run's open transaction, a session nobody rolls back | a fact embeds what it says, writes end, episodes are forgotten neither early nor never |
| Tools and their creation (`tools/`, `safety/`) | registrations, versions, registries of runs | load, generate, persist, edit, approve, reject | sandbox, gateway, operators | verdicts beside persists and retirement | an approved tool stays loadable, only reviewed code runs |
| Sandbox (`sandbox/`) | job slots | submit, run, kill | tools | timeouts | slots given back |
| API views, optimizer, evaluation, database, observability, command line | little or none of their own | | | | |

`PROJECT.json` lists every component with its sources and says what is left out of it,
and lists the hazards of the code line by line; those are what the properties are for.

## 2. Modules

| module | what it is |
|---|---|
| `RunLifecycle` | what a durable queue promises of its runs and entries, without processes |
| `RunQueue` | API clients, Redis stream, leases, status hashes, workers, watchdog and executors |
| `RunQueueProofs` | its theorems, and the proof that it implements `RunLifecycle` |
| `CircuitBreaker` | the breaker of one provider as functions on its record |
| `LlmGateway` | concurrent completions that walk provider chains over breakers and latency gate |
| `LlmGatewayProofs` | its theorems |
| `Battery` | one firing of the battery scheduler with the workers that execute its goals |
| `BatteryProofs` | its theorems |
| `AgentGraph` | nodes and routers of the task graph on the fields the routers read |
| `AgentGraphProofs` | its theorems |
| `Budget` | the ledger of a run, the gate before a call, the graph and its parallel helpers |
| `BudgetProofs` | its theorems |
| `ToolCatalog` | generated tools in the database, the runs that use and make them, the operators |
| `ToolCatalogProofs` | its theorems |
| `Governance` | the passes that retire tools |
| `Promotion` | pointer file, artifacts and canaries of evolved prompts; the curve gate |
| `Evolution` | evolution cycles and the optimizer on top of `Promotion`; shadow repository and rows |
| `EvolutionProofs` | theorems of both |
| `ScheduledJobs` | the agents' cron tasks, the daemon that fires them, the checkpoint collector |
| `Memory` | facts and episodes as concurrent runs write them, and the nightly consolidation |
| `NightlyProofs` | theorems of `Governance`, `ScheduledJobs` and `Memory` |
| `MC*` | instances for TLC |

Definitions named `M_...` stand beside the definition they vary and are used by none:
each is a plausible slip in the code that the property named in `PROJECT.json` notices.
`ScheduledJobs` and `Memory` name their specifications `JobsSpec` and `MemSpec` (and so
on), because one proof module extends both together with `Governance`.

### 2.1 RunQueue

One Redis call with its reply is one step, and so is one step of an executor; between
the calls anything may happen. An exception is the status mark, which is a read, a
merge and a write in the code and one step here: fields other than the status and the
entry id are not modelled. Redis keeps what it has; the TTLs of the hashes are taken
not to expire within a run. Time is not measured: the reclaim threshold, the lease TTL
and the run deadline may pass whenever the code would let them.

* The API: `PostRun`, `Enqueue`, `MarkQueued` are the three calls of `POST /run`,
  `CancelRun`, `RequestCancel`, `AckEntry`, `DeleteEntry` those of a cancel, of which the
  last two may fail. `ClientCrash` loses the rest of a request.
* The worker loop: `ReadNew` and `ReclaimStale` fill the batch a worker holds in memory
  (`todo`); it is worked through in order by `SkipHeld` or `TryLock`, then
  `TerminalGuard`, `MarkRunning`, the executor, `Settle` or `RecordAttempt`, the ack or
  the dead letter, and `FinallyRelease`. A lease token is a fresh uuid (`Fresh`).
* `ack_and_delete` is an XACK (`Acked`) and, when that counted, an XDEL in a step of its own
  that may fail (`Delete`): `AckTerminal` and `DeleteTerminal` of a worker, `WatchdogAck` and
  `WatchdogDelete` of its watchdog. A crash, or the watchdog, may come between the two. An
  entry that was acked and not deleted lingers in the stream; `Waiting` is what the consumer
  group can still hand out. XAUTOCLAIM drops pending entries that are no longer in the
  stream (`ReclaimStale`), as Redis does since 7.0.
* The watchdog: `WatchdogTimeout`, `WatchdogAck`, `WatchdogDelete`, `WatchdogRelease`, and
  `UnwindExecutor`, or an executor that absorbs the cancellation and stays behind.
* The executor is a task of its own (`ExecuteFresh`, `ReportProgress`, `PollCancel`,
  `ExecutorReturns`) with the checkpoint thread of the run in `ckpt`.
* `WorkerCrash` takes the worker with its tasks and restarts it; `LeaseExpires` is the
  end of a lease, of a dead holder or, counted in `stalls`, of a live one.

`RunLifecycle` says what the rest of the system may rely on: a set of waiting entries,
each a request for one run; a standing per run; who holds a run. A run is taken up only
when nobody has it, its standing moves only by its holder and only from an open one, an
entry goes only after its run was brought to an end or its request was withdrawn. Its
`degraded` is raised by a stall, after which two may hold a run. `ImplementsLifecycle`
instantiates it with `Waiting`, the status hashes and the owners; tokens, batches,
attempts and checkpoints are what it abstracts from. The watchdog settles a run whose
executor may still report, so that with the watchdog armed a zombie may reopen a
settled run (section 6): the abstract queue allows it there (`Zombies`) and nowhere else.

Not modelled: cancellation of a worker by shutdown, failures of single Redis calls
inside `_process` other than the XDEL, the read-only routes. The graph the executor drives is a sequence
of `MaxIter` progress reports with any outcome.

### 2.2 CircuitBreaker and LlmGateway

`CircuitBreaker` has the breaker's transitions as functions on the record of a provider
(`state`, `failures` saturating at the threshold, `inFlight`, `elapsed`). `LlmGateway`
has a call per caller: it walks its chain (`SkipOpen`, `SkipDemoted`, `Send`), waits for
an answer of any kind (`Succeed`, `FailToParse`, `FailTransiently`, `RejectCall`,
`RejectToolChoice` and the re-sent stages), and returns. The code runs on an event loop,
so that what happens between two awaits is one step and no other caller walks meanwhile
(`Loop`). The latency gate is a sample counter and a demotion with its cool-down.
`probes` is a history variable: which callers were let through since a provider turned
half-open.

Not modelled: the response cache, the budget check, the pacing inside `_retry_call` (one
wait), cancellation of a call, streaming.

### 2.3 Battery

The scheduler scans its goals in order, reads the upstreams of each one status hash at
a time, releases a goal whose upstreams are terminal, polls, and at its deadline
enqueues what is left. Status reads and enqueues may fail. The workers are those of
`RunQueue` seen from one run: execute, count, mark, ack, dead-letter or leave for
redelivery, or die. Assumed from `RunQueue`: no two executions of one run (no stalled
holder, no abandoned zombie). Not modelled: the mode without a status store, failing
status marks, the cron trigger.

### 2.4 AgentGraph

An action is a super-step of LangGraph: a node and the router after it. The state has
what the routers read, abstracted to what they tell apart: `left` is the number of plan
steps from the current one on, `toolFailed` says the last tool result is a failure,
`capBlocks`, `verifyCycle`, `sameFailure` and `stableVerifies` saturate where the
routers stop counting. What a model answers is a choice of the node. Error texts are
searched for words by two routers and the error handler and quote paths and reasons, so
that an error is the set of those words it contains. `judged` is a history variable:
what verify or a reviewer said of the work since the last `execute` or `delegate`. Two more
note that a run has taken one of the ways that no cap closes (section 6): `misled`, that an
authentication word in the last error took it out of the `execute` loop or from the error
handler back to the start, and `reopened`, that a reviewer who wrote both "evolution" and
"budget", or an exception of the evolution engine after an offer, sent it back to `execute`.
All three ways are in the model and in its run; the properties say what holds of a run
until it takes one. The iteration cap (`effective_max_iterations`) is constant during a run; `hops` counts
super-steps against the limit `execute_run` passes to LangGraph, and `"raised"` is the
`GraphRecursionError`.

Not modelled: the fields that only shape prompts, exceptions that leave a node (they
end the run outside the graph), a run resumed in the middle of the graph, goals that are
empty (the API refuses them), a `cap_loop_break_threshold` of zero.

### 2.5 Budget

A caller of the gateway checks (`Admit`, `Refused`), sends, and records; between check
and record the other callers of the run go on. The callers are the graph (`Main`) and
the helpers of a fan-out (`FanOut`, `Join`): delegated sub-agents and the parallel calls
of a memory fold. Nodes that deliberate let a refusal through, nodes that act and
helpers swallow it (`Simulate`, `FailHelper`); without the hard stop a refused call is
sent to any cheaper tier (`Downgrade`). What a call is charged is a choice from
`Charges`; an insert may fail, a baseline may not be read, a worker may die with calls
in flight (`Abort`), and the day may end (`Midnight`). Not modelled: streaming (it
neither checks nor records), the cache as state, price tables, the rate limiter.

### 2.6 ToolCatalog

Each method of the persister is a transaction. `persist` is two steps, its first UPDATE,
which locks the registration, and its commit, because operators' verdicts read before
they write (`Read`, `Approve`, `Reject`); an UPDATE that meets a lock waits and then
changes the rows it saw (`AwaitCommit`, `Seen`). A run has a registry (`Load`,
`Generate`, `Delegate` for a scoped copy of a helper). Governance may retire any tool
here. Not modelled: what safety checks and sandbox trials look at (a verdict), retrieval
and metrics.

### 2.7 Governance

The table, with per tool its standing and a rank (version, age). A pass selects in one
transaction and retires in others; `Loaders` run the passes of `load_active_tools`
(pairwise `retire_redundant`), `Pruners` those of `GovernancePruner` (greedy clusters and
re-pointed scopes). The rows come in any order. Which tools are unfit or unused is a
choice. Not modelled: the same passes over sub-agents, the protection window, metrics.

### 2.8 Promotion and Evolution

`Promotion` has a host per process that tries guidance out: `Begin` binds the candidate
process-wide, goals are scored one by one, `Cleared` takes it back, `Cancel` is a
cancelled or broken benchmark. An install writes its artifact, reads the pointer file,
and writes it whole; a roll-back reads and writes it. A write is a truncation and a text
(`Truncate`; readers in between find an empty file), two writers may tear each other's text, and a
process may die in between. `Evolution` composes it: the cycles of the workers reach
`Promotion` through `Begin` and its outcome, the optimizer measures a baseline first, and
every step of `Evolution` is a step of `Promotion` or leaves it unchanged (a theorem).
Around it are the shadow repository (HEAD and tree as sets of mutations, a `git add -A`
that takes the whole tree, a `reset --hard` that takes it back and a `git clean` that may
fail after it) and the table of mutations,
each write of which may fail alone. Not modelled: generation and scoring of proposals,
the interval between cycles, the benchmark itself.

### 2.9 ScheduledJobs

The table `scheduled_tasks` is written by runs (`Revise`; `CheckCap`, `Insert`) and by an
operator (`Operate`; the code has no call that disables a task). The daemon is an event
loop: `LoadTasks` is the read of a reconcile, `Reconcile` what it does after the await, in
one go. `clock` is the wall clock modulo a common multiple of the periods and `due` the
ticks to the next fire of a job; `Fire` is APScheduler's processing of due jobs and
`Enqueue` the rest of the closure, with `max_instances=1`. Restarts forget all jobs. The
fired run becomes a thread with the age of its newest and oldest checkpoint; `Scan` and
`Drop` are the two transactions of the collector. `seen` and `revived` are history
variables. Not modelled: time zones and daylight saving, `dry_run`, the triggers of the
other nightly jobs, a loop blocked for longer than the misfire grace time of an hour.

### 2.10 Memory

A run has one session for all it stores, a step is a statement with its answer. `Recall` is
the first use of the session, `StoreSkill` and `StoreObservation` a row added and committed at
once, `BeginFact`, `Upsert`, `Embed` and `CommitFact` the stages of `store_fact`: the upsert
locks the row to the end of the transaction (`Locked`), the embedding comes from a provider,
the old embeddings are deleted and the new one is added at the commit (`Superseded`,
`Stored`). A statement may fail: Postgres then refuses the rest of the transaction
(`"aborted"`), or SQLAlchemy refuses the session (`"inactive"`), and what is caught around each
store does not roll back. `Cancel` ends a run in any step; it loses its statement, or leaves
its transaction open during the call to the provider until the session is collected
(`Collect`). `Read` and `Consolidate` are the select and the commit of the nightly pass, in a
session of its own; `Abandon` a pass that fails; `Day` lets the rows age. What Postgres and
the driver do with locks and failures is external. Not modelled: the hot tier, fitness
updates, merging of near-duplicates (off by default), ranking and fusion of what is recalled,
the Neo4j mirror.

## 3. Runs

| run | instance | asks |
|---|---|---|
| `queue_lease` | 2 workers, 2 entries of one run, 1 cancel, 1 stall, watchdog unarmed | does the queue implement `RunLifecycle`, are supervisors exclusive, are failures bounded, does a stale holder never evict its successor |
| `queue_crash` | 2 workers, 2 tokens, 1 entry, 2 attempts, 1 crash, watchdog armed | through a crash, a redelivery and a watchdog: is no entry lost, is no settled run started again, does every entry leave the group's hands |
| `llm_breaker` | 3 callers, 1 provider, threshold 2, 2 probe slots, gate on | threshold and probe quota with late answers |
| `llm_fallback` | 2 callers, 2 providers of which one answers everything, gate off | is the healthy provider always reached, does every call return, does every provider come back |
| `battery` | goals q01 to q04 with their real dependencies, 2 attempts, 1 crash | release order, quiet upstreams, everything enqueued |
| `graph` | cap 3, plans of up to 2 steps, every technique on, errors and reviews with and without the words the routers look for, an engine that may raise | recursion limit, overshoot, verdict |
| `budget` | 1 run of 2 attempts, graph and 2 helpers, 2 tiers, 1 midnight, every cap on, hard stop on or off | overspend of each cap, end of a capped attempt |
| `tool_catalog` | 2 tools, 2 processes, 1 operator, 3 versions | is an approved tool loadable, does only reviewed code run, do edits and rejections spare the live version |
| `governance` | 3 tools in a chain of duplicates, 1 loader, 1 pruner, 1 scoped sub-agent | are both redundancy passes sound, does a group survive two passes at once |
| `evolution` | 1 worker with a prompt and a bad code mutation, the optimizer, the curve gate | served guidance, whole histories, condemned mutations, rows against repository |
| `scheduled_jobs` | 1 task name, 2 goals, period 2, 1 thread, TTL 1 | superseded schedules, starvation of an enabled task, live threads |
| `memory` | 2 runs, 1 key, 2 values, 1 episode of importance 0.4 or 0.45, floor 0.1, age limit 1 day | embeddings beside concurrent stores, end of a write behind a cancelled one, fate of an old episode |

**Bounds.** The queue instances are the smallest in which each race has its actors: two
workers and one run are enough for every conflict over a lease, since leases of
different runs never touch; a second entry of the same run is needed for duplicates, one
stall for a stale holder, one crash for a redelivery, two attempts for a retry that is
followed by a dead letter. Two tokens are enough for one entry: a token stays in use past
its worker's `_process` only with an abandoned executor, whose entry the watchdog has acked,
so that nobody but a peer with a copy in memory draws one after it, and a crash ends the
tasks of its worker. Three callers on one provider give one whose answer is late,
one that probes, and one that is refused. q01 to q04 are the connected part of the
battery's dependency graph that has a chain, a fork and a join. The graph with a cap of
3 has room for a verify that fails and a second plan before the cap; with a
`LimitFloor` of 35 the longest route just fits, so that one step more would show.

Two helpers are the fewest that pass the gate on one reading, two attempts tell the caps
of an attempt from those of a run. In the catalog the races are between two processes on
one tool, and the second tool is there for the cap of one; three versions are an approved
one, a persisted one and a pending edit. A chain of three similar tools is the smallest
group in which similarity is not transitive. Evolution has three processes at one pointer
file: a worker, the optimizer and the gate, with a history of two versions, which is what a
roll-back needs; a second worker would meet the first at the shadow repository only, where
`RowsTellRepo` is off anyway, and the theorems hold for any number of workers. The daemon's
tasks do not touch each other except through the cap on their number, which one task name
never meets; the cap is a guard the properties do not speak of. A period of two ticks is
the shortest that a reconcile can fall into, and two goals tell a revised task from the old.
Facts of different keys share no row, so one key is enough; two values tell a stale embedding
from a current one. Episodes do not touch each other. 0.4 is what an incomplete run is worth
and meets the floor exactly when it is halved, 0.45 passes it; a day is the distance that
tells an early pass from a due one.

**Fairness.** `RunQueue`: a worker loops and its Redis calls return, a pending entry
idles past the reclaim threshold again and again, leases of dead holders expire, the
deadline passes; the executor is only taken to go on when there is no watchdog. Crashes,
stalls, requests and cancels are never forced. `LlmGateway`: the event loop resumes
whoever has its answer, a provider answers or runs into the timeout, clocks move; strong
fairness because a step waits while another caller walks. No caller has to call.
`Battery`: the scheduler's coroutine goes on and its polling loop comes to its deadline.
Workers of the battery owe nothing. `AgentGraph` needs no fairness: its termination is
the bound on `hops`. `Budget`: every call returns or times out, every caller goes on, a join
returns, and (strong) a deliberating node that is refused again and again ends its attempt:
its prompt holds the growing history, so that it is not answered from the cache for ever.
`CappedRunStops` is about the hard stop only. `ScheduledJobs`: the clock ticks, the sync job
runs again and again and its read returns, an enqueue returns or fails, and (strong) a job
that is due again and again is fired: a reconcile that ends in the very instant puts a tick
off, but the two do not meet for ever. `Memory`: statements of a live run return, a session
nobody holds is collected, days pass and the job fires on each; (strong) Postgres grants a row
lock in the order in which it was asked for, and not every pass fails. No safety module (`ToolCatalog`, `Governance`,
`Evolution`) assumes fairness.

`Battery` and `AgentGraph` stop when a firing or a run is over, `Budget`, `ToolCatalog`,
`Governance` and `Evolution` at their bounds on attempts, versions and mutations; their runs
do not look for deadlock. `RunQueue`, `LlmGateway`, `ScheduledJobs` and `Memory` go on for
ever and are checked for it, except where a configuration says otherwise.

## 4. Theorems

All are about `Spec`, for every value of the constants within the named assumptions.

**RunQueue** (`RunQueueProofs`). `TypeCorrect`; `LeaseExclusion` (two supervisors never
process one run unless a live holder stalls); `NoEntryLost` (the group stops handing
an entry out only after an execution of its run ended, or by a cancel); `SettledNotRestarted`;
`LeaseNotEvicted`. The inductive invariant is `SafeInv`, the type invariant with
`TokenInv` (a token is drawn fresh, so no two holders share one), `LeaseInv` (a worker
inside `_process` holds the lease of its run unless a stall took it), `ClaimInv` (what
the guard read still holds when the worker marks the run) and `ServedInv` (a worker that acks
or deletes an entry has served it or found its run settled; what is not `Waiting` was served or
cancelled). Exclusion is
not inductive by itself: it needs to know whose token is in the key.

`FailureBound` (how often a run can fail beyond its cap) counts chances. `Chance(w, e)` says
that worker `w` may still fail with entry `e`: it is undelivered, pending, in the batch of `w`, or
in its hands before the count. A failure at the cap takes that chance away, because the worker
goes on to the dead letter and the ack takes the entry from every sweep; no step gives a chance
but an enqueue (one for each worker) and a crash before that ack (one). `CountInv`: failures past
the cap and the chances left are at most entries times workers, plus crashes. `HandedInv` is
what it rests on: what a worker holds was delivered, and it holds one copy of an entry at most.
It assumes that there are finitely many workers.

**RunQueue implements RunLifecycle** (`RunQueueProofs`). `QueueImplementsLifecycle`:
the initial states map to initial ones, and under `SafeInv` each of the queue's actions maps
to the abstract step the module names, or to a stutter (the many steps between two Redis
calls that only move a program counter). `SettledUntilPosted` is a consequence: without a
watchdog and until a stall, only a POST moves a settled status.

**LlmGateway** (`LlmGatewayProofs`). `GatewayTypeCorrect`; `ClosedBelowThreshold`;
`ProbesWithinQuota`; `FallbackReachesHealthy` (gate off). `GatewayInv` joins the ranges
of the counters, the calls and the probes; the quota needs that a caller past the
breaker is counted by `inFlight`. For the fallback, `FallbackInv` adds that a healthy
provider is never counted against, so its breaker is closed, and that it lies ahead of
or at the place where its caller is in the chain.

**Battery** (`BatteryProofs`). `BatteryTypeCorrect`; `ReleaseOrder`;
`UpstreamStaysQuiet`; `NoRaceWithoutRetry`. The upstreams are read one after the other
and may be executed again meanwhile; what carries a read over to the release is that an
ended execution stays ended (`OrderInv`), and for quiet that an upstream without a
failure has acked its only entry (`OnceInv`).

**AgentGraph** (`AgentGraphProofs`). `GraphTypeCorrect`; `ConcludesOnVerdict`;
`WithinRecursionLimit`; `IterationCapHolds`. The last two come from one induction.
`CountInv` gives each node the number of iterations past the cap with which it can be
entered: up to `MaxIterations + 1` at execute, one more after a re-execution offered by
evolution, one more after a rejection by a reviewer, and for the way through a tool
created in the last iteration that its gaps are filled, so it is taken once. `HopsInv`
bounds super-steps by five per iteration plus a constant that depends on the node, two
for the one delegation, one each for the clarifying and the research detour, one for a
rejection. Together they leave the limit `max(8 * max_iterations, 100)` out of reach:
the proof needs a floor of 76, which the first term alone does not give for caps below
ten. That floor, `LimitFloor >= 76`, is the only hypothesis of the two theorems (the code has
100), and `ConcludesOnVerdict` has none: error texts, reviews and engine exceptions are
arbitrary. What the two do not promise is in the properties, as an event of the run: nothing is
said of a run once it is `misled` or `reopened`, and `EndsOnVerdict` excepts the runs that are
misled. Section 6 says what becomes of those. Both flags stay set (`AstrayStays`), so that the
induction is over `Astray \/ GraphInv`.

**Budget** (`BudgetProofs`). `BudgetTypeCorrect`; `HardStopCapsSpend`. The bound needs to
count what is in flight: `Rooms` says that what the ledger shows plus the largest charges of
the calls past the gate stay within the cap and one call per caller, since no caller passes
the gate once the ledger is at the cap. `Phased` says that the graph waits while helpers are at
work, so that no more calls are in flight than there are helpers; `Baselined` that a baseline
holds no more than the run had spent when its attempt began. `BInv` joins them with the types.

**ToolCatalog** (`ToolCatalogProofs`). `CatalogTypeCorrect`; `RecallAlwaysKept`;
`ReviewedCodeOnly`; `LiveSpared`, the last three with one operator at a time (section 6 says
what two do). `CatalogInv` says of each tool that live versions are approved and that one is live
once any is approved (`Tidy`), of each registry that what it loaded is approved (`Holding`),
and of the operator that the version the verdict read is still pending (`Undecided`).

**Promotion and Evolution** (`EvolutionProofs`). `PromotionInvariants` is about `Promotion`
alone: types, `ServedProven` and `EntryWhole` follow from `PInv`, which adds `FilesWhole`
(what an operation read, or is about to write, is as whole as the file, and its artifacts
exist) and `TrialsBound` (a candidate is bound in no process but the one whose trial is
under way). `EvolutionImplementsPromotion`: every step of `Evolution` is a step of
`Promotion` or leaves it alone, so that `OnlyProvenServed` and `HistoryWhole` hold there
too. `CondemnedNeverPromoted` and `RowsTrue` need `EInv`: `PInv`, the types, `Phased` (what
each phase of a cycle implies about its mutation), `Untainted` (a condemned mutation is in no
file and no hand) and `RepoTells`, the relation of repository and rows while no two workers
have been at the repository.

**Governance** (`NightlyProofs`). `GovernanceTypeCorrect`; `RedundancyIsSound`;
`GroupsSurvive`. Soundness of the two redundancy algorithms holds of every catalog in which no two
registrations have one age: `Kernel` shows, by induction over the size of a set, that the greedy
choice of `_plan_clusters` exists (remove the worst tool, whose neighbours are all better), and
`RedundantSound`, by induction over the rows, that each loser of `retire_redundant` has lost to a
better duplicate, that what is lost stays lost, and that of two duplicates one is lost when the
earlier has had its turn. `GroupSurvives` is not inductive: a tool that is selected may be the last
of its group when it is retired, unless the selection is known to be right still. `TwinInv` says
that each tool selected as a duplicate is `Backed`, that is, its group has a better tool that is
there or went for a reason of its own. A step that retires any set of backed tools leaves the best
present tool of the group (`BestStays`), which is then the backer of the rest; this is where ranks
must not have changed, and where the group, not the pair, is what counts. `GTypes` adds to the
types that ages are handed out in turn.

**ScheduledJobs** (`NightlyProofs`). `FiresAreCurrent` and `LiveThreadsKept`. `JobInv`: a job
in memory is that of the row the last reconcile read (`MirrorInv`), unless that row's crontab does
not parse; a name has one row at most (`TableInv`). `ThreadInv`: what the collector listed is older
than the TTL until it is dropped, and an active run has a checkpoint within the TTL, unless the run
was resumed from stale ones. `LiveThreadsKept` has the hypothesis `Ttl # 0`: with `ttl_days` of zero, which no
setting forbids, a run that goes on over midnight may lose its own checkpoints.

**Memory** (`NightlyProofs`). `MemoryTypeCorrect`; `EmbeddingsCurrent`;
`EpisodesNotForgottenEarly`. `LockInv`: a row lock belongs to one write, and what its DELETE found
is all the embeddings there are until it commits, so that the commit leaves one. `AgeInv`: an episode
that was halved k times is k days past its age limit, one more once a pass has read it; with
`PassesOf`, the least number of halvings that takes an importance below the floor
(`Halved`, a recursive function, shown total by induction), no pass deletes it earlier.

The type invariants of `LlmGateway`, `Battery`, `ToolCatalog`, `Evolution` and `Budget` are
theorems and are not among what the runs check; each was before it was proved.

The library's induction theorems take an operator as a parameter, which the provers cannot
instantiate. Where an induction over numbers is needed, it is by sets: a set that holds 0 and is
closed under successors holds every number, since its complement would have a least element
(`Least`, `Induction`).

**Model-checked only.** All liveness: `Drains`, `CallReturns`, `SelfHealing`, `AllReleased`,
`CappedRunStops`, `EnabledFires`, `FactWriteEnds`, `EpisodeSettles`. The prover does no liveness
under fairness. Every safety property that a run checks is a theorem.

## 5. Plan

Done: the queue and its refinement, the gateway and its breaker, budget, battery, task graph,
tool catalog, governance, promotion and evolution, scheduled jobs, memory.

What is left, in the order of what it would add:

1. `AgentGraph` under `RunQueue`: a run that is redelivered in the middle of the graph; the
   two are separate because their product is large and they meet in the checkpoint only.
2. The rate limiter of `llm/rate_limiter.py`: one atomic script per reservation in windows
   of a minute, and a wait that gives up and lets the call through.
3. The sub-agents' own table (`agents/persister.py`), which is a second catalog.
4. Refinements: an abstract catalog that `ToolCatalog` and `Governance` both implement, as
   `RunQueue` implements `RunLifecycle` and `Evolution` implements `Promotion`.

**Not modelled, and why.** Retrieval from memory (`memory/`): what it returns depends on
embeddings and scores, which are data; folding is a caller of `Budget`. Sandbox: a request, a subprocess, an answer; isolation is the
operating system's. Prompts, search heuristics and techniques of the graph: what they compute
depends on model output. Read-only API views, evaluation reports, schema and migrations,
observability, the command line: no state of their own that a property could be about.
Settings are the constants of the modules. The golden goals and their checks
(`eval/golden.py`), the model registry, and the bodies of the builtin tools are tables and I/O;
they are a large part of the source, which is why the map covers a small share of it.

## 6. What was met

Each of the following is what the code does today. They are outside what the properties
claim, and were met while modelling.

Queue:
* Cancelling a run whose entry no worker has read deletes the entry and leaves the run QUEUED
  until the hash expires; `POST /run` refuses it meanwhile (`api/routes/agent.py:220`).
* A worker that reads a re-enqueued entry before `POST /run` has marked the run QUEUED sees the
  old terminal status and acks the entry as a duplicate (`api/routes/agent.py:154`).
* The worker starts a redelivered run with resume off, and `execute_run` deletes its checkpoint
  thread (`runner.py:446`), against `worker/executors.py:35`.
* A progress report after the watchdog's TIMEOUT sets the status back to RUNNING
  (`worker/runner.py:184`); a dead-lettered entry in a peer's batch is run once more
  (`worker/runner.py:491`); an executor that absorbs its cancellation goes on beside a
  re-enqueued execution (`worker/runner.py:271`).
* An entry may be acked and stay in the stream for good: after a crash between the XACK and
  the XDEL, after an XDEL that fails, or when the supervisor, seeing its executor done, cancels
  the watchdog between the two; its own XACK then counts nothing and skips the XDEL
  (`worker/queue.py:178`, `worker/runner.py:283`). The docstring at `worker/queue.py:166` names the
  failed XDEL. Such an entry is never handed out again; `Drains` and the refinement speak of
  `Waiting`, not of the stream.

Gateway and budget:
* The fallback loop asks the breaker before the latency gate, so that a half-open provider that
  is demoted loses its probe slot for good and is refused from then on (`llm/gateway.py:977`),
  against `llm/latency_gate.py:13`: "a provider that recovers is not permanently exiled". With
  `GateEnabled` and one provider, `SelfHealing` fails in a few steps; it is checked with the
  gate off.
* An authentication error that answers a probe reopens the breaker, though
  `docs/ARCHITECTURE.md:541` says such errors do not count; a late failure of an older call
  reopens a breaker under a running probe. With the gate on, all providers of a chain may be
  demoted at once. The latency recorded for the provider that served includes the time lost on
  those before it (`llm/gateway.py:642`). A broken stream begins again on the next provider
  (`llm/gateway.py:780`), and `astream` neither checks the budget nor records its cost.
* Without the hard stop every call over a cap is sent to a cheaper model and served, without
  end, unless it asks for the cheapest tier itself; `llm/cost_tracker.py:174` and `:226` say of
  the token ceiling that it stops a runaway.
* The execute node catches `BudgetExhaustedError` with every other exception
  (`graph/nodes/execute.py:974`) and goes on with a simulated result. The cost of calls in
  flight when a worker dies is never written.

Battery and scheduled jobs:
* FAILED releases the dependents of a goal that the queue will run again, and its second
  execution clears the directory they read (`scheduler/battery.py:70`). A scheduler restarted
  in the middle of a firing has forgotten which goals it released.
* A row whose crontab no longer parses keeps its old job, which goes on firing the superseded
  schedule, against `scheduler/cron_consumer.py:118`; `FiresCurrent` excepts it.
* "A deferred fire (brief restart) still runs within the hour" (`cron_consumer.py`, reconcile):
  jobs live in memory, and a restart counts from now; so does a reconcile that ends in the
  instant a job is due.
* The cap on enabled tasks is a count followed by an insert, and re-enabling a disabled row is
  not counted (`tools/builtin/schedule_task.py:109`, `:143`), so that more than `max_tasks` can
  be enabled, against the docstring of `AgentCronSettings`.
* The checkpoint collector does not look again between its two transactions
  (`scheduler/checkpoint_gc.py:141`): a run resumed out of stale checkpoints may lose them.
  `LiveThreadKept` excepts exactly these runs.

Task graph:
* The verify ceiling, the oscillation and the convergence exits name `store_memory`, whose
  router sends an incomplete run below the iteration cap to `execute`; the exits do not end the
  run, the iteration cap does (`graph/routers.py:564`).
* An authentication word in the last error, which the path of a missing deliverable can have,
  sends the run from `execute` to the error handler and back over `classify` for ever, past the
  cap, until LangGraph raises (`graph/routers.py:60`, `:612`).
* The break for saturated capability caps holds in the router after `reflect`; a re-plan goes
  through `structure_analysis`, whose router still sends the pending gaps to `agent_spawn` or
  `tool_create`.
* After an exception of the evolution engine the flag that offers a re-execution keeps its
  value, and each further verify that finds the run complete offers it again
  (`graph/nodes/evolve.py:53`).
* A reviewer whose rejection has the words "evolution" and "budget" leaves them in the last
  error: the router after `evolve` takes it for a failed evolution, the error handler for a
  budget to be reviewed, and every later complete run comes back to the reviewer
  (`graph/routers.py:519`). Like the exception above, this sends a complete run back to `execute`
  at any iteration count.
* A failed tool result stays the last one through steps that call no tool, and `execute` then
  repeats on an exhausted plan up to the cap (`graph/routers.py:82`); `route_after_tool_create`
  reads the tools created in the whole run, so that after the first of them a round that creates
  none is re-planned too.

Tools and governance:
* Two operators at once: an approval and a rejection of one version leave a rejected version
  live; a second approval promotes an older pending version. `RecallKept` and its companions
  are proved for one operator.
* A rejection leaves the edited description and schema on the registration; approving a retired
  tool leaves it inactive; a verdict that races a persist may leave two live versions, of which
  the newest is loaded.
* The counter of tools created per run belongs to a generator that is made per gap, so that it
  never binds.
* `retire_redundant` goes on comparing a row that has just lost, so that a tool may go for one
  that goes itself; two passes whose ranks change in between may retire a whole group
  (`GroupSurvives` excepts it); a redundancy pass at load re-points no scope, and a failed
  `merge_alias` is not repeated.
* `sub_agents` has a unique name in its migration, so that storing the second version of an
  agent fails on a migrated database (`agents/persister.py:78`).

Promotion and evolution:
* Updates of the pointer file are lost between processes, and a reader may find it empty.
* "Once rolled back ... the next run finds nothing to roll back" (`evolution/curve_gate.py:20`):
  it finds the version before, when that was promoted within the lookback too. A roll-back that
  races a promotion takes back the newer one.
* `_sha8` names a version by a record that holds its score, so that re-promoting the same
  guidance makes a new version (`evolution/promote.py:116`). A second roll-back with the history
  A, B, A restores B.
* The optimizer's baseline is scored with an empty candidate, which hides the guidance that is
  live. Its POST has no lock, and two optimizations overlap when one is asked for by hand
  (`optimizer/job.py:119` speaks of those of the scheduler).
* Two workers at the shadow repository drop or bring back each other's commits; a failed git
  command counts as a deployment. A roll-back whose `git clean` fails after its `reset --hard`
  reports failure though HEAD has moved (`evolution/git_tracker.py:242`).

Memory:
* No store of a memory manager rolls back, so that one failed statement fails the best-effort
  stores after it, against `memory/manager.py:315`; `CostTracker.record_usage` does roll back.
* When the DELETE of the old embeddings fails, its exception is taken for a missing embedding;
  the COMMIT that follows rolls back, and the fact is reported stored (`memory/warm.py:265`).
* An episode of 0.4, that of an incomplete run, is at exactly 0.1 after two passes, and is then neither
  deleted (`<`) nor selected again (`>`): it stays for ever (`memory/cold.py:310`, `:318`).
  `EpisodeSettles` excepts exactly these, against `memory/consolidate_job.py:3`.
* `update_fitness` reads, computes and writes without a lock, and two runs lose one update.
* With merging on, an observation may be merged into an old episode that the next pass deletes.
* `WarmMemoryStore.retrieve` still filters tags with `?|` on a list, which `memory/cold.py:24`
  says raises.
