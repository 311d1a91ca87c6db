------------------------------- MODULE Battery -------------------------------
(***************************************************************************)
(* The nightly battery (scheduler/battery.py): one firing of               *)
(* BatteryEnqueuer.enqueue_battery, which releases the golden goals into   *)
(* the run queue in the order of their dependency graph, against the       *)
(* workers that execute them.                                              *)
(*                                                                         *)
(* All goals write into one results tree, and a goal that depends on       *)
(* others reads theirs; a worker clears a goal's directory before it       *)
(* executes it.  The workers are those of module RunQueue as long as no    *)
(* holder is stalled and no watchdog strikes: then the lease keeps a run   *)
(* with one of them at a time (LeaseExclusion), and what the scheduler can *)
(* tell of it is its status hash.                                          *)
(***************************************************************************)
EXTENDS Naturals, Sequences, FiniteSets

CONSTANTS
    Specs,          \* the goals of the battery
    Order,          \* the order of BATTERY04_GOALS
    Deps,           \* BATTERY_DEPENDENCIES: the upstreams of each goal
    MaxAttempts,    \* dead_letter_max_attempts
    MaxCrashes      \* bound on worker crashes

Members(seq) == {seq[i] : i \in 1..Len(seq)}

ASSUME BatteryAssumption ==
    /\ Order \in Seq(Specs) /\ Members(Order) = Specs /\ Specs # {}
    /\ Deps \in [Specs -> Seq(Specs)]
    /\ MaxAttempts \in Nat \ {0} /\ MaxCrashes \in Nat

VARIABLES
    pc,         \* where enqueue_battery is
    pos,        \* the goal it looks at, as a position in Order
    left,       \* the upstreams of that goal it has still to poll
    enqueued,   \* goals handed to the queue, also those whose XADD failed
    forced,     \* goals enqueued because the deadline passed
    entry,      \* goals with an entry that the queue can still hand out
    worker,     \* what the worker that holds the lease of each goal's run does
    status,     \* the status hash of each goal's run
    attempts,   \* failed executions counted by record_attempt
    crashes     \* worker crashes so far

scheduler == <<pc, pos, left, enqueued, forced>>
workers   == <<worker, status, attempts, crashes>>
vars      == <<scheduler, entry, workers>>

\* Of the statuses a run can have, "completed" stands for every terminal one that
\* is not FAILED: the scheduler and the worker's guard treat them alike.
Statuses == {"none", "running", "completed", "failed"}
Terminal == {"completed", "failed"}

\* No worker; the executor runs; it raised and record_attempt has counted it; the
\* FAILED mark is written too.
Stages == {"idle", "run", "counted", "marked"}

Goal == Order[pos]

Init ==
    /\ pc = "scan" /\ pos = 1 /\ left = <<>>
    /\ enqueued = {} /\ forced = {} /\ entry = {}
    /\ worker = [s \in Specs |-> "idle"]
    /\ status = [s \in Specs |-> "none"]
    /\ attempts = [s \in Specs |-> 0]
    /\ crashes = 0

-----------------------------------------------------------------------------
(***************************************************************************)
(* The scheduler.                                                          *)
(***************************************************************************)
\* RunsQueue.enqueue inside _enqueue: an XADD that fails is logged, and the goal
\* counts as enqueued all the same.
Enqueue(s) ==
    /\ enqueued' = enqueued \cup {s}
    /\ \/ entry' = entry \cup {s}
       \/ UNCHANGED entry

\* _release_ready: goals already enqueued are passed over ...
SkipEnqueued ==
    /\ pc = "scan" /\ pos <= Len(Order) /\ Goal \in enqueued
    /\ pos' = pos + 1
    /\ UNCHANGED <<pc, left, enqueued, forced, entry, workers>>

\* ... and for the others _deps_satisfied reads one status hash after the other.
Consider ==
    /\ pc = "scan" /\ pos <= Len(Order) /\ Goal \notin enqueued
    /\ pc' = "deps" /\ left' = Deps[Goal]
    /\ UNCHANGED <<pos, enqueued, forced, entry, workers>>

\* one terminal upstream is enough
M_UpstreamDone ==
    /\ pc = "deps" /\ left # <<>> /\ status[Head(left)] \in Terminal
    /\ left' = <<>>
    /\ UNCHANGED <<pc, pos, enqueued, forced, entry, workers>>

UpstreamDone ==
    /\ pc = "deps" /\ left # <<>> /\ status[Head(left)] \in Terminal
    /\ left' = Tail(left)
    /\ UNCHANGED <<pc, pos, enqueued, forced, entry, workers>>

\* Not terminal, or the read failed, which counts as not terminal.
UpstreamPending ==
    /\ pc = "deps" /\ left # <<>>
    /\ pc' = "scan" /\ pos' = pos + 1
    /\ UNCHANGED <<left, enqueued, forced, entry, workers>>

Release ==
    /\ pc = "deps" /\ left = <<>>
    /\ Enqueue(Goal)
    /\ pc' = "scan" /\ pos' = pos + 1
    /\ UNCHANGED <<left, forced, workers>>

EndScan ==
    /\ pc = "scan" /\ pos > Len(Order)
    /\ pc' = IF enqueued = Specs THEN "done" ELSE "poll"
    /\ UNCHANGED <<pos, left, enqueued, forced, entry, workers>>

\* The loop of phase 2 before its deadline, the sleep of the turn before included.
PollAgain ==
    /\ pc = "poll"
    /\ pc' = "scan" /\ pos' = 1
    /\ UNCHANGED <<left, enqueued, forced, entry, workers>>

\* the loop just ends at the deadline
M_Deadline ==
    /\ pc = "poll"
    /\ pc' = "done" /\ pos' = 1
    /\ UNCHANGED <<left, enqueued, forced, entry, workers>>

\* release_wait_s is over: what is left is enqueued anyway.
Deadline ==
    /\ pc = "poll"
    /\ pc' = "force" /\ pos' = 1
    /\ UNCHANGED <<left, enqueued, forced, entry, workers>>

EnqueueAnyway ==
    /\ pc = "force" /\ pos <= Len(Order)
    /\ \/ Goal \in enqueued /\ UNCHANGED <<enqueued, forced, entry>>
       \/ Goal \notin enqueued /\ Enqueue(Goal) /\ forced' = forced \cup {Goal}
    /\ pos' = pos + 1
    /\ UNCHANGED <<pc, left, workers>>

EndForce ==
    /\ pc = "force" /\ pos > Len(Order)
    /\ pc' = "done"
    /\ UNCHANGED <<pos, left, enqueued, forced, entry, workers>>

-----------------------------------------------------------------------------
(***************************************************************************)
(* The workers, RunConsumer._process: the terminal guard lets FAILED       *)
(* through, so that a failed run is executed again until its attempts are  *)
(* used up.                                                                *)
(***************************************************************************)
Stage(s, to) == worker' = [worker EXCEPT ![s] = to]
Mark(s, to)  == status' = [status EXCEPT ![s] = to]

\* a redelivered entry is executed whatever became of its run
M_Execute(s) ==
    /\ s \in entry /\ worker[s] = "idle"
    /\ Stage(s, "run") /\ Mark(s, "running")
    /\ UNCHANGED <<scheduler, entry, attempts, crashes>>

Execute(s) ==
    /\ s \in entry /\ worker[s] = "idle" /\ status[s] # "completed"
    /\ Stage(s, "run") /\ Mark(s, "running")
    /\ UNCHANGED <<scheduler, entry, attempts, crashes>>

Complete(s) ==
    /\ worker[s] = "run"
    /\ Stage(s, "idle") /\ Mark(s, "completed")
    /\ UNCHANGED <<scheduler, entry, attempts, crashes>>

\* The ack after the mark, or by the guard of a worker that reads the entry again.
Ack(s) ==
    /\ s \in entry /\ worker[s] = "idle" /\ status[s] = "completed"
    /\ entry' = entry \ {s}
    /\ UNCHANGED <<scheduler, workers>>

RecordAttempt(s) ==
    /\ worker[s] = "run"
    /\ attempts' = [attempts EXCEPT ![s] = @ + 1]
    /\ Stage(s, "counted")
    /\ UNCHANGED <<scheduler, entry, status, crashes>>

MarkFailed(s) ==
    /\ worker[s] = "counted"
    /\ Stage(s, "marked") /\ Mark(s, "failed")
    /\ UNCHANGED <<scheduler, entry, attempts, crashes>>

DeadLetter(s) ==
    /\ worker[s] = "marked" /\ attempts[s] >= MaxAttempts
    /\ entry' = entry \ {s}
    /\ Stage(s, "idle")
    /\ UNCHANGED <<scheduler, status, attempts, crashes>>

LeaveForRedelivery(s) ==
    /\ worker[s] = "marked" /\ attempts[s] < MaxAttempts
    /\ Stage(s, "idle")
    /\ UNCHANGED <<scheduler, entry, status, attempts, crashes>>

\* The worker dies; its lease expires and the entry is reclaimed.
Crash(s) ==
    /\ worker[s] # "idle" /\ crashes < MaxCrashes
    /\ Stage(s, "idle") /\ crashes' = crashes + 1
    /\ UNCHANGED <<scheduler, entry, status, attempts>>

Scheduler ==
    \/ SkipEnqueued \/ Consider \/ UpstreamDone \/ UpstreamPending \/ Release
    \/ EndScan \/ PollAgain \/ Deadline \/ EnqueueAnyway \/ EndForce

Worker(s) ==
    \/ Execute(s) \/ Complete(s) \/ Ack(s)
    \/ RecordAttempt(s) \/ MarkFailed(s) \/ DeadLetter(s) \/ LeaveForRedelivery(s)
    \/ Crash(s)

Next == Scheduler \/ \E s \in Specs : Worker(s)

Spec == Init /\ [][Next]_vars

\* The scheduler's coroutine runs on, and the polling loop reaches its deadline:
\* it is tested on every turn, against a clock.
Fairness == WF_vars(Scheduler) /\ SF_vars(Deadline)

FairSpec == Spec /\ Fairness

-----------------------------------------------------------------------------
(***************************************************************************)
(* Properties                                                              *)
(***************************************************************************)
\* The type invariant of the firing.
TypeOK ==
    /\ pc \in {"scan", "deps", "poll", "force", "done"}
    /\ pos \in 1..Len(Order) + 1
    /\ pc = "deps" => pos \in 1..Len(Order)
    /\ left \in Seq(Specs)
    /\ enqueued \subseteq Specs /\ forced \subseteq enqueued
    /\ entry \subseteq enqueued
    /\ worker \in [Specs -> Stages]
    /\ \A s \in Specs : worker[s] # "idle" => s \in entry
    /\ status \in [Specs -> Statuses]
    /\ attempts \in [Specs -> Nat]
    /\ crashes \in Nat

\* A goal is held "until its upstreams are terminal" (enqueue_battery): when it is
\* handed to the queue before the deadline, every upstream has had an execution
\* that completed or failed, though the scheduler reads one status hash after the
\* other and workers go on in between.
Ended(u) == status[u] = "completed" \/ attempts[u] > 0

UpstreamsEnded ==
    \A s \in enqueued \ forced : \A u \in Members(Deps[s]) : Ended(u)

\* While a goal executes that the deadline did not force out, an upstream that has
\* not failed is not executed, and so nothing it wrote is cleared: the release is
\* final, through crashes and redelivered entries, unless a failure is retried.
UpstreamQuiet ==
    \A s \in Specs \ forced :
        worker[s] = "run" =>
            \A u \in Members(Deps[s]) : attempts[u] = 0 => worker[u] # "run"

\* "A cross-query goal never races the upstream whose flat output it reads"
\* (enqueue_battery): while a goal executes that the deadline did not force out,
\* none of its upstreams does, at least until a worker dies.
NoRace ==
    crashes = 0 =>
        \A s \in Specs \ forced :
            worker[s] = "run" => \A u \in Members(Deps[s]) : worker[u] # "run"

\* Every goal of the battery is handed to the queue in the end, whatever becomes
\* of its upstreams, of the workers and of the status reads.
AllReleased == <>(pc = "done" /\ enqueued = Specs)
=============================================================================
