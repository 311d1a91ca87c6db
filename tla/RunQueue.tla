------------------------------ MODULE RunQueue ------------------------------
(***************************************************************************)
(* The asynchronous run queue: the API process (POST /run, POST            *)
(* /runs/{id}/cancel), the Redis stream with its consumer group, the       *)
(* status hash, the cancel flag, the per-run lease and the attempt         *)
(* counter, and the workers that drain the stream (src/worker/*.py,        *)
(* src/api/routes/agent.py).                                               *)
(*                                                                         *)
(* One Redis call, together with the processing of its reply up to the     *)
(* next await, is one step.  RunStatusStore.mark is a read followed by a   *)
(* write of the same hash; both write the status field unconditionally, so *)
(* the pair is one step here.  Time is abstract: a lease may expire when   *)
(* its holder is gone, or (at most MaxStalls times) while it is alive but  *)
(* stalled for longer than lock_ttl_s; a pending entry may have idled past *)
(* reclaim_min_idle_ms at any moment.  TTLs on the status hash, the cancel *)
(* flag and the attempt counter are longer than any behaviour considered.  *)
(***************************************************************************)
EXTENDS Naturals, FiniteSets

CONSTANTS
    Workers,        \* worker processes (one RunConsumer each)
    Clients,        \* concurrent API requests
    Runs,           \* run ids
    Tokens,         \* lease tokens (a uuid4 per _process call)
    None,           \* no token, no run, no worker
    MaxEntries,     \* bound: XADDs in a behaviour
    MaxAttempts,    \* dead_letter_max_attempts
    MaxIter,        \* bound: progress reports of one execution
    MaxCancels,     \* bound: cancel requests
    MaxCrashes,     \* bound: hard kills of a worker or an API process
    MaxStalls,      \* bound: lease expiries under a live holder
    WatchdogArmed   \* run_timeout_s > 0

ASSUME ConstantsAssumption ==
    /\ None \notin Tokens \cup Runs \cup Workers /\ IsFiniteSet(Workers)
    /\ MaxEntries \in Nat /\ MaxAttempts \in Nat \ {0} /\ MaxIter \in Nat
    /\ MaxCancels \in Nat /\ MaxCrashes \in Nat /\ MaxStalls \in Nat
    /\ WatchdogArmed \in BOOLEAN

Entries == 1..MaxEntries
NoEntry == 0                  \* RunStatus.entry_id == ""

\* "none" stands for the missing status hash.
JobStatus == {"none", "queued", "running", "completed", "failed",
              "timeout", "budget_exhausted", "cancelled"}

\* The statuses the worker's terminal guard refuses to run again.
Settled == {"completed", "cancelled", "budget_exhausted", "timeout"}

\* The statuses for which POST /run answers 409.
InFlight == {"queued", "running"}

VARIABLES
    stream,      \* entries in the stream body
    delivered,   \* entries handed out at least once (<= last-delivered-id)
    pel,         \* pending entries of the consumer group
    runOf,       \* run id carried by each entry
    status,      \* status hash of a run: [st, entry]
    cancelFlag,  \* runs whose cancel flag is set
    attempts,    \* failed executions counted per run
    lock,        \* token of the lease holder per run
    pc, src, todo, cur, tok,   \* a worker: control point, kind of its batch,
                               \* batch left, entry in hand, token of the lease
    task,        \* executor task per token: [pc, run, worker, iter]
    ckpt,        \* iterations saved on the checkpoint thread api-{run_id}
    cpc, crun, centry,         \* an API request: control point and arguments
    added, cancels, crashes, stalls,   \* counters of the bounds
    served,      \* history: entries whose execution reached a terminal mark
    dropped      \* history: entries taken out of the group by a cancel request

queue   == <<stream, delivered, pel, runOf>>
hashes  == <<status, cancelFlag, attempts>>
workers == <<pc, src, todo, cur, tok>>
runtime == <<task, ckpt>>
api     == <<cpc, crun, centry, added, cancels>>
faults  == <<crashes, stalls>>
history == <<served, dropped>>
vars    == <<queue, hashes, lock, workers, runtime, api, faults, history>>

\* Executor tasks: not started, between two awaits, in the progress callback;
\* then the four ways a task can be done.
NoTask   == [pc |-> "none", run |-> None, worker |-> None, iter |-> 0]
Live     == {"fresh", "working", "polling"}
Outcomes == {"ok", "budget", "cancel", "error"}

Init ==
    /\ stream = {} /\ delivered = {} /\ pel = {}
    /\ runOf = [e \in Entries |-> None]
    /\ status = [r \in Runs |-> [st |-> "none", entry |-> NoEntry]]
    /\ cancelFlag = {}
    /\ attempts = [r \in Runs |-> 0]
    /\ lock = [r \in Runs |-> None]
    /\ pc = [w \in Workers |-> "loop"] /\ src = [w \in Workers |-> "read"]
    /\ todo = [w \in Workers |-> {}] /\ cur = [w \in Workers |-> NoEntry]
    /\ tok = [w \in Workers |-> None]
    /\ task = [t \in Tokens |-> NoTask]
    /\ ckpt = [r \in Runs |-> 0]
    /\ cpc = [c \in Clients |-> "idle"] /\ crun = [c \in Clients |-> None]
    /\ centry = [c \in Clients |-> NoEntry]
    /\ added = 0 /\ cancels = 0 /\ crashes = 0 /\ stalls = 0
    /\ served = {} /\ dropped = {}

-----------------------------------------------------------------------------
(* Redis primitives.                                                         *)
(* A definition named M_x is a defective variant of the definition that       *)
(* follows it; no action uses it.  PROJECT.json lists the property it breaks. *)

\* RunStatusStore.mark: the status field is replaced, entry_id is kept.
Mark(r, st) == status' = [status EXCEPT ![r].st = st]

\* RunsQueue.ack_and_delete: the XACK, and what comes after it when it counted.
Acked(w, deleting, done) ==
    /\ pel' = pel \ {cur[w]}
    /\ pc' = [pc EXCEPT ![w] = IF cur[w] \in pel THEN deleting ELSE done]

\* RunsQueue.ack_and_delete: the XDEL, whose failure is logged and swallowed.
Delete(e) == stream' = stream \ {e} \/ UNCHANGED stream

\* What the group can still hand out.  An entry that is acked and not deleted
\* lingers in the stream body, and no read or sweep returns it.
Waiting == {e \in stream : e \notin delivered \/ e \in pel}

\* Defect: an unconditional DEL.
M_ReleaseLock(r, t) == lock' = [lock EXCEPT ![r] = None]

\* RunsQueue.release_lock: compare-and-delete.
ReleaseLock(r, t) ==
    lock' = IF lock[r] = t THEN [lock EXCEPT ![r] = None] ELSE lock

Goto(w, there) == pc' = [pc EXCEPT ![w] = there]
RunIn(w) == runOf[cur[w]]      \* the run a worker is processing

-----------------------------------------------------------------------------
(* The API: enqueue_run and cancel_run *)

CGoto(c, there) == cpc' = [cpc EXCEPT ![c] = there]

\* POST /run: the status check.  A run in flight is refused with a 409, which
\* leaves everything as it was.
PostRun(c, r) ==
    /\ cpc[c] = "idle" /\ added < MaxEntries
    /\ status[r].st \notin InFlight
    /\ CGoto(c, "xadd") /\ crun' = [crun EXCEPT ![c] = r]
    /\ UNCHANGED <<queue, hashes, lock, workers, runtime, centry, added, cancels,
                   faults, history>>

Enqueue(c) ==
    /\ cpc[c] = "xadd" /\ added < MaxEntries
    /\ added' = added + 1
    /\ stream' = stream \cup {added'} /\ runOf' = [runOf EXCEPT ![added'] = crun[c]]
    /\ centry' = [centry EXCEPT ![c] = added']
    /\ CGoto(c, "mark")
    /\ UNCHANGED <<delivered, pel, hashes, lock, workers, runtime, crun, cancels,
                   faults, history>>

MarkQueued(c) ==
    /\ cpc[c] = "mark"
    /\ status' = [status EXCEPT ![crun[c]] = [st |-> "queued", entry |-> centry[c]]]
    /\ CGoto(c, "idle")
    /\ UNCHANGED <<queue, cancelFlag, attempts, lock, workers, runtime, crun, centry,
                   added, cancels, faults, history>>

\* POST /runs/{id}/cancel: 404 without a status hash; otherwise the record read
\* here supplies the entry id that is deleted two awaits later.
CancelRun(c, r) ==
    /\ cpc[c] = "idle" /\ cancels < MaxCancels
    /\ status[r].st # "none"
    /\ cancels' = cancels + 1
    /\ CGoto(c, "flag") /\ crun' = [crun EXCEPT ![c] = r]
    /\ centry' = [centry EXCEPT ![c] = status[r].entry]
    /\ UNCHANGED <<queue, hashes, lock, workers, runtime, added, faults, history>>

RequestCancel(c) ==
    /\ cpc[c] = "flag"
    /\ cancelFlag' = cancelFlag \cup {crun[c]}
    /\ CGoto(c, IF centry[c] = NoEntry THEN "idle" ELSE "ackEntry")
    /\ UNCHANGED <<queue, status, attempts, lock, workers, runtime, crun, centry,
                   added, cancels, faults, history>>

\* RunsQueue.delete_entry: an XACK that may fail, and ends the request then ...
AckEntry(c) ==
    /\ cpc[c] = "ackEntry"
    /\ \/ /\ pel' = pel \ {centry[c]} /\ dropped' = dropped \cup (pel \cap {centry[c]})
          /\ CGoto(c, "delete")
       \/ UNCHANGED <<pel, dropped>> /\ CGoto(c, "idle")
    /\ UNCHANGED <<stream, delivered, runOf, hashes, lock, workers, runtime, crun, centry,
                   added, cancels, faults, served>>

\* ... and an XDEL, whatever the XACK counted, that may fail too.
DeleteEntry(c) ==
    /\ cpc[c] = "delete"
    /\ \/ stream' = stream \ {centry[c]} /\ dropped' = dropped \cup {centry[c]}
       \/ UNCHANGED <<stream, dropped>>
    /\ CGoto(c, "idle")
    /\ UNCHANGED <<delivered, pel, runOf, hashes, lock, workers, runtime, crun, centry,
                   added, cancels, faults, served>>

-----------------------------------------------------------------------------
(* The worker's loop: run_once alternates reclaim_stale and read_new, and     *)
(* processes each batch, in id order, before it takes the next one            *)

\* XAUTOCLAIM: any pending entries, this consumer's own included, that idled
\* long enough; those no longer in the stream are dropped from the pending list.
ReclaimStale(w, batch) ==
    /\ pc[w] = "loop" /\ todo[w] = {} /\ src[w] = "read"
    /\ batch \subseteq pel
    /\ todo' = [todo EXCEPT ![w] = batch \cap stream]
    /\ pel' = pel \ (batch \ stream)
    /\ src' = [src EXCEPT ![w] = "reclaim"]
    /\ UNCHANGED <<stream, delivered, runOf, hashes, lock, pc, cur, tok, runtime, api,
                   faults, history>>

\* XREADGROUP >: the entries never delivered before.
ReadNew(w) ==
    /\ pc[w] = "loop" /\ todo[w] = {} /\ src[w] = "reclaim"
    /\ LET new == stream \ delivered
       IN  /\ todo' = [todo EXCEPT ![w] = new]
           /\ delivered' = delivered \cup new /\ pel' = pel \cup new
    /\ src' = [src EXCEPT ![w] = "read"]
    /\ UNCHANGED <<stream, runOf, hashes, lock, pc, cur, tok, runtime, api, faults,
                   history>>

\* The entry the loop takes next, from the copy it holds in memory.
IsNext(w, e) == e \in todo[w] /\ \A f \in todo[w] : e <= f

-----------------------------------------------------------------------------
(* RunConsumer._process *)

\* The lease is held by somebody: the entry is left to its owner.
SkipHeld(w, e) ==
    /\ pc[w] = "loop" /\ IsNext(w, e) /\ lock[runOf[e]] # None
    /\ todo' = [todo EXCEPT ![w] = @ \ {e}]
    /\ UNCHANGED <<queue, hashes, lock, pc, src, cur, tok, runtime, api, faults,
                   history>>

\* A token is a fresh uuid4: no worker, lease or task refers to it.
Fresh(t) ==
    /\ task[t] = NoTask
    /\ \A w \in Workers : tok[w] # t
    /\ \A r \in Runs : lock[r] # t

\* Defect: SET without NX.
M_TryLock(w, e, t) ==
    /\ pc[w] = "loop" /\ IsNext(w, e) /\ Fresh(t)
    /\ lock' = [lock EXCEPT ![runOf[e]] = t]
    /\ todo' = [todo EXCEPT ![w] = @ \ {e}]
    /\ cur' = [cur EXCEPT ![w] = e] /\ tok' = [tok EXCEPT ![w] = t]
    /\ Goto(w, "guard")
    /\ UNCHANGED <<queue, hashes, src, runtime, api, faults, history>>

TryLock(w, e, t) ==
    /\ pc[w] = "loop" /\ IsNext(w, e) /\ lock[runOf[e]] = None /\ Fresh(t)
    /\ lock' = [lock EXCEPT ![runOf[e]] = t]
    /\ todo' = [todo EXCEPT ![w] = @ \ {e}]
    /\ cur' = [cur EXCEPT ![w] = e] /\ tok' = [tok EXCEPT ![w] = t]
    /\ Goto(w, "guard")
    /\ UNCHANGED <<queue, hashes, src, runtime, api, faults, history>>

Guarded(w, refused) ==
    /\ pc[w] = "guard"
    /\ Goto(w, IF status[RunIn(w)].st \in refused THEN "ackDuplicate" ELSE "claim")
    /\ UNCHANGED <<queue, hashes, lock, src, todo, cur, tok, runtime, api, faults,
                   history>>

\* Defects: FAILED counts as settled; no guard at all.
M_GuardFailed(w) == Guarded(w, Settled \cup {"failed"})
M_NoGuard(w)     == Guarded(w, {})

\* The idempotent terminal guard reads the status; FAILED is run again.
TerminalGuard(w) == Guarded(w, Settled)

\* The RUNNING mark, then the executor task is created.
MarkRunning(w) ==
    /\ pc[w] = "claim"
    /\ Mark(RunIn(w), "running")
    /\ task' = [task EXCEPT ![tok[w]] =
                   [pc |-> "fresh", run |-> RunIn(w), worker |-> w, iter |-> 0]]
    /\ Goto(w, "run")
    /\ UNCHANGED <<queue, cancelFlag, attempts, lock, src, todo, cur, tok, ckpt, api,
                   faults, history>>

\* The supervisor sees the executor task done: while it waits, or while the
\* watchdog it then cancels is still between two of its calls.
Awaiting(w) == pc[w] \in {"run", "wdAck", "wdDelete", "wdRelease"}
Returned(w, o) == Awaiting(w) /\ task[tok[w]].pc = o

\* Defect: the outcome's own name is stored, which is no JobStatus.
M_StatusFor == [ok |-> "completed", budget |-> "budget_exhausted", cancel |-> "cancel"]

StatusFor == [ok |-> "completed", budget |-> "budget_exhausted", cancel |-> "cancelled"]

\* A result, a budget hard stop or a graceful cancel: mark, then ack.
Settle(w) ==
    /\ \E o \in DOMAIN StatusFor :
          Returned(w, o) /\ Mark(RunIn(w), StatusFor[o])
    /\ task' = [task EXCEPT ![tok[w]] = NoTask]
    /\ served' = served \cup {cur[w]}
    /\ Goto(w, "ack")
    /\ UNCHANGED <<queue, cancelFlag, attempts, lock, src, todo, cur, tok, ckpt, api,
                   faults, dropped>>

\* Defect: one attempt too many.
M_AtCap(n) == n > MaxAttempts

AtCap(n) == n >= MaxAttempts

\* The executor raised: the attempt is counted and compared with the cap.
RecordAttempt(w) ==
    /\ Returned(w, "error")
    /\ attempts' = [attempts EXCEPT ![RunIn(w)] = @ + 1]
    /\ task' = [task EXCEPT ![tok[w]] = NoTask]
    /\ Goto(w, IF AtCap(attempts'[RunIn(w)]) THEN "deadLetter" ELSE "retry")
    /\ UNCHANGED <<queue, status, cancelFlag, lock, src, todo, cur, tok, ckpt, api,
                   faults, history>>

DeadLetter(w) ==
    /\ pc[w] = "deadLetter"
    /\ Mark(RunIn(w), "failed")
    /\ served' = served \cup {cur[w]}
    /\ Goto(w, "ack")
    /\ UNCHANGED <<queue, cancelFlag, attempts, lock, src, todo, cur, tok, runtime, api,
                   faults, dropped>>

\* Defect: the entry is acked before its retry.
M_LeaveForRedelivery(w) ==
    /\ pc[w] = "retry"
    /\ Mark(RunIn(w), "failed") /\ Acked(w, "release", "release")
    /\ UNCHANGED <<stream, delivered, runOf, cancelFlag, attempts, lock, src, todo, cur, tok, runtime, api,
                   faults, history>>

LeaveForRedelivery(w) ==
    /\ pc[w] = "retry"
    /\ Mark(RunIn(w), "failed")
    /\ Goto(w, "release")
    /\ UNCHANGED <<queue, cancelFlag, attempts, lock, src, todo, cur, tok, runtime, api,
                   faults, history>>

AckTerminal(w) ==
    /\ pc[w] \in {"ack", "ackDuplicate"}
    /\ Acked(w, "delete", "release")
    /\ UNCHANGED <<stream, delivered, runOf, hashes, lock, src, todo, cur, tok, runtime,
                   api, faults, history>>

DeleteTerminal(w) ==
    /\ pc[w] = "delete"
    /\ Delete(cur[w])
    /\ Goto(w, "release")
    /\ UNCHANGED <<delivered, pel, runOf, hashes, lock, src, todo, cur, tok, runtime, api,
                   faults, history>>

\* _process returns: the entry and the token are forgotten.
Return(w) ==
    /\ cur' = [cur EXCEPT ![w] = NoEntry] /\ tok' = [tok EXCEPT ![w] = None]
    /\ Goto(w, "loop")

FinallyRelease(w) ==
    /\ pc[w] = "release"
    /\ ReleaseLock(RunIn(w), tok[w])
    /\ Return(w)
    /\ UNCHANGED <<queue, hashes, src, todo, runtime, api, faults, history>>

-----------------------------------------------------------------------------
(* RunConsumer._watchdog, and the supervisor's unwinding of the executor *)

\* Defect: a task that has not left its set-up is taken for one that is done.
M_WatchdogTimeout(w) ==
    /\ WatchdogArmed /\ pc[w] = "run" /\ task[tok[w]].pc \in Live \ {"fresh"}
    /\ Mark(RunIn(w), "timeout")
    /\ served' = served \cup {cur[w]}
    /\ Goto(w, "wdAck")
    /\ UNCHANGED <<queue, cancelFlag, attempts, lock, src, todo, cur, tok, runtime, api,
                   faults, dropped>>

\* The deadline passes while the executor is still running.
WatchdogTimeout(w) ==
    /\ WatchdogArmed /\ pc[w] = "run" /\ task[tok[w]].pc \in Live
    /\ Mark(RunIn(w), "timeout")
    /\ served' = served \cup {cur[w]}
    /\ Goto(w, "wdAck")
    /\ UNCHANGED <<queue, cancelFlag, attempts, lock, src, todo, cur, tok, runtime, api,
                   faults, dropped>>

WatchdogAck(w) ==
    /\ pc[w] = "wdAck"
    /\ Acked(w, "wdDelete", "wdRelease")
    /\ UNCHANGED <<stream, delivered, runOf, hashes, lock, src, todo, cur, tok, runtime,
                   api, faults, history>>

WatchdogDelete(w) ==
    /\ pc[w] = "wdDelete"
    /\ Delete(cur[w])
    /\ Goto(w, "wdRelease")
    /\ UNCHANGED <<delivered, pel, runOf, hashes, lock, src, todo, cur, tok, runtime, api,
                   faults, history>>

WatchdogRelease(w) ==
    /\ pc[w] = "wdRelease"
    /\ ReleaseLock(RunIn(w), tok[w])
    /\ Goto(w, "unwind")
    /\ UNCHANGED <<queue, hashes, src, todo, cur, tok, runtime, api, faults, history>>

\* exec_task.cancel() and a bounded wait: the executor ends, or absorbs the
\* cancellation and is abandoned, still running, when _process returns.
UnwindExecutor(w) ==
    /\ pc[w] = "unwind"
    /\ \/ task' = [task EXCEPT ![tok[w]] = NoTask]
       \/ task[tok[w]].pc \in Live /\ UNCHANGED task
    /\ ReleaseLock(RunIn(w), tok[w])
    /\ Return(w)
    /\ UNCHANGED <<queue, hashes, src, todo, ckpt, api, faults, history>>

-----------------------------------------------------------------------------
(* The executor: default_agent_executor and execute_run under a task *)

TaskGoto(t, there) == task' = [task EXCEPT ![t].pc = there]

\* resume=False: the thread's prior checkpoint is deleted before the graph runs.
ExecuteFresh(t) ==
    /\ task[t].pc = "fresh"
    /\ ckpt' = [ckpt EXCEPT ![task[t].run] = 0]
    /\ TaskGoto(t, "working")
    /\ UNCHANGED <<queue, hashes, lock, workers, api, faults, history>>

\* A super-step is checkpointed and its new iteration_count is reported: the
\* callback marks the run RUNNING, whatever the status was.
ReportProgress(t) ==
    /\ task[t].pc = "working" /\ task[t].iter < MaxIter
    /\ ckpt' = [ckpt EXCEPT ![task[t].run] = task[t].iter + 1]
    /\ Mark(task[t].run, "running")
    /\ task' = [task EXCEPT ![t].pc = "polling", ![t].iter = @ + 1]
    /\ UNCHANGED <<queue, cancelFlag, attempts, lock, workers, api, faults, history>>

\* Nobody awaits an abandoned task: its outcome is dropped.
Abandoned(t) == tok[task[t].worker] # t
Done(t, o)   == IF Abandoned(t) THEN task' = [task EXCEPT ![t] = NoTask] ELSE TaskGoto(t, o)

\* The callback polls the cancel flag and raises RunCancelled when it is set.
PollCancel(t) ==
    /\ task[t].pc = "polling"
    /\ IF task[t].run \in cancelFlag THEN Done(t, "cancel") ELSE TaskGoto(t, "working")
    /\ UNCHANGED <<queue, hashes, lock, workers, ckpt, api, faults, history>>

\* The graph ends, raises, or meets the budget hard stop; the set-up before it
\* can only raise.
ExecutorReturns(t) ==
    /\ \/ task[t].pc = "fresh" /\ Done(t, "error")
       \/ task[t].pc = "working" /\ \E o \in {"ok", "budget", "error"} : Done(t, o)
    /\ UNCHANGED <<queue, hashes, lock, workers, ckpt, api, faults, history>>

-----------------------------------------------------------------------------
(* Faults *)

Holder(r, w) == tok[w] = lock[r] /\ pc[w] # "loop"

\* EX lock_ttl_s elapses.  A live holder renews every ttl/3, so it loses its
\* lease only when it is stalled for longer than that.
LeaseExpires(r) ==
    /\ lock[r] # None
    /\ IF \E w \in Workers : Holder(r, w)
       THEN stalls < MaxStalls /\ stalls' = stalls + 1
       ELSE UNCHANGED stalls
    /\ lock' = [lock EXCEPT ![r] = None]
    /\ UNCHANGED <<queue, hashes, workers, runtime, api, crashes, history>>

\* A hard kill and the restart: the batch, the entry in hand and every task of
\* the process are gone; the lease, the PEL and the hashes stay.
WorkerCrash(w) ==
    /\ crashes < MaxCrashes /\ crashes' = crashes + 1
    /\ pc[w] # "loop" \/ todo[w] # {} \/ \E t \in Tokens : task[t].worker = w
    /\ pc' = [pc EXCEPT ![w] = "loop"] /\ src' = [src EXCEPT ![w] = "read"]
    /\ todo' = [todo EXCEPT ![w] = {}] /\ cur' = [cur EXCEPT ![w] = NoEntry]
    /\ tok' = [tok EXCEPT ![w] = None]
    /\ task' = [t \in Tokens |-> IF task[t].worker = w THEN NoTask ELSE task[t]]
    /\ UNCHANGED <<queue, hashes, lock, ckpt, api, stalls, history>>

\* The API process dies between two calls of a request.
ClientCrash(c) ==
    /\ crashes < MaxCrashes /\ crashes' = crashes + 1
    /\ cpc[c] # "idle" /\ CGoto(c, "idle")
    /\ UNCHANGED <<queue, hashes, lock, workers, runtime, crun, centry, added, cancels,
                   stalls, history>>

-----------------------------------------------------------------------------

ApiStep(c) == Enqueue(c) \/ MarkQueued(c) \/ RequestCancel(c)
              \/ AckEntry(c) \/ DeleteEntry(c)

Supervise(w) ==
    \/ \E e \in Entries : SkipHeld(w, e)
    \/ \E e \in Entries, t \in Tokens : TryLock(w, e, t)
    \/ TerminalGuard(w) \/ MarkRunning(w)
    \/ Settle(w) \/ RecordAttempt(w) \/ DeadLetter(w) \/ LeaveForRedelivery(w)
    \/ AckTerminal(w) \/ DeleteTerminal(w) \/ FinallyRelease(w)
    \/ WatchdogAck(w) \/ WatchdogDelete(w) \/ WatchdogRelease(w) \/ UnwindExecutor(w)

Execute(t) == ExecuteFresh(t) \/ ReportProgress(t) \/ PollCancel(t) \/ ExecutorReturns(t)

Next ==
    \/ \E c \in Clients, r \in Runs : PostRun(c, r) \/ CancelRun(c, r)
    \/ \E c \in Clients : ApiStep(c) \/ ClientCrash(c)
    \/ \E w \in Workers : \/ \E batch \in SUBSET Entries : ReclaimStale(w, batch)
                          \/ ReadNew(w) \/ Supervise(w)
                          \/ WatchdogTimeout(w) \/ WorkerCrash(w)
    \/ \E t \in Tokens : Execute(t)
    \/ \E r \in Runs : LeaseExpires(r)

Spec == Init /\ [][Next]_vars

\* Fairness.  A worker loops forever and every Redis call it awaits returns; an
\* entry idles past the reclaim threshold again and again, so that a sweep that
\* takes every pending entry happens infinitely often when it is possible
\* infinitely often; the lease of a dead holder expires; the deadline passes.
QueueFairness ==
    /\ \A w \in Workers : /\ WF_vars(ReadNew(w)) /\ WF_vars(Supervise(w))
                          /\ SF_vars(ReclaimStale(w, pel)) /\ WF_vars(WatchdogTimeout(w))
    /\ \A r \in Runs : WF_vars(LeaseExpires(r) /\ UNCHANGED stalls)
    /\ \A c \in Clients : WF_vars(ApiStep(c))

\* With the watchdog armed nothing is asked of the executor, which may hang or
\* absorb its cancellation; unarmed, its steps must be taken.
FairSpec == /\ Spec /\ QueueFairness
            /\ ~WatchdogArmed => \A t \in Tokens : WF_vars(Execute(t))

-----------------------------------------------------------------------------
(* Properties *)

StatusHashes == [st : JobStatus, entry : Entries \cup {NoEntry}]
Tasks        == [pc : {"none"} \cup Live \cup Outcomes, run : Runs \cup {None},
                 worker : Workers \cup {None}, iter : 0..MaxIter]

\* Type invariant of the queue, the hashes, the workers, the tasks and the API.
TypeOK ==
    /\ stream \subseteq Entries /\ delivered \subseteq Entries /\ pel \subseteq Entries
    /\ runOf \in [Entries -> Runs \cup {None}]
    /\ status \in [Runs -> StatusHashes]
    /\ cancelFlag \subseteq Runs
    /\ attempts \in [Runs -> Nat]
    /\ lock \in [Runs -> Tokens \cup {None}]
    /\ pc \in [Workers -> {"loop", "guard", "ackDuplicate", "claim", "run", "ack",
                           "delete", "deadLetter", "retry", "release",
                           "wdAck", "wdDelete", "wdRelease", "unwind"}]
    /\ src \in [Workers -> {"read", "reclaim"}]
    /\ todo \in [Workers -> SUBSET Entries]
    /\ cur \in [Workers -> Entries \cup {NoEntry}]
    /\ tok \in [Workers -> Tokens \cup {None}]
    /\ task \in [Tokens -> Tasks]
    /\ ckpt \in [Runs -> 0..MaxIter]
    /\ cpc \in [Clients -> {"idle", "xadd", "mark", "flag", "ackEntry", "delete"}]
    /\ crun \in [Clients -> Runs \cup {None}]
    /\ centry \in [Clients -> Entries \cup {NoEntry}]
    /\ added \in 0..MaxEntries /\ cancels \in Nat /\ crashes \in Nat /\ stalls \in Nat
    /\ served \subseteq Entries /\ dropped \subseteq Entries \cup {NoEntry}

\* The control points at which _process owns the lease of its run.
Owning == {"guard", "ackDuplicate", "claim", "run", "ack", "delete", "deadLetter",
           "retry", "release", "wdAck", "wdDelete", "wdRelease"}

\* The lease admits one _process per run: as long as no live holder has been
\* stalled past lock_ttl_s, two workers are never inside _process for the same
\* run, however the entry was reclaimed (queue.try_lock, runner._process).
LeaseExclusive ==
    stalls = 0 =>
        \A v, w \in Workers : v # w /\ pc[v] \in Owning /\ pc[w] \in Owning
                              => RunIn(v) # RunIn(w)

\* A holder loses its lease only by its own release, by its own death or by a
\* stall: the release of a stale holder never evicts the peer that took over
\* (queue.release_lock is a compare-and-delete).
LeaseLostByOwnerOnly ==
    [][\A w \in Workers :
          pc[w] \in Owning /\ lock[RunIn(w)] = tok[w]
          => \/ lock'[RunIn(w)] = tok[w]
             \/ pc[w] = "wdRelease" /\ pc'[w] = "unwind"
             \/ tok'[w] = None
             \/ stalls' > stalls]_vars

\* The worker starts no execution of a run whose status says it is settled: the
\* guard read and the RUNNING mark are two calls, and the lease keeps every other
\* worker from settling the run between them (runner._process, Fix A1).
SettledRunNotStarted ==
    [][\A w \in Workers : stalls = 0 /\ MarkRunning(w) => status[RunIn(w)].st \notin Settled]_vars

\* At least once: the group hands an entry out until some execution of its run
\* reached a terminal mark, or a cancel request took the entry away, whatever
\* crashes, stalls and duplicates happen (ack_and_delete comes after the mark).
AtLeastOnce ==
    \A e \in 1..added : e \in Waiting \/ e \in dropped
                         \/ \E f \in served : runOf[f] = runOf[e]

\* The dead-letter cap bounds the executions that fail: beyond the cap only the
\* stale copies other workers hold in memory, duplicate entries, and deliveries
\* cut short between the count and the ack can fail once more each
\* (runner._process, queue.record_attempt).
FailuresBounded ==
    \A r \in Runs : LET entries == Cardinality({e \in 1..added : runOf[e] = r})
                    IN  attempts[r] <= (MaxAttempts - 1) + entries * Cardinality(Workers)
                                       + crashes

\* Until a live holder is stalled past lock_ttl_s, a settled status changes only
\* when a POST deliberately re-enqueues the run: no late progress report or mark
\* of a worker overwrites it (runner._process marks under the lease).
SettledStaysSettled ==
    [][\A r \in Runs : stalls = 0 /\ status[r].st \in Settled /\ status'[r].st # status[r].st
          => \E c \in Clients : MarkQueued(c) /\ crun[c] = r]_vars

\* Every entry is eventually out of the group's hands: it is run to a terminal
\* status, dead-lettered, recognised as a duplicate, or taken away by a cancel
\* request.  Its body may stay in the stream when the XDEL after the XACK fails, or
\* a crash or the cancellation of the watchdog comes in between.
Drains == \A e \in Entries : e \in Waiting ~> e \notin Waiting

-----------------------------------------------------------------------------
(* The abstract queue this one implements: a run is held from the moment the  *)
(* lease is taken until it is released, the executor's zombies aside.         *)

Lifecycle == INSTANCE RunLifecycle WITH
    Holders   <- Workers,
    Jobs      <- Runs,
    Slots     <- Entries,
    Nobody    <- None,
    Open      <- JobStatus \ Settled,
    Closed    <- Settled,
    Posted    <- "queued",
    Running   <- "running",
    Failed    <- "failed",
    Zombies   <- WatchdogArmed,
    waiting   <- Waiting,
    job       <- runOf,
    standing  <- [r \in Runs |-> status[r].st],
    holds     <- [w \in Workers |-> IF pc[w] \in Owning THEN RunIn(w) ELSE None],
    ended     <- served,
    discarded <- dropped,
    degraded  <- stalls > 0

\* The stream, the leases and the status hashes together keep the promises of
\* RunLifecycle: one holder per run until a stall, a status moved by its holder
\* from an open one only, an entry removed by a holder whose run has been ended
\* (_process, _watchdog, ack_and_delete, enqueue_run, cancel_run).
ImplementsLifecycle == Lifecycle!Spec

=============================================================================
