--------------------------- MODULE RunQueueProofs ---------------------------
(***************************************************************************)
(* Theorems about RunQueue, for every number of workers, requests, runs,   *)
(* entries and tokens and every value of the bounds.                       *)
(***************************************************************************)
EXTENDS RunQueue, FiniteSetTheorems, TLAPS

Assigned == 1..added           \* the entries added so far

\* TypeOK and what it leaves open, in the three parts the proof treats apart.  An
\* entry in use has been added and carries a run; a worker inside _process has an
\* entry and a token; a request has its arguments; a task has a run.
StatusInv == status \in [Runs -> StatusHashes]

TaskInv == /\ task \in [Tokens -> Tasks]
           /\ \A t \in Tokens : task[t].pc # "none" => task[t].run \in Runs

BaseInv ==
    /\ stream \subseteq Assigned /\ pel \subseteq Assigned /\ delivered \subseteq Assigned
    /\ pel \subseteq delivered
    /\ runOf \in [Entries -> Runs \cup {None}]
    /\ \A e \in Assigned : runOf[e] \in Runs
    /\ cancelFlag \subseteq Runs
    /\ attempts \in [Runs -> Nat]
    /\ lock \in [Runs -> Tokens \cup {None}]
    /\ pc \in [Workers -> {"loop", "guard", "ackDuplicate", "claim", "run", "ack",
                           "delete", "deadLetter", "retry", "release",
                           "wdAck", "wdDelete", "wdRelease", "unwind"}]
    /\ src \in [Workers -> {"read", "reclaim"}]
    /\ todo \in [Workers -> SUBSET Entries]
    /\ cur \in [Workers -> Entries \cup {NoEntry}]
    /\ tok \in [Workers -> Tokens \cup {None}]
    /\ \A w \in Workers : /\ todo[w] \subseteq Assigned
                          /\ pc[w] # "loop" => cur[w] \in Assigned /\ tok[w] \in Tokens
    /\ ckpt \in [Runs -> 0..MaxIter]
    /\ cpc \in [Clients -> {"idle", "xadd", "mark", "flag", "ackEntry", "delete"}]
    /\ crun \in [Clients -> Runs \cup {None}]
    /\ centry \in [Clients -> Entries \cup {NoEntry}]
    /\ \A c \in Clients : /\ cpc[c] # "idle" => crun[c] \in Runs
                          /\ cpc[c] = "mark" => centry[c] \in Assigned
    /\ added \in 0..MaxEntries /\ cancels \in Nat /\ crashes \in Nat /\ stalls \in Nat
    /\ served \subseteq Assigned /\ dropped \subseteq Entries \cup {NoEntry}

TypeInv == StatusInv /\ TaskInv /\ BaseInv

LEMMA TypeInvTypeOK == TypeInv => TypeOK
BY ConstantsAssumption DEF TypeInv, StatusInv, TaskInv, BaseInv, TypeOK, Assigned, Entries

LEMMA NoTaskType == NoTask \in Tasks /\ NoTask.pc = "none"
BY ConstantsAssumption DEF NoTask, Tasks

LEMMA TypeInit == Init => TypeInv
<1> SUFFICES ASSUME Init PROVE TypeInv
  OBVIOUS
<1>1. StatusInv
  BY DEF Init, StatusInv, StatusHashes, JobStatus, NoEntry
<1>2. TaskInv
  BY NoTaskType DEF Init, TaskInv
<1>3. BaseInv
  BY ConstantsAssumption DEF Init, BaseInv, Assigned, Entries, NoEntry
<1> QED
  BY <1>1, <1>2, <1>3 DEF TypeInv

\* A mark keeps the hashes well typed.
LEMMA MarkType ==
    ASSUME StatusInv, NEW r, NEW st \in JobStatus, Mark(r, st)
    PROVE  StatusInv'
BY DEF StatusInv, StatusHashes, Mark

\* Putting a well-typed task in place of another, or moving one, keeps them so.
LEMMA TaskPut ==
    ASSUME TaskInv, NEW t, NEW x \in Tasks, x.pc # "none" => x.run \in Runs,
           task' = [task EXCEPT ![t] = x]
    PROVE  TaskInv'
BY DEF TaskInv

LEMMA TaskMove ==
    ASSUME TaskInv, NEW t \in Tokens, NEW there \in Live \cup Outcomes,
           task[t].pc # "none", TaskGoto(t, there)
    PROVE  TaskInv'
<1> DEFINE x == [task[t] EXCEPT !.pc = there]
<1>1. x \in Tasks /\ x.run \in Runs
  BY DEF TaskInv, Tasks
<1>2. task' = [task EXCEPT ![t] = x]
  BY DEF TaskGoto
<1> QED
  BY <1>1, <1>2, TaskPut

LEMMA TaskDone ==
    ASSUME TaskInv, NEW t \in Tokens, NEW o \in Outcomes, task[t].pc # "none", Done(t, o)
    PROVE  TaskInv'
<1>1. CASE Abandoned(t)
  BY <1>1, NoTaskType, TaskPut DEF Done
<1>2. CASE ~Abandoned(t)
  BY <1>2, TaskMove DEF Done
<1> QED
  BY <1>1, <1>2

LEMMA TypeStep == TypeInv /\ [Next]_vars => TypeInv'
<1> SUFFICES ASSUME TypeInv, [Next]_vars PROVE TypeInv'
  OBVIOUS
<1> USE ConstantsAssumption DEF TypeInv, Assigned, Entries, NoEntry
<1> USE DEF queue, hashes, workers, runtime, api, faults, history
<1>1. ASSUME NEW c \in Clients, NEW r \in Runs, PostRun(c, r) PROVE TypeInv'
  <2>a. StatusInv'
    BY <1>1 DEF PostRun, StatusInv
  <2>b. TaskInv'
    BY <1>1 DEF PostRun, TaskInv
  <2>c. BaseInv'
    BY <1>1 DEF BaseInv, PostRun, CGoto
  <2> QED
    BY <2>a, <2>b, <2>c
<1>2. ASSUME NEW c \in Clients, NEW r \in Runs, CancelRun(c, r) PROVE TypeInv'
  <2>1. status[r].entry \in Entries \cup {NoEntry}
    BY DEF StatusInv, StatusHashes
  <2>a. StatusInv'
    BY <1>2 DEF CancelRun, StatusInv
  <2>b. TaskInv'
    BY <1>2 DEF CancelRun, TaskInv
  <2>c. BaseInv'
    BY <1>2, <2>1 DEF BaseInv, CancelRun, CGoto
  <2> QED
    BY <2>a, <2>b, <2>c
<1>3. ASSUME NEW c \in Clients, Enqueue(c) PROVE TypeInv'
  <2>a. StatusInv'
    BY <1>3 DEF Enqueue, StatusInv
  <2>b. TaskInv'
    BY <1>3 DEF Enqueue, TaskInv
  <2>c. BaseInv'
    BY <1>3 DEF BaseInv, Enqueue, CGoto
  <2> QED
    BY <2>a, <2>b, <2>c
<1>4. ASSUME NEW c \in Clients, MarkQueued(c) PROVE TypeInv'
  <2>a. StatusInv'
    BY <1>4 DEF MarkQueued, StatusInv, StatusHashes, JobStatus, BaseInv
  <2>b. TaskInv'
    BY <1>4 DEF MarkQueued, TaskInv
  <2>c. BaseInv'
    BY <1>4 DEF BaseInv, MarkQueued, CGoto
  <2> QED
    BY <2>a, <2>b, <2>c
<1>5. ASSUME NEW c \in Clients, RequestCancel(c) PROVE TypeInv'
  <2>a. StatusInv'
    BY <1>5 DEF RequestCancel, StatusInv
  <2>b. TaskInv'
    BY <1>5 DEF RequestCancel, TaskInv
  <2>c. BaseInv'
    BY <1>5 DEF BaseInv, RequestCancel, CGoto
  <2> QED
    BY <2>a, <2>b, <2>c
<1>6. ASSUME NEW c \in Clients, DeleteEntry(c) PROVE TypeInv'
  <2>a. StatusInv'
    BY <1>6 DEF DeleteEntry, StatusInv
  <2>b. TaskInv'
    BY <1>6 DEF DeleteEntry, TaskInv
  <2>c. BaseInv'
    BY <1>6 DEF BaseInv, DeleteEntry, CGoto
  <2> QED
    BY <2>a, <2>b, <2>c
<1>7. ASSUME NEW c \in Clients, ClientCrash(c) PROVE TypeInv'
  <2>a. StatusInv'
    BY <1>7 DEF ClientCrash, StatusInv
  <2>b. TaskInv'
    BY <1>7 DEF ClientCrash, TaskInv
  <2>c. BaseInv'
    BY <1>7 DEF BaseInv, ClientCrash, CGoto
  <2> QED
    BY <2>a, <2>b, <2>c
<1>8. ASSUME NEW w \in Workers, NEW batch \in SUBSET Entries, ReclaimStale(w, batch) PROVE TypeInv'
  <2>a. StatusInv'
    BY <1>8 DEF ReclaimStale, StatusInv
  <2>b. TaskInv'
    BY <1>8 DEF ReclaimStale, TaskInv
  <2>c. BaseInv'
    BY <1>8 DEF BaseInv, ReclaimStale
  <2> QED
    BY <2>a, <2>b, <2>c
<1>9. ASSUME NEW w \in Workers, ReadNew(w) PROVE TypeInv'
  <2> DEFINE new == stream \ delivered
  <2>1. /\ todo' = [todo EXCEPT ![w] = new]
        /\ delivered' = delivered \cup new /\ pel' = pel \cup new
    BY <1>9 DEF ReadNew
  <2>2. new \subseteq Assigned /\ new \subseteq Entries
    BY DEF BaseInv
  <2>3. todo' \in [Workers -> SUBSET Entries] /\ \A v \in Workers : todo'[v] \subseteq Assigned
    BY <2>1, <2>2 DEF BaseInv
  <2> HIDE DEF new
  <2>a. StatusInv'
    BY <1>9 DEF ReadNew, StatusInv
  <2>b. TaskInv'
    BY <1>9 DEF ReadNew, TaskInv
  <2>c. BaseInv'
    BY <1>9, <2>1, <2>2, <2>3 DEF BaseInv, ReadNew
  <2> QED
    BY <2>a, <2>b, <2>c
<1>10. ASSUME NEW w \in Workers, NEW e \in Entries, SkipHeld(w, e) PROVE TypeInv'
  <2>a. StatusInv'
    BY <1>10 DEF SkipHeld, StatusInv
  <2>b. TaskInv'
    BY <1>10 DEF SkipHeld, TaskInv
  <2>c. BaseInv'
    BY <1>10 DEF BaseInv, SkipHeld
  <2> QED
    BY <2>a, <2>b, <2>c
<1>11. ASSUME NEW w \in Workers, NEW e \in Entries, NEW t \in Tokens, TryLock(w, e, t) PROVE TypeInv'
  <2>1. e \in todo[w] /\ e \in Assigned /\ runOf[e] \in Runs
    BY <1>11 DEF TryLock, IsNext, BaseInv
  <2>a. StatusInv'
    BY <1>11 DEF TryLock, StatusInv
  <2>b. TaskInv'
    BY <1>11 DEF TryLock, TaskInv
  <2>c. BaseInv'
    BY <1>11, <2>1 DEF BaseInv, TryLock, Goto
  <2> QED
    BY <2>a, <2>b, <2>c
<1>12. ASSUME NEW w \in Workers, TerminalGuard(w) PROVE TypeInv'
  <2>a. StatusInv'
    BY <1>12 DEF TerminalGuard, Guarded, StatusInv
  <2>b. TaskInv'
    BY <1>12 DEF TerminalGuard, Guarded, TaskInv
  <2>c. BaseInv'
    BY <1>12 DEF BaseInv, TerminalGuard, Guarded, Goto
  <2> QED
    BY <2>a, <2>b, <2>c
<1>13. ASSUME NEW w \in Workers, MarkRunning(w) PROVE TypeInv'
  <2>1. cur[w] \in Assigned /\ tok[w] \in Tokens /\ RunIn(w) \in Runs
    BY <1>13 DEF MarkRunning, RunIn, BaseInv
  <2> DEFINE new == [pc |-> "fresh", run |-> RunIn(w), worker |-> w, iter |-> 0]
  <2>2. new \in Tasks /\ new.run \in Runs
    BY <2>1 DEF Live, Tasks
  <2>3. task' = [task EXCEPT ![tok[w]] = new]
    BY <1>13 DEF MarkRunning
  <2> HIDE DEF new
  <2>a. StatusInv'
    BY <1>13, MarkType DEF MarkRunning, JobStatus
  <2>b. TaskInv'
    BY <2>2, <2>3, TaskPut
  <2>c. BaseInv'
    BY <1>13, <2>1, <2>2, <2>3 DEF BaseInv, MarkRunning, Goto
  <2> QED
    BY <2>a, <2>b, <2>c
<1>14. ASSUME NEW w \in Workers, Settle(w) PROVE TypeInv'
  <2>1. cur[w] \in Assigned /\ tok[w] \in Tokens /\ RunIn(w) \in Runs
    BY <1>14 DEF Settle, Returned, Awaiting, RunIn, BaseInv
  <2>2. \A o \in DOMAIN StatusFor : StatusFor[o] \in JobStatus
    BY DEF StatusFor, JobStatus
  <2>a. StatusInv'
    BY <1>14, <2>2, MarkType DEF Settle
  <2>b. TaskInv'
    BY <1>14, NoTaskType, TaskPut DEF Settle
  <2>c. BaseInv'
    BY <1>14, <2>1, <2>2 DEF BaseInv, Settle, Goto
  <2> QED
    BY <2>a, <2>b, <2>c
<1>15. ASSUME NEW w \in Workers, RecordAttempt(w) PROVE TypeInv'
  <2>1. cur[w] \in Assigned /\ tok[w] \in Tokens /\ RunIn(w) \in Runs
    BY <1>15 DEF RecordAttempt, Returned, Awaiting, RunIn, BaseInv
  <2>2. attempts' \in [Runs -> Nat]
    BY <2>1, <1>15 DEF RecordAttempt, BaseInv
  <2>3. PICK there \in {"deadLetter", "retry"} : pc' = [pc EXCEPT ![w] = there]
    BY <1>15 DEF RecordAttempt, Goto
  <2>a. StatusInv'
    BY <1>15 DEF RecordAttempt, StatusInv
  <2>b. TaskInv'
    BY <1>15, NoTaskType, TaskPut DEF RecordAttempt
  <2>c. BaseInv'
    BY <1>15, <2>1, <2>2, <2>3 DEF BaseInv, RecordAttempt, Goto
  <2> QED
    BY <2>a, <2>b, <2>c
<1>16. ASSUME NEW w \in Workers, DeadLetter(w) PROVE TypeInv'
  <2>1. cur[w] \in Assigned /\ tok[w] \in Tokens /\ RunIn(w) \in Runs
    BY <1>16 DEF DeadLetter, RunIn, BaseInv
  <2>a. StatusInv'
    BY <1>16, MarkType DEF DeadLetter, JobStatus
  <2>b. TaskInv'
    BY <1>16 DEF DeadLetter, TaskInv
  <2>c. BaseInv'
    BY <1>16, <2>1 DEF BaseInv, DeadLetter, Goto
  <2> QED
    BY <2>a, <2>b, <2>c
<1>17. ASSUME NEW w \in Workers, LeaveForRedelivery(w) PROVE TypeInv'
  <2>a. StatusInv'
    BY <1>17, MarkType DEF LeaveForRedelivery, JobStatus
  <2>b. TaskInv'
    BY <1>17 DEF LeaveForRedelivery, TaskInv
  <2>c. BaseInv'
    BY <1>17 DEF BaseInv, LeaveForRedelivery, Goto
  <2> QED
    BY <2>a, <2>b, <2>c
<1>18. ASSUME NEW w \in Workers, AckTerminal(w) PROVE TypeInv'
  <2>a. StatusInv'
    BY <1>18 DEF AckTerminal, StatusInv
  <2>b. TaskInv'
    BY <1>18 DEF AckTerminal, TaskInv
  <2>c. BaseInv'
    BY <1>18 DEF BaseInv, AckTerminal, Acked, Goto
  <2> QED
    BY <2>a, <2>b, <2>c
<1>19. ASSUME NEW w \in Workers, FinallyRelease(w) PROVE TypeInv'
  <2>a. StatusInv'
    BY <1>19 DEF FinallyRelease, StatusInv
  <2>b. TaskInv'
    BY <1>19 DEF FinallyRelease, TaskInv
  <2>c. BaseInv'
    BY <1>19 DEF BaseInv, FinallyRelease, ReleaseLock, Return, Goto
  <2> QED
    BY <2>a, <2>b, <2>c
<1>20. ASSUME NEW w \in Workers, WatchdogTimeout(w) PROVE TypeInv'
  <2>1. cur[w] \in Assigned /\ tok[w] \in Tokens /\ RunIn(w) \in Runs
    BY <1>20 DEF WatchdogTimeout, RunIn, BaseInv
  <2>a. StatusInv'
    BY <1>20, MarkType DEF WatchdogTimeout, JobStatus
  <2>b. TaskInv'
    BY <1>20 DEF WatchdogTimeout, TaskInv
  <2>c. BaseInv'
    BY <1>20, <2>1 DEF BaseInv, WatchdogTimeout, Goto
  <2> QED
    BY <2>a, <2>b, <2>c
<1>21. ASSUME NEW w \in Workers, WatchdogAck(w) PROVE TypeInv'
  <2>a. StatusInv'
    BY <1>21 DEF WatchdogAck, StatusInv
  <2>b. TaskInv'
    BY <1>21 DEF WatchdogAck, TaskInv
  <2>c. BaseInv'
    BY <1>21 DEF BaseInv, WatchdogAck, Acked, Goto
  <2> QED
    BY <2>a, <2>b, <2>c
<1>22. ASSUME NEW w \in Workers, WatchdogRelease(w) PROVE TypeInv'
  <2>a. StatusInv'
    BY <1>22 DEF WatchdogRelease, StatusInv
  <2>b. TaskInv'
    BY <1>22 DEF WatchdogRelease, TaskInv
  <2>c. BaseInv'
    BY <1>22 DEF BaseInv, WatchdogRelease, ReleaseLock, Goto
  <2> QED
    BY <2>a, <2>b, <2>c
<1>23. ASSUME NEW w \in Workers, UnwindExecutor(w) PROVE TypeInv'
  <2>a. StatusInv'
    BY <1>23 DEF UnwindExecutor, StatusInv
  <2>b. TaskInv'
    <3>1. CASE UNCHANGED task
      BY <3>1 DEF TaskInv
    <3>2. CASE task' = [task EXCEPT ![tok[w]] = NoTask]
      BY <3>2, NoTaskType, TaskPut
    <3> QED
      BY <1>23, <3>1, <3>2 DEF UnwindExecutor
  <2>c. BaseInv'
    BY <1>23 DEF BaseInv, UnwindExecutor, ReleaseLock, Return, Goto
  <2> QED
    BY <2>a, <2>b, <2>c
<1>24. ASSUME NEW w \in Workers, WorkerCrash(w) PROVE TypeInv'
  <2>a. StatusInv'
    BY <1>24 DEF WorkerCrash, StatusInv
  <2>b. TaskInv'
    BY <1>24, NoTaskType DEF WorkerCrash, TaskInv
  <2>c. BaseInv'
    <3>1. /\ pc' = [pc EXCEPT ![w] = "loop"] /\ src' = [src EXCEPT ![w] = "read"]
          /\ todo' = [todo EXCEPT ![w] = {}] /\ cur' = [cur EXCEPT ![w] = NoEntry]
          /\ tok' = [tok EXCEPT ![w] = None] /\ crashes' = crashes + 1
          /\ UNCHANGED <<queue, cancelFlag, attempts, lock, ckpt, api, stalls, history>>
      BY <1>24 DEF WorkerCrash
    <3> QED
      BY <3>1 DEF BaseInv
  <2> QED
    BY <2>a, <2>b, <2>c
<1>25. ASSUME NEW t \in Tokens, ExecuteFresh(t) PROVE TypeInv'
  <2>0. 0 \in 0..MaxIter
    OBVIOUS
  <2>1. ckpt' \in [Runs -> 0..MaxIter]
    BY <2>0, <1>25 DEF ExecuteFresh, BaseInv
  <2>a. StatusInv'
    BY <1>25 DEF ExecuteFresh, StatusInv
  <2>b. TaskInv'
    BY <1>25, TaskMove DEF ExecuteFresh, Live
  <2>c. BaseInv'
    BY <1>25, <2>0, <2>1 DEF BaseInv, ExecuteFresh
  <2> QED
    BY <2>a, <2>b, <2>c
<1>26. ASSUME NEW t \in Tokens, ReportProgress(t) PROVE TypeInv'
  <2>1. task[t] \in Tasks /\ task[t].run \in Runs
    BY <1>26 DEF ReportProgress, TaskInv
  <2>2. task[t].iter \in Nat /\ task[t].iter + 1 \in 0..MaxIter
    BY <2>1, <1>26 DEF ReportProgress, Tasks
  <2> DEFINE new == [task[t] EXCEPT !.pc = "polling", !.iter = task[t].iter + 1]
  <2>3. new \in Tasks /\ new.run \in Runs
    BY <2>1, <2>2 DEF Tasks, Live
  <2>4. task' = [task EXCEPT ![t] = new]
    BY <1>26 DEF ReportProgress
  <2> HIDE DEF new
  <2>a. StatusInv'
    BY <1>26, MarkType DEF ReportProgress, JobStatus
  <2>b. TaskInv'
    BY <2>3, <2>4, TaskPut
  <2>c. BaseInv'
    BY <1>26, <2>1, <2>2, <2>3, <2>4 DEF BaseInv, ReportProgress
  <2> QED
    BY <2>a, <2>b, <2>c
<1>27. ASSUME NEW t \in Tokens, PollCancel(t) PROVE TypeInv'
  <2>a. StatusInv'
    BY <1>27 DEF PollCancel, StatusInv
  <2>b. TaskInv'
    BY <1>27, TaskMove, TaskDone DEF PollCancel, Live, Outcomes
  <2>c. BaseInv'
    BY <1>27 DEF BaseInv, PollCancel
  <2> QED
    BY <2>a, <2>b, <2>c
<1>28. ASSUME NEW t \in Tokens, ExecutorReturns(t) PROVE TypeInv'
  <2>a. StatusInv'
    BY <1>28 DEF ExecutorReturns, StatusInv
  <2>b. TaskInv'
    BY <1>28, TaskDone DEF ExecutorReturns, Outcomes
  <2>c. BaseInv'
    BY <1>28 DEF BaseInv, ExecutorReturns
  <2> QED
    BY <2>a, <2>b, <2>c
<1>29. ASSUME NEW r \in Runs, LeaseExpires(r) PROVE TypeInv'
  <2>a. StatusInv'
    BY <1>29 DEF LeaseExpires, StatusInv
  <2>b. TaskInv'
    BY <1>29 DEF LeaseExpires, TaskInv
  <2>c. BaseInv'
    BY <1>29 DEF BaseInv, LeaseExpires
  <2> QED
    BY <2>a, <2>b, <2>c
<1>30. CASE UNCHANGED vars
  BY <1>30 DEF vars, StatusInv, TaskInv, BaseInv
<1>31. ASSUME NEW c \in Clients, AckEntry(c) PROVE TypeInv'
  <2>a. StatusInv'
    BY <1>31 DEF AckEntry, StatusInv
  <2>b. TaskInv'
    BY <1>31 DEF AckEntry, TaskInv
  <2>c. BaseInv'
    BY <1>31 DEF BaseInv, AckEntry, CGoto
  <2> QED
    BY <2>a, <2>b, <2>c
<1>32. ASSUME NEW w \in Workers, DeleteTerminal(w) PROVE TypeInv'
  <2>a. StatusInv'
    BY <1>32 DEF DeleteTerminal, StatusInv
  <2>b. TaskInv'
    BY <1>32 DEF DeleteTerminal, TaskInv
  <2>c. BaseInv'
    BY <1>32 DEF BaseInv, DeleteTerminal, Delete, Goto
  <2> QED
    BY <2>a, <2>b, <2>c
<1>33. ASSUME NEW w \in Workers, WatchdogDelete(w) PROVE TypeInv'
  <2>a. StatusInv'
    BY <1>33 DEF WatchdogDelete, StatusInv
  <2>b. TaskInv'
    BY <1>33 DEF WatchdogDelete, TaskInv
  <2>c. BaseInv'
    BY <1>33 DEF BaseInv, WatchdogDelete, Delete, Goto
  <2> QED
    BY <2>a, <2>b, <2>c
<1> QED
  BY <1>1, <1>2, <1>3, <1>4, <1>5, <1>6, <1>7, <1>8, <1>9, <1>10, <1>11, <1>12, <1>13, <1>14, <1>15, <1>16, <1>17, <1>18, <1>19, <1>20, <1>21, <1>22, <1>23, <1>24, <1>25, <1>26, <1>27, <1>28, <1>29, <1>30, <1>31, <1>32, <1>33
     DEF Next, ApiStep, Supervise, Execute

\* The type invariant, for every value of the constants.
THEOREM TypeCorrect == Spec => []TypeOK
<1>1. Spec => []TypeInv
  BY TypeInit, TypeStep, PTL DEF Spec
<1> QED
  BY <1>1, TypeInvTypeOK, PTL

-----------------------------------------------------------------------------
(* Safety.  The inductive invariant has four parts: tokens are not shared;   *)
(* until a stall the lease of a run names the worker inside _process for it; *)
(* a worker that passed the terminal guard still finds the run unsettled;    *)
(* and whatever is about to be acked has been served.                        *)

Ended(r) == \E f \in served : runOf[f] = r

TokenInv == \A v, w \in Workers : v # w /\ tok[v] # None => tok[v] # tok[w]

LeaseInv == stalls = 0 => \A w \in Workers : pc[w] \in Owning => lock[RunIn(w)] = tok[w]

ClaimInv == stalls = 0 => \A w \in Workers : pc[w] = "claim" => status[RunIn(w)].st \notin Settled

ServedInv ==
    /\ \A r \in Runs : status[r].st \in Settled => Ended(r)
    /\ \A w \in Workers : pc[w] \in {"ackDuplicate", "delete"} => Ended(RunIn(w))
    /\ \A w \in Workers : pc[w] \in {"ack", "wdAck", "wdDelete", "wdRelease"} => cur[w] \in served
    /\ \A e \in Assigned : e \in Waiting \/ e \in dropped \/ Ended(runOf[e])

SafeInv == TokenInv /\ LeaseInv /\ ClaimInv /\ ServedInv

\* A worker inside _process has an entry of a run, and a token.
LEMMA Busy ==
    ASSUME TypeInv, NEW w \in Workers, pc[w] # "loop"
    PROVE  cur[w] \in Assigned /\ tok[w] \in Tokens /\ tok[w] # None /\ RunIn(w) \in Runs
BY ConstantsAssumption DEF TypeInv, BaseInv, RunIn

\* The lease excludes: two workers own the same run only if they are one.
LEMMA OwnersDiffer ==
    ASSUME TypeInv, TokenInv, LeaseInv, stalls = 0, NEW v \in Workers, NEW w \in Workers,
           v # w, pc[v] \in Owning, pc[w] \in Owning
    PROVE  RunIn(v) # RunIn(w)
<1>1. pc[v] # "loop" /\ pc[w] # "loop"
  BY DEF Owning
<1>2. tok[v] # None /\ lock[RunIn(v)] = tok[v] /\ lock[RunIn(w)] = tok[w]
  BY <1>1, Busy DEF LeaseInv
<1> QED
  BY <1>2 DEF TokenInv

\* What every step keeps: entries keep their run, the histories grow.
Growth == /\ \A e \in Assigned : e \in Assigned' /\ runOf'[e] = runOf[e]
          /\ served \subseteq served' /\ dropped \subseteq dropped'
          /\ stalls' = 0 => stalls = 0

LEMMA Grows == ASSUME TypeInv, [Next]_vars PROVE Growth
<1> USE DEF queue, hashes, workers, runtime, api, faults, history
<1>1. ASSUME NEW c \in Clients, NEW r \in Runs, PostRun(c, r) PROVE Growth
  BY <1>1 DEF PostRun, Growth, Assigned
<1>2. ASSUME NEW c \in Clients, NEW r \in Runs, CancelRun(c, r) PROVE Growth
  BY <1>2 DEF CancelRun, Growth, Assigned
<1>3. ASSUME NEW c \in Clients, Enqueue(c) PROVE Growth
  BY <1>3, ConstantsAssumption DEF Enqueue, Growth, Assigned, TypeInv, BaseInv
<1>4. ASSUME NEW c \in Clients, MarkQueued(c) PROVE Growth
  BY <1>4 DEF MarkQueued, Growth, Assigned
<1>5. ASSUME NEW c \in Clients, RequestCancel(c) PROVE Growth
  BY <1>5 DEF RequestCancel, Growth, Assigned
<1>6. ASSUME NEW c \in Clients, DeleteEntry(c) PROVE Growth
  BY <1>6 DEF DeleteEntry, Growth, Assigned
<1>7. ASSUME NEW c \in Clients, ClientCrash(c) PROVE Growth
  BY <1>7 DEF ClientCrash, Growth, Assigned
<1>8. ASSUME NEW w \in Workers, NEW batch \in SUBSET Entries, ReclaimStale(w, batch) PROVE Growth
  BY <1>8 DEF ReclaimStale, Growth, Assigned
<1>9. ASSUME NEW w \in Workers, ReadNew(w) PROVE Growth
  BY <1>9 DEF ReadNew, Growth, Assigned
<1>10. ASSUME NEW w \in Workers, NEW e \in Entries, SkipHeld(w, e) PROVE Growth
  BY <1>10 DEF SkipHeld, Growth, Assigned
<1>11. ASSUME NEW w \in Workers, NEW e \in Entries, NEW t \in Tokens, TryLock(w, e, t) PROVE Growth
  BY <1>11 DEF TryLock, Growth, Assigned
<1>12. ASSUME NEW w \in Workers, TerminalGuard(w) PROVE Growth
  BY <1>12 DEF TerminalGuard, Growth, Assigned, Guarded
<1>13. ASSUME NEW w \in Workers, MarkRunning(w) PROVE Growth
  BY <1>13 DEF MarkRunning, Growth, Assigned
<1>14. ASSUME NEW w \in Workers, Settle(w) PROVE Growth
  BY <1>14 DEF Settle, Growth, Assigned
<1>15. ASSUME NEW w \in Workers, RecordAttempt(w) PROVE Growth
  BY <1>15 DEF RecordAttempt, Growth, Assigned
<1>16. ASSUME NEW w \in Workers, DeadLetter(w) PROVE Growth
  BY <1>16 DEF DeadLetter, Growth, Assigned
<1>17. ASSUME NEW w \in Workers, LeaveForRedelivery(w) PROVE Growth
  BY <1>17 DEF LeaveForRedelivery, Growth, Assigned
<1>18. ASSUME NEW w \in Workers, AckTerminal(w) PROVE Growth
  BY <1>18 DEF AckTerminal, Growth, Assigned, Acked
<1>19. ASSUME NEW w \in Workers, FinallyRelease(w) PROVE Growth
  BY <1>19 DEF FinallyRelease, Growth, Assigned
<1>20. ASSUME NEW w \in Workers, WatchdogTimeout(w) PROVE Growth
  BY <1>20 DEF WatchdogTimeout, Growth, Assigned
<1>21. ASSUME NEW w \in Workers, WatchdogAck(w) PROVE Growth
  BY <1>21 DEF WatchdogAck, Growth, Assigned, Acked
<1>22. ASSUME NEW w \in Workers, WatchdogRelease(w) PROVE Growth
  BY <1>22 DEF WatchdogRelease, Growth, Assigned
<1>23. ASSUME NEW w \in Workers, UnwindExecutor(w) PROVE Growth
  BY <1>23 DEF UnwindExecutor, Growth, Assigned
<1>24. ASSUME NEW w \in Workers, WorkerCrash(w) PROVE Growth
  BY <1>24 DEF WorkerCrash, Growth, Assigned
<1>25. ASSUME NEW t \in Tokens, ExecuteFresh(t) PROVE Growth
  BY <1>25 DEF ExecuteFresh, Growth, Assigned
<1>26. ASSUME NEW t \in Tokens, ReportProgress(t) PROVE Growth
  BY <1>26 DEF ReportProgress, Growth, Assigned
<1>27. ASSUME NEW t \in Tokens, PollCancel(t) PROVE Growth
  BY <1>27 DEF PollCancel, Growth, Assigned
<1>28. ASSUME NEW t \in Tokens, ExecutorReturns(t) PROVE Growth
  BY <1>28 DEF ExecutorReturns, Growth, Assigned
<1>29. ASSUME NEW r \in Runs, LeaseExpires(r) PROVE Growth
  BY <1>29 DEF LeaseExpires, Growth, Assigned, TypeInv, BaseInv
<1>30. CASE UNCHANGED vars
  BY <1>30 DEF vars, Growth, Assigned
<1>31. ASSUME NEW c \in Clients, AckEntry(c) PROVE Growth
  BY <1>31 DEF AckEntry, Growth, Assigned
<1>32. ASSUME NEW w \in Workers, DeleteTerminal(w) PROVE Growth
  BY <1>32 DEF DeleteTerminal, Growth, Assigned, Delete
<1>33. ASSUME NEW w \in Workers, WatchdogDelete(w) PROVE Growth
  BY <1>33 DEF WatchdogDelete, Growth, Assigned, Delete
<1> QED
  BY <1>1, <1>2, <1>3, <1>4, <1>5, <1>6, <1>7, <1>8, <1>9, <1>10, <1>11, <1>12, <1>13, <1>14, <1>15, <1>16, <1>17, <1>18, <1>19, <1>20, <1>21, <1>22, <1>23, <1>24, <1>25, <1>26, <1>27, <1>28, <1>29, <1>30, <1>31, <1>32, <1>33
     DEF Next, ApiStep, Supervise, Execute

LEMMA EndedGrows ==
    ASSUME TypeInv, [Next]_vars, NEW r, Ended(r)
    PROVE  Ended(r)'
<1>1. PICK f \in served : runOf[f] = r
  BY DEF Ended
<1>2. f \in Assigned
  BY DEF TypeInv, BaseInv
<1>3. f \in served' /\ runOf'[f] = r
  BY <1>1, <1>2, Grows DEF Growth
<1> QED
  BY <1>3 DEF Ended

LEMMA SafeInit == Init => SafeInv
BY ConstantsAssumption DEF Init, SafeInv, TokenInv, LeaseInv, ClaimInv, ServedInv, Ended, Owning,
   Settled, Assigned

LEMMA SafeStep == TypeInv /\ TypeInv' /\ SafeInv /\ [Next]_vars => SafeInv'
<1> SUFFICES ASSUME TypeInv, TypeInv', SafeInv, [Next]_vars PROVE SafeInv'
  OBVIOUS
<1> USE DEF SafeInv, Assigned
<1> USE DEF queue, hashes, workers, runtime, api, faults, history
<1>k. \A w \in Workers : pc[w] # "loop" => /\ cur[w] \in Assigned /\ tok[w] # None
                                           /\ RunIn(w) \in Runs /\ runOf'[cur[w]] = runOf[cur[w]]
  BY Busy, Grows DEF Growth
<1>t. /\ pc = [v \in Workers |-> pc[v]] /\ cur = [v \in Workers |-> cur[v]]
      /\ tok = [v \in Workers |-> tok[v]] /\ lock = [r \in Runs |-> lock[r]]
      /\ status = [r \in Runs |-> status[r]] /\ stalls \in Nat
      /\ \A r \in Runs : status[r] = [st |-> status[r].st, entry |-> status[r].entry]
  BY DEF TypeInv, BaseInv, StatusInv, StatusHashes
<1>h. /\ served \subseteq Assigned /\ served \subseteq served' /\ dropped \subseteq dropped'
      /\ \A e \in Assigned : e \in Assigned' /\ runOf'[e] = runOf[e]
  BY Grows DEF Growth, TypeInv, BaseInv
<1>e. \A r : Ended(r) => Ended(r)'
  BY EndedGrows
<1>o. stalls = 0 => \A v, w \in Workers :
        v # w /\ pc[v] \in Owning /\ pc[w] \in Owning => RunIn(v) # RunIn(w)
  BY OwnersDiffer
<1>1. ASSUME NEW c \in Clients, NEW r \in Runs, PostRun(c, r) PROVE SafeInv'
  <2>a. TokenInv'
    BY <1>1, <1>t DEF TokenInv, PostRun, CGoto
  <2>b. LeaseInv'
    BY <1>1, <1>k, <1>t DEF LeaseInv, RunIn, Owning, PostRun, CGoto
  <2>c. ClaimInv'
    BY <1>1, <1>k, <1>o, <1>t DEF ClaimInv, RunIn, Owning, Settled, PostRun, CGoto
  <2>d. ServedInv'
    BY <1>1, <1>k, <1>e, <1>t, <1>h DEF ServedInv, Waiting, RunIn, Settled, PostRun, CGoto
  <2> QED
    BY <2>a, <2>b, <2>c, <2>d
<1>2. ASSUME NEW c \in Clients, NEW r \in Runs, CancelRun(c, r) PROVE SafeInv'
  <2>a. TokenInv'
    BY <1>2, <1>t DEF TokenInv, CancelRun, CGoto
  <2>b. LeaseInv'
    BY <1>2, <1>k, <1>t DEF LeaseInv, RunIn, Owning, CancelRun, CGoto
  <2>c. ClaimInv'
    BY <1>2, <1>k, <1>o, <1>t DEF ClaimInv, RunIn, Owning, Settled, CancelRun, CGoto
  <2>d. ServedInv'
    BY <1>2, <1>k, <1>e, <1>t, <1>h DEF ServedInv, Waiting, RunIn, Settled, CancelRun, CGoto
  <2> QED
    BY <2>a, <2>b, <2>c, <2>d
<1>3. ASSUME NEW c \in Clients, Enqueue(c) PROVE SafeInv'
  <2>1. \A e \in Assigned' : e \in Assigned \/ e \in Waiting'
    BY <1>3, <1>h, ConstantsAssumption DEF Enqueue, Waiting, TypeInv, BaseInv
  <2>2. \A e \in Waiting : e \in Waiting'
    BY <1>3 DEF Enqueue, Waiting
  <2>a. TokenInv'
    BY <1>3, <1>t, <2>1, <2>2 DEF TokenInv, Enqueue, CGoto
  <2>b. LeaseInv'
    BY <1>3, <1>k, <1>t, <2>1, <2>2 DEF LeaseInv, RunIn, Owning, Enqueue, CGoto
  <2>c. ClaimInv'
    BY <1>3, <1>k, <1>o, <1>t, <2>1, <2>2 DEF ClaimInv, RunIn, Owning, Settled, Enqueue, CGoto
  <2>d. ServedInv'
    BY <1>3, <1>k, <1>e, <1>t, <1>h, <2>1, <2>2 DEF ServedInv, RunIn, Settled, Enqueue, CGoto
  <2> QED
    BY <2>a, <2>b, <2>c, <2>d
<1>4. ASSUME NEW c \in Clients, MarkQueued(c) PROVE SafeInv'
  <2>a. TokenInv'
    BY <1>4, <1>t DEF TokenInv, MarkQueued, CGoto
  <2>b. LeaseInv'
    BY <1>4, <1>k, <1>t DEF LeaseInv, RunIn, Owning, MarkQueued, CGoto
  <2>c. ClaimInv'
    BY <1>4, <1>k, <1>o, <1>t DEF ClaimInv, RunIn, Owning, Settled, MarkQueued, CGoto
  <2>d. ServedInv'
    BY <1>4, <1>k, <1>e, <1>t, <1>h DEF ServedInv, Waiting, RunIn, Settled, MarkQueued, CGoto
  <2> QED
    BY <2>a, <2>b, <2>c, <2>d
<1>5. ASSUME NEW c \in Clients, RequestCancel(c) PROVE SafeInv'
  <2>a. TokenInv'
    BY <1>5, <1>t DEF TokenInv, RequestCancel, CGoto
  <2>b. LeaseInv'
    BY <1>5, <1>k, <1>t DEF LeaseInv, RunIn, Owning, RequestCancel, CGoto
  <2>c. ClaimInv'
    BY <1>5, <1>k, <1>o, <1>t DEF ClaimInv, RunIn, Owning, Settled, RequestCancel, CGoto
  <2>d. ServedInv'
    BY <1>5, <1>k, <1>e, <1>t, <1>h DEF ServedInv, Waiting, RunIn, Settled, RequestCancel, CGoto
  <2> QED
    BY <2>a, <2>b, <2>c, <2>d
<1>6. ASSUME NEW c \in Clients, DeleteEntry(c) PROVE SafeInv'
  <2>a. TokenInv'
    BY <1>6, <1>t DEF TokenInv, DeleteEntry, CGoto
  <2>b. LeaseInv'
    BY <1>6, <1>k, <1>t DEF LeaseInv, RunIn, Owning, DeleteEntry, CGoto
  <2>c. ClaimInv'
    BY <1>6, <1>k, <1>o, <1>t DEF ClaimInv, RunIn, Owning, Settled, DeleteEntry, CGoto
  <2>d. ServedInv'
    BY <1>6, <1>k, <1>e, <1>t, <1>h DEF ServedInv, Waiting, RunIn, Settled, DeleteEntry, CGoto
  <2> QED
    BY <2>a, <2>b, <2>c, <2>d
<1>7. ASSUME NEW c \in Clients, ClientCrash(c) PROVE SafeInv'
  <2>a. TokenInv'
    BY <1>7, <1>t DEF TokenInv, ClientCrash, CGoto
  <2>b. LeaseInv'
    BY <1>7, <1>k, <1>t DEF LeaseInv, RunIn, Owning, ClientCrash, CGoto
  <2>c. ClaimInv'
    BY <1>7, <1>k, <1>o, <1>t DEF ClaimInv, RunIn, Owning, Settled, ClientCrash, CGoto
  <2>d. ServedInv'
    BY <1>7, <1>k, <1>e, <1>t, <1>h DEF ServedInv, Waiting, RunIn, Settled, ClientCrash, CGoto
  <2> QED
    BY <2>a, <2>b, <2>c, <2>d
<1>8. ASSUME NEW w \in Workers, NEW batch \in SUBSET Entries, ReclaimStale(w, batch) PROVE SafeInv'
  <2>a. TokenInv'
    BY <1>8, <1>t DEF TokenInv, ReclaimStale
  <2>b. LeaseInv'
    BY <1>8, <1>k, <1>t DEF LeaseInv, RunIn, Owning, ReclaimStale
  <2>c. ClaimInv'
    BY <1>8, <1>k, <1>o, <1>t DEF ClaimInv, RunIn, Owning, Settled, ReclaimStale
  <2>d. ServedInv'
    BY <1>8, <1>k, <1>e, <1>t, <1>h DEF ServedInv, Waiting, RunIn, Settled, ReclaimStale
  <2> QED
    BY <2>a, <2>b, <2>c, <2>d
<1>9. ASSUME NEW w \in Workers, ReadNew(w) PROVE SafeInv'
  <2>a. TokenInv'
    BY <1>9, <1>t DEF TokenInv, ReadNew
  <2>b. LeaseInv'
    BY <1>9, <1>k, <1>t DEF LeaseInv, RunIn, Owning, ReadNew
  <2>c. ClaimInv'
    BY <1>9, <1>k, <1>o, <1>t DEF ClaimInv, RunIn, Owning, Settled, ReadNew
  <2>d. ServedInv'
    BY <1>9, <1>k, <1>e, <1>t, <1>h DEF ServedInv, Waiting, RunIn, Settled, ReadNew
  <2> QED
    BY <2>a, <2>b, <2>c, <2>d
<1>10. ASSUME NEW w \in Workers, NEW e \in Entries, SkipHeld(w, e) PROVE SafeInv'
  <2>a. TokenInv'
    BY <1>10, <1>t DEF TokenInv, SkipHeld
  <2>b. LeaseInv'
    BY <1>10, <1>k, <1>t DEF LeaseInv, RunIn, Owning, SkipHeld
  <2>c. ClaimInv'
    BY <1>10, <1>k, <1>o, <1>t DEF ClaimInv, RunIn, Owning, Settled, SkipHeld
  <2>d. ServedInv'
    BY <1>10, <1>k, <1>e, <1>t, <1>h DEF ServedInv, Waiting, RunIn, Settled, SkipHeld
  <2> QED
    BY <2>a, <2>b, <2>c, <2>d
<1>11. ASSUME NEW w \in Workers, NEW e \in Entries, NEW t \in Tokens, TryLock(w, e, t) PROVE SafeInv'
  <2>1. e \in Assigned /\ runOf[e] \in Runs
    BY <1>11 DEF TryLock, IsNext, TypeInv, BaseInv
  <2>2. \A v \in Workers : stalls = 0 /\ pc[v] \in Owning => RunIn(v) # runOf[e]
    BY <1>11, <1>k DEF TryLock, LeaseInv, Owning
  <2>a. TokenInv'
    BY <1>11, <1>t, <2>1, <2>2 DEF TokenInv, TryLock, Goto, Fresh
  <2>b. LeaseInv'
    BY <1>11, <1>k, <1>t, <2>1, <2>2 DEF LeaseInv, RunIn, Owning, TryLock, Goto
  <2>c. ClaimInv'
    BY <1>11, <1>k, <1>o, <1>t, <2>1, <2>2 DEF ClaimInv, RunIn, Owning, Settled, TryLock, Goto
  <2>d. ServedInv'
    BY <1>11, <1>k, <1>e, <1>t, <1>h, <2>1, <2>2 DEF ServedInv, Waiting, RunIn, Settled, TryLock, Goto
  <2> QED
    BY <2>a, <2>b, <2>c, <2>d
<1>12. ASSUME NEW w \in Workers, TerminalGuard(w) PROVE SafeInv'
  <2>a. TokenInv'
    BY <1>12, <1>t DEF TokenInv, TerminalGuard, Guarded, Goto
  <2>b. LeaseInv'
    BY <1>12, <1>k, <1>t DEF LeaseInv, RunIn, Owning, TerminalGuard, Guarded, Goto
  <2>c. ClaimInv'
    BY <1>12, <1>k, <1>o, <1>t DEF ClaimInv, RunIn, Owning, Settled, TerminalGuard, Guarded, Goto
  <2>d. ServedInv'
    BY <1>12, <1>k, <1>e, <1>t, <1>h DEF ServedInv, Waiting, RunIn, Settled, TerminalGuard, Guarded, Goto
  <2> QED
    BY <2>a, <2>b, <2>c, <2>d
<1>13. ASSUME NEW w \in Workers, MarkRunning(w) PROVE SafeInv'
  <2>a. TokenInv'
    BY <1>13, <1>t DEF TokenInv, MarkRunning, Goto, Mark
  <2>b. LeaseInv'
    BY <1>13, <1>k, <1>t DEF LeaseInv, RunIn, Owning, MarkRunning, Goto, Mark
  <2>c. ClaimInv'
    BY <1>13, <1>k, <1>o, <1>t DEF ClaimInv, RunIn, Owning, Settled, MarkRunning, Goto, Mark
  <2>d. ServedInv'
    BY <1>13, <1>k, <1>e, <1>t, <1>h DEF ServedInv, Waiting, RunIn, Settled, MarkRunning, Goto, Mark
  <2> QED
    BY <2>a, <2>b, <2>c, <2>d
<1>14. ASSUME NEW w \in Workers, Settle(w) PROVE SafeInv'
  <2>1. cur[w] \in Assigned /\ tok[w] # None /\ RunIn(w) \in Runs
        /\ runOf'[cur[w]] = runOf[cur[w]]
    BY <1>14, <1>k DEF Settle, Returned, Awaiting
  <2>2. cur[w] \in served' /\ cur' = cur
    BY <1>14 DEF Settle
  <2>3. Ended(RunIn(w))'
    BY <2>1, <2>2 DEF Ended, RunIn
  <2>4. pc[w] \in {"run", "wdAck", "wdDelete", "wdRelease"}
    BY <1>14 DEF Settle, Returned, Awaiting
  <2>5. PICK st : status' = [status EXCEPT ![RunIn(w)].st = st]
    BY <1>14 DEF Settle, Mark
  <2>a. TokenInv'
    BY <1>14, <1>t, <2>1, <2>2, <2>3, <2>4, <2>5 DEF TokenInv, Settle, Goto
  <2>b. LeaseInv'
    BY <1>14, <1>k, <1>t, <2>1, <2>2, <2>3, <2>4, <2>5 DEF LeaseInv, RunIn, Owning, Settle, Goto
  <2>c. ClaimInv'
    BY <1>14, <1>k, <1>o, <1>t, <2>1, <2>2, <2>3, <2>4, <2>5 DEF ClaimInv, RunIn, Owning, Settled, Settle, Goto
  <2>d. ServedInv'
    BY <1>14, <1>k, <1>e, <1>t, <1>h, <2>1, <2>2, <2>3, <2>4, <2>5 DEF ServedInv, Waiting, RunIn, Settled, Settle, Goto
  <2> QED
    BY <2>a, <2>b, <2>c, <2>d
<1>15. ASSUME NEW w \in Workers, RecordAttempt(w) PROVE SafeInv'
  <2>1. cur[w] \in Assigned /\ tok[w] # None /\ RunIn(w) \in Runs
        /\ runOf'[cur[w]] = runOf[cur[w]]
    BY <1>15, <1>k DEF RecordAttempt, Returned, Awaiting
  <2>2. pc[w] \in {"run", "wdAck", "wdDelete", "wdRelease"}
    BY <1>15 DEF RecordAttempt, Returned, Awaiting
  <2>3. PICK there \in {"deadLetter", "retry"} : pc' = [pc EXCEPT ![w] = there]
    BY <1>15 DEF RecordAttempt, Goto
  <2>a. TokenInv'
    BY <1>15, <1>t, <2>1, <2>2, <2>3 DEF TokenInv, RecordAttempt, Goto
  <2>b. LeaseInv'
    BY <1>15, <1>k, <1>t, <2>1, <2>2, <2>3 DEF LeaseInv, RunIn, Owning, RecordAttempt, Goto
  <2>c. ClaimInv'
    BY <1>15, <1>k, <1>o, <1>t, <2>1, <2>2, <2>3 DEF ClaimInv, RunIn, Owning, Settled, RecordAttempt, Goto
  <2>d. ServedInv'
    BY <1>15, <1>k, <1>e, <1>t, <1>h, <2>1, <2>2, <2>3 DEF ServedInv, Waiting, RunIn, Settled, RecordAttempt, Goto
  <2> QED
    BY <2>a, <2>b, <2>c, <2>d
<1>16. ASSUME NEW w \in Workers, DeadLetter(w) PROVE SafeInv'
  <2>1. cur[w] \in Assigned /\ tok[w] # None /\ RunIn(w) \in Runs
        /\ runOf'[cur[w]] = runOf[cur[w]]
    BY <1>16, <1>k DEF DeadLetter
  <2>2. cur[w] \in served' /\ cur' = cur
    BY <1>16 DEF DeadLetter
  <2>3. Ended(RunIn(w))'
    BY <2>1, <2>2 DEF Ended, RunIn
  <2>a. TokenInv'
    BY <1>16, <1>t, <2>1, <2>2, <2>3 DEF TokenInv, DeadLetter, Goto, Mark
  <2>b. LeaseInv'
    BY <1>16, <1>k, <1>t, <2>1, <2>2, <2>3 DEF LeaseInv, RunIn, Owning, DeadLetter, Goto, Mark
  <2>c. ClaimInv'
    BY <1>16, <1>k, <1>o, <1>t, <2>1, <2>2, <2>3 DEF ClaimInv, RunIn, Owning, Settled, DeadLetter, Goto, Mark
  <2>d. ServedInv'
    BY <1>16, <1>k, <1>e, <1>t, <1>h, <2>1, <2>2, <2>3 DEF ServedInv, Waiting, RunIn, Settled, DeadLetter, Goto, Mark
  <2> QED
    BY <2>a, <2>b, <2>c, <2>d
<1>17. ASSUME NEW w \in Workers, LeaveForRedelivery(w) PROVE SafeInv'
  <2>a. TokenInv'
    BY <1>17, <1>t DEF TokenInv, LeaveForRedelivery, Goto, Mark
  <2>b. LeaseInv'
    BY <1>17, <1>k, <1>t DEF LeaseInv, RunIn, Owning, LeaveForRedelivery, Goto, Mark
  <2>c. ClaimInv'
    BY <1>17, <1>k, <1>o, <1>t DEF ClaimInv, RunIn, Owning, Settled, LeaveForRedelivery, Goto, Mark
  <2>d. ServedInv'
    BY <1>17, <1>k, <1>e, <1>t, <1>h DEF ServedInv, Waiting, RunIn, Settled, LeaveForRedelivery, Goto, Mark
  <2> QED
    BY <2>a, <2>b, <2>c, <2>d
<1>18. ASSUME NEW w \in Workers, AckTerminal(w) PROVE SafeInv'
  <2>1. cur[w] \in Assigned /\ tok[w] # None /\ RunIn(w) \in Runs
        /\ runOf'[cur[w]] = runOf[cur[w]]
    BY <1>18, <1>k DEF AckTerminal
  <2>2. Ended(RunIn(w))
    BY <1>18, <2>1 DEF AckTerminal, ServedInv, Ended, RunIn
  <2>3. \A e \in Waiting : e \in Waiting' \/ e = cur[w]
    BY <1>18 DEF Waiting, AckTerminal, Acked
  <2>a. TokenInv'
    BY <1>18, <1>t, <2>1, <2>2, <2>3 DEF TokenInv, AckTerminal, Acked, Goto
  <2>b. LeaseInv'
    BY <1>18, <1>k, <1>t, <2>1, <2>2, <2>3 DEF LeaseInv, RunIn, Owning, AckTerminal, Acked, Goto
  <2>c. ClaimInv'
    BY <1>18, <1>k, <1>o, <1>t, <2>1, <2>2, <2>3 DEF ClaimInv, RunIn, Owning, Settled, AckTerminal, Acked, Goto
  <2>d. ServedInv'
    BY <1>18, <1>k, <1>e, <1>t, <1>h, <2>1, <2>2, <2>3 DEF ServedInv, Waiting, RunIn, Settled, AckTerminal, Acked, Goto
  <2> QED
    BY <2>a, <2>b, <2>c, <2>d
<1>19. ASSUME NEW w \in Workers, FinallyRelease(w) PROVE SafeInv'
  <2>1. cur[w] \in Assigned /\ tok[w] # None /\ RunIn(w) \in Runs
        /\ runOf'[cur[w]] = runOf[cur[w]]
    BY <1>19, <1>k DEF FinallyRelease
  <2>2. \A v \in Workers : v # w /\ pc[v] # "loop" => tok[v] # tok[w]
    BY <1>k DEF TokenInv
  <2>3. \A r \in Runs : lock'[r] = lock[r] \/ lock[r] = tok[w]
    BY <1>19, <1>t DEF FinallyRelease, ReleaseLock
  <2>4. /\ \A v \in Workers : v # w => pc'[v] = pc[v] /\ cur'[v] = cur[v] /\ tok'[v] = tok[v]
        /\ pc'[w] \notin Owning /\ stalls' = stalls /\ runOf' = runOf
    BY <1>19, <1>t DEF FinallyRelease, Return, Goto, Owning
  <2>5. stalls = 0 => \A v \in Workers : v # w /\ pc[v] \in Owning => lock'[RunIn(v)] = tok[v]
    BY <1>k, <2>2, <2>3 DEF LeaseInv, Owning
  <2>a. TokenInv'
    BY <1>19, <1>t, <2>1, <2>2, <2>3, <2>4, <2>5 DEF TokenInv, FinallyRelease, Return, Goto
  <2>b. LeaseInv'
    BY <2>4, <2>5 DEF LeaseInv, RunIn
  <2>c. ClaimInv'
    BY <1>19, <1>k, <1>o, <1>t, <2>1, <2>2, <2>3, <2>4, <2>5 DEF ClaimInv, RunIn, Owning, Settled, FinallyRelease, Return, Goto
  <2>d. ServedInv'
    BY <1>19, <1>k, <1>e, <1>t, <1>h, <2>1, <2>2, <2>3, <2>4, <2>5 DEF ServedInv, Waiting, RunIn, Settled, FinallyRelease, Return, Goto
  <2> QED
    BY <2>a, <2>b, <2>c, <2>d
<1>20. ASSUME NEW w \in Workers, WatchdogTimeout(w) PROVE SafeInv'
  <2>1. cur[w] \in Assigned /\ tok[w] # None /\ RunIn(w) \in Runs
        /\ runOf'[cur[w]] = runOf[cur[w]]
    BY <1>20, <1>k DEF WatchdogTimeout
  <2>2. cur[w] \in served' /\ cur' = cur
    BY <1>20 DEF WatchdogTimeout
  <2>3. Ended(RunIn(w))'
    BY <2>1, <2>2 DEF Ended, RunIn
  <2>a. TokenInv'
    BY <1>20, <1>t, <2>1, <2>2, <2>3 DEF TokenInv, WatchdogTimeout, Goto, Mark
  <2>b. LeaseInv'
    BY <1>20, <1>k, <1>t, <2>1, <2>2, <2>3 DEF LeaseInv, RunIn, Owning, WatchdogTimeout, Goto, Mark
  <2>c. ClaimInv'
    BY <1>20, <1>k, <1>o, <1>t, <2>1, <2>2, <2>3 DEF ClaimInv, RunIn, Owning, Settled, WatchdogTimeout, Goto, Mark
  <2>d. ServedInv'
    BY <1>20, <1>k, <1>e, <1>t, <1>h, <2>1, <2>2, <2>3 DEF ServedInv, Waiting, RunIn, Settled, WatchdogTimeout, Goto, Mark
  <2> QED
    BY <2>a, <2>b, <2>c, <2>d
<1>21. ASSUME NEW w \in Workers, WatchdogAck(w) PROVE SafeInv'
  <2>1. cur[w] \in Assigned /\ tok[w] # None /\ RunIn(w) \in Runs
        /\ runOf'[cur[w]] = runOf[cur[w]]
    BY <1>21, <1>k DEF WatchdogAck
  <2>2. Ended(RunIn(w))
    BY <1>21, <2>1 DEF WatchdogAck, ServedInv, Ended, RunIn
  <2>3. \A e \in Waiting : e \in Waiting' \/ e = cur[w]
    BY <1>21 DEF Waiting, WatchdogAck, Acked
  <2>a. TokenInv'
    BY <1>21, <1>t, <2>1, <2>2, <2>3 DEF TokenInv, WatchdogAck, Acked, Goto
  <2>b. LeaseInv'
    BY <1>21, <1>k, <1>t, <2>1, <2>2, <2>3 DEF LeaseInv, RunIn, Owning, WatchdogAck, Acked, Goto
  <2>c. ClaimInv'
    BY <1>21, <1>k, <1>o, <1>t, <2>1, <2>2, <2>3 DEF ClaimInv, RunIn, Owning, Settled, WatchdogAck, Acked, Goto
  <2>d. ServedInv'
    BY <1>21, <1>k, <1>e, <1>t, <1>h, <2>1, <2>2, <2>3 DEF ServedInv, Waiting, RunIn, Settled, WatchdogAck, Acked, Goto
  <2> QED
    BY <2>a, <2>b, <2>c, <2>d
<1>22. ASSUME NEW w \in Workers, WatchdogRelease(w) PROVE SafeInv'
  <2>1. cur[w] \in Assigned /\ tok[w] # None /\ RunIn(w) \in Runs
        /\ runOf'[cur[w]] = runOf[cur[w]]
    BY <1>22, <1>k DEF WatchdogRelease
  <2>2. \A v \in Workers : v # w /\ pc[v] # "loop" => tok[v] # tok[w]
    BY <1>k DEF TokenInv
  <2>3. \A r \in Runs : lock'[r] = lock[r] \/ lock[r] = tok[w]
    BY <1>22, <1>t DEF WatchdogRelease, ReleaseLock
  <2>4. /\ \A v \in Workers : v # w => pc'[v] = pc[v] /\ cur'[v] = cur[v] /\ tok'[v] = tok[v]
        /\ pc'[w] \notin Owning /\ stalls' = stalls /\ runOf' = runOf
    BY <1>22, <1>t DEF WatchdogRelease, Return, Goto, Owning
  <2>5. stalls = 0 => \A v \in Workers : v # w /\ pc[v] \in Owning => lock'[RunIn(v)] = tok[v]
    BY <1>k, <2>2, <2>3 DEF LeaseInv, Owning
  <2>a. TokenInv'
    BY <1>22, <1>t, <2>1, <2>2, <2>3, <2>4, <2>5 DEF TokenInv, WatchdogRelease, Goto
  <2>b. LeaseInv'
    BY <2>4, <2>5 DEF LeaseInv, RunIn
  <2>c. ClaimInv'
    BY <1>22, <1>k, <1>o, <1>t, <2>1, <2>2, <2>3, <2>4, <2>5 DEF ClaimInv, RunIn, Owning, Settled, WatchdogRelease, Goto
  <2>d. ServedInv'
    BY <1>22, <1>k, <1>e, <1>t, <1>h, <2>1, <2>2, <2>3, <2>4, <2>5 DEF ServedInv, Waiting, RunIn, Settled, WatchdogRelease, Goto
  <2> QED
    BY <2>a, <2>b, <2>c, <2>d
<1>23. ASSUME NEW w \in Workers, UnwindExecutor(w) PROVE SafeInv'
  <2>1. cur[w] \in Assigned /\ tok[w] # None /\ RunIn(w) \in Runs
        /\ runOf'[cur[w]] = runOf[cur[w]]
    BY <1>23, <1>k DEF UnwindExecutor
  <2>2. \A v \in Workers : v # w /\ pc[v] # "loop" => tok[v] # tok[w]
    BY <1>k DEF TokenInv
  <2>3. \A r \in Runs : lock'[r] = lock[r] \/ lock[r] = tok[w]
    BY <1>23, <1>t DEF UnwindExecutor, ReleaseLock
  <2>4. /\ \A v \in Workers : v # w => pc'[v] = pc[v] /\ cur'[v] = cur[v] /\ tok'[v] = tok[v]
        /\ pc'[w] \notin Owning /\ stalls' = stalls /\ runOf' = runOf
    BY <1>23, <1>t DEF UnwindExecutor, Return, Goto, Owning
  <2>5. stalls = 0 => \A v \in Workers : v # w /\ pc[v] \in Owning => lock'[RunIn(v)] = tok[v]
    BY <1>k, <2>2, <2>3 DEF LeaseInv, Owning
  <2>a. TokenInv'
    BY <1>23, <1>t, <2>1, <2>2, <2>3, <2>4, <2>5 DEF TokenInv, UnwindExecutor, Return, Goto
  <2>b. LeaseInv'
    BY <2>4, <2>5 DEF LeaseInv, RunIn
  <2>c. ClaimInv'
    BY <1>23, <1>k, <1>o, <1>t, <2>1, <2>2, <2>3, <2>4, <2>5 DEF ClaimInv, RunIn, Owning, Settled, UnwindExecutor, Return, Goto
  <2>d. ServedInv'
    BY <1>23, <1>k, <1>e, <1>t, <1>h, <2>1, <2>2, <2>3, <2>4, <2>5 DEF ServedInv, Waiting, RunIn, Settled, UnwindExecutor, Return, Goto
  <2> QED
    BY <2>a, <2>b, <2>c, <2>d
<1>24. ASSUME NEW w \in Workers, WorkerCrash(w) PROVE SafeInv'
  <2>a. TokenInv'
    BY <1>24, <1>t DEF TokenInv, WorkerCrash
  <2>b. LeaseInv'
    BY <1>24, <1>k, <1>t DEF LeaseInv, RunIn, Owning, WorkerCrash
  <2>c. ClaimInv'
    BY <1>24, <1>k, <1>o, <1>t DEF ClaimInv, RunIn, Owning, Settled, WorkerCrash
  <2>d. ServedInv'
    BY <1>24, <1>k, <1>e, <1>t, <1>h DEF ServedInv, Waiting, RunIn, Settled, WorkerCrash
  <2> QED
    BY <2>a, <2>b, <2>c, <2>d
<1>25. ASSUME NEW t \in Tokens, ExecuteFresh(t) PROVE SafeInv'
  <2>a. TokenInv'
    BY <1>25, <1>t DEF TokenInv, ExecuteFresh
  <2>b. LeaseInv'
    BY <1>25, <1>k, <1>t DEF LeaseInv, RunIn, Owning, ExecuteFresh
  <2>c. ClaimInv'
    BY <1>25, <1>k, <1>o, <1>t DEF ClaimInv, RunIn, Owning, Settled, ExecuteFresh
  <2>d. ServedInv'
    BY <1>25, <1>k, <1>e, <1>t, <1>h DEF ServedInv, Waiting, RunIn, Settled, ExecuteFresh
  <2> QED
    BY <2>a, <2>b, <2>c, <2>d
<1>26. ASSUME NEW t \in Tokens, ReportProgress(t) PROVE SafeInv'
  <2>a. TokenInv'
    BY <1>26, <1>t DEF TokenInv, ReportProgress, Mark
  <2>b. LeaseInv'
    BY <1>26, <1>k, <1>t DEF LeaseInv, RunIn, Owning, ReportProgress, Mark
  <2>c. ClaimInv'
    BY <1>26, <1>k, <1>o, <1>t DEF ClaimInv, RunIn, Owning, Settled, ReportProgress, Mark
  <2>d. ServedInv'
    BY <1>26, <1>k, <1>e, <1>t, <1>h DEF ServedInv, Waiting, RunIn, Settled, ReportProgress, Mark
  <2> QED
    BY <2>a, <2>b, <2>c, <2>d
<1>27. ASSUME NEW t \in Tokens, PollCancel(t) PROVE SafeInv'
  <2>a. TokenInv'
    BY <1>27, <1>t DEF TokenInv, PollCancel
  <2>b. LeaseInv'
    BY <1>27, <1>k, <1>t DEF LeaseInv, RunIn, Owning, PollCancel
  <2>c. ClaimInv'
    BY <1>27, <1>k, <1>o, <1>t DEF ClaimInv, RunIn, Owning, Settled, PollCancel
  <2>d. ServedInv'
    BY <1>27, <1>k, <1>e, <1>t, <1>h DEF ServedInv, Waiting, RunIn, Settled, PollCancel
  <2> QED
    BY <2>a, <2>b, <2>c, <2>d
<1>28. ASSUME NEW t \in Tokens, ExecutorReturns(t) PROVE SafeInv'
  <2>a. TokenInv'
    BY <1>28, <1>t DEF TokenInv, ExecutorReturns
  <2>b. LeaseInv'
    BY <1>28, <1>k, <1>t DEF LeaseInv, RunIn, Owning, ExecutorReturns
  <2>c. ClaimInv'
    BY <1>28, <1>k, <1>o, <1>t DEF ClaimInv, RunIn, Owning, Settled, ExecutorReturns
  <2>d. ServedInv'
    BY <1>28, <1>k, <1>e, <1>t, <1>h DEF ServedInv, Waiting, RunIn, Settled, ExecutorReturns
  <2> QED
    BY <2>a, <2>b, <2>c, <2>d
<1>29. ASSUME NEW r \in Runs, LeaseExpires(r) PROVE SafeInv'
  <2>1. stalls' = 0 => stalls = 0 /\ \A w \in Workers : ~Holder(r, w)
    BY <1>29, <1>t DEF LeaseExpires
  <2>a. TokenInv'
    BY <1>29, <1>t, <2>1 DEF TokenInv, LeaseExpires, Holder
  <2>b. LeaseInv'
    BY <1>29, <1>k, <1>t, <2>1 DEF LeaseInv, RunIn, Owning, LeaseExpires, Holder
  <2>c. ClaimInv'
    BY <1>29, <1>k, <1>o, <1>t, <2>1 DEF ClaimInv, RunIn, Owning, Settled, LeaseExpires, Holder
  <2>d. ServedInv'
    BY <1>29, <1>k, <1>e, <1>t, <1>h, <2>1 DEF ServedInv, Waiting, RunIn, Settled, LeaseExpires, Holder
  <2> QED
    BY <2>a, <2>b, <2>c, <2>d
<1>30. CASE UNCHANGED vars
  BY <1>30 DEF vars, TokenInv, LeaseInv, ClaimInv, ServedInv, Waiting, RunIn, Ended
<1>31. ASSUME NEW c \in Clients, AckEntry(c) PROVE SafeInv'
  <2>a. TokenInv'
    BY <1>31, <1>t DEF TokenInv, AckEntry, CGoto
  <2>b. LeaseInv'
    BY <1>31, <1>k, <1>t DEF LeaseInv, RunIn, Owning, AckEntry, CGoto
  <2>c. ClaimInv'
    BY <1>31, <1>k, <1>o, <1>t DEF ClaimInv, RunIn, Owning, Settled, AckEntry, CGoto
  <2>d. ServedInv'
    BY <1>31, <1>k, <1>e, <1>t, <1>h DEF ServedInv, Waiting, RunIn, Settled, AckEntry, CGoto
  <2> QED
    BY <2>a, <2>b, <2>c, <2>d
<1>32. ASSUME NEW w \in Workers, DeleteTerminal(w) PROVE SafeInv'
  <2>1. cur[w] \in Assigned /\ tok[w] # None /\ RunIn(w) \in Runs
        /\ runOf'[cur[w]] = runOf[cur[w]]
    BY <1>32, <1>k DEF DeleteTerminal
  <2>2. Ended(RunIn(w))
    BY <1>32, <2>1 DEF DeleteTerminal, ServedInv, Ended, RunIn
  <2>3. \A e \in Waiting : e \in Waiting' \/ e = cur[w]
    BY <1>32 DEF Waiting, DeleteTerminal, Delete
  <2>a. TokenInv'
    BY <1>32, <1>t, <2>1, <2>2, <2>3 DEF TokenInv, DeleteTerminal, Delete, Goto
  <2>b. LeaseInv'
    BY <1>32, <1>k, <1>t, <2>1, <2>2, <2>3 DEF LeaseInv, RunIn, Owning, DeleteTerminal, Delete, Goto
  <2>c. ClaimInv'
    BY <1>32, <1>k, <1>o, <1>t, <2>1, <2>2, <2>3 DEF ClaimInv, RunIn, Owning, Settled, DeleteTerminal, Delete, Goto
  <2>d. ServedInv'
    BY <1>32, <1>k, <1>e, <1>t, <1>h, <2>1, <2>2, <2>3 DEF ServedInv, Waiting, RunIn, Settled, DeleteTerminal, Delete, Goto
  <2> QED
    BY <2>a, <2>b, <2>c, <2>d
<1>33. ASSUME NEW w \in Workers, WatchdogDelete(w) PROVE SafeInv'
  <2>1. cur[w] \in Assigned /\ tok[w] # None /\ RunIn(w) \in Runs
        /\ runOf'[cur[w]] = runOf[cur[w]]
    BY <1>33, <1>k DEF WatchdogDelete
  <2>2. Ended(RunIn(w))
    BY <1>33, <2>1 DEF WatchdogDelete, ServedInv, Ended, RunIn
  <2>3. \A e \in Waiting : e \in Waiting' \/ e = cur[w]
    BY <1>33 DEF Waiting, WatchdogDelete, Delete
  <2>a. TokenInv'
    BY <1>33, <1>t, <2>1, <2>2, <2>3 DEF TokenInv, WatchdogDelete, Delete, Goto
  <2>b. LeaseInv'
    BY <1>33, <1>k, <1>t, <2>1, <2>2, <2>3 DEF LeaseInv, RunIn, Owning, WatchdogDelete, Delete, Goto
  <2>c. ClaimInv'
    BY <1>33, <1>k, <1>o, <1>t, <2>1, <2>2, <2>3 DEF ClaimInv, RunIn, Owning, Settled, WatchdogDelete, Delete, Goto
  <2>d. ServedInv'
    BY <1>33, <1>k, <1>e, <1>t, <1>h, <2>1, <2>2, <2>3 DEF ServedInv, Waiting, RunIn, Settled, WatchdogDelete, Delete, Goto
  <2> QED
    BY <2>a, <2>b, <2>c, <2>d
<1> QED
  BY <1>1, <1>2, <1>3, <1>4, <1>5, <1>6, <1>7, <1>8, <1>9, <1>10, <1>11, <1>12, <1>13, <1>14, <1>15, <1>16, <1>17, <1>18, <1>19, <1>20, <1>21, <1>22, <1>23, <1>24, <1>25, <1>26, <1>27, <1>28, <1>29, <1>30, <1>31, <1>32, <1>33
     DEF Next, ApiStep, Supervise, Execute

LEMMA Safe == Spec => [](TypeInv /\ SafeInv)
<1>1. Init => TypeInv /\ SafeInv
  BY TypeInit, SafeInit
<1>2. TypeInv /\ SafeInv /\ [Next]_vars => (TypeInv /\ SafeInv)'
  BY TypeStep, SafeStep
<1> QED
  BY <1>1, <1>2, PTL DEF Spec

\* The lease admits one worker per run until a live holder is stalled past the
\* TTL, however many workers, duplicates, crashes and watchdogs there are.
THEOREM LeaseExclusion == Spec => []LeaseExclusive
<1>1. TypeInv /\ SafeInv => LeaseExclusive
  BY OwnersDiffer DEF SafeInv, LeaseExclusive
<1> QED
  BY <1>1, Safe, PTL

\* No entry leaves the queue before its run was served or cancelled.
THEOREM NoEntryLost == Spec => []AtLeastOnce
<1>1. TypeInv /\ SafeInv => AtLeastOnce
  BY DEF SafeInv, ServedInv, Ended, AtLeastOnce, Assigned
<1> QED
  BY <1>1, Safe, PTL

\* A worker never starts a run whose status is settled, until a stall.
THEOREM SettledNotRestarted == Spec => SettledRunNotStarted
<1>1. TypeInv /\ SafeInv /\ [Next]_vars
      => [\A w \in Workers : stalls = 0 /\ MarkRunning(w)
             => status[RunIn(w)].st \notin Settled]_vars
  BY DEF SafeInv, ClaimInv, MarkRunning
<1> QED
  BY <1>1, Safe, PTL DEF Spec, SettledRunNotStarted

\* The lease is lost by its owner's doing or a stall, never by another release.
THEOREM LeaseNotEvicted == Spec => LeaseLostByOwnerOnly
<1> USE DEF queue, hashes, workers, runtime, api, faults, history
<1> DEFINE Kept(w) == pc[w] \in Owning /\ lock[RunIn(w)] = tok[w]
                      => \/ lock'[RunIn(w)] = tok[w]
                         \/ pc[w] = "wdRelease" /\ pc'[w] = "unwind"
                         \/ tok'[w] = None
                         \/ stalls' > stalls
<1>1. ASSUME TypeInv, SafeInv, [Next]_vars, NEW w \in Workers PROVE Kept(w)
  <2> SUFFICES ASSUME pc[w] \in Owning, lock[RunIn(w)] = tok[w], lock # lock' PROVE Kept(w)
    BY DEF Kept
  <2>1. /\ pc[w] # "loop" /\ pc[w] # "unwind" /\ tok[w] # None /\ RunIn(w) \in Runs
        /\ lock = [r \in Runs |-> lock[r]] /\ tok = [v \in Workers |-> tok[v]]
        /\ pc = [v \in Workers |-> pc[v]] /\ stalls \in Nat
    BY <1>1, Busy DEF Owning, TypeInv, BaseInv
  <2>2. \A v \in Workers : v # w => tok[v] # tok[w]
    BY <1>1, <2>1 DEF SafeInv, TokenInv
  <2>3. ASSUME NEW v \in Workers, NEW e \in Entries, NEW t \in Tokens, TryLock(v, e, t)
        PROVE  Kept(w)
    BY <2>1, <2>3 DEF TryLock
  <2>4. ASSUME NEW v \in Workers, FinallyRelease(v) PROVE Kept(w)
    BY <2>1, <2>2, <2>4 DEF FinallyRelease, ReleaseLock, Return
  <2>5. ASSUME NEW v \in Workers, WatchdogRelease(v) PROVE Kept(w)
    BY <2>1, <2>2, <2>5 DEF WatchdogRelease, ReleaseLock, Goto
  <2>6. ASSUME NEW v \in Workers, UnwindExecutor(v) PROVE Kept(w)
    BY <2>1, <2>2, <2>6 DEF UnwindExecutor, ReleaseLock, Return
  <2>7. ASSUME NEW r \in Runs, LeaseExpires(r) PROVE Kept(w)
    BY <2>1, <2>7 DEF LeaseExpires, Holder
  <2>8. \/ \E v \in Workers, e \in Entries, t \in Tokens : TryLock(v, e, t)
        \/ \E v \in Workers : FinallyRelease(v) \/ WatchdogRelease(v) \/ UnwindExecutor(v)
        \/ \E r \in Runs : LeaseExpires(r)
    BY <1>1 DEF Next, ApiStep, Supervise, Execute, vars, PostRun, CancelRun, Enqueue, MarkQueued,
           RequestCancel, AckEntry, DeleteEntry, ClientCrash, ReclaimStale, ReadNew, SkipHeld,
           TerminalGuard, Guarded, MarkRunning, Settle, RecordAttempt, DeadLetter,
           LeaveForRedelivery, AckTerminal, DeleteTerminal, WatchdogTimeout, WatchdogAck, WatchdogDelete,
           WorkerCrash,
           ExecuteFresh, ReportProgress, PollCancel, ExecutorReturns
  <2> QED
    BY <2>3, <2>4, <2>5, <2>6, <2>7, <2>8
<1>2. TypeInv /\ SafeInv /\ [Next]_vars
      => [\A w \in Workers :
             pc[w] \in Owning /\ lock[RunIn(w)] = tok[w]
             => \/ lock'[RunIn(w)] = tok[w]
                \/ pc[w] = "wdRelease" /\ pc'[w] = "unwind"
                \/ tok'[w] = None
                \/ stalls' > stalls]_vars
  BY <1>1 DEF Kept
<1> QED
  BY <1>2, Safe, PTL DEF Spec, LeaseLostByOwnerOnly

-----------------------------------------------------------------------------
(***************************************************************************)
(* RunQueue implements RunLifecycle, and its consequences for the status   *)
(* of a run.                                                               *)
(***************************************************************************)

\* A request that deletes an entry has one; an entry not yet added carries no run.
RequestInv == /\ \A c \in Clients : cpc[c] \in {"ackEntry", "delete"} => centry[c] \in Entries
              /\ \A e \in Entries \ Assigned : runOf[e] = None

\* Without a watchdog, and until a stall, an executor runs under the worker that
\* started it, which waits for it.
Supervised(t) ==
    /\ task[t].worker \in Workers
    /\ tok[task[t].worker] = t /\ pc[task[t].worker] = "run"
    /\ RunIn(task[t].worker) = task[t].run

ExecInv ==
    ~WatchdogArmed =>
        /\ \A w \in Workers : pc[w] \notin {"wdAck", "wdDelete", "wdRelease", "unwind"}
        /\ stalls = 0 => \A t \in Tokens : task[t].pc # "none" => Supervised(t)

\* And the run a worker executes, or has seen fail, is open.
OpenInv ==
    ~WatchdogArmed /\ stalls = 0 =>
        \A w \in Workers : pc[w] \in {"run", "deadLetter", "retry"}
                           => status[RunIn(w)].st \notin Settled

RefInv == RequestInv /\ ExecInv /\ OpenInv

LEMMA RefInit == Init => RefInv
BY ConstantsAssumption DEF Init, RefInv, RequestInv, ExecInv, OpenInv, NoTask

LEMMA RefStep == TypeInv /\ SafeInv /\ RefInv /\ [Next]_vars => RefInv'
<1> SUFFICES ASSUME TypeInv, SafeInv, RefInv, [Next]_vars PROVE RefInv'
  OBVIOUS
<1> USE DEF RefInv, queue, hashes, workers, runtime, api, faults, history
<1>k. \A w \in Workers : pc[w] # "loop" => /\ cur[w] \in Assigned /\ tok[w] # None /\ tok[w] \in Tokens
                                           /\ RunIn(w) \in Runs /\ runOf'[cur[w]] = runOf[cur[w]]
  BY Busy, Grows DEF Growth
<1>t. /\ pc = [v \in Workers |-> pc[v]] /\ cur = [v \in Workers |-> cur[v]]
      /\ tok = [v \in Workers |-> tok[v]] /\ cpc = [c \in Clients |-> cpc[c]]
      /\ centry = [c \in Clients |-> centry[c]] /\ task = [t \in Tokens |-> task[t]]
      /\ status = [r \in Runs |-> status[r]] /\ stalls \in Nat
      /\ \A r \in Runs : status[r] = [st |-> status[r].st, entry |-> status[r].entry]
      /\ \A t \in Tokens : task[t] = [pc |-> task[t].pc, run |-> task[t].run,
                                      worker |-> task[t].worker, iter |-> task[t].iter]
  BY DEF TypeInv, BaseInv, StatusInv, StatusHashes, TaskInv, Tasks
<1>o. stalls = 0 => \A v, w \in Workers :
        v # w /\ pc[v] \in Owning /\ pc[w] \in Owning => RunIn(v) # RunIn(w)
  BY OwnersDiffer DEF SafeInv
<1>u. \A v, w \in Workers : v # w /\ tok[v] # None => tok[v] # tok[w]
  BY DEF SafeInv, TokenInv
<1>n. NoTask.pc = "none"
  BY NoTaskType
<1>1. ASSUME NEW c \in Clients, NEW r \in Runs, PostRun(c, r) PROVE RefInv'
  <2>a. RequestInv'
    BY <1>1, <1>t DEF RequestInv, Assigned, PostRun, CGoto
  <2>b. ExecInv'
    BY <1>1, <1>k, <1>t, <1>o, <1>u, <1>n DEF ExecInv, Supervised, RunIn, Owning, Settled, PostRun, CGoto
  <2>c. OpenInv'
    BY <1>1, <1>k, <1>t, <1>o DEF OpenInv, RunIn, Owning, Settled, PostRun, CGoto
  <2> QED
    BY <2>a, <2>b, <2>c
<1>2. ASSUME NEW c \in Clients, NEW r \in Runs, CancelRun(c, r) PROVE RefInv'
  <2>a. RequestInv'
    BY <1>2, <1>t DEF RequestInv, Assigned, CancelRun, CGoto
  <2>b. ExecInv'
    BY <1>2, <1>k, <1>t, <1>o, <1>u, <1>n DEF ExecInv, Supervised, RunIn, Owning, Settled, CancelRun, CGoto
  <2>c. OpenInv'
    BY <1>2, <1>k, <1>t, <1>o DEF OpenInv, RunIn, Owning, Settled, CancelRun, CGoto
  <2> QED
    BY <2>a, <2>b, <2>c
<1>3. ASSUME NEW c \in Clients, Enqueue(c) PROVE RefInv'
  <2>a. RequestInv'
    BY <1>3, <1>t, ConstantsAssumption DEF RequestInv, Assigned, Entries, TypeInv, BaseInv, Enqueue, CGoto
  <2>b. ExecInv'
    <3> SUFFICES ASSUME ~WatchdogArmed PROVE ExecInv'
      BY DEF ExecInv
    <3>1. \A v \in Workers : pc'[v] \notin {"wdAck", "wdDelete", "wdRelease", "unwind"}
      BY <1>3, <1>t DEF ExecInv, Enqueue, CGoto
    <3>2. ASSUME stalls' = 0, NEW s \in Tokens, task'[s].pc # "none" PROVE Supervised(s)'
      <4>1. stalls = 0 /\ (task[s].pc # "none" => Supervised(s))
        BY <3>2, Grows DEF Growth, ExecInv
      <4>2. task[s].pc # "none" /\ Supervised(s)
        BY <1>3, <3>2, <4>1 DEF Enqueue
      <4>3. cur[task[s].worker] \in Assigned /\ runOf'[cur[task[s].worker]] = runOf[cur[task[s].worker]]
        BY <1>k, <4>2 DEF Supervised
      <4> QED
        BY <1>3, <4>2, <4>3 DEF Supervised, RunIn, Enqueue
    <3> QED
      BY <3>1, <3>2 DEF ExecInv
  <2>c. OpenInv'
    BY <1>3, <1>k, <1>t, <1>o DEF OpenInv, RunIn, Owning, Settled, Enqueue, CGoto
  <2> QED
    BY <2>a, <2>b, <2>c
<1>4. ASSUME NEW c \in Clients, MarkQueued(c) PROVE RefInv'
  <2>a. RequestInv'
    BY <1>4, <1>t DEF RequestInv, Assigned, MarkQueued, CGoto
  <2>b. ExecInv'
    BY <1>4, <1>k, <1>t, <1>o, <1>u, <1>n DEF ExecInv, Supervised, RunIn, Owning, Settled, MarkQueued, CGoto
  <2>c. OpenInv'
    BY <1>4, <1>k, <1>t, <1>o DEF OpenInv, RunIn, Owning, Settled, MarkQueued, CGoto
  <2> QED
    BY <2>a, <2>b, <2>c
<1>5. ASSUME NEW c \in Clients, RequestCancel(c) PROVE RefInv'
  <2>a. RequestInv'
    BY <1>5, <1>t DEF RequestInv, Assigned, TypeInv, BaseInv, RequestCancel, CGoto
  <2>b. ExecInv'
    BY <1>5, <1>k, <1>t, <1>o, <1>u, <1>n DEF ExecInv, Supervised, RunIn, Owning, Settled, RequestCancel, CGoto
  <2>c. OpenInv'
    BY <1>5, <1>k, <1>t, <1>o DEF OpenInv, RunIn, Owning, Settled, RequestCancel, CGoto
  <2> QED
    BY <2>a, <2>b, <2>c
<1>6. ASSUME NEW c \in Clients, DeleteEntry(c) PROVE RefInv'
  <2>a. RequestInv'
    BY <1>6, <1>t DEF RequestInv, Assigned, DeleteEntry, CGoto
  <2>b. ExecInv'
    BY <1>6, <1>k, <1>t, <1>o, <1>u, <1>n DEF ExecInv, Supervised, RunIn, Owning, Settled, DeleteEntry, CGoto
  <2>c. OpenInv'
    BY <1>6, <1>k, <1>t, <1>o DEF OpenInv, RunIn, Owning, Settled, DeleteEntry, CGoto
  <2> QED
    BY <2>a, <2>b, <2>c
<1>7. ASSUME NEW c \in Clients, ClientCrash(c) PROVE RefInv'
  <2>a. RequestInv'
    BY <1>7, <1>t DEF RequestInv, Assigned, ClientCrash, CGoto
  <2>b. ExecInv'
    BY <1>7, <1>k, <1>t, <1>o, <1>u, <1>n DEF ExecInv, Supervised, RunIn, Owning, Settled, ClientCrash, CGoto
  <2>c. OpenInv'
    BY <1>7, <1>k, <1>t, <1>o DEF OpenInv, RunIn, Owning, Settled, ClientCrash, CGoto
  <2> QED
    BY <2>a, <2>b, <2>c
<1>8. ASSUME NEW w \in Workers, NEW batch \in SUBSET Entries, ReclaimStale(w, batch) PROVE RefInv'
  <2>a. RequestInv'
    BY <1>8, <1>t DEF RequestInv, Assigned, ReclaimStale
  <2>b. ExecInv'
    BY <1>8, <1>k, <1>t, <1>o, <1>u, <1>n DEF ExecInv, Supervised, RunIn, Owning, Settled, ReclaimStale
  <2>c. OpenInv'
    BY <1>8, <1>k, <1>t, <1>o DEF OpenInv, RunIn, Owning, Settled, ReclaimStale
  <2> QED
    BY <2>a, <2>b, <2>c
<1>9. ASSUME NEW w \in Workers, ReadNew(w) PROVE RefInv'
  <2>a. RequestInv'
    BY <1>9, <1>t DEF RequestInv, Assigned, ReadNew
  <2>b. ExecInv'
    BY <1>9, <1>k, <1>t, <1>o, <1>u, <1>n DEF ExecInv, Supervised, RunIn, Owning, Settled, ReadNew
  <2>c. OpenInv'
    BY <1>9, <1>k, <1>t, <1>o DEF OpenInv, RunIn, Owning, Settled, ReadNew
  <2> QED
    BY <2>a, <2>b, <2>c
<1>10. ASSUME NEW w \in Workers, NEW e \in Entries, SkipHeld(w, e) PROVE RefInv'
  <2>a. RequestInv'
    BY <1>10, <1>t DEF RequestInv, Assigned, SkipHeld
  <2>b. ExecInv'
    BY <1>10, <1>k, <1>t, <1>o, <1>u, <1>n DEF ExecInv, Supervised, RunIn, Owning, Settled, SkipHeld
  <2>c. OpenInv'
    BY <1>10, <1>k, <1>t, <1>o DEF OpenInv, RunIn, Owning, Settled, SkipHeld
  <2> QED
    BY <2>a, <2>b, <2>c
<1>11. ASSUME NEW w \in Workers, NEW e \in Entries, NEW t \in Tokens, TryLock(w, e, t) PROVE RefInv'
  <2>a. RequestInv'
    BY <1>11, <1>t DEF RequestInv, Assigned, TryLock, Goto
  <2>b. ExecInv'
    BY <1>11, <1>k, <1>t, <1>o, <1>u, <1>n DEF ExecInv, Supervised, RunIn, Owning, Settled, TryLock, Goto
  <2>c. OpenInv'
    BY <1>11, <1>k, <1>t, <1>o DEF OpenInv, RunIn, Owning, Settled, TryLock, Goto
  <2> QED
    BY <2>a, <2>b, <2>c
<1>12. ASSUME NEW w \in Workers, TerminalGuard(w) PROVE RefInv'
  <2>a. RequestInv'
    BY <1>12, <1>t DEF RequestInv, Assigned, TerminalGuard, Guarded, Goto
  <2>b. ExecInv'
    BY <1>12, <1>k, <1>t, <1>o, <1>u, <1>n DEF ExecInv, Supervised, RunIn, Owning, Settled, TerminalGuard, Guarded, Goto
  <2>c. OpenInv'
    BY <1>12, <1>k, <1>t, <1>o DEF OpenInv, RunIn, Owning, Settled, TerminalGuard, Guarded, Goto
  <2> QED
    BY <2>a, <2>b, <2>c
<1>13. ASSUME NEW w \in Workers, MarkRunning(w) PROVE RefInv'
  <2>a. RequestInv'
    BY <1>13, <1>t DEF RequestInv, Assigned, MarkRunning, Mark, Goto
  <2>b. ExecInv'
    <3> SUFFICES ASSUME ~WatchdogArmed PROVE ExecInv'
      BY DEF ExecInv
    <3>1. \A v \in Workers : pc'[v] \notin {"wdAck", "wdDelete", "wdRelease", "unwind"}
      BY <1>13, <1>t DEF ExecInv, MarkRunning, Mark, Goto
    <3>2. ASSUME stalls' = 0, NEW s \in Tokens, task'[s].pc # "none" PROVE Supervised(s)'
      <4>1. stalls = 0 /\ (task[s].pc # "none" => Supervised(s))
        BY <3>2, Grows DEF Growth, ExecInv
      <4>1a. pc[w] = "claim" /\ RunIn(w) \in Runs
        BY <1>13, <1>k DEF MarkRunning
      <4>2. CASE s = tok[w]
        <5>1. task'[s].worker = w /\ task'[s].run = RunIn(w) /\ status'[RunIn(w)].st = "running"
          BY <1>13, <1>t, <4>1a, <4>2 DEF MarkRunning, Mark
        <5> QED
          BY <1>13, <1>t, <4>2, <5>1 DEF Supervised, RunIn, Settled, MarkRunning, Goto
      <4>3. CASE s # tok[w]
        <5>1. task'[s] = task[s] /\ Supervised(s)
          BY <1>13, <1>t, <3>2, <4>1, <4>3 DEF MarkRunning
        <5>2. task[s].worker # w /\ RunIn(task[s].worker) # RunIn(w)
          BY <1>13, <1>o, <4>1, <4>1a, <5>1 DEF Supervised, Owning
        <5> QED
          BY <1>13, <1>t, <4>1a, <5>1, <5>2 DEF Supervised, RunIn, MarkRunning, Mark, Goto
      <4> QED
        BY <4>2, <4>3
    <3> QED
      BY <3>1, <3>2 DEF ExecInv
  <2>c. OpenInv'
    BY <1>13, <1>k, <1>t, <1>o DEF OpenInv, RunIn, Owning, Settled, MarkRunning, Mark, Goto
  <2> QED
    BY <2>a, <2>b, <2>c
<1>14. ASSUME NEW w \in Workers, Settle(w) PROVE RefInv'
  <2>a. RequestInv'
    BY <1>14, <1>t DEF RequestInv, Assigned, Settle, Mark, Goto
  <2>b. ExecInv'
    <3> SUFFICES ASSUME ~WatchdogArmed PROVE ExecInv'
      BY DEF ExecInv
    <3>1. \A v \in Workers : pc'[v] \notin {"wdAck", "wdDelete", "wdRelease", "unwind"}
      BY <1>14, <1>t DEF ExecInv, Settle, Mark, Goto
    <3>2. ASSUME stalls' = 0, NEW s \in Tokens, task'[s].pc # "none" PROVE Supervised(s)'
      <4>1. stalls = 0 /\ (task[s].pc # "none" => Supervised(s))
        BY <3>2, Grows DEF Growth, ExecInv
      <4>2. task[s].pc # "none" /\ s # tok[w] /\ task'[s] = task[s]
        BY <1>14, <1>t, <1>k, <1>n, <3>2 DEF Settle, Mark, Goto
      <4>3. task[s].worker # w /\ task[s].worker \in Workers /\ pc[task[s].worker] = "run"
        BY <1>14, <1>u, <4>1, <4>2 DEF Supervised, Settle, Mark, Goto
      <4>4. RunIn(task[s].worker) # RunIn(w)
        BY <1>14, <1>o, <4>1, <4>3 DEF Owning, Awaiting, Returned, Settle, Mark, Goto
      <4>5. task[s].run \in Runs
        BY <1>k, <4>1, <4>2, <4>3 DEF Supervised
      <4> QED
        BY <1>14, <1>t, <1>k, <4>1, <4>2, <4>3, <4>4, <4>5 DEF Supervised, RunIn, Settle, Mark, Goto
    <3> QED
      BY <3>1, <3>2 DEF ExecInv
  <2>c. OpenInv'
    <3> SUFFICES ASSUME ~WatchdogArmed, stalls' = 0, NEW v \in Workers,
                        pc'[v] \in {"run", "deadLetter", "retry"}
                 PROVE  status'[RunIn(v)].st \notin Settled
      BY <1>14 DEF OpenInv, RunIn, Settle
    <3>1. v # w /\ pc'[v] = pc[v] /\ stalls = 0
      BY <1>14, <1>t DEF Settle, Goto
    <3>2. RunIn(v) # RunIn(w)
      BY <1>14, <1>o, <3>1 DEF Settle, Returned, Awaiting, Owning
    <3>3. \E st : Mark(RunIn(w), st)
      BY <1>14 DEF Settle
    <3> QED
      BY <1>k, <1>t, <3>1, <3>2, <3>3 DEF Mark, OpenInv
  <2> QED
    BY <2>a, <2>b, <2>c
<1>15. ASSUME NEW w \in Workers, RecordAttempt(w) PROVE RefInv'
  <2>a. RequestInv'
    BY <1>15, <1>t DEF RequestInv, Assigned, RecordAttempt, Goto
  <2>b. ExecInv'
    BY <1>15, <1>k, <1>t, <1>o, <1>u, <1>n DEF ExecInv, Supervised, RunIn, Owning, Settled, RecordAttempt, Goto
  <2>c. OpenInv'
    BY <1>15, <1>k, <1>t, <1>o DEF OpenInv, ExecInv, Awaiting, Returned, RunIn, Owning, Settled, RecordAttempt, Goto
  <2> QED
    BY <2>a, <2>b, <2>c
<1>16. ASSUME NEW w \in Workers, DeadLetter(w) PROVE RefInv'
  <2>a. RequestInv'
    BY <1>16, <1>t DEF RequestInv, Assigned, DeadLetter, Mark, Goto
  <2>b. ExecInv'
    <3> SUFFICES ASSUME ~WatchdogArmed PROVE ExecInv'
      BY DEF ExecInv
    <3>1. \A v \in Workers : pc'[v] \notin {"wdAck", "wdDelete", "wdRelease", "unwind"}
      BY <1>16, <1>t DEF ExecInv, DeadLetter, Mark, Goto
    <3>2. ASSUME stalls' = 0, NEW s \in Tokens, task'[s].pc # "none" PROVE Supervised(s)'
      <4>1. stalls = 0 /\ (task[s].pc # "none" => Supervised(s))
        BY <3>2, Grows DEF Growth, ExecInv
      <4>2. task[s].pc # "none" /\ task'[s] = task[s]
        BY <1>16, <1>t, <1>k, <1>n, <3>2 DEF DeadLetter, Mark, Goto
      <4>3. task[s].worker # w /\ task[s].worker \in Workers /\ pc[task[s].worker] = "run"
        BY <1>16, <4>1, <4>2 DEF Supervised, DeadLetter, Mark, Goto
      <4>4. RunIn(task[s].worker) # RunIn(w)
        BY <1>16, <1>o, <4>1, <4>3 DEF Owning, Awaiting, Returned, DeadLetter, Mark, Goto
      <4>5. task[s].run \in Runs
        BY <1>k, <4>1, <4>2, <4>3 DEF Supervised
      <4> QED
        BY <1>16, <1>t, <1>k, <4>1, <4>2, <4>3, <4>4, <4>5 DEF Supervised, RunIn, DeadLetter, Mark, Goto
    <3> QED
      BY <3>1, <3>2 DEF ExecInv
  <2>c. OpenInv'
    BY <1>16, <1>k, <1>t, <1>o DEF OpenInv, RunIn, Owning, Settled, DeadLetter, Mark, Goto
  <2> QED
    BY <2>a, <2>b, <2>c
<1>17. ASSUME NEW w \in Workers, LeaveForRedelivery(w) PROVE RefInv'
  <2>a. RequestInv'
    BY <1>17, <1>t DEF RequestInv, Assigned, LeaveForRedelivery, Mark, Goto
  <2>b. ExecInv'
    <3> SUFFICES ASSUME ~WatchdogArmed PROVE ExecInv'
      BY DEF ExecInv
    <3>1. \A v \in Workers : pc'[v] \notin {"wdAck", "wdDelete", "wdRelease", "unwind"}
      BY <1>17, <1>t DEF ExecInv, LeaveForRedelivery, Mark, Goto
    <3>2. ASSUME stalls' = 0, NEW s \in Tokens, task'[s].pc # "none" PROVE Supervised(s)'
      <4>1. stalls = 0 /\ (task[s].pc # "none" => Supervised(s))
        BY <3>2, Grows DEF Growth, ExecInv
      <4>2. task[s].pc # "none" /\ task'[s] = task[s]
        BY <1>17, <1>t, <1>k, <1>n, <3>2 DEF LeaveForRedelivery, Mark, Goto
      <4>3. task[s].worker # w /\ task[s].worker \in Workers /\ pc[task[s].worker] = "run"
        BY <1>17, <4>1, <4>2 DEF Supervised, LeaveForRedelivery, Mark, Goto
      <4>4. RunIn(task[s].worker) # RunIn(w)
        BY <1>17, <1>o, <4>1, <4>3 DEF Owning, Awaiting, Returned, LeaveForRedelivery, Mark, Goto
      <4>5. task[s].run \in Runs
        BY <1>k, <4>1, <4>2, <4>3 DEF Supervised
      <4> QED
        BY <1>17, <1>t, <1>k, <4>1, <4>2, <4>3, <4>4, <4>5 DEF Supervised, RunIn, LeaveForRedelivery, Mark, Goto
    <3> QED
      BY <3>1, <3>2 DEF ExecInv
  <2>c. OpenInv'
    BY <1>17, <1>k, <1>t, <1>o DEF OpenInv, RunIn, Owning, Settled, LeaveForRedelivery, Mark, Goto
  <2> QED
    BY <2>a, <2>b, <2>c
<1>18. ASSUME NEW w \in Workers, AckTerminal(w) PROVE RefInv'
  <2>a. RequestInv'
    BY <1>18, <1>t DEF RequestInv, Assigned, Acked, AckTerminal, Goto
  <2>b. ExecInv'
    BY <1>18, <1>k, <1>t, <1>o, <1>u, <1>n DEF ExecInv, Supervised, RunIn, Owning, Settled, AckTerminal, Acked
  <2>c. OpenInv'
    BY <1>18, <1>k, <1>t, <1>o DEF OpenInv, RunIn, Owning, Settled, AckTerminal, Acked
  <2> QED
    BY <2>a, <2>b, <2>c
<1>19. ASSUME NEW w \in Workers, FinallyRelease(w) PROVE RefInv'
  <2>a. RequestInv'
    BY <1>19, <1>t DEF RequestInv, Assigned, FinallyRelease, Return, Goto
  <2>b. ExecInv'
    BY <1>19, <1>k, <1>t, <1>o, <1>u, <1>n DEF ExecInv, Supervised, RunIn, Owning, Settled, FinallyRelease, Return, Goto
  <2>c. OpenInv'
    BY <1>19, <1>k, <1>t, <1>o DEF OpenInv, RunIn, Owning, Settled, FinallyRelease, Return, Goto
  <2> QED
    BY <2>a, <2>b, <2>c
<1>20. ASSUME NEW w \in Workers, WatchdogTimeout(w) PROVE RefInv'
  <2>a. RequestInv'
    BY <1>20, <1>t DEF RequestInv, Assigned, WatchdogTimeout, Mark, Goto
  <2>b. ExecInv'
    BY <1>20, <1>k, <1>t, <1>o, <1>u, <1>n DEF ExecInv, Supervised, RunIn, Owning, Settled, WatchdogTimeout, Mark, Goto
  <2>c. OpenInv'
    BY <1>20, <1>k, <1>t, <1>o DEF OpenInv, RunIn, Owning, Settled, WatchdogTimeout, Mark, Goto
  <2> QED
    BY <2>a, <2>b, <2>c
<1>21. ASSUME NEW w \in Workers, WatchdogAck(w) PROVE RefInv'
  <2>a. RequestInv'
    BY <1>21, <1>t DEF RequestInv, Assigned, Acked, WatchdogAck, Goto
  <2>b. ExecInv'
    BY <1>21, <1>k, <1>t, <1>o, <1>u, <1>n DEF ExecInv, Supervised, RunIn, Owning, Settled, WatchdogAck, Acked
  <2>c. OpenInv'
    BY <1>21, <1>k, <1>t, <1>o DEF OpenInv, RunIn, Owning, Settled, WatchdogAck, Acked
  <2> QED
    BY <2>a, <2>b, <2>c
<1>22. ASSUME NEW w \in Workers, WatchdogRelease(w) PROVE RefInv'
  <2>a. RequestInv'
    BY <1>22, <1>t DEF RequestInv, Assigned, WatchdogRelease, Goto
  <2>b. ExecInv'
    BY <1>22, <1>k, <1>t, <1>o, <1>u, <1>n DEF ExecInv, Supervised, RunIn, Owning, Settled, WatchdogRelease, Goto
  <2>c. OpenInv'
    BY <1>22, <1>k, <1>t, <1>o DEF OpenInv, RunIn, Owning, Settled, WatchdogRelease, Goto
  <2> QED
    BY <2>a, <2>b, <2>c
<1>23. ASSUME NEW w \in Workers, UnwindExecutor(w) PROVE RefInv'
  <2>a. RequestInv'
    BY <1>23, <1>t DEF RequestInv, Assigned, UnwindExecutor, Return, Goto
  <2>b. ExecInv'
    BY <1>23, <1>k, <1>t, <1>o, <1>u, <1>n DEF ExecInv, Supervised, RunIn, Owning, Settled, UnwindExecutor, Return, Goto
  <2>c. OpenInv'
    BY <1>23, <1>k, <1>t, <1>o DEF OpenInv, RunIn, Owning, Settled, UnwindExecutor, Return, Goto
  <2> QED
    BY <2>a, <2>b, <2>c
<1>24. ASSUME NEW w \in Workers, WorkerCrash(w) PROVE RefInv'
  <2>a. RequestInv'
    BY <1>24, <1>t DEF RequestInv, Assigned, WorkerCrash
  <2>b. ExecInv'
    BY <1>24, <1>k, <1>t, <1>o, <1>u, <1>n DEF ExecInv, Supervised, RunIn, Owning, Settled, WorkerCrash
  <2>c. OpenInv'
    BY <1>24, <1>k, <1>t, <1>o DEF OpenInv, RunIn, Owning, Settled, WorkerCrash
  <2> QED
    BY <2>a, <2>b, <2>c
<1>25. ASSUME NEW t \in Tokens, ExecuteFresh(t) PROVE RefInv'
  <2>a. RequestInv'
    BY <1>25, <1>t DEF RequestInv, Assigned, ExecuteFresh, TaskGoto
  <2>b. ExecInv'
    <3> SUFFICES ASSUME ~WatchdogArmed PROVE ExecInv'
      BY DEF ExecInv
    <3>1. \A v \in Workers : pc'[v] \notin {"wdAck", "wdDelete", "wdRelease", "unwind"}
      BY <1>25, <1>t DEF ExecInv, ExecuteFresh, TaskGoto
    <3>2. ASSUME stalls' = 0, NEW s \in Tokens, task'[s].pc # "none" PROVE Supervised(s)'
      <4>1. stalls = 0 /\ (task[s].pc # "none" => Supervised(s))
        BY <3>2, Grows DEF Growth, ExecInv
      <4>2. task[s].pc # "none" /\ task'[s].worker = task[s].worker /\ task'[s].run = task[s].run
        BY <1>25, <1>t, <1>n, <3>2, <4>1 DEF Supervised, ExecuteFresh, TaskGoto
      <4>3. task[s].worker \in Workers /\ task[s].run \in Runs /\ cur[task[s].worker] \in Assigned
        BY <1>k, <4>1, <4>2 DEF Supervised
      <4> QED
        BY <1>25, <1>t, <4>1, <4>2, <4>3 DEF Supervised, RunIn, Settled, ExecuteFresh, TaskGoto
    <3> QED
      BY <3>1, <3>2 DEF ExecInv
  <2>c. OpenInv'
    BY <1>25, <1>k, <1>t, <1>o DEF OpenInv, RunIn, Owning, Settled, ExecuteFresh, TaskGoto
  <2> QED
    BY <2>a, <2>b, <2>c
<1>26. ASSUME NEW t \in Tokens, ReportProgress(t) PROVE RefInv'
  <2>a. RequestInv'
    BY <1>26, <1>t DEF RequestInv, Assigned, ReportProgress, Mark
  <2>b. ExecInv'
    <3> SUFFICES ASSUME ~WatchdogArmed PROVE ExecInv'
      BY DEF ExecInv
    <3>1. \A v \in Workers : pc'[v] \notin {"wdAck", "wdDelete", "wdRelease", "unwind"}
      BY <1>26, <1>t DEF ExecInv, ReportProgress, Mark
    <3>2. ASSUME stalls' = 0, NEW s \in Tokens, task'[s].pc # "none" PROVE Supervised(s)'
      <4>1. stalls = 0 /\ (task[s].pc # "none" => Supervised(s))
        BY <3>2, Grows DEF Growth, ExecInv
      <4>2. task[s].pc # "none" /\ task'[s].worker = task[s].worker /\ task'[s].run = task[s].run
        BY <1>26, <1>t, <1>n, <3>2, <4>1 DEF Supervised, ReportProgress, Mark
      <4>3. task[s].worker \in Workers /\ task[s].run \in Runs /\ cur[task[s].worker] \in Assigned
        BY <1>k, <4>1, <4>2 DEF Supervised
      <4> QED
        BY <1>26, <1>t, <4>1, <4>2, <4>3 DEF Supervised, RunIn, Settled, ReportProgress, Mark
    <3> QED
      BY <3>1, <3>2 DEF ExecInv
  <2>c. OpenInv'
    BY <1>26, <1>k, <1>t, <1>o DEF OpenInv, RunIn, Owning, Settled, ReportProgress, Mark
  <2> QED
    BY <2>a, <2>b, <2>c
<1>27. ASSUME NEW t \in Tokens, PollCancel(t) PROVE RefInv'
  <2>a. RequestInv'
    BY <1>27, <1>t DEF RequestInv, Assigned, PollCancel, Done, TaskGoto, Abandoned
  <2>b. ExecInv'
    <3> SUFFICES ASSUME ~WatchdogArmed PROVE ExecInv'
      BY DEF ExecInv
    <3>1. \A v \in Workers : pc'[v] \notin {"wdAck", "wdDelete", "wdRelease", "unwind"}
      BY <1>27, <1>t DEF ExecInv, PollCancel, Done, TaskGoto, Abandoned
    <3>2. ASSUME stalls' = 0, NEW s \in Tokens, task'[s].pc # "none" PROVE Supervised(s)'
      <4>1. stalls = 0 /\ (task[s].pc # "none" => Supervised(s))
        BY <3>2, Grows DEF Growth, ExecInv
      <4>2. task[t].pc # "none" /\ (Done(t, "cancel") \/ TaskGoto(t, "working"))
        BY <1>27 DEF PollCancel
      <4>3. task[s].pc # "none" /\ task'[s].worker = task[s].worker /\ task'[s].run = task[s].run
        <5>1. CASE TaskGoto(t, "working")
          BY <1>t, <3>2, <4>2, <5>1 DEF TaskGoto
        <5>2. CASE Done(t, "cancel")
          BY <1>t, <1>n, <3>2, <4>2, <5>2 DEF Done, TaskGoto
        <5> QED
          BY <4>2, <5>1, <5>2
      <4>4. task[s].worker \in Workers /\ task[s].run \in Runs /\ cur[task[s].worker] \in Assigned
        BY <1>k, <4>1, <4>3 DEF Supervised
      <4> QED
        BY <1>27, <1>t, <4>1, <4>3, <4>4 DEF Supervised, RunIn, Settled, PollCancel
    <3> QED
      BY <3>1, <3>2 DEF ExecInv
  <2>c. OpenInv'
    BY <1>27, <1>k, <1>t, <1>o DEF OpenInv, RunIn, Owning, Settled, PollCancel, Done, TaskGoto, Abandoned
  <2> QED
    BY <2>a, <2>b, <2>c
<1>28. ASSUME NEW t \in Tokens, ExecutorReturns(t) PROVE RefInv'
  <2>a. RequestInv'
    BY <1>28, <1>t DEF RequestInv, Assigned, ExecutorReturns, Done, TaskGoto, Abandoned
  <2>b. ExecInv'
    <3> SUFFICES ASSUME ~WatchdogArmed PROVE ExecInv'
      BY DEF ExecInv
    <3>1. \A v \in Workers : pc'[v] \notin {"wdAck", "wdDelete", "wdRelease", "unwind"}
      BY <1>28, <1>t DEF ExecInv, ExecutorReturns, Done, TaskGoto, Abandoned
    <3>2. ASSUME stalls' = 0, NEW s \in Tokens, task'[s].pc # "none" PROVE Supervised(s)'
      <4>1. stalls = 0 /\ (task[s].pc # "none" => Supervised(s))
        BY <3>2, Grows DEF Growth, ExecInv
      <4>2. task[t].pc # "none" /\ \E o : Done(t, o)
        BY <1>28 DEF ExecutorReturns
      <4>3. PICK o : Done(t, o)
        BY <4>2
      <4>4. task[s].pc # "none" /\ task'[s].worker = task[s].worker /\ task'[s].run = task[s].run
        BY <1>t, <1>n, <3>2, <4>2, <4>3 DEF Done, TaskGoto
      <4>5. task[s].worker \in Workers /\ task[s].run \in Runs /\ cur[task[s].worker] \in Assigned
        BY <1>k, <4>1, <4>4 DEF Supervised
      <4> QED
        BY <1>28, <1>t, <4>1, <4>4, <4>5 DEF Supervised, RunIn, Settled, ExecutorReturns
    <3> QED
      BY <3>1, <3>2 DEF ExecInv
  <2>c. OpenInv'
    BY <1>28, <1>k, <1>t, <1>o DEF OpenInv, RunIn, Owning, Settled, ExecutorReturns, Done, TaskGoto, Abandoned
  <2> QED
    BY <2>a, <2>b, <2>c
<1>29. ASSUME NEW r \in Runs, LeaseExpires(r) PROVE RefInv'
  <2>a. RequestInv'
    BY <1>29, <1>t DEF RequestInv, Assigned, LeaseExpires, Holder
  <2>b. ExecInv'
    <3> SUFFICES ASSUME ~WatchdogArmed PROVE ExecInv'
      BY DEF ExecInv
    <3>1. \A v \in Workers : pc'[v] \notin {"wdAck", "wdDelete", "wdRelease", "unwind"}
      BY <1>29, <1>t DEF ExecInv, LeaseExpires, Holder
    <3>2. ASSUME stalls' = 0, NEW s \in Tokens, task'[s].pc # "none" PROVE Supervised(s)'
      <4>1. stalls = 0 /\ (task[s].pc # "none" => Supervised(s))
        BY <3>2, Grows DEF Growth, ExecInv
      <4> QED
        BY <1>29, <3>2, <4>1 DEF Supervised, RunIn, LeaseExpires
    <3> QED
      BY <3>1, <3>2 DEF ExecInv
  <2>c. OpenInv'
    BY <1>29, <1>k, <1>t, <1>o DEF OpenInv, RunIn, Owning, Settled, LeaseExpires, Holder
  <2> QED
    BY <2>a, <2>b, <2>c
<1>30. CASE UNCHANGED vars
  BY <1>30 DEF vars, RequestInv, ExecInv, OpenInv, Supervised, RunIn, Assigned
<1>31. ASSUME NEW c \in Clients, AckEntry(c) PROVE RefInv'
  <2>a. RequestInv'
    BY <1>31, <1>t DEF RequestInv, Assigned, AckEntry, CGoto
  <2>b. ExecInv'
    BY <1>31, <1>k, <1>t, <1>o, <1>u, <1>n DEF ExecInv, Supervised, RunIn, Owning, Settled, AckEntry, CGoto
  <2>c. OpenInv'
    BY <1>31, <1>k, <1>t, <1>o DEF OpenInv, RunIn, Owning, Settled, AckEntry, CGoto
  <2> QED
    BY <2>a, <2>b, <2>c
<1>32. ASSUME NEW w \in Workers, DeleteTerminal(w) PROVE RefInv'
  <2>a. RequestInv'
    BY <1>32, <1>t DEF RequestInv, Assigned, Delete, DeleteTerminal, Goto
  <2>b. ExecInv'
    BY <1>32, <1>k, <1>t, <1>o, <1>u, <1>n DEF ExecInv, Supervised, RunIn, Owning, Settled, DeleteTerminal, Goto
  <2>c. OpenInv'
    BY <1>32, <1>k, <1>t, <1>o DEF OpenInv, RunIn, Owning, Settled, DeleteTerminal, Goto
  <2> QED
    BY <2>a, <2>b, <2>c
<1>33. ASSUME NEW w \in Workers, WatchdogDelete(w) PROVE RefInv'
  <2>a. RequestInv'
    BY <1>33, <1>t DEF RequestInv, Assigned, Delete, WatchdogDelete, Goto
  <2>b. ExecInv'
    BY <1>33, <1>k, <1>t, <1>o, <1>u, <1>n DEF ExecInv, Supervised, RunIn, Owning, Settled, WatchdogDelete, Goto
  <2>c. OpenInv'
    BY <1>33, <1>k, <1>t, <1>o DEF OpenInv, RunIn, Owning, Settled, WatchdogDelete, Goto
  <2> QED
    BY <2>a, <2>b, <2>c
<1> QED
  BY <1>1, <1>2, <1>3, <1>4, <1>5, <1>6, <1>7, <1>8, <1>9, <1>10, <1>11, <1>12, <1>13, <1>14, <1>15, <1>16, <1>17, <1>18, <1>19, <1>20, <1>21, <1>22, <1>23, <1>24, <1>25, <1>26, <1>27, <1>28, <1>29, <1>30, <1>31, <1>32, <1>33
     DEF Next, ApiStep, Supervise, Execute

LEMMA Refines == Spec => [](TypeInv /\ SafeInv /\ RefInv)
<1>1. Init => RefInv
  BY RefInit
<1>2. TypeInv /\ SafeInv /\ RefInv /\ [Next]_vars => RefInv'
  BY RefStep
<1> QED
  BY <1>1, <1>2, Safe, PTL DEF Spec

-----------------------------------------------------------------------------
(* The refinement mapping, and what each step of RunQueue is in RunLifecycle *)

Holding  == [w \in Workers |-> IF pc[w] \in Owning THEN RunIn(w) ELSE None]
Standing == [r \in Runs |-> status[r].st]

Stutter == /\ Holding' = Holding /\ Standing' = Standing
           /\ (stalls > 0)' = (stalls > 0)
           /\ UNCHANGED <<runOf, served, dropped>> /\ Waiting' = Waiting

LEMMA StutterUnchanged == Stutter => UNCHANGED Lifecycle!vars
BY DEF Stutter, Holding, Standing, Lifecycle!vars

\* What a mark does to the abstract status.
LEMMA MarkStanding ==
    ASSUME StatusInv, NEW j \in Runs, NEW st, status' = [status EXCEPT ![j].st = st]
    PROVE  Standing' = [Standing EXCEPT ![j] = st]
BY DEF StatusInv, StatusHashes, Standing

LEMMA InitImplements == Init => Lifecycle!Init
BY ConstantsAssumption DEF Init, Lifecycle!Init, Waiting, Owning, JobStatus, Settled

LEMMA StepImplements ==
    TypeInv /\ SafeInv /\ RefInv /\ [Next]_vars => [Lifecycle!Next]_Lifecycle!vars
<1> SUFFICES ASSUME TypeInv, SafeInv, RefInv, [Next]_vars
             PROVE  Lifecycle!Next \/ Stutter
  BY StutterUnchanged
<1> USE DEF queue, hashes, workers, runtime, api, faults, history
<1>k. \A w \in Workers : pc[w] # "loop" => /\ cur[w] \in Assigned /\ cur[w] \in Entries
                                           /\ RunIn(w) \in Runs /\ RunIn(w) # None
                                           /\ runOf'[cur[w]] = runOf[cur[w]]
  <2> SUFFICES ASSUME NEW w \in Workers, pc[w] # "loop"
               PROVE  /\ cur[w] \in Assigned /\ cur[w] \in Entries
                      /\ RunIn(w) \in Runs /\ RunIn(w) # None
                      /\ runOf'[cur[w]] = runOf[cur[w]]
    OBVIOUS
  <2>1. cur[w] \in Assigned /\ RunIn(w) \in Runs
    BY Busy
  <2>2. cur[w] \in Entries
    BY <2>1, ConstantsAssumption DEF Assigned, Entries, TypeInv, BaseInv
  <2> QED
    BY <2>1, <2>2, Grows, ConstantsAssumption DEF Growth
<1>t. /\ pc = [v \in Workers |-> pc[v]] /\ cur = [v \in Workers |-> cur[v]]
      /\ status = [r \in Runs |-> status[r]] /\ stalls \in Nat
      /\ \A r \in Runs : status[r] = [st |-> status[r].st, entry |-> status[r].entry]
      /\ StatusInv /\ \A r \in Runs : status[r].st \in JobStatus
      /\ runOf = [e \in Entries |-> runOf[e]]
  BY DEF TypeInv, BaseInv, StatusInv, StatusHashes
<1>q. UNCHANGED queue => Waiting' = Waiting
  BY DEF Waiting
<1>1. ASSUME NEW c \in Clients, NEW r \in Runs, PostRun(c, r) PROVE Lifecycle!Next \/ Stutter
  <2> QED
    BY <1>1, <1>t DEF Stutter, Waiting, Holding, Standing, RunIn, Owning, Awaiting, Returned, PostRun
<1>2. ASSUME NEW c \in Clients, NEW r \in Runs, CancelRun(c, r) PROVE Lifecycle!Next \/ Stutter
  <2> QED
    BY <1>2, <1>t DEF Stutter, Waiting, Holding, Standing, RunIn, Owning, Awaiting, Returned, CancelRun
<1>3. ASSUME NEW c \in Clients, Enqueue(c) PROVE Lifecycle!Next \/ Stutter
  <2>1. PICK j \in Runs, e \in Entries :
            e = added' /\ j = crun[c] /\ runOf[e] = None /\ e \notin Assigned
    BY <1>3, ConstantsAssumption DEF Enqueue, RefInv, RequestInv, Assigned, Entries, TypeInv, BaseInv
  <2>2. e \notin stream /\ e \notin delivered
    BY <2>1 DEF TypeInv, BaseInv
  <2>h. Holding' = Holding
    BY <1>3, <1>k, <1>t, <2>1 DEF Holding, RunIn, Owning, Awaiting, Returned, Enqueue
  <2>s. Standing' = Standing
    BY <1>3 DEF Standing, Enqueue
  <2>w. Waiting' = Waiting \cup {e} /\ e \notin Waiting
    BY <1>3, <2>1, <2>2 DEF Enqueue, Waiting
  <2>9. Lifecycle!Accept(e, j)
    BY <1>3, <1>t, <2>1, <2>h, <2>s, <2>w DEF Lifecycle!Accept, Holding, Standing, RunIn, Enqueue
  <2> QED
    BY <2>1, <2>9 DEF Lifecycle!Next
<1>4. ASSUME NEW c \in Clients, MarkQueued(c) PROVE Lifecycle!Next \/ Stutter
  <2>1. PICK j \in Runs : j = crun[c]
    BY <1>4 DEF MarkQueued, TypeInv, BaseInv
  <2>h. Holding' = Holding
    BY <1>4, <1>k, <1>t, <2>1 DEF Holding, RunIn, Owning, Awaiting, Returned, MarkQueued
  <2>s. Standing' = [Standing EXCEPT ![j] = "queued"]
    BY <1>4, <1>t, <2>1 DEF Standing, MarkQueued
  <2>9. Lifecycle!Post(j)
    BY <1>4, <1>t, <1>q, <2>1, <2>h, <2>s DEF Lifecycle!Post, Holding, Standing, RunIn, MarkQueued
  <2> QED
    BY <2>1, <2>9 DEF Lifecycle!Next
<1>5. ASSUME NEW c \in Clients, RequestCancel(c) PROVE Lifecycle!Next \/ Stutter
  <2> QED
    BY <1>5, <1>t DEF Stutter, Waiting, Holding, Standing, RunIn, Owning, Awaiting, Returned, RequestCancel
<1>6. ASSUME NEW c \in Clients, DeleteEntry(c) PROVE Lifecycle!Next \/ Stutter
  <2>1. PICK e \in Entries : e = centry[c]
    BY <1>6 DEF DeleteEntry, RefInv, RequestInv
  <2>h. Holding' = Holding
    BY <1>6, <1>k, <1>t, <2>1 DEF Holding, RunIn, Owning, Awaiting, Returned, DeleteEntry
  <2>s. Standing' = Standing
    BY <1>6 DEF Standing, DeleteEntry
  <2>2. CASE stream' = stream \ {e} /\ dropped' = dropped \cup {e}
    <3>1. Waiting' = Waiting \ {e}
      BY <1>6, <2>2 DEF DeleteEntry, Waiting
    <3>2. Lifecycle!Discard(e)
      BY <1>6, <2>2, <2>h, <2>s, <3>1 DEF Lifecycle!Discard, Holding, Standing, DeleteEntry
    <3> QED
      BY <3>2 DEF Lifecycle!Next
  <2>3. CASE UNCHANGED <<stream, dropped>>
    BY <1>6, <1>q, <2>3, <2>h, <2>s DEF Stutter, DeleteEntry
  <2> QED
    BY <1>6, <2>1, <2>2, <2>3 DEF DeleteEntry
<1>7. ASSUME NEW c \in Clients, ClientCrash(c) PROVE Lifecycle!Next \/ Stutter
  <2> QED
    BY <1>7, <1>t DEF Stutter, Waiting, Holding, Standing, RunIn, Owning, Awaiting, Returned, ClientCrash
<1>8. ASSUME NEW w \in Workers, NEW batch \in SUBSET Entries, ReclaimStale(w, batch) PROVE Lifecycle!Next \/ Stutter
  <2> QED
    BY <1>8, <1>t DEF Stutter, Waiting, Holding, Standing, RunIn, Owning, Awaiting, Returned, ReclaimStale
<1>9. ASSUME NEW w \in Workers, ReadNew(w) PROVE Lifecycle!Next \/ Stutter
  <2> QED
    BY <1>9, <1>t DEF Stutter, Waiting, Holding, Standing, RunIn, Owning, Awaiting, Returned, ReadNew
<1>10. ASSUME NEW w \in Workers, NEW e \in Entries, SkipHeld(w, e) PROVE Lifecycle!Next \/ Stutter
  <2> QED
    BY <1>10, <1>t DEF Stutter, Waiting, Holding, Standing, RunIn, Owning, Awaiting, Returned, SkipHeld
<1>11. ASSUME NEW w \in Workers, NEW e \in Entries, NEW t \in Tokens, TryLock(w, e, t) PROVE Lifecycle!Next \/ Stutter
  <2>0. e \in Assigned /\ runOf[e] \in Runs
    BY <1>11 DEF TryLock, IsNext, TypeInv, BaseInv
  <2>1. PICK j \in Runs : j = runOf[e]
    BY <2>0
  <2>2. ASSUME ~(stalls > 0), NEW v \in Workers PROVE Holding[v] # j
    <3>1. stalls = 0
      BY <1>t, <2>2
    <3>2. pc[v] \in Owning => RunIn(v) # j
      BY <1>11, <1>k, <2>1, <3>1, Busy DEF TryLock, SafeInv, LeaseInv, Owning
    <3> QED
      BY <2>1, <3>2, ConstantsAssumption DEF Holding
  <2>3. Holding[w] = None
    BY <1>11 DEF TryLock, Holding, Owning
  <2>h. Holding' = [Holding EXCEPT ![w] = j]
    BY <1>11, <1>k, <1>t, <2>0, <2>1 DEF Holding, RunIn, Owning, Awaiting, Returned, TryLock, Goto
  <2>s. Standing' = Standing
    BY <1>11 DEF Standing, TryLock, Goto
  <2>9. Lifecycle!Take(w, j)
    BY <1>11, <1>t, <1>q, <2>0, <2>1, <2>2, <2>3, <2>h, <2>s DEF Lifecycle!Take, Holding, Standing, RunIn, TryLock, Goto
  <2> QED
    BY <2>1, <2>9 DEF Lifecycle!Next
<1>12. ASSUME NEW w \in Workers, TerminalGuard(w) PROVE Lifecycle!Next \/ Stutter
  <2> QED
    BY <1>12, <1>k, <1>t DEF Stutter, Waiting, Holding, Standing, RunIn, Owning, Awaiting, Returned, TerminalGuard, Guarded, Goto
<1>13. ASSUME NEW w \in Workers, MarkRunning(w) PROVE Lifecycle!Next \/ Stutter
  <2>1. PICK j \in Runs, e \in Entries :
            j = RunIn(w) /\ e = cur[w] /\ Holding[w] = j /\ j # None /\ runOf[e] = j
    BY <1>13, <1>k DEF MarkRunning, Returned, Awaiting, Holding, Owning, RunIn
  <2>2. stalls > 0 \/ Standing[j] \in JobStatus \ Settled
    BY <1>13, <1>t, <2>1 DEF MarkRunning, SafeInv, ClaimInv, Standing
  <2>h. Holding' = Holding
    BY <1>13, <1>k, <1>t, <2>1 DEF Holding, RunIn, Owning, Awaiting, Returned, MarkRunning, Mark, Goto
  <2>m. status' = [status EXCEPT ![j].st = "running"]
    BY <1>13, <2>1 DEF MarkRunning, Mark, Goto
  <2>s. Standing' = [Standing EXCEPT ![j] = "running"]
    BY <1>t, <2>m, MarkStanding
  <2>9. Lifecycle!Run(j)
    BY <1>13, <1>t, <1>q, <2>1, <2>2, <2>h, <2>s DEF Lifecycle!Run, Holding, Standing, RunIn, MarkRunning, Mark, Goto
  <2> QED
    BY <2>1, <2>9 DEF Lifecycle!Next
<1>14. ASSUME NEW w \in Workers, Settle(w) PROVE Lifecycle!Next \/ Stutter
  <2>1. PICK j \in Runs, e \in Entries :
            j = RunIn(w) /\ e = cur[w] /\ Holding[w] = j /\ j # None /\ runOf[e] = j
    BY <1>14, <1>k DEF Settle, Returned, Awaiting, Holding, Owning, RunIn
  <2>2. PICK st \in Settled : status' = [status EXCEPT ![j].st = st]
    <3>1. \A o \in DOMAIN StatusFor : StatusFor[o] \in Settled
      BY DEF StatusFor, Settled
    <3>2. PICK o \in DOMAIN StatusFor : Mark(RunIn(w), StatusFor[o])
      BY <1>14 DEF Settle
    <3> QED
      BY <2>1, <3>1, <3>2 DEF Mark
  <2>h. Holding' = Holding
    BY <1>14, <1>k, <1>t, <2>1 DEF Holding, RunIn, Owning, Awaiting, Returned, Settle, Mark, Goto, Awaiting, Returned
  <2>s. Standing' = [Standing EXCEPT ![j] = st]
    BY <1>t, <2>1, <2>2, MarkStanding
  <2>9. Lifecycle!End(w, e)
    BY <1>14, <1>t, <1>q, <2>1, <2>2, <2>h, <2>s DEF Lifecycle!End, Holding, Standing, RunIn, Settle, Mark, Goto, Awaiting, Returned
  <2> QED
    BY <2>1, <2>9 DEF Lifecycle!Next
<1>15. ASSUME NEW w \in Workers, RecordAttempt(w) PROVE Lifecycle!Next \/ Stutter
  <2> QED
    BY <1>15, <1>k, <1>t DEF Stutter, Waiting, Holding, Standing, RunIn, Owning, Awaiting, Returned, RecordAttempt, Goto
<1>16. ASSUME NEW w \in Workers, DeadLetter(w) PROVE Lifecycle!Next \/ Stutter
  <2>1. PICK j \in Runs, e \in Entries :
            j = RunIn(w) /\ e = cur[w] /\ Holding[w] = j /\ j # None /\ runOf[e] = j
    BY <1>16, <1>k DEF DeadLetter, Returned, Awaiting, Holding, Owning, RunIn
  <2>h. Holding' = Holding
    BY <1>16, <1>k, <1>t, <2>1 DEF Holding, RunIn, Owning, Awaiting, Returned, DeadLetter, Mark, Goto
  <2>m. status' = [status EXCEPT ![j].st = "failed"]
    BY <1>16, <2>1 DEF DeadLetter, Mark, Goto
  <2>s. Standing' = [Standing EXCEPT ![j] = "failed"]
    BY <1>t, <2>m, MarkStanding
  <2>9. Lifecycle!End(w, e)
    BY <1>16, <1>t, <1>q, <2>1, <2>h, <2>s DEF Lifecycle!End, Holding, Standing, RunIn, DeadLetter, Mark, Goto
  <2> QED
    BY <2>1, <2>9 DEF Lifecycle!Next
<1>17. ASSUME NEW w \in Workers, LeaveForRedelivery(w) PROVE Lifecycle!Next \/ Stutter
  <2>1. PICK j \in Runs, e \in Entries :
            j = RunIn(w) /\ e = cur[w] /\ Holding[w] = j /\ j # None /\ runOf[e] = j
    BY <1>17, <1>k DEF LeaveForRedelivery, Returned, Awaiting, Holding, Owning, RunIn
  <2>h. Holding' = Holding
    BY <1>17, <1>k, <1>t, <2>1 DEF Holding, RunIn, Owning, Awaiting, Returned, LeaveForRedelivery, Mark, Goto
  <2>m. status' = [status EXCEPT ![j].st = "failed"]
    BY <1>17, <2>1 DEF LeaveForRedelivery, Mark, Goto
  <2>s. Standing' = [Standing EXCEPT ![j] = "failed"]
    BY <1>t, <2>m, MarkStanding
  <2>9. Lifecycle!Fail(w)
    BY <1>17, <1>t, <1>q, <2>1, <2>h, <2>s DEF Lifecycle!Fail, Holding, Standing, RunIn, LeaveForRedelivery, Mark, Goto
  <2> QED
    BY <2>1, <2>9 DEF Lifecycle!Next
<1>18. ASSUME NEW w \in Workers, AckTerminal(w) PROVE Lifecycle!Next \/ Stutter
  <2>1. PICK j \in Runs, e \in Entries :
            j = RunIn(w) /\ e = cur[w] /\ Holding[w] = j /\ j # None /\ runOf[e] = j
    BY <1>18, <1>k DEF AckTerminal, Returned, Awaiting, Holding, Owning, RunIn
  <2>2. \E f \in served : runOf[f] = runOf[e]
    BY <1>18, <2>1 DEF AckTerminal, SafeInv, ServedInv, Ended, RunIn
  <2>3. Waiting' = Waiting \ {e} \/ Waiting' = Waiting
    BY <1>18, <2>1 DEF Waiting, TypeInv, BaseInv, AckTerminal, Acked
  <2>h. Holding' = Holding
    BY <1>18, <1>k, <1>t, <2>1 DEF Holding, RunIn, Owning, Awaiting, Returned, AckTerminal, Acked, Goto
  <2>s. Standing' = Standing
    BY <1>18 DEF Standing, AckTerminal, Acked, Goto
  <2>4. CASE Waiting' = Waiting \ {e}
    <3>1. Lifecycle!Remove(w, e)
      BY <1>18, <2>1, <2>2, <2>4, <2>h, <2>s DEF Lifecycle!Remove, Holding, Standing, RunIn, AckTerminal, Acked, Goto
    <3> QED
      BY <2>1, <3>1 DEF Lifecycle!Next
  <2>5. CASE Waiting' = Waiting
    BY <1>18, <2>5, <2>h, <2>s DEF Stutter, AckTerminal, Acked, Goto
  <2> QED
    BY <2>3, <2>4, <2>5
<1>19. ASSUME NEW w \in Workers, FinallyRelease(w) PROVE Lifecycle!Next \/ Stutter
  <2>h. Holding' = [Holding EXCEPT ![w] = None]
    BY <1>19, <1>k, <1>t DEF Holding, RunIn, Owning, Awaiting, Returned, FinallyRelease, Return, Goto
  <2>s. Standing' = Standing
    BY <1>19 DEF Standing, FinallyRelease, Return, Goto
  <2>9. Lifecycle!LetGo(w)
    BY <1>19, <1>t, <1>q, <2>h, <2>s DEF Lifecycle!LetGo, Holding, Standing, RunIn, FinallyRelease, Return, Goto
  <2> QED
    BY <2>9 DEF Lifecycle!Next
<1>20. ASSUME NEW w \in Workers, WatchdogTimeout(w) PROVE Lifecycle!Next \/ Stutter
  <2>1. PICK j \in Runs, e \in Entries :
            j = RunIn(w) /\ e = cur[w] /\ Holding[w] = j /\ j # None /\ runOf[e] = j
    BY <1>20, <1>k DEF WatchdogTimeout, Returned, Awaiting, Holding, Owning, RunIn
  <2>h. Holding' = Holding
    BY <1>20, <1>k, <1>t, <2>1 DEF Holding, RunIn, Owning, Awaiting, Returned, WatchdogTimeout, Mark, Goto, Settled
  <2>m. status' = [status EXCEPT ![j].st = "timeout"]
    BY <1>20, <2>1 DEF WatchdogTimeout, Mark, Goto, Settled
  <2>s. Standing' = [Standing EXCEPT ![j] = "timeout"]
    BY <1>t, <2>m, MarkStanding
  <2>9. Lifecycle!End(w, e)
    BY <1>20, <1>t, <1>q, <2>1, <2>h, <2>s DEF Lifecycle!End, Holding, Standing, RunIn, WatchdogTimeout, Mark, Goto, Settled
  <2> QED
    BY <2>1, <2>9 DEF Lifecycle!Next
<1>21. ASSUME NEW w \in Workers, WatchdogAck(w) PROVE Lifecycle!Next \/ Stutter
  <2>1. PICK j \in Runs, e \in Entries :
            j = RunIn(w) /\ e = cur[w] /\ Holding[w] = j /\ j # None /\ runOf[e] = j
    BY <1>21, <1>k DEF WatchdogAck, Returned, Awaiting, Holding, Owning, RunIn
  <2>2. \E f \in served : runOf[f] = runOf[e]
    BY <1>21, <2>1 DEF WatchdogAck, SafeInv, ServedInv, Ended, RunIn
  <2>3. Waiting' = Waiting \ {e} \/ Waiting' = Waiting
    BY <1>21, <2>1 DEF Waiting, TypeInv, BaseInv, WatchdogAck, Acked
  <2>h. Holding' = Holding
    BY <1>21, <1>k, <1>t, <2>1 DEF Holding, RunIn, Owning, Awaiting, Returned, WatchdogAck, Acked, Goto
  <2>s. Standing' = Standing
    BY <1>21 DEF Standing, WatchdogAck, Acked, Goto
  <2>4. CASE Waiting' = Waiting \ {e}
    <3>1. Lifecycle!Remove(w, e)
      BY <1>21, <2>1, <2>2, <2>4, <2>h, <2>s DEF Lifecycle!Remove, Holding, Standing, RunIn, WatchdogAck, Acked, Goto
    <3> QED
      BY <2>1, <3>1 DEF Lifecycle!Next
  <2>5. CASE Waiting' = Waiting
    BY <1>21, <2>5, <2>h, <2>s DEF Stutter, WatchdogAck, Acked, Goto
  <2> QED
    BY <2>3, <2>4, <2>5
<1>22. ASSUME NEW w \in Workers, WatchdogRelease(w) PROVE Lifecycle!Next \/ Stutter
  <2>h. Holding' = [Holding EXCEPT ![w] = None]
    BY <1>22, <1>k, <1>t DEF Holding, RunIn, Owning, Awaiting, Returned, WatchdogRelease, Goto
  <2>s. Standing' = Standing
    BY <1>22 DEF Standing, WatchdogRelease, Goto
  <2>9. Lifecycle!LetGo(w)
    BY <1>22, <1>t, <1>q, <2>h, <2>s DEF Lifecycle!LetGo, Holding, Standing, RunIn, WatchdogRelease, Goto
  <2> QED
    BY <2>9 DEF Lifecycle!Next
<1>23. ASSUME NEW w \in Workers, UnwindExecutor(w) PROVE Lifecycle!Next \/ Stutter
  <2> QED
    BY <1>23, <1>k, <1>t DEF Stutter, Waiting, Holding, Standing, RunIn, Owning, Awaiting, Returned, UnwindExecutor, Return, Goto
<1>24. ASSUME NEW w \in Workers, WorkerCrash(w) PROVE Lifecycle!Next \/ Stutter
  <2>h. Holding' = [Holding EXCEPT ![w] = None]
    BY <1>24, <1>k, <1>t DEF Holding, RunIn, Owning, Awaiting, Returned, WorkerCrash
  <2>s. Standing' = Standing
    BY <1>24 DEF Standing, WorkerCrash
  <2>9. Lifecycle!LetGo(w)
    BY <1>24, <1>t, <1>q, <2>h, <2>s DEF Lifecycle!LetGo, Holding, Standing, RunIn, WorkerCrash
  <2> QED
    BY <2>9 DEF Lifecycle!Next
<1>25. ASSUME NEW t \in Tokens, ExecuteFresh(t) PROVE Lifecycle!Next \/ Stutter
  <2> QED
    BY <1>25, <1>t DEF Stutter, Waiting, Holding, Standing, RunIn, Owning, Awaiting, Returned, ExecuteFresh
<1>26. ASSUME NEW t \in Tokens, ReportProgress(t) PROVE Lifecycle!Next \/ Stutter
  <2>1. PICK j \in Runs : j = task[t].run /\ task[t].pc # "none"
    BY <1>26 DEF ReportProgress, TypeInv, TaskInv
  <2>2. /\ stalls > 0 \/ WatchdogArmed \/ \E w \in Workers : Holding[w] = j
        /\ stalls > 0 \/ WatchdogArmed \/ Standing[j] \in JobStatus \ Settled
    <3> SUFFICES ASSUME ~(stalls > 0), ~WatchdogArmed
                 PROVE  /\ \E w \in Workers : Holding[w] = j
                        /\ Standing[j] \in JobStatus \ Settled
      OBVIOUS
    <3>1. Supervised(t)
      BY <1>t, <2>1 DEF RefInv, ExecInv
    <3>2. status[j].st \notin Settled
      BY <1>t, <2>1, <3>1 DEF Supervised, RefInv, OpenInv
    <3>3. Holding[task[t].worker] = j
      BY <2>1, <3>1 DEF Supervised, Holding, Owning
    <3> QED
      BY <1>t, <3>1, <3>2, <3>3 DEF Supervised, Standing
  <2>h. Holding' = Holding
    BY <1>26, <1>k, <1>t, <2>1 DEF Holding, RunIn, Owning, Awaiting, Returned, ReportProgress, Mark
  <2>m. status' = [status EXCEPT ![j].st = "running"]
    BY <1>26, <2>1 DEF ReportProgress, Mark
  <2>s. Standing' = [Standing EXCEPT ![j] = "running"]
    BY <1>t, <2>m, MarkStanding
  <2>9. Lifecycle!Run(j)
    BY <1>26, <1>t, <1>q, <2>1, <2>2, <2>h, <2>s DEF Lifecycle!Run, Holding, Standing, RunIn, ReportProgress, Mark
  <2> QED
    BY <2>1, <2>9 DEF Lifecycle!Next
<1>27. ASSUME NEW t \in Tokens, PollCancel(t) PROVE Lifecycle!Next \/ Stutter
  <2> QED
    BY <1>27, <1>t DEF Stutter, Waiting, Holding, Standing, RunIn, Owning, Awaiting, Returned, PollCancel
<1>28. ASSUME NEW t \in Tokens, ExecutorReturns(t) PROVE Lifecycle!Next \/ Stutter
  <2> QED
    BY <1>28, <1>t DEF Stutter, Waiting, Holding, Standing, RunIn, Owning, Awaiting, Returned, ExecutorReturns
<1>29. ASSUME NEW r \in Runs, LeaseExpires(r) PROVE Lifecycle!Next \/ Stutter
  <2>1. Holding' = Holding /\ Standing' = Standing
    BY <1>29 DEF Holding, Standing, RunIn, LeaseExpires
  <2>2. CASE stalls' = stalls
    BY <1>29, <1>q, <2>1, <2>2 DEF Stutter, LeaseExpires
  <2>3. CASE stalls' = stalls + 1
    <3>1. stalls' > 0
      BY <1>t, <2>3
    <3>2. Lifecycle!Degrade
      BY <1>29, <1>q, <2>1, <3>1 DEF Lifecycle!Degrade, Holding, Standing, LeaseExpires
    <3> QED
      BY <3>2 DEF Lifecycle!Next
  <2> QED
    BY <1>29, <2>2, <2>3 DEF LeaseExpires
<1>30. CASE UNCHANGED vars
  BY <1>30 DEF vars, Stutter, Waiting, Holding, Standing, RunIn
<1>31. ASSUME NEW c \in Clients, AckEntry(c) PROVE Lifecycle!Next \/ Stutter
  <2>1. PICK e \in Entries : e = centry[c]
    BY <1>31 DEF AckEntry, RefInv, RequestInv
  <2>h. Holding' = Holding
    BY <1>31, <1>k, <1>t, <2>1 DEF Holding, RunIn, Owning, Awaiting, Returned, AckEntry
  <2>s. Standing' = Standing
    BY <1>31 DEF Standing, AckEntry
  <2>2. CASE pel' = pel \ {e} /\ dropped' = dropped \cup (pel \cap {e}) /\ e \in pel
    <3>1. Waiting' = Waiting \ {e} /\ dropped' = dropped \cup {e}
      BY <1>31, <2>2 DEF AckEntry, Waiting, TypeInv, BaseInv
    <3>2. Lifecycle!Discard(e)
      BY <1>31, <2>2, <2>h, <2>s, <3>1 DEF Lifecycle!Discard, Holding, Standing, AckEntry
    <3> QED
      BY <3>2 DEF Lifecycle!Next
  <2>3. CASE pel' = pel /\ dropped' = dropped
    BY <1>31, <1>q, <2>3, <2>h, <2>s DEF Stutter, AckEntry
  <2> QED
    BY <1>31, <2>1, <2>2, <2>3 DEF AckEntry
<1>32. ASSUME NEW w \in Workers, DeleteTerminal(w) PROVE Lifecycle!Next \/ Stutter
  <2>1. PICK j \in Runs, e \in Entries :
            j = RunIn(w) /\ e = cur[w] /\ Holding[w] = j /\ j # None /\ runOf[e] = j
    BY <1>32, <1>k DEF DeleteTerminal, Returned, Awaiting, Holding, Owning, RunIn
  <2>2. \E f \in served : runOf[f] = runOf[e]
    BY <1>32, <2>1 DEF DeleteTerminal, SafeInv, ServedInv, Ended, RunIn
  <2>3. Waiting' = Waiting \ {e} \/ Waiting' = Waiting
    BY <1>32, <2>1 DEF Waiting, TypeInv, BaseInv, DeleteTerminal, Delete
  <2>h. Holding' = Holding
    BY <1>32, <1>k, <1>t, <2>1 DEF Holding, RunIn, Owning, Awaiting, Returned, DeleteTerminal, Delete, Goto
  <2>s. Standing' = Standing
    BY <1>32 DEF Standing, DeleteTerminal, Delete, Goto
  <2>4. CASE Waiting' = Waiting \ {e}
    <3>1. Lifecycle!Remove(w, e)
      BY <1>32, <2>1, <2>2, <2>4, <2>h, <2>s DEF Lifecycle!Remove, Holding, Standing, RunIn, DeleteTerminal, Delete, Goto
    <3> QED
      BY <2>1, <3>1 DEF Lifecycle!Next
  <2>5. CASE Waiting' = Waiting
    BY <1>32, <2>5, <2>h, <2>s DEF Stutter, DeleteTerminal, Delete, Goto
  <2> QED
    BY <2>3, <2>4, <2>5
<1>33. ASSUME NEW w \in Workers, WatchdogDelete(w) PROVE Lifecycle!Next \/ Stutter
  <2>1. PICK j \in Runs, e \in Entries :
            j = RunIn(w) /\ e = cur[w] /\ Holding[w] = j /\ j # None /\ runOf[e] = j
    BY <1>33, <1>k DEF WatchdogDelete, Returned, Awaiting, Holding, Owning, RunIn
  <2>2. \E f \in served : runOf[f] = runOf[e]
    BY <1>33, <2>1 DEF WatchdogDelete, SafeInv, ServedInv, Ended, RunIn
  <2>3. Waiting' = Waiting \ {e} \/ Waiting' = Waiting
    BY <1>33, <2>1 DEF Waiting, TypeInv, BaseInv, WatchdogDelete, Delete
  <2>h. Holding' = Holding
    BY <1>33, <1>k, <1>t, <2>1 DEF Holding, RunIn, Owning, Awaiting, Returned, WatchdogDelete, Delete, Goto
  <2>s. Standing' = Standing
    BY <1>33 DEF Standing, WatchdogDelete, Delete, Goto
  <2>4. CASE Waiting' = Waiting \ {e}
    <3>1. Lifecycle!Remove(w, e)
      BY <1>33, <2>1, <2>2, <2>4, <2>h, <2>s DEF Lifecycle!Remove, Holding, Standing, RunIn, WatchdogDelete, Delete, Goto
    <3> QED
      BY <2>1, <3>1 DEF Lifecycle!Next
  <2>5. CASE Waiting' = Waiting
    BY <1>33, <2>5, <2>h, <2>s DEF Stutter, WatchdogDelete, Delete, Goto
  <2> QED
    BY <2>3, <2>4, <2>5
<1> QED
  BY <1>1, <1>2, <1>3, <1>4, <1>5, <1>6, <1>7, <1>8, <1>9, <1>10, <1>11, <1>12, <1>13, <1>14, <1>15, <1>16, <1>17, <1>18, <1>19, <1>20, <1>21, <1>22, <1>23, <1>24, <1>25, <1>26, <1>27, <1>28, <1>29, <1>30, <1>31, <1>32, <1>33
     DEF Next, ApiStep, Supervise, Execute

\* The run queue implements the abstract one, whatever the number of workers,
\* requests, runs and entries, through crashes, stalls and watchdogs.
THEOREM QueueImplementsLifecycle == Spec => ImplementsLifecycle
<1>1. Init => Lifecycle!Init
  BY InitImplements
<1>2. TypeInv /\ SafeInv /\ RefInv /\ [Next]_vars => [Lifecycle!Next]_Lifecycle!vars
  BY StepImplements
<1> QED
  BY <1>1, <1>2, Refines, PTL DEF Spec, ImplementsLifecycle, Lifecycle!Spec

\* Without a watchdog and until a stall, a settled status is moved by a POST only.
THEOREM SettledUntilPosted == ~WatchdogArmed => (Spec => SettledStaysSettled)
<1> SUFFICES ASSUME ~WatchdogArmed PROVE Spec => SettledStaysSettled
  OBVIOUS
<1> USE DEF queue, hashes, workers, runtime, api, faults, history
<1> DEFINE Kept(r) == stalls = 0 /\ status[r].st \in Settled /\ status'[r].st # status[r].st
                      => \E c \in Clients : MarkQueued(c) /\ crun[c] = r
<1>1. ASSUME TypeInv, SafeInv, RefInv, [Next]_vars, NEW r \in Runs PROVE Kept(r)
  <2> SUFFICES ASSUME stalls = 0, status[r].st \in Settled, status'[r].st # status[r].st
               PROVE  \E c \in Clients : MarkQueued(c) /\ crun[c] = r
    BY DEF Kept
  <2>1. \A w \in Workers : RunIn(w) = r => pc[w] \notin {"claim", "run", "deadLetter", "retry"}
    BY <1>1 DEF SafeInv, ClaimInv, RefInv, OpenInv
  <2>2. \A w \in Workers : pc[w] \notin {"wdAck", "wdDelete", "wdRelease", "unwind"}
    BY <1>1 DEF RefInv, ExecInv
  <2>3. status = [s \in Runs |-> status[s]]
    BY <1>1 DEF TypeInv, StatusInv
  <2>4. ASSUME NEW c \in Clients, MarkQueued(c) PROVE crun[c] = r
    BY <2>3, <2>4 DEF MarkQueued
  <2>5. ASSUME NEW w \in Workers,
               MarkRunning(w) \/ Settle(w) \/ DeadLetter(w) \/ LeaveForRedelivery(w)
        PROVE  FALSE
    <3>1. pc[w] \in {"claim", "run", "deadLetter", "retry"}
      BY <2>2, <2>5 DEF MarkRunning, Settle, Returned, Awaiting, DeadLetter, LeaveForRedelivery
    <3>2. \E st : Mark(RunIn(w), st)
      BY <2>5 DEF MarkRunning, Settle, DeadLetter, LeaveForRedelivery
    <3> QED
      BY <2>1, <2>3, <3>1, <3>2 DEF Mark
  <2>6. ASSUME NEW t \in Tokens, ReportProgress(t) PROVE FALSE
    <3>1. task[t].run \in Runs /\ Supervised(t)
      BY <1>1, <2>6 DEF ReportProgress, TypeInv, TaskInv, RefInv, ExecInv
    <3> QED
      BY <2>1, <2>3, <2>6, <3>1 DEF Supervised, ReportProgress, Mark
  <2>7. \A w \in Workers : ~WatchdogTimeout(w)
    BY DEF WatchdogTimeout
  <2>8. \/ \E c \in Clients : MarkQueued(c)
        \/ \E w \in Workers : MarkRunning(w) \/ Settle(w) \/ DeadLetter(w) \/ LeaveForRedelivery(w)
        \/ \E t \in Tokens : ReportProgress(t)
    BY <1>1, <2>7 DEF Next, ApiStep, Supervise, Execute, vars, PostRun, CancelRun, Enqueue,
           RequestCancel, AckEntry, DeleteEntry, ClientCrash, ReclaimStale, ReadNew, SkipHeld, TryLock,
           TerminalGuard, Guarded, RecordAttempt, AckTerminal, DeleteTerminal, FinallyRelease, WatchdogAck, WatchdogDelete,
           WatchdogRelease, UnwindExecutor, WorkerCrash, ExecuteFresh, PollCancel,
           ExecutorReturns, LeaseExpires
  <2> QED
    BY <2>4, <2>5, <2>6, <2>8
<1>2. TypeInv /\ SafeInv /\ RefInv /\ [Next]_vars
      => [\A r \in Runs :
             stalls = 0 /\ status[r].st \in Settled /\ status'[r].st # status[r].st
             => \E c \in Clients : MarkQueued(c) /\ crun[c] = r]_vars
  BY <1>1 DEF Kept
<1> QED
  BY <1>2, Refines, PTL DEF Spec, SettledStaysSettled

-----------------------------------------------------------------------------
(* Failures.  Beyond the cap an execution that fails is paid for by a chance: *)
(* that of a worker to fail with an entry it may still take or has taken.     *)
(* It is used up when the worker goes on to the dead letter, for the ack that *)
(* follows takes the entry from every sweep; only a crash before that ack     *)
(* gives it back.                                                             *)

EntriesOf(r) == {e \in 1..added : runOf[e] = r}

Chance(w, e) ==
    /\ ~(cur[w] = e /\ pc[w] \in {"deadLetter", "ack"})
    /\ \/ e \notin delivered \/ e \in pel \/ e \in todo[w]
       \/ cur[w] = e /\ pc[w] \in {"guard", "claim", "run", "wdAck", "wdDelete", "wdRelease"}

Chances(r) == {x \in Workers \X EntriesOf(r) : Chance(x[1], x[2])}

\* What a worker holds was delivered, and it holds one copy of an entry at most.
HandedInv ==
    /\ pel \subseteq delivered
    /\ \A w \in Workers : /\ todo[w] \subseteq delivered
                          /\ pc[w] = "loop" => cur[w] = NoEntry
                          /\ pc[w] # "loop" => cur[w] \in delivered \ todo[w]

CountInv ==
    \A r \in Runs : attempts[r] >= MaxAttempts =>
        attempts[r] + Cardinality(Chances(r))
            <= (MaxAttempts - 1) + Cardinality(EntriesOf(r)) * Cardinality(Workers) + crashes

FailInv == HandedInv /\ CountInv

\* A step that gives no worker a chance.
Narrows == \A w \in Workers, e \in Assigned : Chance(w, e)' => Chance(w, e)

\* A step that counts nothing either.
Quiet == /\ HandedInv' /\ Narrows /\ UNCHANGED <<added, runOf, attempts>>
         /\ crashes' \in Nat /\ crashes <= crashes'

LEMMA ChanceCount ==
    ASSUME NEW n \in Nat, NEW S \in SUBSET (1..n), NEW C \in SUBSET (Workers \X S)
    PROVE  /\ IsFiniteSet(S) /\ Cardinality(S) \in Nat
           /\ IsFiniteSet(C) /\ Cardinality(C) \in Nat
           /\ Cardinality(Workers) \in Nat
           /\ Cardinality(C) <= Cardinality(S) * Cardinality(Workers)
           /\ Cardinality(S) * Cardinality(Workers) \in Nat
<1>1. IsFiniteSet(Workers) /\ Cardinality(Workers) \in Nat
  BY ConstantsAssumption, FS_CardinalityType
<1>2. IsFiniteSet(1..n)
  BY FS_Interval
<1>3. IsFiniteSet(S) /\ Cardinality(S) \in Nat
  BY <1>2, FS_Subset, FS_CardinalityType
<1>4. /\ IsFiniteSet(Workers \X S)
      /\ Cardinality(Workers \X S) = Cardinality(Workers) * Cardinality(S)
  BY <1>1, <1>3, FS_Product
<1>5. IsFiniteSet(C) /\ Cardinality(C) \in Nat /\ Cardinality(C) <= Cardinality(Workers \X S)
  BY <1>4, FS_Subset, FS_CardinalityType
<1>6. Cardinality(S) * Cardinality(Workers) = Cardinality(Workers) * Cardinality(S)
      /\ Cardinality(S) * Cardinality(Workers) \in Nat
  BY <1>1, <1>3
<1> QED
  BY <1>1, <1>3, <1>4, <1>5, <1>6

LEMMA RunCount ==
    ASSUME TypeInv, NEW r
    PROVE  /\ EntriesOf(r) \in SUBSET (1..added) /\ Chances(r) \in SUBSET (Workers \X EntriesOf(r))
           /\ IsFiniteSet(EntriesOf(r)) /\ Cardinality(EntriesOf(r)) \in Nat
           /\ IsFiniteSet(Chances(r)) /\ Cardinality(Chances(r)) \in Nat
           /\ Cardinality(Workers) \in Nat
           /\ Cardinality(Chances(r)) <= Cardinality(EntriesOf(r)) * Cardinality(Workers)
           /\ Cardinality(EntriesOf(r)) * Cardinality(Workers) \in Nat
<1>1. added \in Nat
  BY ConstantsAssumption DEF TypeInv, BaseInv
<1>2. EntriesOf(r) \in SUBSET (1..added)
  BY DEF EntriesOf
<1>3. Chances(r) \in SUBSET (Workers \X EntriesOf(r))
  BY DEF Chances
<1> QED
  BY <1>1, <1>2, <1>3, ChanceCount

\* Fewer chances, and nothing counted.
LEMMA QuietCount ==
    ASSUME TypeInv, CountInv, Quiet
    PROVE  CountInv'
<1> USE DEF Quiet
<1> SUFFICES ASSUME NEW r \in Runs, attempts[r] >= MaxAttempts
             PROVE  attempts[r] + Cardinality(Chances(r)')
                        <= (MaxAttempts - 1) + Cardinality(EntriesOf(r)) * Cardinality(Workers)
                           + crashes'
  BY DEF CountInv, EntriesOf
<1>1. EntriesOf(r)' = EntriesOf(r)
  BY DEF EntriesOf
<1>2. Chances(r)' \in SUBSET Chances(r)
  BY <1>1 DEF Chances, Narrows, EntriesOf, Assigned
<1> DEFINE C == Chances(r)'
<1> HIDE DEF C
<1>3. IsFiniteSet(C) /\ Cardinality(C) \in Nat /\ Cardinality(C) <= Cardinality(Chances(r))
  BY <1>2, RunCount, FS_Subset, FS_CardinalityType DEF C
<1>4. /\ attempts[r] \in Nat /\ MaxAttempts \in Nat /\ crashes \in Nat
      /\ attempts[r] + Cardinality(Chances(r))
           <= (MaxAttempts - 1) + Cardinality(EntriesOf(r)) * Cardinality(Workers) + crashes
  BY ConstantsAssumption DEF CountInv, TypeInv, BaseInv
<1>5. /\ Cardinality(Chances(r)) \in Nat
      /\ Cardinality(EntriesOf(r)) * Cardinality(Workers) \in Nat
  BY RunCount
<1> DEFINE room == Cardinality(EntriesOf(r)) * Cardinality(Workers)
<1> HIDE DEF room
<1>6. attempts[r] + Cardinality(C) <= (MaxAttempts - 1) + room + crashes'
  BY <1>3, <1>4, <1>5 DEF room
<1> QED
  BY <1>6 DEF C, room

\* The steps but three take no chance back, and count nothing.
LEMMA QuietStep ==
    ASSUME TypeInv, HandedInv, [Next]_vars
    PROVE  \/ \E c \in Clients : Enqueue(c)
           \/ \E w \in Workers : RecordAttempt(w) \/ WorkerCrash(w)
           \/ Quiet
<1> USE DEF queue, hashes, workers, runtime, api, faults, history, NoEntry, Quiet
<1>t. /\ pc = [w \in Workers |-> pc[w]] /\ cur = [w \in Workers |-> cur[w]]
      /\ todo = [w \in Workers |-> todo[w]]
      /\ stream \subseteq Assigned /\ delivered \subseteq Assigned /\ 0 \notin Assigned
      /\ \A w \in Workers : pc[w] # "loop" => cur[w] # 0
      /\ crashes \in Nat
  BY ConstantsAssumption DEF TypeInv, BaseInv, Assigned
<1>1. ASSUME UNCHANGED <<delivered, pel, pc, cur, todo, added, runOf, attempts>>,
             crashes' \in Nat, crashes <= crashes'
      PROVE  Quiet
  BY <1>1 DEF HandedInv, Narrows, Chance
<1>2. ASSUME NEW c \in Clients, DeleteEntry(c) PROVE Quiet
  BY <1>2, <1>t DEF DeleteEntry, HandedInv, Narrows, Chance
<1>26. ASSUME NEW c \in Clients, AckEntry(c) PROVE Quiet
  BY <1>26, <1>t DEF AckEntry, HandedInv, Narrows, Chance
<1>3. ASSUME NEW w \in Workers, NEW batch, ReclaimStale(w, batch) PROVE Quiet
  BY <1>3, <1>t DEF ReclaimStale, HandedInv, Narrows, Chance
<1>4. ASSUME NEW w \in Workers, ReadNew(w) PROVE Quiet
  BY <1>4, <1>t DEF ReadNew, HandedInv, Narrows, Chance
<1>5. ASSUME NEW w \in Workers, NEW e, SkipHeld(w, e) PROVE Quiet
  BY <1>5, <1>t DEF SkipHeld, IsNext, HandedInv, Narrows, Chance
<1>6. ASSUME NEW w \in Workers, NEW e, NEW t, TryLock(w, e, t) PROVE Quiet
  BY <1>6, <1>t DEF TryLock, Goto, IsNext, HandedInv, Narrows, Chance
<1>7. ASSUME NEW w \in Workers, TerminalGuard(w) PROVE Quiet
  BY <1>7, <1>t DEF TerminalGuard, Guarded, Goto, HandedInv, Narrows, Chance
<1>8. ASSUME NEW w \in Workers, MarkRunning(w) PROVE Quiet
  BY <1>8, <1>t DEF MarkRunning, Goto, HandedInv, Narrows, Chance
<1>9. ASSUME NEW w \in Workers, Settle(w) PROVE Quiet
  BY <1>9, <1>t DEF Settle, Returned, Awaiting, Goto, HandedInv, Narrows, Chance
<1>10. ASSUME NEW w \in Workers, DeadLetter(w) PROVE Quiet
  BY <1>10, <1>t DEF DeadLetter, Goto, HandedInv, Narrows, Chance
<1>11. ASSUME NEW w \in Workers, LeaveForRedelivery(w) PROVE Quiet
  BY <1>11, <1>t DEF LeaveForRedelivery, Goto, HandedInv, Narrows, Chance
<1>12. ASSUME NEW w \in Workers, AckTerminal(w) PROVE Quiet
  BY <1>12, <1>t DEF AckTerminal, Acked, Goto, HandedInv, Narrows, Chance
<1>27. ASSUME NEW w \in Workers, DeleteTerminal(w) PROVE Quiet
  BY <1>27, <1>t DEF DeleteTerminal, Delete, Goto, HandedInv, Narrows, Chance
<1>13. ASSUME NEW w \in Workers, FinallyRelease(w) PROVE Quiet
  BY <1>13, <1>t DEF FinallyRelease, Return, Goto, HandedInv, Narrows, Chance
<1>14. ASSUME NEW w \in Workers, WatchdogTimeout(w) PROVE Quiet
  BY <1>14, <1>t DEF WatchdogTimeout, Goto, HandedInv, Narrows, Chance
<1>15. ASSUME NEW w \in Workers, WatchdogAck(w) PROVE Quiet
  BY <1>15, <1>t DEF WatchdogAck, Acked, Goto, HandedInv, Narrows, Chance
<1>28. ASSUME NEW w \in Workers, WatchdogDelete(w) PROVE Quiet
  BY <1>28, <1>t DEF WatchdogDelete, Delete, Goto, HandedInv, Narrows, Chance
<1>16. ASSUME NEW w \in Workers, WatchdogRelease(w) PROVE Quiet
  BY <1>16, <1>t DEF WatchdogRelease, Goto, HandedInv, Narrows, Chance
<1>17. ASSUME NEW w \in Workers, UnwindExecutor(w) PROVE Quiet
  BY <1>17, <1>t DEF UnwindExecutor, Return, Goto, HandedInv, Narrows, Chance
<1>18. ASSUME NEW c \in Clients, ClientCrash(c) PROVE Quiet
  BY <1>1, <1>18, <1>t DEF ClientCrash
<1>19. ASSUME NEW c \in Clients, NEW r \in Runs, PostRun(c, r) \/ CancelRun(c, r) PROVE Quiet
  BY <1>1, <1>19, <1>t DEF PostRun, CancelRun
<1>20. ASSUME NEW c \in Clients, MarkQueued(c) \/ RequestCancel(c) PROVE Quiet
  BY <1>1, <1>20, <1>t DEF MarkQueued, RequestCancel
<1>21. ASSUME NEW t \in Tokens, Execute(t) PROVE Quiet
  BY <1>1, <1>21, <1>t DEF Execute, ExecuteFresh, ReportProgress, PollCancel, ExecutorReturns
<1>22. ASSUME NEW r \in Runs, LeaseExpires(r) PROVE Quiet
  BY <1>1, <1>22, <1>t DEF LeaseExpires
<1>23. CASE UNCHANGED vars
  BY <1>1, <1>23, <1>t DEF vars
<1> HIDE DEF Quiet
<1>24. ASSUME NEW c \in Clients, ApiStep(c) PROVE Enqueue(c) \/ Quiet
  BY <1>2, <1>20, <1>24, <1>26 DEF ApiStep
<1>25. ASSUME NEW w \in Workers, Supervise(w) PROVE RecordAttempt(w) \/ Quiet
  BY <1>5, <1>6, <1>7, <1>8, <1>9, <1>10, <1>11, <1>12, <1>13, <1>15, <1>16, <1>17, <1>25,
     <1>27, <1>28
     DEF Supervise
<1> QED
  BY <1>3, <1>4, <1>14, <1>18, <1>19, <1>21, <1>22, <1>23, <1>24, <1>25 DEF Next

\* A new entry: every worker may fail with it once.
LEMMA EnqueueCount ==
    ASSUME TypeInv, HandedInv, CountInv, NEW c \in Clients, Enqueue(c)
    PROVE  HandedInv' /\ CountInv'
<1> USE DEF queue, hashes, workers, runtime, api, faults, history
<1> DEFINE e == added + 1
           r0 == crun[c]
<1>1. /\ added \in Nat /\ added' = e /\ runOf' = [runOf EXCEPT ![e] = r0] /\ e \in Entries
      /\ UNCHANGED <<delivered, pel, pc, cur, todo, attempts, crashes>>
  BY ConstantsAssumption DEF Enqueue, TypeInv, BaseInv, Entries
<1>2. HandedInv'
  BY <1>1 DEF HandedInv
<1>3. /\ runOf \in [Entries -> Runs \cup {None}] /\ 1..added \subseteq Entries
      /\ MaxAttempts \in Nat /\ crashes \in Nat /\ \A r \in Runs : attempts[r] \in Nat
  BY ConstantsAssumption DEF TypeInv, BaseInv, Entries
<1>4. \A w \in Workers, f \in Assigned : Chance(w, f)' <=> Chance(w, f)
  BY <1>1 DEF Chance
<1> SUFFICES ASSUME NEW r \in Runs, attempts[r] >= MaxAttempts
             PROVE  attempts[r] + Cardinality(Chances(r)')
                        <= (MaxAttempts - 1) + Cardinality(EntriesOf(r)') * Cardinality(Workers)
                           + crashes
  BY <1>1, <1>2 DEF CountInv
<1>5. /\ attempts[r] + Cardinality(Chances(r))
           <= (MaxAttempts - 1) + Cardinality(EntriesOf(r)) * Cardinality(Workers) + crashes
  BY DEF CountInv
<1> DEFINE S == EntriesOf(r)
           C == Chances(r)
           T == EntriesOf(r)'
           D == Chances(r)'
<1>6. /\ S \in SUBSET (1..added) /\ IsFiniteSet(S) /\ Cardinality(S) \in Nat
      /\ IsFiniteSet(C) /\ Cardinality(C) \in Nat /\ Cardinality(Workers) \in Nat
      /\ Cardinality(S) * Cardinality(Workers) \in Nat
  BY RunCount
<1>7. CASE r # r0
  <2>1. T = S
    BY <1>1, <1>3, <1>7 DEF EntriesOf
  <2>2. D = C
    BY <1>4, <2>1 DEF Chances, EntriesOf, Assigned
  <2> QED
    BY <1>5, <2>1, <2>2
<1>8. CASE r = r0
  <2>1. T = S \cup {e}
    BY <1>1, <1>3, <1>8 DEF EntriesOf
  <2>2. D \subseteq C \cup (Workers \X {e})
    BY <1>4, <2>1 DEF Chances, EntriesOf, Assigned
  <2>3. e \notin S
    BY <1>1, <1>6
  <2> HIDE DEF e, S, C, T, D
  <2>4. Cardinality(T) = Cardinality(S) + 1
    BY <1>6, <2>1, <2>3, FS_AddElement
  <2>5. IsFiniteSet({e}) /\ Cardinality({e}) = 1
    BY FS_Singleton
  <2>6. /\ IsFiniteSet(Workers \X {e})
        /\ Cardinality(Workers \X {e}) = Cardinality(Workers) * Cardinality({e})
    BY <2>5, ConstantsAssumption, FS_Product
  <2>7. Cardinality(Workers \X {e}) = Cardinality(Workers)
    BY <1>6, <2>5, <2>6
  <2> DEFINE N == Workers \X {e}
  <2> HIDE DEF N
  <2>8. IsFiniteSet(N) /\ Cardinality(N) = Cardinality(Workers) /\ D \in SUBSET (C \cup N)
    BY <2>2, <2>6, <2>7 DEF N
  <2>9. IsFiniteSet(C \cup N) /\ Cardinality(C \cup N) <= Cardinality(C) + Cardinality(N)
    <3>1. Cardinality(C \cap N) \in Nat
      BY <1>6, FS_Subset, FS_CardinalityType
    <3>2. Cardinality(N) \in Nat
      BY <1>6, <2>8
    <3>3. /\ IsFiniteSet(C \cup N)
          /\ Cardinality(C \cup N) = Cardinality(C) + Cardinality(N) - Cardinality(C \cap N)
      <4>1. IsFiniteSet(C) /\ IsFiniteSet(N)
        BY <1>6, <2>8
      <4> QED
        BY <4>1, FS_Union
    <3> QED
      BY <1>6, <3>1, <3>2, <3>3
  <2>10. Cardinality(D) \in Nat /\ Cardinality(D) <= Cardinality(C \cup N)
         /\ Cardinality(C \cup N) \in Nat
    BY <2>8, <2>9, FS_Subset, FS_CardinalityType
  <2>11. Cardinality(D) <= Cardinality(C) + Cardinality(Workers)
    BY <1>6, <2>8, <2>9, <2>10
  <2>12. Cardinality(T) * Cardinality(Workers)
           = Cardinality(S) * Cardinality(Workers) + Cardinality(Workers)
    BY <1>6, <2>4
  <2>13. attempts[r] + Cardinality(C)
           <= (MaxAttempts - 1) + Cardinality(S) * Cardinality(Workers) + crashes
    BY <1>5 DEF S, C
  <2> DEFINE room == Cardinality(S) * Cardinality(Workers)
             more == Cardinality(T) * Cardinality(Workers)
  <2>14. room \in Nat /\ more = room + Cardinality(Workers)
         /\ attempts[r] + Cardinality(C) <= (MaxAttempts - 1) + room + crashes
    BY <1>6, <2>12, <2>13
  <2> HIDE DEF room, more
  <2>15. attempts[r] + Cardinality(D) <= (MaxAttempts - 1) + more + crashes
    BY <1>3, <1>6, <2>10, <2>11, <2>14
  <2> QED
    BY <2>15 DEF T, D, more
<1> QED
  BY <1>7, <1>8

\* A failure at the cap uses a chance up.
LEMMA RecordCount ==
    ASSUME TypeInv, HandedInv, CountInv, NEW w \in Workers, RecordAttempt(w)
    PROVE  HandedInv' /\ CountInv'
<1> USE DEF queue, hashes, workers, runtime, api, faults, history
<1> DEFINE r0 == RunIn(w)
           e == cur[w]
<1>1. /\ pc[w] \in {"run", "wdAck", "wdDelete", "wdRelease"} /\ r0 \in Runs /\ e \in Assigned
      /\ attempts' = [attempts EXCEPT ![r0] = @ + 1]
      /\ pc' = [pc EXCEPT ![w] = IF AtCap(attempts'[r0]) THEN "deadLetter" ELSE "retry"]
      /\ UNCHANGED <<delivered, pel, cur, todo, added, runOf, crashes>>
  BY Busy DEF RecordAttempt, Returned, Awaiting, Goto
<1>2. /\ pc = [v \in Workers |-> pc[v]] /\ attempts \in [Runs -> Nat]
      /\ MaxAttempts \in Nat \ {0} /\ crashes \in Nat /\ added \in Nat
  BY ConstantsAssumption DEF TypeInv, BaseInv
<1>3. HandedInv'
  BY <1>1, <1>2 DEF HandedInv
<1>4. Narrows
  BY <1>1, <1>2 DEF Narrows, Chance
<1> SUFFICES ASSUME NEW r \in Runs, attempts'[r] >= MaxAttempts
             PROVE  attempts'[r] + Cardinality(Chances(r)')
                        <= (MaxAttempts - 1) + Cardinality(EntriesOf(r)) * Cardinality(Workers)
                           + crashes
  BY <1>1, <1>3 DEF CountInv, EntriesOf
<1> DEFINE C == Chances(r)
           D == Chances(r)'
           room == Cardinality(EntriesOf(r)) * Cardinality(Workers)
<1>5. EntriesOf(r)' = EntriesOf(r)
  BY <1>1 DEF EntriesOf
<1>6. D \subseteq C
  BY <1>4, <1>5 DEF Chances, Narrows, EntriesOf, Assigned
<1>7. IsFiniteSet(C) /\ Cardinality(C) \in Nat /\ Cardinality(C) <= room /\ room \in Nat
  BY RunCount
<1>8. attempts[r] >= MaxAttempts => attempts[r] + Cardinality(C) <= (MaxAttempts - 1) + room + crashes
  BY DEF CountInv
<1>9. CASE r # r0
  <2>1. attempts'[r] = attempts[r]
    BY <1>1, <1>2, <1>9
  <2> HIDE DEF C, D, room
  <2>2. Cardinality(D) \in Nat /\ Cardinality(D) <= Cardinality(C)
    BY <1>6, <1>7, FS_Subset, FS_CardinalityType
  <2>3. attempts'[r] + Cardinality(D) <= (MaxAttempts - 1) + room + crashes
    BY <1>2, <1>7, <1>8, <2>1, <2>2
  <2> QED
    BY <2>3 DEF D, room
<1>10. CASE r = r0
  <2>1. attempts'[r] = attempts[r] + 1
    BY <1>1, <1>2, <1>10
  <2>2. <<w, e>> \in C
    BY <1>1, <1>10 DEF Chances, Chance, EntriesOf, RunIn, Assigned
  <2>3. pc'[w] = "deadLetter"
    BY <1>1, <1>2, <1>10 DEF AtCap
  <2>4. <<w, e>> \notin D
    BY <1>1, <2>3 DEF Chances, Chance
  <2> HIDE DEF C, D, room
  <2>5. D \in SUBSET (C \ {<<w, e>>})
    BY <1>6, <2>4
  <2>6. IsFiniteSet(C \ {<<w, e>>}) /\ Cardinality(C \ {<<w, e>>}) = Cardinality(C) - 1
    BY <1>7, <2>2, FS_RemoveElement
  <2>7. Cardinality(D) \in Nat /\ Cardinality(D) <= Cardinality(C) - 1
    <3> DEFINE B == C \ {<<w, e>>}
    <3>1. IsFiniteSet(B) /\ Cardinality(B) = Cardinality(C) - 1 /\ D \in SUBSET B
      BY <2>5, <2>6
    <3> HIDE DEF B
    <3>2. IsFiniteSet(D) /\ Cardinality(D) <= Cardinality(B)
      BY <3>1, FS_Subset
    <3> QED
      BY <3>1, <3>2, FS_CardinalityType
  <2>8. attempts'[r] + Cardinality(D) <= (MaxAttempts - 1) + room + crashes
    BY <1>2, <1>7, <1>8, <2>1, <2>7
  <2> QED
    BY <2>8 DEF D, room
<1> QED
  BY <1>9, <1>10

\* A crash may give one chance back.
LEMMA CrashCount ==
    ASSUME TypeInv, HandedInv, CountInv, NEW w \in Workers, WorkerCrash(w)
    PROVE  HandedInv' /\ CountInv'
<1> USE DEF queue, hashes, workers, runtime, api, faults, history
<1> DEFINE e == cur[w]
<1>1. /\ pc' = [pc EXCEPT ![w] = "loop"] /\ todo' = [todo EXCEPT ![w] = {}]
      /\ cur' = [cur EXCEPT ![w] = NoEntry] /\ crashes' = crashes + 1
      /\ UNCHANGED <<delivered, pel, added, runOf, attempts>>
  BY DEF WorkerCrash
<1>2. /\ pc = [v \in Workers |-> pc[v]] /\ attempts \in [Runs -> Nat]
      /\ cur = [v \in Workers |-> cur[v]] /\ todo = [v \in Workers |-> todo[v]]
      /\ MaxAttempts \in Nat \ {0} /\ crashes \in Nat /\ added \in Nat /\ NoEntry \notin Assigned
  BY ConstantsAssumption DEF TypeInv, BaseInv, Assigned, NoEntry
<1>3. HandedInv'
  BY <1>1, <1>2 DEF HandedInv
<1>4. \A v \in Workers, f \in Assigned : Chance(v, f)' => Chance(v, f) \/ (v = w /\ f = e)
  BY <1>1, <1>2 DEF Chance
<1> SUFFICES ASSUME NEW r \in Runs, attempts[r] >= MaxAttempts
             PROVE  attempts[r] + Cardinality(Chances(r)')
                        <= (MaxAttempts - 1) + Cardinality(EntriesOf(r)) * Cardinality(Workers)
                           + (crashes + 1)
  BY <1>1, <1>2, <1>3 DEF CountInv, EntriesOf
<1> DEFINE C == Chances(r)
           D == Chances(r)'
           room == Cardinality(EntriesOf(r)) * Cardinality(Workers)
<1>5. EntriesOf(r)' = EntriesOf(r)
  BY <1>1 DEF EntriesOf
<1>6. D \in SUBSET (C \cup {<<w, e>>})
  BY <1>4, <1>5 DEF Chances, EntriesOf, Assigned
<1>7. IsFiniteSet(C) /\ Cardinality(C) \in Nat /\ room \in Nat
  BY RunCount
<1>8. attempts[r] + Cardinality(C) <= (MaxAttempts - 1) + room + crashes
  BY DEF CountInv
<1> HIDE DEF C, D, room
<1> DEFINE B == C \cup {<<w, e>>}
<1>9. IsFiniteSet(B) /\ Cardinality(B) <= Cardinality(C) + 1 /\ Cardinality(B) \in Nat
  <2>1. IsFiniteSet(B)
    BY <1>7, FS_AddElement
  <2>2. Cardinality(B) = IF <<w, e>> \in C THEN Cardinality(C) ELSE Cardinality(C) + 1
    BY <1>7, FS_AddElement
  <2> QED
    BY <1>7, <2>1, <2>2
<1>10. D \in SUBSET B
  BY <1>6
<1> HIDE DEF B
<1>11. Cardinality(D) \in Nat /\ Cardinality(D) <= Cardinality(C) + 1
  <2>1. IsFiniteSet(D) /\ Cardinality(D) <= Cardinality(B)
    BY <1>9, <1>10, FS_Subset
  <2> QED
    BY <1>7, <1>9, <2>1, FS_CardinalityType
<1>12. attempts[r] + Cardinality(D) <= (MaxAttempts - 1) + room + (crashes + 1)
  BY <1>2, <1>7, <1>8, <1>11
<1> QED
  BY <1>12 DEF D, room

LEMMA FailInit == Init => FailInv
<1> SUFFICES ASSUME Init PROVE FailInv
  OBVIOUS
<1>1. HandedInv
  BY DEF Init, HandedInv
<1>2. \A r \in Runs : ~(attempts[r] >= MaxAttempts)
  BY ConstantsAssumption DEF Init
<1> QED
  BY <1>1, <1>2 DEF FailInv, CountInv

LEMMA FailStep == TypeInv /\ FailInv /\ [Next]_vars => FailInv'
<1> SUFFICES ASSUME TypeInv, FailInv, [Next]_vars PROVE FailInv'
  OBVIOUS
<1>1. HandedInv /\ CountInv
  BY DEF FailInv
<1>2. CASE \E c \in Clients : Enqueue(c)
  BY <1>1, <1>2, EnqueueCount DEF FailInv
<1>3. CASE \E w \in Workers : RecordAttempt(w)
  BY <1>1, <1>3, RecordCount DEF FailInv
<1>4. CASE \E w \in Workers : WorkerCrash(w)
  BY <1>1, <1>4, CrashCount DEF FailInv
<1>5. CASE Quiet
  BY <1>1, <1>5, QuietCount DEF FailInv, Quiet
<1> QED
  BY <1>1, <1>2, <1>3, <1>4, <1>5, QuietStep

LEMMA FailBound == TypeInv /\ FailInv => FailuresBounded
<1> SUFFICES ASSUME TypeInv, FailInv, NEW r \in Runs
             PROVE  attempts[r] <= (MaxAttempts - 1)
                        + Cardinality(EntriesOf(r)) * Cardinality(Workers) + crashes
  BY DEF FailuresBounded, EntriesOf
<1> DEFINE room == Cardinality(EntriesOf(r)) * Cardinality(Workers)
<1>1. Cardinality(Chances(r)) \in Nat /\ room \in Nat
  BY RunCount
<1>2. attempts[r] >= MaxAttempts
      => attempts[r] + Cardinality(Chances(r)) <= (MaxAttempts - 1) + room + crashes
  BY DEF FailInv, CountInv
<1>3. attempts[r] \in Nat /\ MaxAttempts \in Nat \ {0} /\ crashes \in Nat
  BY ConstantsAssumption DEF TypeInv, BaseInv
<1> HIDE DEF room
<1>4. attempts[r] <= (MaxAttempts - 1) + room + crashes
  BY <1>1, <1>2, <1>3
<1> QED
  BY <1>4 DEF room

\* The dead-letter cap bounds how often a run fails, for any number of workers, entries
\* and crashes: MaxAttempts - 1, one for each entry of it in each worker's hands, and
\* one for each crash (_process, record_attempt).
THEOREM FailureBound == Spec => []FailuresBounded
<1>1. Init => TypeInv /\ FailInv
  BY TypeInit, FailInit
<1>2. TypeInv /\ FailInv /\ [Next]_vars => (TypeInv /\ FailInv)'
  BY TypeStep, FailStep
<1> QED
  BY <1>1, <1>2, FailBound, PTL DEF Spec

=============================================================================
