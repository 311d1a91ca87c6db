---------------------------- MODULE BatteryProofs ----------------------------
(***************************************************************************)
(* Theorems about Battery, for every set of goals and every dependency     *)
(* graph.                                                                  *)
(***************************************************************************)
EXTENDS Battery, TLAPS

LEMMA OrderType == Len(Order) \in Nat /\ \A i \in 1..Len(Order) : Order[i] \in Specs
BY BatteryAssumption

LEMMA DepsType == \A s \in Specs : Deps[s] \in Seq(Specs)
BY BatteryAssumption

LEMMA BatteryTypeInit == Init => TypeOK
<1>1. 1 \in 1..Len(Order) + 1
  BY OrderType
<1> QED
  BY <1>1, BatteryAssumption DEF Init, TypeOK, Statuses, Stages

\* What the goal an action looks at has to do with the positions.
LEMMA GoalType ==
    ASSUME TypeOK, pos <= Len(Order)
    PROVE  Goal \in Specs /\ pos + 1 \in 1..Len(Order) + 1
BY OrderType DEF TypeOK, Goal

LEMMA SchedulerType ==
    ASSUME TypeOK, Scheduler
    PROVE  TypeOK'
<1> USE OrderType DEF TypeOK, workers
<1>1. CASE SkipEnqueued
  BY <1>1, GoalType DEF SkipEnqueued
<1>2. CASE Consider
  <2>1. Deps[Goal] \in Seq(Specs) /\ pos \in 1..Len(Order)
    BY <1>2, GoalType, DepsType DEF Consider
  <2> QED
    BY <1>2, <2>1 DEF Consider
<1>3. CASE UpstreamDone
  <2>1. left' \in Seq(Specs)
    BY <1>3 DEF UpstreamDone
  <2> QED
    BY <1>3, <2>1 DEF UpstreamDone
<1>4. CASE UpstreamPending
  BY <1>4, GoalType DEF UpstreamPending
<1>5. CASE Release
  BY <1>5, GoalType DEF Release, Enqueue
<1>6. CASE EndScan
  BY <1>6 DEF EndScan
<1>7. CASE PollAgain
  BY <1>7 DEF PollAgain
<1>8. CASE Deadline
  BY <1>8 DEF Deadline
<1>9. CASE EnqueueAnyway
  <2>1. Goal \in Specs /\ pos + 1 \in 1..Len(Order) + 1
    BY <1>9, GoalType DEF EnqueueAnyway
  <2>2. CASE Goal \in enqueued /\ UNCHANGED <<enqueued, forced, entry>>
    BY <1>9, <2>1, <2>2 DEF EnqueueAnyway
  <2>3. CASE Goal \notin enqueued /\ Enqueue(Goal) /\ forced' = forced \cup {Goal}
    BY <1>9, <2>1, <2>3 DEF EnqueueAnyway, Enqueue
  <2> QED
    BY <1>9, <2>2, <2>3 DEF EnqueueAnyway
<1>10. CASE EndForce
  BY <1>10 DEF EndForce
<1> QED
  BY <1>1, <1>2, <1>3, <1>4, <1>5, <1>6, <1>7, <1>8, <1>9, <1>10 DEF Scheduler

LEMMA WorkerType ==
    ASSUME TypeOK, NEW s \in Specs, Worker(s)
    PROVE  TypeOK'
<1> USE DEF TypeOK, scheduler, workers, Stage, Mark, Stages, Statuses
<1>1. CASE Execute(s)
  BY <1>1 DEF Execute
<1>2. CASE Complete(s)
  BY <1>2 DEF Complete
<1>3. CASE Ack(s)
  BY <1>3 DEF Ack
<1>4. CASE RecordAttempt(s)
  <2>1. attempts' \in [Specs -> Nat]
    BY <1>4 DEF RecordAttempt
  <2> QED
    BY <1>4, <2>1 DEF RecordAttempt
<1>5. CASE MarkFailed(s)
  BY <1>5 DEF MarkFailed
<1>6. CASE DeadLetter(s)
  BY <1>6 DEF DeadLetter
<1>7. CASE LeaveForRedelivery(s)
  BY <1>7 DEF LeaveForRedelivery
<1>8. CASE Crash(s)
  BY <1>8 DEF Crash
<1> QED
  BY <1>1, <1>2, <1>3, <1>4, <1>5, <1>6, <1>7, <1>8 DEF Worker

LEMMA BatteryTypeStep == TypeOK /\ [Next]_vars => TypeOK'
<1> SUFFICES ASSUME TypeOK, [Next]_vars PROVE TypeOK'
  OBVIOUS
<1>1. CASE UNCHANGED vars
  BY <1>1 DEF TypeOK, vars, scheduler, workers
<1> QED
  BY <1>1, SchedulerType, WorkerType DEF Next

\* The firing keeps its type (BatteryEnqueuer.enqueue_battery).
THEOREM BatteryTypeCorrect == Spec => []TypeOK
BY BatteryTypeInit, BatteryTypeStep, PTL DEF Spec

(***************************************************************************)
(* The release order.  An upstream the scheduler has found terminal may be *)
(* executed again, but it has had an execution that ended, and that stays  *)
(* so: this is what carries the reads of the scheduler, one upstream after *)
(* the other, over to the goal it releases.                                *)
(***************************************************************************)
StatusInv ==
    \A s \in Specs : /\ status[s] = "failed" => attempts[s] > 0
                     /\ worker[s] \in {"counted", "marked"} => attempts[s] > 0
                     /\ worker[s] = "run" => status[s] = "running"

ReleaseInv ==
    pc = "deps" => /\ Goal \notin enqueued
                   /\ \A u \in Members(Deps[Goal]) : Ended(u) \/ u \in Members(left)

OrderInv == TypeOK /\ StatusInv /\ ReleaseInv /\ UpstreamsEnded

LEMMA MembersType == ASSUME NEW s \in Specs, NEW u \in Members(Deps[s]) PROVE u \in Specs
BY DepsType DEF Members

LEMMA MembersTail ==
    ASSUME NEW seq \in Seq(Specs), seq # <<>>, NEW u \in Members(seq), u # Head(seq)
    PROVE  u \in Members(Tail(seq))
<1>1. PICK i \in 1..Len(seq) : u = seq[i]
  BY DEF Members
<1>2. i # 1
  BY <1>1
<1>3. i - 1 \in 1..Len(Tail(seq)) /\ Tail(seq)[i - 1] = seq[i]
  BY <1>1, <1>2
<1> QED
  BY <1>1, <1>3 DEF Members

LEMMA MembersEmpty == Members(<<>>) = {}
BY DEF Members

LEMMA HeadType == ASSUME NEW seq \in Seq(Specs), seq # <<>> PROVE Head(seq) \in Specs
OBVIOUS

LEMMA OrderInit == Init => OrderInv
<1> SUFFICES ASSUME Init PROVE OrderInv
  OBVIOUS
<1>1. StatusInv
  BY DEF Init, StatusInv
<1>2. ReleaseInv /\ UpstreamsEnded
  BY DEF Init, ReleaseInv, UpstreamsEnded
<1> QED
  BY <1>1, <1>2, BatteryTypeInit DEF OrderInv

LEMMA SchedulerWrites ==
    ASSUME Scheduler \/ UNCHANGED vars
    PROVE  UNCHANGED workers
BY DEF Scheduler, SkipEnqueued, Consider, UpstreamDone, UpstreamPending, Release,
       EndScan, PollAgain, Deadline, EnqueueAnyway, EndForce, workers, vars

LEMMA WorkerWrites ==
    ASSUME NEW s \in Specs, Worker(s)
    PROVE  UNCHANGED scheduler
BY DEF Worker, Execute, Complete, Ack, RecordAttempt, MarkFailed, DeadLetter,
       LeaveForRedelivery, Crash, scheduler, workers

\* What a step of a worker does to the status hashes.
LEMMA WorkerStatus ==
    ASSUME TypeOK, StatusInv, NEW s \in Specs, Worker(s)
    PROVE  StatusInv'
<1> USE DEF TypeOK, StatusInv, workers, Stage, Mark, Stages, Statuses
<1>1. CASE Execute(s)
  BY <1>1 DEF Execute
<1>2. CASE Complete(s)
  BY <1>2 DEF Complete
<1>3. CASE Ack(s)
  BY <1>3 DEF Ack
<1>4. CASE RecordAttempt(s)
  <2>1. \A u \in Specs : attempts'[u] >= attempts[u] /\ (u = s => attempts'[u] > 0)
    BY <1>4 DEF RecordAttempt
  <2>2. \A u \in Specs : status'[u] = status[u] /\ (u # s => worker'[u] = worker[u])
    BY <1>4 DEF RecordAttempt
  <2>3. worker'[s] = "counted"
    BY <1>4 DEF RecordAttempt
  <2>4. \A u \in Specs : attempts[u] \in Nat /\ attempts'[u] \in Nat
    BY <1>4 DEF RecordAttempt
  <2> QED
    BY <2>1, <2>2, <2>3, <2>4
<1>5. CASE MarkFailed(s)
  BY <1>5 DEF MarkFailed
<1>6. CASE DeadLetter(s)
  BY <1>6 DEF DeadLetter
<1>7. CASE LeaveForRedelivery(s)
  BY <1>7 DEF LeaveForRedelivery
<1>8. CASE Crash(s)
  BY <1>8 DEF Crash
<1> QED
  BY <1>1, <1>2, <1>3, <1>4, <1>5, <1>6, <1>7, <1>8 DEF Worker

\* No step undoes the end of an execution.
LEMMA EndedStays ==
    ASSUME TypeOK, StatusInv, [Next]_vars, NEW u \in Specs, Ended(u)
    PROVE  status'[u] = "completed" \/ attempts'[u] > 0
<1> USE DEF Ended, TypeOK, Stage, Mark, workers
<1>1. ASSUME NEW s \in Specs, Worker(s) PROVE status'[u] = "completed" \/ attempts'[u] > 0
  <2>1. CASE Execute(s)
    BY <2>1 DEF Execute
  <2>2. CASE Complete(s)
    BY <2>2 DEF Complete
  <2>3. CASE RecordAttempt(s)
    <3>1. attempts[u] \in Nat /\ status' = status
      BY <2>3 DEF RecordAttempt
    <3>2. attempts'[u] = attempts[u] \/ attempts'[u] = attempts[u] + 1
      BY <2>3 DEF RecordAttempt
    <3> QED
      BY <3>1, <3>2
  <2>4. CASE MarkFailed(s)
    BY <2>4 DEF MarkFailed, StatusInv
  <2>5. CASE Ack(s) \/ DeadLetter(s) \/ LeaveForRedelivery(s) \/ Crash(s)
    BY <2>5 DEF Ack, DeadLetter, LeaveForRedelivery, Crash
  <2> QED
    BY <1>1, <2>1, <2>2, <2>3, <2>4, <2>5 DEF Worker
<1> QED
  BY <1>1, SchedulerWrites DEF Next

\* A step that enqueues nothing and leaves the polling alone keeps the order.
LEMMA ReleasedStay ==
    ASSUME OrderInv, [Next]_vars, enqueued' = enqueued, forced' = forced,
           pc' # "deps" \/ UNCHANGED <<pc, pos, left>>
    PROVE  ReleaseInv' /\ UpstreamsEnded'
<1> USE DEF OrderInv
<1>1. UpstreamsEnded'
  <2> SUFFICES ASSUME NEW s \in enqueued \ forced, NEW u \in Members(Deps[s])
               PROVE  status'[u] = "completed" \/ attempts'[u] > 0
    BY DEF UpstreamsEnded, Ended
  <2>1. s \in Specs /\ u \in Specs
    BY MembersType DEF TypeOK
  <2> QED
    BY <2>1, EndedStays DEF UpstreamsEnded
<1>2. CASE pc' # "deps"
  BY <1>1, <1>2 DEF ReleaseInv
<1>3. CASE UNCHANGED <<pc, pos, left>> /\ pc = "deps"
  <2>1. Goal' = Goal /\ Goal \in Specs /\ Goal \notin enqueued
    BY <1>3, GoalType DEF Goal, TypeOK, ReleaseInv
  <2>2. ASSUME NEW u \in Members(Deps[Goal])
        PROVE  (status'[u] = "completed" \/ attempts'[u] > 0) \/ u \in Members(left)
    BY <1>3, <2>1, <2>2, MembersType, EndedStays DEF ReleaseInv
  <2> QED
    BY <1>1, <1>3, <2>1, <2>2 DEF ReleaseInv, Ended
<1> QED
  BY <1>1, <1>2, <1>3 DEF ReleaseInv

LEMMA OrderStep == OrderInv /\ [Next]_vars => OrderInv'
<1> SUFFICES ASSUME OrderInv, [Next]_vars PROVE OrderInv'
  OBVIOUS
<1>0. TypeOK'
  BY BatteryTypeStep DEF OrderInv
<1>s. StatusInv'
  <2>1. CASE Scheduler \/ UNCHANGED vars
    BY <2>1, SchedulerWrites DEF OrderInv, StatusInv, workers
  <2> QED
    BY <2>1, WorkerStatus DEF OrderInv, Next
<1>k. CASE /\ enqueued' = enqueued /\ forced' = forced
           /\ pc' # "deps" \/ UNCHANGED <<pc, pos, left>>
  BY <1>0, <1>s, <1>k, ReleasedStay DEF OrderInv
<1>1. CASE SkipEnqueued
  BY <1>1, <1>k DEF SkipEnqueued, OrderInv
<1>2. CASE Consider
  <2>1. UNCHANGED workers /\ pos' = pos /\ left' = Deps[Goal] /\ Goal \notin enqueued
    BY <1>2 DEF Consider
  <2>2. UNCHANGED <<enqueued, forced>>
    BY <1>2 DEF Consider
  <2>3. ReleaseInv'
    BY <2>1, <2>2 DEF ReleaseInv, Goal
  <2>4. UpstreamsEnded'
    BY <2>1, <2>2 DEF UpstreamsEnded, Ended, OrderInv, workers
  <2> QED
    BY <1>0, <1>s, <2>3, <2>4 DEF OrderInv
<1>3. CASE UpstreamDone
  <2>1. UNCHANGED <<pc, pos, enqueued, forced, workers>> /\ pc = "deps" /\ left' = Tail(left)
    BY <1>3 DEF UpstreamDone
  <2>2. left \in Seq(Specs) /\ left # <<>> /\ status[Head(left)] \in Terminal
    BY <1>3 DEF UpstreamDone, OrderInv, TypeOK
  <2>3. Ended(Head(left))
    BY <2>2, HeadType DEF OrderInv, StatusInv, Ended, Terminal
  <2>4. Goal \notin enqueued /\ \A u \in Members(Deps[Goal]) : Ended(u) \/ u \in Members(left)
    BY <2>1 DEF OrderInv, ReleaseInv
  <2>5. \A u \in Members(Deps[Goal]) : Ended(u) \/ u \in Members(Tail(left))
    BY <2>2, <2>3, <2>4, MembersTail
  <2>6. ReleaseInv'
    BY <2>1, <2>4, <2>5 DEF ReleaseInv, Goal, Ended, workers
  <2>7. UpstreamsEnded'
    BY <2>1 DEF UpstreamsEnded, Ended, OrderInv, workers
  <2> QED
    BY <1>0, <1>s, <2>6, <2>7 DEF OrderInv
<1>4. CASE UpstreamPending
  BY <1>4, <1>k DEF UpstreamPending, OrderInv
<1>5. CASE Release
  <2>1. UNCHANGED <<forced, workers>> /\ pc' = "scan" /\ enqueued' = enqueued \cup {Goal}
    BY <1>5 DEF Release, Enqueue
  <2>2. \A u \in Members(Deps[Goal]) : Ended(u)
    BY <1>5, MembersEmpty DEF Release, OrderInv, ReleaseInv
  <2>3. UpstreamsEnded'
    BY <2>1, <2>2 DEF UpstreamsEnded, Ended, OrderInv, workers
  <2> QED
    BY <1>0, <1>s, <2>1, <2>3 DEF OrderInv, ReleaseInv
<1>6. CASE EndScan
  BY <1>6, <1>k DEF EndScan, OrderInv
<1>7. CASE PollAgain
  BY <1>7, <1>k DEF PollAgain, OrderInv
<1>8. CASE Deadline
  BY <1>8, <1>k DEF Deadline, OrderInv
<1>9. CASE EnqueueAnyway
  <2>1. pc' = "force" /\ UNCHANGED workers
    BY <1>9 DEF EnqueueAnyway
  <2>2. enqueued' \ forced' \subseteq enqueued \ forced
    BY <1>9 DEF EnqueueAnyway, Enqueue
  <2>3. UpstreamsEnded'
    BY <2>1, <2>2 DEF UpstreamsEnded, Ended, OrderInv, workers
  <2> QED
    BY <1>0, <1>s, <2>1, <2>3 DEF OrderInv, ReleaseInv
<1>10. CASE EndForce
  BY <1>10, <1>k DEF EndForce, OrderInv
<1>11. ASSUME NEW s \in Specs, Worker(s) PROVE OrderInv'
  BY <1>11, <1>k, WorkerWrites DEF scheduler
<1>12. CASE UNCHANGED vars
  BY <1>12, <1>k DEF vars, scheduler
<1> QED
  BY <1>1, <1>2, <1>3, <1>4, <1>5, <1>6, <1>7, <1>8, <1>9, <1>10, <1>11, <1>12
     DEF Next, Scheduler

\* A goal handed to the queue before the deadline finds every upstream executed to
\* an end, whatever the retries and crashes of the workers (_deps_satisfied).
THEOREM ReleaseOrder == Spec => []UpstreamsEnded
<1>1. OrderInv => UpstreamsEnded
  BY DEF OrderInv
<1> QED
  BY <1>1, OrderInit, OrderStep, PTL DEF Spec

\* While a goal executes that the deadline did not force out, no upstream of it
\* executes that has not failed (RunConsumer._process, the terminal guard).
THEOREM UpstreamStaysQuiet == Spec => []UpstreamQuiet
<1>1. OrderInv => UpstreamQuiet
  <2> SUFFICES ASSUME OrderInv, NEW s \in Specs \ forced, worker[s] = "run",
                      NEW u \in Members(Deps[s]), attempts[u] = 0
               PROVE  worker[u] # "run"
    BY DEF UpstreamQuiet
  <2>1. s \in enqueued /\ u \in Specs
    BY MembersType DEF OrderInv, TypeOK
  <2>2. Ended(u)
    BY <2>1 DEF OrderInv, UpstreamsEnded
  <2> QED
    BY <2>1, <2>2 DEF OrderInv, StatusInv, Ended
<1> QED
  BY <1>1, OrderInit, OrderStep, PTL DEF Spec

(***************************************************************************)
(* Where a failed run is not tried again and no worker has died, an        *)
(* execution that ended is the last one of its run: its entry is           *)
(* acknowledged before the worker lets go of it.                           *)
(***************************************************************************)
LastInv ==
    crashes = 0 =>
        \A s \in Specs : attempts[s] > 0 => /\ worker[s] # "run"
                                            /\ worker[s] = "idle" => s \notin entry

EnqueuedOnce == \A s \in Specs : s \notin enqueued => attempts[s] = 0

OnceInv == OrderInv /\ LastInv /\ EnqueuedOnce

LEMMA OnceInit == Init => OnceInv
<1> SUFFICES ASSUME Init PROVE OnceInv
  OBVIOUS
<1>1. LastInv /\ EnqueuedOnce
  BY DEF Init, LastInv, EnqueuedOnce
<1> QED
  BY <1>1, OrderInit DEF OnceInv

LEMMA OnceWorker ==
    ASSUME MaxAttempts = 1, OnceInv, NEW s \in Specs, Worker(s)
    PROVE  LastInv' /\ EnqueuedOnce'
<1> USE DEF OnceInv, OrderInv, TypeOK, LastInv, EnqueuedOnce, Stage, Mark, workers, scheduler
<1>1. CASE Execute(s)
  BY <1>1 DEF Execute
<1>2. CASE Complete(s)
  BY <1>2 DEF Complete
<1>3. CASE Ack(s)
  BY <1>3 DEF Ack
<1>4. CASE RecordAttempt(s)
  <2>1. s \in entry /\ s \in enqueued
    BY <1>4 DEF RecordAttempt
  <2>2. \A u \in Specs : u # s => attempts'[u] = attempts[u] /\ worker'[u] = worker[u]
    BY <1>4 DEF RecordAttempt
  <2>3. worker'[s] = "counted" /\ UNCHANGED <<entry, enqueued, crashes>>
    BY <1>4 DEF RecordAttempt
  <2> QED
    BY <2>1, <2>2, <2>3
<1>5. CASE MarkFailed(s)
  BY <1>5 DEF MarkFailed
<1>6. CASE DeadLetter(s)
  BY <1>6 DEF DeadLetter
<1>7. CASE LeaveForRedelivery(s)
  <2>1. attempts[s] > 0 /\ attempts[s] \in Nat
    BY <1>7 DEF LeaveForRedelivery, StatusInv
  <2> QED
    BY <1>7, <2>1 DEF LeaveForRedelivery
<1>8. CASE Crash(s)
  BY <1>8 DEF Crash
<1> QED
  BY <1>1, <1>2, <1>3, <1>4, <1>5, <1>6, <1>7, <1>8 DEF Worker

LEMMA OnceScheduler ==
    ASSUME OnceInv, Scheduler \/ UNCHANGED vars
    PROVE  LastInv' /\ EnqueuedOnce'
<1>1. UNCHANGED workers
  BY SchedulerWrites
<1>2. CASE UNCHANGED <<enqueued, entry>>
  BY <1>1, <1>2 DEF OnceInv, LastInv, EnqueuedOnce, workers
<1>3. CASE Goal \notin enqueued /\ Enqueue(Goal)
  BY <1>1, <1>3 DEF OnceInv, LastInv, EnqueuedOnce, Enqueue, workers
<1>4. CASE Release
  BY <1>3, <1>4 DEF Release, OnceInv, OrderInv, ReleaseInv
<1>5. CASE EnqueueAnyway
  BY <1>2, <1>3, <1>5 DEF EnqueueAnyway
<1>6. CASE UNCHANGED vars
  BY <1>2, <1>6 DEF vars, scheduler
<1> QED
  BY <1>2, <1>4, <1>5, <1>6 DEF Scheduler, SkipEnqueued, Consider, UpstreamDone,
     UpstreamPending, EndScan, PollAgain, Deadline, EndForce

LEMMA OnceStep ==
    ASSUME MaxAttempts = 1
    PROVE  OnceInv /\ [Next]_vars => OnceInv'
<1> SUFFICES ASSUME OnceInv, [Next]_vars PROVE OnceInv'
  OBVIOUS
<1>1. OrderInv'
  BY OrderStep DEF OnceInv
<1>2. LastInv' /\ EnqueuedOnce'
  BY OnceWorker, OnceScheduler DEF Next
<1> QED
  BY <1>1, <1>2 DEF OnceInv

\* Without retries, and until a worker dies, no goal executes beside an upstream of
\* its own unless the deadline forced it out (enqueue_battery); a
\* second attempt of the upstream is enough to break it.
THEOREM NoRaceWithoutRetry ==
    ASSUME MaxAttempts = 1
    PROVE  Spec => []NoRace
<1>1. OnceInv => NoRace
  <2> SUFFICES ASSUME OnceInv, crashes = 0, NEW s \in Specs \ forced, worker[s] = "run",
                      NEW u \in Members(Deps[s])
               PROVE  worker[u] # "run"
    BY DEF NoRace
  <2>1. s \in enqueued /\ u \in Specs
    BY MembersType DEF OnceInv, OrderInv, TypeOK
  <2>2. Ended(u)
    BY <2>1 DEF OnceInv, OrderInv, UpstreamsEnded
  <2> QED
    BY <2>1, <2>2 DEF OnceInv, OrderInv, StatusInv, LastInv, Ended
<1>2. Init => OnceInv
  BY OnceInit
<1>3. OnceInv /\ [Next]_vars => OnceInv'
  BY OnceStep
<1> QED
  BY <1>1, <1>2, <1>3, PTL DEF Spec
=============================================================================
