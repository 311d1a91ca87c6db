--------------------------- MODULE ScheduledJobs ---------------------------
(***************************************************************************)
(* The durable cron of the agents and the collector of old checkpoints.    *)
(* A run writes a scheduled task (tools/builtin/schedule_task.py); the     *)
(* scheduler daemon mirrors the table onto its job table and puts a run on *)
(* the queue at each tick (scheduler/cron_consumer.py); the run leaves a   *)
(* checkpoint thread, which the daemon's collector drops when it has       *)
(* become old (scheduler/checkpoint_gc.py), unless the run is resumed.     *)
(*                                                                         *)
(* The daemon is one event loop: what lies between two awaits is a step.   *)
(* Its jobs are held in memory.  An optional value is a set of at most one *)
(* element.                                                                *)
(***************************************************************************)
EXTENDS Integers, FiniteSets

CONSTANTS
  Names,      \* task names
  Callers,    \* runs that call create_scheduled_task, one call at a time each
  Goals,
  Crons,      \* periods that divide Cycle, for the crontabs that parse
  BadCron,    \* a crontab that does not; only an operator can write it
  Cycle,      \* the wall clock counts ticks modulo Cycle
  MaxTasks,   \* AGENT_CRON_MAX_TASKS
  Threads,    \* the run ids at one time in the queue or in the checkpoint tables
  Ttl         \* CHECKPOINT_GC_TTL_DAYS

ASSUME ScheduleAssumption ==
  /\ Cycle \in Nat \ {0} /\ Crons \subseteq 1 .. Cycle
  /\ \A c \in Crons : Cycle % c = 0
  /\ BadCron \notin Crons
  /\ MaxTasks \in Nat /\ Ttl \in Nat

VARIABLES
  row,      \* name -> its row: goal, cron, enabled
  ask,      \* caller -> the new task that has passed the cap check
  clock,
  up,       \* the daemon's scheduler is started
  job,      \* name -> its job: goal, cron
  due,      \* name -> ticks to the job's next fire; not positive when it is due
  loaded,   \* the rows a reconcile has read and not yet applied
  syncing,  \* a reconcile is between its read and its end
  seen,     \* name -> its row as the last reconcile read it (history)
  firing,   \* name -> the goal of the fire in flight
  state,    \* thread -> "free", "queued", "active" or "idle"
  newest,   \* thread -> age of its newest checkpoint in days; NoRows without any
  oldest,   \* thread -> age of its oldest
  stale,    \* the threads the collector has found stale and not yet dropped
  revived   \* threads whose run was last activated on stale checkpoints (history)

table   == <<row, ask>>
daemon  == <<up, job, due, loaded, syncing, seen, firing>>
threads == <<state, newest, oldest>>
gc      == <<stale, revived>>
jobsVars == <<table, clock, daemon, threads, gc>>

NoRows == -1
NoTasks == [n \in Names |-> {}]
Row(g, c) == [goal |-> g, cron |-> c, on |-> TRUE]
On(rows) == \E x \in rows : x.on
Enabled == {n \in Names : On(row[n])}

\* Mutant: an interval trigger, which counts from its registration.
M_Until(c) == c

\* CronTrigger.get_next_fire_time: the clock's next match, never now
Until(c) == c - (clock % c)

JobsInit ==
  /\ row = NoTasks
  /\ ask = [c \in Callers |-> {}]
  /\ clock = 0
  /\ up = FALSE
  /\ job = NoTasks
  /\ due = [n \in Names |-> 0]
  /\ loaded = NoTasks
  /\ syncing = FALSE
  /\ seen = NoTasks
  /\ firing = NoTasks
  /\ state = [r \in Threads |-> "free"]
  /\ newest = [r \in Threads |-> NoRows]
  /\ oldest = newest
  /\ stale = {}
  /\ revived = {}

-----------------------------------------------------------------------------
(***************************************************************************)
(* create_scheduled_task.  A row that is there is revised and enabled,     *)
(* whatever the cap; a new one is inserted after a count of the enabled    *)
(* rows, unless another caller has inserted the name meanwhile.            *)
(***************************************************************************)
Revise(c, n, g, k) ==
  /\ ask[c] = {}
  /\ row[n] # {}
  /\ row' = [row EXCEPT ![n] = {Row(g, k)}]
  /\ UNCHANGED <<ask, clock, daemon, threads, gc>>

CheckCap(c, n, g, k) ==
  /\ ask[c] = {}
  /\ row[n] = {}
  /\ Cardinality(Enabled) < MaxTasks
  /\ ask' = [ask EXCEPT ![c] = {[name |-> n, row |-> Row(g, k)]}]
  /\ UNCHANGED <<row, clock, daemon, threads, gc>>

Insert(c) ==
  /\ \E x \in ask[c] :
       row' = IF row[x.name] = {} THEN [row EXCEPT ![x.name] = {x.row}] ELSE row
  /\ ask' = [ask EXCEPT ![c] = {}]
  /\ UNCHANGED <<clock, daemon, threads, gc>>

\* An operator at the table disables a task, deletes it or mistypes its crontab.
Operate(n) ==
  /\ \E x \in row[n] :
       row' \in {[row EXCEPT ![n] = y] :
                   y \in {{}, {[x EXCEPT !.on = FALSE]}, {[x EXCEPT !.cron = BadCron]}}}
  /\ UNCHANGED <<ask, clock, daemon, threads, gc>>

-----------------------------------------------------------------------------
(***************************************************************************)
(* reconcile: the read, and after it in one go the jobs.  A job whose task *)
(* is gone is removed and that of an enabled task is made anew; a crontab  *)
(* that does not parse leaves the job as it is.  The daemon starts its     *)
(* scheduler after the first.                                              *)
(***************************************************************************)
LoadTasks ==
  /\ ~syncing
  /\ syncing' = TRUE
  /\ loaded' = row
  /\ UNCHANGED <<table, clock, up, job, due, seen, firing, threads, gc>>

Rearmed(n) == \E x \in loaded[n] : x.on /\ x.cron # BadCron
Fresh(n) == {[goal |-> x.goal, cron |-> x.cron] : x \in loaded[n]}

Arm ==
  /\ due' = [n \in Names |->
       IF Rearmed(n) THEN Until((CHOOSE x \in loaded[n] : TRUE).cron)
       ELSE IF On(loaded[n]) THEN due[n] ELSE 0]
  /\ syncing' = FALSE
  /\ up' = TRUE
  /\ seen' = loaded
  /\ loaded' = NoTasks
  /\ UNCHANGED <<table, clock, firing, threads, gc>>

\* Mutant: a job that exists is kept, for a disabled task too.
M_Reconcile ==
  /\ syncing
  /\ job' = [n \in Names |-> IF Rearmed(n) /\ job[n] = {} THEN Fresh(n) ELSE job[n]]
  /\ Arm

Reconcile ==
  /\ syncing
  /\ job' = [n \in Names |->
       IF Rearmed(n) THEN Fresh(n) ELSE IF On(loaded[n]) THEN job[n] ELSE {}]
  /\ Arm

\* The daemon dies and is restarted; a collection that has not committed is undone.
Restart ==
  /\ up' = FALSE
  /\ syncing' = FALSE
  /\ job' = NoTasks /\ due' = [n \in Names |-> 0]
  /\ loaded' = NoTasks /\ seen' = NoTasks /\ firing' = NoTasks
  /\ stale' = {}
  /\ UNCHANGED <<table, clock, threads, revived>>

(***************************************************************************)
(* Time passes.  The loop is not blocked for longer than the misfire grace *)
(* time, here less than a tick: a job that is due is looked at before.     *)
(***************************************************************************)
Tick ==
  /\ up => \A n \in Names : job[n] # {} => due[n] > 0
  /\ clock' = (clock + 1) % Cycle
  /\ due' = [n \in Names |-> IF up /\ due[n] > 0 THEN due[n] - 1 ELSE due[n]]
  /\ UNCHANGED <<table, up, job, loaded, syncing, seen, firing, threads, gc>>

\* _process_jobs of the library: all that are due at once; max_instances=1
DueJob(n) == up /\ job[n] # {} /\ due[n] = 0

Fire ==
  /\ \E n \in Names : DueJob(n)
  /\ firing' = [n \in Names |->
       IF DueJob(n) /\ firing[n] = {} THEN {x.goal : x \in job[n]} ELSE firing[n]]
  /\ due' = [n \in Names |->
       IF DueJob(n) THEN Until((CHOOSE x \in job[n] : TRUE).cron) ELSE due[n]]
  /\ UNCHANGED <<table, clock, up, job, loaded, syncing, seen, threads, gc>>

\* fire: a new run id is put on the queue, or the enqueue fails and is forgotten
Enqueue(n) ==
  /\ firing[n] # {}
  /\ firing' = [firing EXCEPT ![n] = {}]
  /\ \/ UNCHANGED state
     \/ \E r \in Threads : state[r] = "free" /\ state' = [state EXCEPT ![r] = "queued"]
  /\ UNCHANGED <<table, clock, up, job, due, loaded, syncing, seen, newest, oldest, gc>>

-----------------------------------------------------------------------------
(***************************************************************************)
(* The run: it starts, writes checkpoints and ends -- finished, failed or  *)
(* crashed -- and may be resumed from its checkpoint.                      *)
(***************************************************************************)
Activate(r) ==
  /\ state' = [state EXCEPT ![r] = "active"]
  /\ revived' = IF newest[r] > Ttl \/ r \in stale THEN revived \cup {r} ELSE revived \ {r}
  /\ UNCHANGED <<table, clock, daemon, newest, oldest, stale>>

Launch(r) == state[r] = "queued" /\ Activate(r)

Resume(r) == state[r] = "idle" /\ newest[r] # NoRows /\ Activate(r)

Checkpoint(r) ==
  /\ state[r] = "active"
  /\ newest' = [newest EXCEPT ![r] = 0]
  /\ oldest' = [oldest EXCEPT ![r] = IF newest[r] = NoRows THEN 0 ELSE @]
  /\ UNCHANGED <<table, clock, daemon, state, gc>>

EndRun(r) ==
  /\ state[r] = "active"
  /\ state' = [state EXCEPT ![r] = IF newest[r] = NoRows THEN "free" ELSE "idle"]
  /\ UNCHANGED <<table, clock, daemon, newest, oldest, gc>>

\* A day, in which every run in flight writes a checkpoint.
Older(age) == IF age \in {NoRows, Ttl + 1} THEN age ELSE age + 1

NextDay ==
  /\ \A r \in Threads : state[r] = "active" => newest[r] = 0
  /\ newest' = [r \in Threads |-> Older(newest[r])]
  /\ oldest' = [r \in Threads |-> Older(oldest[r])]
  /\ UNCHANGED <<table, clock, daemon, state, gc>>

(***************************************************************************)
(* CheckpointGc.run without dry_run: the threads whose newest checkpoint   *)
(* is older than the TTL are read in one transaction and dropped by their  *)
(* ids in another.                                                         *)
(***************************************************************************)
\* Mutant: the age of the oldest checkpoint.
M_Stale(r) == oldest[r] > Ttl

Stale(r) == newest[r] > Ttl

Scan ==
  /\ up /\ stale = {}
  /\ stale' = {r \in Threads : Stale(r)}
  /\ UNCHANGED <<table, clock, daemon, threads, revived>>

Drop ==
  /\ up /\ stale # {}
  /\ stale' = {}
  /\ newest' = [r \in Threads |-> IF r \in stale THEN NoRows ELSE newest[r]]
  /\ oldest' = [r \in Threads |-> IF r \in stale THEN NoRows ELSE oldest[r]]
  /\ state' = [r \in Threads |->
       IF r \in stale /\ state[r] = "idle" THEN "free" ELSE state[r]]
  /\ UNCHANGED <<table, clock, daemon, revived>>

JobsNext ==
  \/ \E c \in Callers :
       \/ Insert(c)
       \/ \E n \in Names, g \in Goals, k \in Crons : Revise(c, n, g, k) \/ CheckCap(c, n, g, k)
  \/ \E n \in Names : Operate(n) \/ Enqueue(n)
  \/ LoadTasks \/ Reconcile \/ Restart \/ Tick \/ Fire
  \/ \E r \in Threads : Launch(r) \/ Resume(r) \/ Checkpoint(r) \/ EndRun(r)
  \/ NextDay \/ Scan \/ Drop

(***************************************************************************)
(* The clock ticks, the sync job runs again and again, an enqueue returns. *)
(* Strong for Fire: a reconcile that ends in the instant a job is due puts *)
(* its tick off, but they do not meet for ever.                            *)
(***************************************************************************)
JobsFairness ==
  /\ WF_jobsVars(Tick) /\ WF_jobsVars(LoadTasks) /\ WF_jobsVars(Reconcile)
  /\ \A n \in Names : WF_jobsVars(Enqueue(n)) /\ SF_jobsVars(DueJob(n) /\ Fire)

JobsSpec == JobsInit /\ [][JobsNext]_jobsVars /\ JobsFairness

-----------------------------------------------------------------------------
(***************************************************************************)
(* A fire is for what the last reconcile read in the table: a task that    *)
(* was disabled, deleted or revised before is not fired as it was ("a      *)
(* stale closure never fires a superseded schedule").  A crontab that does *)
(* not parse is excepted: reconcile then leaves the old job in place.      *)
(***************************************************************************)
FiresCurrent ==
  [][\A n \in Names :
       (firing'[n] # firing[n] /\ firing'[n] # {})
         => \E x \in seen[n] : x.on /\ (x.cron = BadCron \/ firing'[n] = {x.goal})]_jobsVars

(***************************************************************************)
(* A task that stays enabled is fired again and again while the daemon     *)
(* lives, although every reconcile replaces its job and with it the time   *)
(* of its next fire.                                                       *)
(***************************************************************************)
EnabledFires ==
  \A n \in Names :
    <>[](up /\ \E x \in row[n] : x.on /\ x.cron # BadCron) => []<>(firing[n] # {})

(***************************************************************************)
(* The collector takes the checkpoints of no run in flight and none that   *)
(* are younger than the TTL, however old the thread, with one exception: a *)
(* run resumed when its checkpoints were stale or already on the list of a *)
(* collection (_newest_by_thread and _drop_threads are two transactions).  *)
(***************************************************************************)
LiveThreadKept ==
  [][\A r \in Threads :
       (newest[r] # NoRows /\ newest'[r] = NoRows)
         => (newest[r] > Ttl /\ state[r] = "idle") \/ r \in revived]_jobsVars
=============================================================================
