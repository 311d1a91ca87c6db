------------------------------- MODULE Memory -------------------------------
(***************************************************************************)
(* The long-term memory of the agents (memory/manager.py): facts and       *)
(* skills in the warm tier, episodes in the cold tier, all in one Postgres *)
(* database that several runs write at the same time and that a nightly    *)
(* pass of the scheduler thins out (memory/consolidate_job.py).            *)
(*                                                                         *)
(* A run owns one database session for all its memory operations.  It      *)
(* comes out of its own "async with" and nobody rolls it back: a statement *)
(* that fails leaves it unusable to the run's later operations, a run that *)
(* is cancelled leaves its transaction open until the garbage collector    *)
(* takes the session.  An optional value is a set of at most one element.  *)
(***************************************************************************)
EXTENDS Integers

CONSTANTS
  Runs,         \* the runs that use the memory at one time
  Keys,         \* fact keys
  Values,
  Episodes,     \* room for episodes
  Importances,  \* of new episodes, in parts of a whole
  Floor,        \* MEMORY_CONSOLIDATE_MIN_IMPORTANCE, in the same unit
  MaxAge,       \* MEMORY_CONSOLIDATE_MAX_AGE_DAYS
  Halvings      \* bound: enough to take every importance below the floor

\* Importance i after n passes.
Halved(i) ==
  LET half[n \in 0 .. Halvings] == IF n = 0 THEN i ELSE half[n - 1] \div 2
  IN  half

ASSUME MemoryAssumption ==
  /\ MaxAge \in Nat /\ Floor \in Nat \ {0} /\ Halvings \in Nat \ {0}
  /\ \A i \in Importances : i \in Nat /\ i >= Floor /\ Halved(i)[Halvings] < Floor

VARIABLES
  at,       \* run -> "loop", "sink", "over", or "cancelled"
  session,  \* run -> "clean", "aborted" (Postgres refuses its transaction) or
            \* "inactive" (SQLAlchemy does)
  write,    \* run -> the fact it is storing
  fact,     \* key -> the live row: its value and what its embeddings embed
  episode,  \* episode -> its row: importance, that at its birth, age in days
  reading,  \* the episodes a consolidation has read, while one is under way
  ran       \* the job has fired today

run == <<at, session, write>>
cold == <<episode, reading, ran>>
memVars == <<run, fact, cold>>

Oldest == MaxAge + Halvings
Steps == {"upsert", "embed", "commit"}

Sole(S) == \A x, y \in S : x = y
Writes == [key : Keys, value : Values, step : Steps, gone : SUBSET Values]
Facts == [value : Values, embeds : SUBSET Values]
Rows == [importance : Nat, born : Importances, age : 0 .. Oldest]

MemTypeOK ==
  /\ at \in [Runs -> {"loop", "sink", "over", "cancelled"}]
  /\ session \in [Runs -> {"clean", "aborted", "inactive"}]
  /\ write \in [Runs -> SUBSET Writes] /\ \A r \in Runs : Sole(write[r])
  /\ fact \in [Keys -> SUBSET Facts] /\ \A k \in Keys : Sole(fact[k])
  /\ episode \in [Episodes -> SUBSET Rows]
  /\ \A e \in Episodes : /\ Sole(episode[e])
                         /\ \A x \in episode[e] : x.importance \in Floor .. x.born
  /\ reading \in SUBSET SUBSET Episodes /\ Sole(reading)
  /\ ran \in BOOLEAN

MemInit ==
  /\ at = [r \in Runs |-> "over"]
  /\ session = [r \in Runs |-> "clean"]
  /\ write = [r \in Runs |-> {}]
  /\ fact = [k \in Keys |-> {}]
  /\ episode = [e \in Episodes |-> {}]
  /\ reading = {}
  /\ ran = FALSE

-----------------------------------------------------------------------------
(***************************************************************************)
(* A run: it recalls, loops and stores skills and facts when it folds, and *)
(* stores what it has learned in the sink.  It does one thing at a time.   *)
(***************************************************************************)
\* A statement that fails: an error of the server, a lost connection.
StatementFails(r) ==
  session' \in {[session EXCEPT ![r] = s] : s \in {"aborted", "inactive"}}

\* The reads of retrieve_memory, the first use a run makes of its session;
\* every one is best effort, and the first to fail takes the others with it.
Recall(r) ==
  /\ at[r] = "over"
  /\ at' = [at EXCEPT ![r] = "loop"]
  /\ UNCHANGED session \/ StatementFails(r)
  /\ UNCHANGED <<write, fact, cold>>

Idle(r) == at[r] \in {"loop", "sink"} /\ write[r] = {}

\* A row is added and committed at once: the flush fails, or it did before.
Flushed(r) == session[r] = "clean"
Unflushed(r) == session' = [session EXCEPT ![r] = "inactive"]

StoreSkill(r) ==
  /\ Idle(r)
  /\ \/ Flushed(r) /\ UNCHANGED session
     \/ Unflushed(r)
  /\ UNCHANGED <<at, write, fact, cold>>

StoreObservation(r, e, i) ==
  /\ Idle(r) /\ at[r] = "sink"
  /\ \/ /\ Flushed(r)
        /\ episode[e] = {}
        /\ episode' = [episode EXCEPT ![e] = {[importance |-> i, born |-> i, age |-> 0]}]
        /\ UNCHANGED session
     \/ Unflushed(r) /\ UNCHANGED episode
  /\ UNCHANGED <<at, write, fact, reading, ran>>

Finish(r) ==
  /\ Idle(r) /\ at[r] = "loop"
  /\ at' = [at EXCEPT ![r] = "sink"]
  /\ UNCHANGED <<session, write, fact, cold>>

\* The next run has a session of its own.
Leave(r) ==
  /\ at' = [at EXCEPT ![r] = "over"]
  /\ session' = [session EXCEPT ![r] = "clean"]
  /\ UNCHANGED <<fact, cold>>

End(r) ==
  /\ Idle(r) /\ at[r] = "sink"
  /\ Leave(r)
  /\ UNCHANGED write

-----------------------------------------------------------------------------
(***************************************************************************)
(* store_fact: an upsert on the key, which locks the row to the end of the *)
(* transaction; a call to the embedding provider, which answers or falls   *)
(* back to a hash; the old embeddings deleted and the new one added; the   *)
(* commit.  On a session that is not clean the upsert raises at once.      *)
(***************************************************************************)
BeginFact(r, k, v) ==
  /\ Idle(r) /\ session[r] = "clean"
  /\ write' = [write EXCEPT ![r] = {[key |-> k, value |-> v, step |-> "upsert", gone |-> {}]}]
  /\ UNCHANGED <<at, session, fact, cold>>

\* Postgres lets the locks of a transaction go when one of its statements fails.
Locked(k) ==
  \E q \in Runs : /\ session[q] = "clean"
                  /\ \E w \in write[q] : w.key = k /\ w.step # "upsert"

Upsert(r) ==
  /\ at[r] # "cancelled"
  /\ \E w \in write[r] :
       /\ w.step = "upsert" /\ ~Locked(w.key)
       /\ write' = [write EXCEPT ![r] = {[w EXCEPT !.step = "embed"]}]
  /\ UNCHANGED <<at, session, fact, cold>>

UpsertFails(r) ==
  /\ at[r] # "cancelled"
  /\ \E w \in write[r] : w.step = "upsert"
  /\ write' = [write EXCEPT ![r] = {}]
  /\ StatementFails(r)
  /\ UNCHANGED <<at, fact, cold>>

\* Mutant: the new embedding is added to those that are there.
M_Superseded(k) == {}

\* The rows the DELETE finds.
Superseded(k) == UNION {f.embeds : f \in fact[k]}

Embed(r) ==
  /\ at[r] # "cancelled"
  /\ \E w \in write[r] :
       /\ w.step = "embed"
       /\ write' = [write EXCEPT ![r] = {[w EXCEPT !.step = "commit", !.gone = Superseded(w.key)]}]
  \* a DELETE that fails is taken for a missing embedding
  /\ UNCHANGED session \/ StatementFails(r)
  /\ UNCHANGED <<at, fact, cold>>

Stored(w) ==
  [fact EXCEPT ![w.key] =
     {[value |-> w.value, embeds |-> ((UNION {f.embeds : f \in @}) \ w.gone) \cup {w.value}]}]

\* A COMMIT of an aborted transaction is a rollback that reports no error.
CommitFact(r) ==
  /\ at[r] # "cancelled"
  /\ \E w \in write[r] :
       /\ w.step = "commit"
       /\ \/ session[r] = "clean" /\ fact' = Stored(w) /\ UNCHANGED session
          \/ session[r] # "aborted" /\ Unflushed(r) /\ UNCHANGED fact
          \/ /\ session[r] = "aborted"
             /\ session' = [session EXCEPT ![r] = "clean"]
             /\ UNCHANGED fact
  /\ write' = [write EXCEPT ![r] = {}]
  /\ UNCHANGED <<at, cold>>

(***************************************************************************)
(* The worker cancels the run (a lost lease, the watchdog, a shutdown).    *)
(* During a statement the driver drops the connection, and a commit that   *)
(* was sent may have been done; during the call to the provider the        *)
(* transaction stays as it is.  "except Exception" sees nothing of it.     *)
(***************************************************************************)
Cancel(r) ==
  /\ at[r] \in {"loop", "sink"}
  /\ at' = [at EXCEPT ![r] = "cancelled"]
  /\ IF \E w \in write[r] : w.step = "embed" THEN UNCHANGED <<write, fact>>
     ELSE /\ write' = [write EXCEPT ![r] = {}]
          /\ \/ UNCHANGED fact
             \/ \E w \in write[r] :
                  w.step = "commit" /\ session[r] = "clean" /\ fact' = Stored(w)
  /\ UNCHANGED <<session, cold>>

\* Mutant: the manager outlives its run.
M_Collect(r) ==
  /\ at[r] = "cancelled"
  /\ Leave(r)
  /\ UNCHANGED write

\* The session is collected, or its process ends: the connection is closed.
Collect(r) ==
  /\ at[r] = "cancelled"
  /\ Leave(r)
  /\ write' = [write EXCEPT ![r] = {}]

-----------------------------------------------------------------------------
(***************************************************************************)
(* The consolidation, once a day at most: it reads the old episodes of     *)
(* more than the least importance, halves them and deletes those that come *)
(* below it, in a session of its own that is rolled back when it fails.    *)
(***************************************************************************)
\* Mutants: the day after an episode has become old, and no other; every age.
M_DueOnce(x) == x.age = MaxAge + 1 /\ x.importance > Floor
M_DueAlways(x) == x.importance > Floor

Due(x) == x.age > MaxAge /\ x.importance > Floor

Read ==
  /\ ~ran /\ reading = {}
  /\ ran' = TRUE
  /\ reading' = {{e \in Episodes : \E x \in episode[e] : Due(x)}}
  /\ UNCHANGED <<run, fact, episode>>

\* Mutant: what comes below the floor is kept.
M_Decayed(rows) == {[x EXCEPT !.importance = @ \div 2] : x \in rows}

Decayed(rows) ==
  {[x EXCEPT !.importance = @ \div 2] : x \in {y \in rows : y.importance >= 2 * Floor}}

Consolidate ==
  /\ \E es \in reading :
       episode' = [e \in Episodes |-> IF e \in es THEN Decayed(episode[e]) ELSE episode[e]]
  /\ reading' = {}
  /\ UNCHANGED <<run, fact, ran>>

\* An exception, a restart of the scheduler
Abandon ==
  /\ reading # {}
  /\ reading' = {}
  /\ UNCHANGED <<run, fact, episode, ran>>

Day ==
  /\ ran' = FALSE
  /\ episode' = [e \in Episodes |->
       {[x EXCEPT !.age = IF @ < Oldest THEN @ + 1 ELSE @] : x \in episode[e]}]
  /\ UNCHANGED <<run, fact, reading>>

MemNext ==
  \/ \E r \in Runs :
       \/ Recall(r) \/ StoreSkill(r) \/ Finish(r) \/ End(r)
       \/ \E e \in Episodes, i \in Importances : StoreObservation(r, e, i)
       \/ \E k \in Keys, v \in Values : BeginFact(r, k, v)
       \/ Upsert(r) \/ UpsertFails(r) \/ Embed(r) \/ CommitFact(r)
       \/ Cancel(r) \/ Collect(r)
  \/ Read \/ Consolidate \/ Abandon \/ Day

(***************************************************************************)
(* A statement of a run returns; Postgres grants a row lock in the order   *)
(* it was asked for; a session nobody refers to is collected; days pass,   *)
(* the job fires on each, and not every pass of it fails.                  *)
(***************************************************************************)
MemFairness ==
  /\ \A r \in Runs : /\ SF_memVars(Upsert(r)) /\ WF_memVars(Embed(r))
                     /\ WF_memVars(CommitFact(r)) /\ WF_memVars(Collect(r))
  /\ WF_memVars(Day) /\ WF_memVars(Read) /\ SF_memVars(Consolidate)

MemSpec == MemInit /\ [][MemNext]_memVars /\ MemFairness

-----------------------------------------------------------------------------
(***************************************************************************)
(* Recall never ranks a fact by what it said before: the embeddings of a   *)
(* live fact are one, that of its value, although two runs may store the   *)
(* same key at once and each deletes the old ones and adds its own.        *)
(***************************************************************************)
EmbeddingCurrent ==
  \A k \in Keys : \A f \in fact[k] : f.embeds = {f.value}

(***************************************************************************)
(* A store_fact comes to its end, also when the run that holds the row is  *)
(* cancelled during its call to the embedding provider and leaves its      *)
(* transaction open behind it.                                             *)
(***************************************************************************)
FactWriteEnds ==
  \A r \in Runs : write[r] # {} ~> write[r] = {}

\* The passes that take an episode of importance i below the floor.
PassesOf(i) == CHOOSE n \in 0 .. Halvings :
                 Halved(i)[n] < Floor /\ \A m \in 0 .. n - 1 : Halved(i)[m] >= Floor

(***************************************************************************)
(* An episode outlives its age limit by a day for each time its importance *)
(* can be halved before it comes below the floor: no pass takes it young,  *)
(* and no two passes of a day count twice, however long one of them runs.  *)
(***************************************************************************)
NotForgottenEarly ==
  [][\A e \in Episodes : \A x \in episode[e] :
       episode'[e] = {} => x.age >= MaxAge + PassesOf(x.born)]_memVars

(***************************************************************************)
(* What is above the least importance does not stay there: an episode is   *)
(* deleted in the end, or halved to exactly the least importance, where no *)
(* pass selects it any more.                                               *)
(***************************************************************************)
EpisodeSettles ==
  \A e \in Episodes : []<>(\A x \in episode[e] : x.importance = Floor)
=============================================================================
