---------------------------- MODULE RunLifecycle ----------------------------
(***************************************************************************)
(* What the run queue promises of a run, without saying how: an accepted   *)
(* entry stays in the queue until its run has been brought to an end or    *)
(* its entry was discarded on request, a run has one holder at a time, and *)
(* only a holder moves its status, from a status that is open.             *)
(*                                                                         *)
(* Once a holder has been stalled for longer than its lease the queue is   *)
(* degraded: the promises about holders are off, those about entries stay. *)
(* With executors that may outlive their holder (Zombies) a progress       *)
(* report may come from anywhere.  Module RunQueue implements this one.    *)
(***************************************************************************)
CONSTANTS
    Holders,    \* who can hold a run
    Jobs,       \* run ids
    Slots,      \* entries, each used once
    Nobody,     \* no run
    Open,       \* statuses from which a run may be started
    Closed,     \* statuses a run stays in until it is posted again
    Posted,     \* the status of a run that has been posted
    Running,    \* the status of a run that is executed
    Failed,     \* the status of a run whose execution failed
    Zombies     \* executors may outlive their holder

VARIABLES
    waiting,    \* entries in the queue
    job,        \* the run of each entry, Nobody before it is accepted
    standing,   \* the status of each run
    holds,      \* the run each holder holds, or Nobody
    ended,      \* entries whose execution came to an end
    discarded,  \* entries removed on request
    degraded    \* a holder has been stalled past its lease

vars == <<waiting, job, standing, holds, ended, discarded, degraded>>

Init ==
    /\ waiting = {} /\ ended = {} /\ discarded = {} /\ degraded = FALSE
    /\ job = [e \in Slots |-> Nobody]
    /\ holds = [h \in Holders |-> Nobody]
    /\ standing \in [Jobs -> Open]

Accept(e, j) ==
    /\ job[e] = Nobody /\ e \notin waiting
    /\ job' = [job EXCEPT ![e] = j] /\ waiting' = waiting \cup {e}
    /\ UNCHANGED <<standing, holds, ended, discarded, degraded>>

\* A client marks the run as posted: the only step that reopens a closed run.
Post(j) ==
    /\ standing' = [standing EXCEPT ![j] = Posted]
    /\ UNCHANGED <<waiting, job, holds, ended, discarded, degraded>>

Discard(e) ==
    /\ waiting' = waiting \ {e} /\ discarded' = discarded \cup {e}
    /\ UNCHANGED <<job, standing, holds, ended, degraded>>

Take(h, j) ==
    /\ holds[h] = Nobody
    /\ degraded \/ \A g \in Holders : holds[g] # j
    /\ holds' = [holds EXCEPT ![h] = j]
    /\ UNCHANGED <<waiting, job, standing, ended, discarded, degraded>>

\* A holder lets go or dies.
LetGo(h) ==
    /\ holds' = [holds EXCEPT ![h] = Nobody]
    /\ UNCHANGED <<waiting, job, standing, ended, discarded, degraded>>

\* An execution starts or goes on.
Run(j) ==
    /\ \/ degraded \/ Zombies
       \/ \E h \in Holders : holds[h] = j
    /\ degraded \/ Zombies \/ standing[j] \in Open
    /\ standing' = [standing EXCEPT ![j] = Running]
    /\ UNCHANGED <<waiting, job, holds, ended, discarded, degraded>>

\* An execution ends for good; which of the run's entries asked for it is noted.
End(h, e) ==
    /\ job[e] = holds[h] /\ holds[h] # Nobody
    /\ \E st \in Closed \cup {Failed} : standing' = [standing EXCEPT ![job[e]] = st]
    /\ ended' = ended \cup {e}
    /\ UNCHANGED <<waiting, job, holds, discarded, degraded>>

\* An execution failed and is left for another.
Fail(h) ==
    /\ holds[h] # Nobody
    /\ standing' = [standing EXCEPT ![holds[h]] = Failed]
    /\ UNCHANGED <<waiting, job, holds, ended, discarded, degraded>>

\* An entry is taken out by a holder of its run, once the run has been ended.
Remove(h, e) ==
    /\ job[e] = holds[h] /\ \E f \in ended : job[f] = job[e]
    /\ waiting' = waiting \ {e}
    /\ UNCHANGED <<job, standing, holds, ended, discarded, degraded>>

Degrade ==
    /\ degraded' = TRUE
    /\ UNCHANGED <<waiting, job, standing, holds, ended, discarded>>

Next ==
    \/ \E e \in Slots : Discard(e) \/ \E j \in Jobs : Accept(e, j)
    \/ \E j \in Jobs : Post(j) \/ Run(j)
    \/ \E h \in Holders : \/ \E j \in Jobs : Take(h, j)
                          \/ LetGo(h) \/ Fail(h)
                          \/ \E e \in Slots : End(h, e) \/ Remove(h, e)
    \/ Degrade

Spec == Init /\ [][Next]_vars
=============================================================================
