------------------------------ MODULE Evolution -------------------------------
(***************************************************************************)
(* Evolution cycles (evolution/engine.py, run by graph/nodes/evolve.py in  *)
(* every worker): a mutation is proposed, validated, tried in the sandbox  *)
(* and against a baseline, deployed to the shadow repository, verified     *)
(* there, rolled back or promoted, and recorded in the database.           *)
(*                                                                         *)
(* The shadow repository is one directory for all the workers: each of its *)
(* commands is a git process of its own, and a roll-back resets the whole  *)
(* tree.  A mutation is written to a path of its own, so a tree is a set   *)
(* of mutations.  Prompt mutations go on to module Promotion.              *)
(***************************************************************************)
EXTENDS Promotion, FiniteSets

CONSTANTS
    Workers,        \* hosts that run cycles
    Mutations,      \* proposals a cycle may end up with
    Prompts,        \* those that are guides
    Code,           \* those that change code of the graph
    Bad,            \* code that breaks a graph invariant
    Attempts        \* max(1, max_evolution_retries + 1)

ASSUME EvolutionAssumption ==
    /\ Workers \subseteq Hosts
    /\ Prompts \subseteq Mutations \cap Guides
    /\ Code \subseteq Mutations \ Prompts /\ Bad \subseteq Code
    /\ Attempts \in Nat \ {0}
    /\ None \notin Mutations /\ Bare \notin Mutations

VARIABLES
    used,       \* mutations a cycle has ended up with
    cycle,      \* the cycle of each worker
    head,       \* the tree of the shadow repository's HEAD
    tree,       \* its working tree
    row,        \* the status of each mutation's row
    recorded,   \* code candidates put up for review (promote_code)
    ungitted,   \* mutations whose write or commit failed (for the properties)
    crowded     \* two workers were at the repository at once (for the properties)

repo   == <<head, tree, ungitted, crowded>>
rows   == <<row, recorded>>
evars  == <<used, cycle, repo, rows>>
vars   == <<pvars, evars>>

Outcomes == {"deployed", "rejected", "rolled_back", "verify_failed"}

At(w, phase) == cycle[w] # None /\ cycle[w].at = phase
Of(w) == cycle[w].mutation

\* The worker goes on with its cycle, its outcome so far out.
Go(w, phase, out) == cycle' = [cycle EXCEPT ![w].at = phase, ![w].out = out]

InRepo(w) == cycle[w] # None /\ cycle[w].at \in {"write", "commit", "verify", "rollback"}

Init ==
    /\ PInit
    /\ used = {} /\ cycle = [w \in Workers |-> None]
    /\ head = {} /\ tree = {} /\ ungitted = {} /\ crowded = FALSE
    /\ row = [m \in Mutations |-> "none"] /\ recorded = {}

-----------------------------------------------------------------------------
(***************************************************************************)
(* Analyse, generate, validate, try out.                                   *)
(***************************************************************************)
\* An opportunity was found; m is the proposal the last generation gives.
Analyze(w) ==
    /\ cycle[w] = None /\ ~Busy(w)
    /\ \E m \in Mutations \ used :
        /\ used' = used \cup {m}
        /\ cycle' = [cycle EXCEPT ![w] =
                        [mutation |-> m, at |-> "try", tries |-> 0, pre |-> {}, out |-> "rejected"]]
    /\ UNCHANGED <<pvars, repo, rows>>

\* generate and validate, again with the reason for a rejection while attempts are
\* left; then sandbox_test.
Try(w) ==
    /\ At(w, "try")
    /\ \/ Go(w, "compare", "rejected") \/ Go(w, "dismiss", "rejected")
       \/ /\ cycle[w].tries + 1 < Attempts
          /\ cycle' = [cycle EXCEPT ![w].tries = @ + 1]
    /\ UNCHANGED <<pvars, used, repo, rows>>

\* ab_test
Compare(w) ==
    /\ At(w, "compare")
    /\ Go(w, "deploy", "rejected") \/ Go(w, "record", "rejected")
    /\ UNCHANGED <<pvars, used, repo, rows>>

-----------------------------------------------------------------------------
(***************************************************************************)
(* Deploy, verify, roll back.                                              *)
(***************************************************************************)
\* get_current_hash: a failure leaves nothing to roll back to.
ReadHead(w) ==
    /\ At(w, "deploy")
    /\ \E pre \in {{}, {head}} :
        cycle' = [cycle EXCEPT ![w].pre = pre, ![w].at = "write"]
    /\ crowded' = (crowded \/ \E v \in Workers : InRepo(v))
    /\ UNCHANGED <<pvars, used, head, tree, ungitted, rows>>

\* apply_mutation and snapshot swallow what goes wrong: the mutation counts as
\* deployed all the same.
WriteFile(w) ==
    /\ At(w, "write") /\ Go(w, "commit", "deployed")
    /\ \/ tree' = tree \cup {Of(w)} /\ UNCHANGED ungitted
       \/ ungitted' = ungitted \cup {Of(w)} /\ UNCHANGED tree
    /\ UNCHANGED <<pvars, used, head, crowded, rows>>

\* git add -A: the whole tree.
Commit(w) ==
    /\ At(w, "commit") /\ Go(w, "verify", "deployed")
    /\ \/ head' = tree /\ UNCHANGED ungitted
       \/ ungitted' = ungitted \cup {Of(w)} /\ UNCHANGED head
    /\ UNCHANGED <<pvars, used, tree, crowded, rows>>

\* The invariants are checked on the whole tree, for code only; then what can be
\* executed runs once more in the sandbox.  A verifier that breaks lets pass.
Sound(m) == m \notin Code \/ tree \cap Bad = {}

\* the failure is noticed after the promotion was decided
M_Fail(w) == Go(w, "promote", "verify_failed")
Fail(w) == Go(w, IF cycle[w].pre = {} THEN "record" ELSE "rollback", "verify_failed")

Verify(w) ==
    /\ At(w, "verify")
    /\ \/ Go(w, "promote", "deployed")
       \/ (~Sound(Of(w)) \/ Of(w) \notin Prompts) /\ Fail(w)
    /\ UNCHANGED <<pvars, used, repo, rows>>

\* to the HEAD of now
M_Reset(w, untracked) == tree' = head \cup untracked /\ UNCHANGED head
Reset(w, untracked) ==
    \E pre \in cycle[w].pre : head' = pre /\ tree' = pre \cup untracked

\* git reset --hard and clean -fd.  When the second fails, the files that no commit
\* has may stay, and the roll-back counts as failed although HEAD has moved.
RollBack(w) ==
    /\ At(w, "rollback")
    /\ \/ Reset(w, {}) /\ Go(w, "record", "rolled_back")
       \/ /\ \E untracked \in {{}, tree \ head} : Reset(w, untracked)
          /\ Go(w, "record", "verify_failed")
       \/ Go(w, "record", "verify_failed") /\ UNCHANGED <<head, tree>>
    /\ UNCHANGED <<pvars, used, ungitted, crowded, rows>>

-----------------------------------------------------------------------------
(***************************************************************************)
(* Promote: a prompt through its canary, code as a candidate for review.   *)
(***************************************************************************)
\* No gate wired, promotion off, or the capability curve has regressed.
SkipPromotion(w) ==
    /\ At(w, "promote") /\ ~Busy(w) /\ Go(w, "record", cycle[w].out)
    /\ UNCHANGED <<pvars, used, repo, rows>>

PromotePrompt(w) ==
    /\ At(w, "promote") /\ Of(w) \in Prompts /\ Promote(w, Of(w))
    /\ Go(w, "promoting", cycle[w].out)
    /\ UNCHANGED <<used, repo, rows>>

Promoted(w) ==
    /\ At(w, "promoting") /\ ~Busy(w) /\ Go(w, "record", cycle[w].out)
    /\ UNCHANGED <<pvars, used, repo, rows>>

\* promote_code checks the tree of this moment again.
PromoteCode(w) ==
    /\ At(w, "promote") /\ Of(w) \in Code /\ tree \cap Bad = {}
    /\ recorded' = recorded \cup {Of(w)} /\ Go(w, "record", cycle[w].out)
    /\ UNCHANGED <<pvars, used, repo, row>>

-----------------------------------------------------------------------------
(***************************************************************************)
(* Record: every write is a transaction of its own and may fail alone.     *)
(***************************************************************************)
Dismiss(w) ==
    /\ At(w, "dismiss") /\ cycle' = [cycle EXCEPT ![w] = None]
    /\ \E new \in {row[Of(w)], "rejected"} : row' = [row EXCEPT ![Of(w)] = new]
    /\ UNCHANGED <<pvars, used, repo, recorded>>

RecordMutation(w) ==
    /\ At(w, "record") /\ Go(w, "status", cycle[w].out)
    /\ \E new \in {row[Of(w)], "generated"} : row' = [row EXCEPT ![Of(w)] = new]
    /\ UNCHANGED <<pvars, used, repo, recorded>>

\* update_mutation_status, for a row that was made.
UpdateStatus(w) ==
    /\ At(w, "status") /\ cycle' = [cycle EXCEPT ![w] = None]
    /\ \/ row[Of(w)] = "generated" /\ row' = [row EXCEPT ![Of(w)] = cycle[w].out]
       \/ UNCHANGED row
    /\ UNCHANGED <<pvars, used, repo, recorded>>

\* A worker dies in its cycle.
Crash(w) ==
    /\ cycle[w] # None /\ cycle' = [cycle EXCEPT ![w] = None]
    /\ IF Busy(w) THEN CrashHost(w) ELSE UNCHANGED pvars
    /\ UNCHANGED <<used, repo, rows>>

-----------------------------------------------------------------------------
CycleStep(w) ==
    \/ Analyze(w) \/ Try(w) \/ Compare(w)
    \/ ReadHead(w) \/ WriteFile(w) \/ Commit(w) \/ Verify(w) \/ RollBack(w)
    \/ SkipPromotion(w) \/ PromotePrompt(w) \/ Promoted(w) \/ PromoteCode(w)
    \/ Dismiss(w) \/ RecordMutation(w) \/ UpdateStatus(w) \/ Crash(w)

\* The optimizer measures and promotes guides of its own.
Optimize(h) ==
    /\ \/ \E n \in Nodes : Baseline(h, n)
       \/ \E c \in Guides \ Mutations : Measure(h, c) \/ Promote(h, c)
       \/ CrashHost(h)
    /\ UNCHANGED evars

\* What every host and every gate does about the pointer.
PromotionStep ==
    /\ \/ \E h \in Hosts : Canary(h) \/ WriteArtifact(h)
       \/ \E a \in Actors : Change(a)
       \/ \E g \in Gates : CurveGate(g)
    /\ UNCHANGED evars

Next ==
    \/ \E w \in Workers : CycleStep(w)
    \/ \E h \in Hosts \ Workers : Optimize(h)
    \/ PromotionStep

Spec == Init /\ [][Next]_vars

-----------------------------------------------------------------------------
(***************************************************************************)
(* Properties                                                              *)
(***************************************************************************)
Phases == {"try", "compare", "deploy", "write", "commit", "verify", "rollback", "promote",
           "promoting", "dismiss", "record", "status"}
Cycles == [mutation : Mutations, at : Phases, tries : 0..Attempts - 1,
           pre : SUBSET (SUBSET Mutations), out : Outcomes]

ASSUME NoCycleAssumption == None \notin Cycles

\* The type invariant of evolution: one cycle per mutation, and a worker is only
\* busy with a promotion in the phase that waits for it.
TypeOK ==
    /\ PTypeOK
    /\ used \subseteq Mutations /\ cycle \in [Workers -> Cycles \cup {None}]
    /\ \A w \in Workers : Busy(w) => At(w, "promoting")
    /\ \A w \in Workers : cycle[w] # None => Of(w) \in used
    /\ \A v, w \in Workers : v # w /\ cycle[v] # None /\ cycle[w] # None => Of(v) # Of(w)
    /\ head \subseteq Mutations /\ tree \subseteq Mutations /\ ungitted \subseteq Mutations
    /\ crowded \in BOOLEAN /\ recorded \subseteq Mutations
    /\ row \in [Mutations -> Outcomes \cup {"none", "generated"}]

InUse == UNION {{pointer[n].history[i] : i \in DOMAIN pointer[n].history} : n \in Nodes}

\* What the database says was rejected, rolled back or failed its verification was
\* never promoted, nor put up for review: not on the disk, and not about to be.
CondemnedNotPromoted ==
    \A m \in Mutations : row[m] \in Outcomes \ {"deployed"} =>
        /\ m \notin InUse \cup recorded
        /\ \A h \in Hosts : op[h] = None \/ op[h].guide # m
        /\ \A h \in Hosts : trial[h] = None \/ trial[h].guide # m

\* A row tells what is in the shadow repository, through failed git commands, failed
\* writes of rows and workers that die anywhere in a cycle: as long as two workers
\* are not at the repository at once, what was deployed is in HEAD until then, and
\* of what was rolled back nothing is left, neither committed nor in the tree.
RowsTellRepo ==
    ~crowded => \A m \in Mutations :
        /\ row[m] = "deployed" /\ m \notin ungitted => m \in head
        /\ row[m] = "rolled_back" => m \notin head \cup tree
=============================================================================
