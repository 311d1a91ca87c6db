------------------------------ MODULE Promotion -------------------------------
(***************************************************************************)
(* Live promotion of evolved prompt guidance (evolution/promote.py): the   *)
(* candidate a process tries out on golden goals, the versioned artifacts, *)
(* the pointer file every prompt is built from (graph/prompts/builder.py), *)
(* and the curve gate that rolls promotions back (evolution/curve_gate.py).*)
(*                                                                         *)
(* The pointer is one JSON file on a volume that the workers, the optimizer*)
(* sidecar and the scheduler share.  Each of them reads it, changes it in  *)
(* memory and writes the whole of it, with nothing to hold the others off; *)
(* a write empties the file first, and an empty file reads as no pointer.  *)
(***************************************************************************)
EXTENDS Naturals, Sequences, SequencesExt

CONSTANTS
    Nodes,          \* nodes whose prompts evolve
    Guides,         \* suffix lists with their provenance: what one version names
    Target,         \* the node of each
    Hosts,          \* processes that try guides out: workers and the optimizer
    Gates,          \* processes that run the curve gate
    Goals,          \* golden goals of a canary
    MaxHistory,     \* bound on the versions a node's history grows to
    Off,            \* no candidate bound
    Bare,           \* a candidate without suffixes: the optimizer's baseline
    None            \* no trial, no operation, no suffixes

Actors == Hosts \cup Gates

ASSUME PromotionAssumption ==
    /\ Target \in [Guides -> Nodes]
    /\ Hosts \cap Gates = {}
    /\ Goals \in Nat /\ MaxHistory \in Nat
    /\ Off \notin Guides /\ Bare \notin Guides /\ None \notin Guides
    /\ Off # Bare

VARIABLES
    pointer,    \* current.json: the history of each node and the suffixes it shows
    torn,       \* the file is empty: a write is under way or died
    artifacts,  \* version files written
    override,   \* _candidate_override of each host
    trial,      \* the canary each host runs
    op,         \* the change each actor makes to the pointer
    suspects,   \* nodes a gate has still to roll back
    proven      \* guides that passed a canary which ran with them (for the properties)

files  == <<pointer, torn, artifacts>>
pvars  == <<files, override, trial, op, suspects, proven>>

Entry(h, s) == [history |-> h, shown |-> s]
NoEntry == Entry(<<>>, None)
Empty == [n \in Nodes |-> NoEntry]

\* _read_pointer
OnDisk == IF torn THEN Empty ELSE pointer

\* evolved_suffixes_for_node in host h.
Served(h, n) ==
    CASE override[h][n] = Off  -> OnDisk[n].shown
      [] override[h][n] = Bare -> None
      [] OTHER                 -> override[h][n]

PInit ==
    /\ pointer = Empty /\ torn = FALSE /\ artifacts = {}
    /\ override = [h \in Hosts |-> [n \in Nodes |-> Off]]
    /\ trial = [h \in Hosts |-> None]
    /\ op = [a \in Actors |-> None]
    /\ suspects = [g \in Gates |-> {}]
    /\ proven = {}

-----------------------------------------------------------------------------
(***************************************************************************)
(* A trial: GoldenCanary.score, for a measurement or for promote.          *)
(***************************************************************************)
Busy(h) == trial[h] # None \/ op[h] # None

Trial(n, c, gated) ==
    [node |-> n, guide |-> c, gated |-> gated, left |-> Goals,
     scored |-> FALSE, failed |-> FALSE, honest |-> TRUE]

\* set_evolved_candidate
Begin(h, n, c, gated) ==
    /\ ~Busy(h) /\ (c # Bare => Target[c] = n)
    /\ trial' = [trial EXCEPT ![h] = Trial(n, c, gated)]
    /\ override' = [override EXCEPT ![h][n] = c]
    /\ UNCHANGED <<files, op, suspects, proven>>

\* honest: what was scored was built from the candidate.
Tried(h, result) ==
    LET t == trial[h]
    IN  [t EXCEPT
            !.left = @ - 1,
            !.scored = @ \/ result # "no score",
            !.failed = @ \/ result = "failed",
            !.honest = @ /\ (result # "no score" =>
                Served(h, t.node) = IF t.guide = Bare THEN None ELSE t.guide)]

\* One golden goal: its checks passed, one of them failed, or it gave no score
\* (timeout, error, checks off).
Goal(h) ==
    /\ trial[h] # None /\ trial[h].left > 0
    /\ \E result \in {"passed", "failed", "no score"} :
        trial' = [trial EXCEPT ![h] = Tried(h, result)]
    /\ UNCHANGED <<files, override, op, suspects, proven>>

Cleared(h) == [override EXCEPT ![h][trial[h].node] = Off]

\* The score: None without a scored goal, 0 with a failed one, else a mean that
\* may still miss eval_canary_min_score.
Passes(t) == t.scored /\ ~t.failed

\* The canary returns; promote goes on to _install with a score that passes.
EndTrial(h) ==
    /\ trial[h] # None /\ trial[h].left = 0
    /\ override' = Cleared(h)
    /\ trial' = [trial EXCEPT ![h] = None]
    /\ \/ UNCHANGED <<op, proven>>
       \/ /\ Passes(trial[h]) /\ trial[h].gated
          /\ op' = [op EXCEPT ![h] = [kind |-> "install", node |-> trial[h].node,
                                      guide |-> trial[h].guide, at |-> "artifact", read |-> Empty,
                                      mixed |-> FALSE]]
          /\ proven' = IF trial[h].honest /\ trial[h].scored THEN proven \cup {trial[h].guide} ELSE proven
    /\ UNCHANGED <<files, suspects>>

\* the candidate stays bound
M_Cancel(h) ==
    /\ trial[h] # None
    /\ trial' = [trial EXCEPT ![h] = None]
    /\ UNCHANGED <<files, override, op, suspects, proven>>

\* The run around the canary is cancelled; the finally of score still clears.
Cancel(h) ==
    /\ trial[h] # None
    /\ override' = Cleared(h)
    /\ trial' = [trial EXCEPT ![h] = None]
    /\ UNCHANGED <<files, op, suspects, proven>>

-----------------------------------------------------------------------------
(***************************************************************************)
(* Changes of the pointer.  _install writes the artifact, then reads the   *)
(* pointer; rollback reads the pointer; both end in _write_pointer.        *)
(***************************************************************************)
\* the pointer first, the artifact last
M_WriteArtifact(h) ==
    /\ op[h] # None /\ op[h].at = "artifact"
    /\ op' = [op EXCEPT ![h].at = "read"]
    /\ UNCHANGED <<files, override, trial, suspects, proven>>

WriteArtifact(h) ==
    /\ op[h] # None /\ op[h].at = "artifact"
    /\ artifacts' = artifacts \cup {op[h].guide}
    /\ op' = [op EXCEPT ![h].at = "read"]
    /\ UNCHANGED <<pointer, torn, override, trial, suspects, proven>>

\* A roll-back of a node without history ends here.
ReadPointer(a) ==
    /\ op[a] # None /\ op[a].at = "read"
    /\ LET h == OnDisk[op[a].node].history
       IN  IF op[a].kind = "rollback" /\ h = <<>>
           THEN op' = [op EXCEPT ![a] = None]
           ELSE op' = [op EXCEPT ![a] = [@ EXCEPT !.at = "write", !.read = OnDisk]]
    /\ UNCHANGED <<files, override, trial, suspects, proven>>

\* _install: re-promoting the last version does not grow the history.
Installed(e, c) ==
    Entry(IF e.history # <<>> /\ Last(e.history) = c THEN e.history ELSE Append(e.history, c), c)

\* rollback: the version before, with the suffixes of its artifact.
RolledBack(e) ==
    LET h == Front(e.history)
    IN  IF h = <<>> THEN NoEntry
        ELSE Entry(h, IF Last(h) \in artifacts THEN Last(h) ELSE None)

Written(a) ==
    LET n == op[a].node
        e == op[a].read[n]
    IN  [op[a].read EXCEPT ![n] =
            IF op[a].kind = "install" THEN Installed(e, op[a].guide) ELSE RolledBack(e)]

Truncate(a) ==
    /\ op[a] # None /\ op[a].at = "write"
    /\ op[a].kind = "install" => Len(op[a].read[op[a].node].history) < MaxHistory
    /\ torn' = TRUE
    /\ op' = [op EXCEPT ![a].at = "writing"]
    /\ UNCHANGED <<pointer, artifacts, override, trial, suspects, proven>>

\* Over the text of another writer that came after the truncation: a shorter text
\* leaves the end of the longer one, and the file reads as no pointer.
WritePointer(a) ==
    /\ op[a] # None /\ op[a].at = "writing"
    /\ pointer' = Written(a)
    /\ torn' \in {FALSE, op[a].mixed}
    /\ op' = [b \in Actors |->
                IF b = a THEN None
                ELSE IF op[b] # None /\ op[b].at = "writing" THEN [op[b] EXCEPT !.mixed = TRUE]
                ELSE op[b]]
    /\ UNCHANGED <<artifacts, override, trial, suspects, proven>>

\* CurveRegressionGate.run: the curve regressed; the suspects are the active nodes
\* promoted within the lookback, and are rolled back one after the other.
Regressed(g) ==
    /\ op[g] = None /\ suspects[g] = {}
    /\ \E S \in SUBSET {n \in Nodes : OnDisk[n].history # <<>>} :
        S # {} /\ suspects' = [suspects EXCEPT ![g] = S]
    /\ UNCHANGED <<files, override, trial, op, proven>>

Rollback(g) ==
    /\ op[g] = None
    /\ \E n \in suspects[g] :
        /\ suspects' = [suspects EXCEPT ![g] = @ \ {n}]
        /\ op' = [op EXCEPT ![g] = [kind |-> "rollback", node |-> n, guide |-> None,
                                    at |-> "read", read |-> Empty, mixed |-> FALSE]]
    /\ UNCHANGED <<files, override, trial, proven>>

\* A process dies: its override with it, and the file as it left it.
CrashHost(h) ==
    /\ Busy(h)
    /\ override' = [override EXCEPT ![h] = [n \in Nodes |-> Off]]
    /\ trial' = [trial EXCEPT ![h] = None] /\ op' = [op EXCEPT ![h] = None]
    /\ UNCHANGED <<files, suspects, proven>>

CrashGate(g) ==
    /\ op[g] # None \/ suspects[g] # {}
    /\ suspects' = [suspects EXCEPT ![g] = {}] /\ op' = [op EXCEPT ![g] = None]
    /\ UNCHANGED <<files, override, trial, proven>>

-----------------------------------------------------------------------------
Canary(h) == Goal(h) \/ EndTrial(h) \/ Cancel(h)
Change(a) == ReadPointer(a) \/ Truncate(a) \/ WritePointer(a)
CurveGate(g) == Regressed(g) \/ Rollback(g) \/ CrashGate(g)

\* What the optimizer measures before it promotes: the baseline and its candidate.
Baseline(h, n) == Begin(h, n, Bare, FALSE)
Measure(h, c) == Begin(h, Target[c], c, FALSE)

Promote(h, c) == Begin(h, Target[c], c, TRUE)

PNext ==
    \/ \E h \in Hosts : \/ \E n \in Nodes : Baseline(h, n)
                        \/ \E c \in Guides : Measure(h, c) \/ Promote(h, c)
                        \/ Canary(h) \/ WriteArtifact(h) \/ CrashHost(h)
    \/ \E a \in Actors : Change(a)
    \/ \E g \in Gates : CurveGate(g)

PSpec == PInit /\ [][PNext]_pvars

-----------------------------------------------------------------------------
(***************************************************************************)
(* Properties                                                              *)
(***************************************************************************)
Candidates == Guides \cup {Off, Bare}
Entries == [history : Seq(Guides), shown : Guides \cup {None}]
Trials == [node : Nodes, guide : Guides \cup {Bare}, gated : BOOLEAN, left : 0..Goals,
           scored : BOOLEAN, failed : BOOLEAN, honest : BOOLEAN]
Operations == [kind : {"install", "rollback"}, node : Nodes, guide : Guides \cup {None},
               at : {"artifact", "read", "write", "writing"}, read : [Nodes -> Entries],
               mixed : BOOLEAN]

ASSUME NothingAssumption == None \notin Trials /\ None \notin Operations

\* The type invariant of the promotion files and of who works on them.
PTypeOK ==
    /\ pointer \in [Nodes -> Entries] /\ torn \in BOOLEAN /\ artifacts \subseteq Guides
    /\ override \in [Hosts -> [Nodes -> Candidates]]
    /\ trial \in [Hosts -> Trials \cup {None}]
    /\ op \in [Actors -> Operations \cup {None}]
    /\ suspects \in [Gates -> SUBSET Nodes] /\ proven \subseteq Guides
    /\ \A h \in Hosts : trial[h] = None \/ op[h] = None

\* "Only on a passing canary score" (promote): whatever processes promote, roll
\* back, are cancelled or die, the guidance a prompt is built from is what some
\* canary measured and passed - but for the candidate's own node in the process
\* that is measuring it.
ServedProven ==
    \A h \in Hosts : \A n \in Nodes :
        \/ Served(h, n) \in proven \cup {None}
        \/ trial[h] # None /\ trial[h].node = n

\* The history can be rolled back: the file shows the last version of each node's
\* history, and every version it may be rolled back to has its artifact, so that a
\* roll-back restores that guidance and never falls back to an empty list.
EntryWhole ==
    \A n \in Nodes :
        LET e == pointer[n]
        IN  /\ e.shown = IF e.history = <<>> THEN None ELSE Last(e.history)
            /\ \A i \in DOMAIN e.history : e.history[i] \in artifacts /\ Target[e.history[i]] = n
=============================================================================
