---------------------------- MODULE EvolutionProofs ----------------------------
(***************************************************************************)
(* Proofs about Promotion and Evolution, for every number of workers,      *)
(* optimizers, gates, nodes and mutations.                                 *)
(***************************************************************************)
EXTENDS Evolution, TLAPS

-----------------------------------------------------------------------------
(***************************************************************************)
(* Pointer files.  K: the guides that are proven and whose artifact is     *)
(* written.  Whatever an actor has read or is about to write is whole in   *)
(* this sense, and stays so as K grows.                                    *)
(***************************************************************************)
WholeEntry(e, n, K) ==
    /\ e \in Entries
    /\ e.shown = IF e.history = <<>> THEN None ELSE e.history[Len(e.history)]
    /\ \A i \in DOMAIN e.history : e.history[i] \in K /\ Target[e.history[i]] = n

Whole(f, K) == f \in [Nodes -> Entries] /\ \A n \in Nodes : WholeEntry(f[n], n, K)

LEMMA EntryFields ==
    ASSUME NEW h \in Seq(Guides), NEW s \in Guides \cup {None}
    PROVE  Entry(h, s) \in Entries /\ Entry(h, s).history = h /\ Entry(h, s).shown = s
BY DEF Entry, Entries

LEMMA WholeMonotone ==
    ASSUME NEW f, NEW K, NEW L, Whole(f, K), K \subseteq L
    PROVE  Whole(f, L)
BY DEF Whole, WholeEntry

LEMMA NoEntryWhole ==
    ASSUME NEW n \in Nodes, NEW K
    PROVE  WholeEntry(NoEntry, n, K)
<1>1. <<>> \in Seq(Guides) /\ DOMAIN <<>> = {}
  OBVIOUS
<1>2. NoEntry \in Entries /\ NoEntry.history = <<>> /\ NoEntry.shown = None
  BY <1>1, EntryFields DEF NoEntry
<1> QED  BY <1>1, <1>2 DEF WholeEntry

LEMMA EmptyWhole ==
    ASSUME NEW K
    PROVE  Whole(Empty, K)
<1>1. \A n \in Nodes : Empty[n] = NoEntry
  BY DEF Empty
<1>2. Empty \in [Nodes -> Entries]
  <2>1. \A n \in Nodes : NoEntry \in Entries
    BY NoEntryWhole DEF WholeEntry
  <2> QED  BY <2>1 DEF Empty
<1> QED  BY <1>1, <1>2, NoEntryWhole DEF Whole

\* An install keeps the entry whole.
LEMMA InstalledWhole ==
    ASSUME NEW n \in Nodes, NEW K, NEW e, WholeEntry(e, n, K),
           NEW c \in Guides, c \in K, Target[c] = n
    PROVE  WholeEntry(Installed(e, c), n, K)
<1> DEFINE h == e.history
           g == IF h # <<>> /\ Last(h) = c THEN h ELSE Append(h, c)
<1>1. h \in Seq(Guides)
  BY DEF WholeEntry, Entries
<1>2. \A i \in DOMAIN h : h[i] \in K /\ Target[h[i]] = n
  BY DEF WholeEntry
<1>3. /\ g \in Seq(Guides) /\ g # <<>> /\ g[Len(g)] = c
      /\ \A i \in DOMAIN g : g[i] \in K /\ Target[g[i]] = n
  <2> HIDE DEF h
  <2>1. CASE h # <<>> /\ Last(h) = c
    BY <1>1, <1>2, <2>1 DEF Last
  <2>2. CASE ~(h # <<>> /\ Last(h) = c)
    <3>1. g = Append(h, c)
      BY <2>2
    <3>2. Append(h, c) \in Seq(Guides) /\ Append(h, c) # <<>>
          /\ Len(Append(h, c)) = Len(h) + 1 /\ Append(h, c)[Len(h) + 1] = c
          /\ \A i \in 1..Len(h) : Append(h, c)[i] = h[i]
      BY <1>1
    <3>3. DOMAIN Append(h, c) = 1..(Len(h) + 1) /\ DOMAIN h = 1..Len(h) /\ Len(h) \in Nat
      BY <1>1, <3>2
    <3>4. ASSUME NEW i \in 1..(Len(h) + 1)
          PROVE  Append(h, c)[i] \in K /\ Target[Append(h, c)[i]] = n
      <4>1. i \in 1..Len(h) \/ i = Len(h) + 1
        BY <3>3
      <4> QED  BY <4>1, <3>2, <3>3, <1>2
    <3> QED  BY <3>1, <3>2, <3>3, <3>4
  <2> QED  BY <2>1, <2>2
<1>4. Installed(e, c) = Entry(g, c)
  BY DEF Installed
<1> HIDE DEF g, h
<1>5. /\ Installed(e, c) \in Entries
      /\ Installed(e, c).history = g /\ Installed(e, c).shown = c
  BY <1>3, <1>4, EntryFields
<1> QED  BY <1>3, <1>5 DEF WholeEntry

\* A roll-back restores the version before, with its suffixes.
LEMMA RolledBackWhole ==
    ASSUME NEW n \in Nodes, NEW K, K \subseteq artifacts, NEW e, WholeEntry(e, n, K),
           e.history # <<>>
    PROVE  WholeEntry(RolledBack(e), n, K)
<1> DEFINE h == e.history
           g == Front(h)
<1>1. h \in Seq(Guides) /\ h # <<>>
  BY DEF WholeEntry, Entries
<1>2. \A i \in DOMAIN h : h[i] \in K /\ Target[h[i]] = n
  BY DEF WholeEntry
<1> HIDE DEF h
<1>3. Len(h) \in Nat /\ Len(h) > 0 /\ DOMAIN h = 1..Len(h)
  BY <1>1
<1>4. /\ g \in Seq(Guides) /\ Len(g) = Len(h) - 1 /\ DOMAIN g = 1..(Len(h) - 1)
      /\ \A i \in 1..(Len(h) - 1) : g[i] = h[i]
  BY <1>1, <1>3 DEF Front
<1>5. \A i \in DOMAIN g : g[i] \in K /\ Target[g[i]] = n
  <2>1. ASSUME NEW i \in 1..(Len(h) - 1)  PROVE  i \in 1..Len(h)
    BY <1>3
  <2> QED  BY <1>2, <1>3, <1>4, <2>1
<1> HIDE DEF g
<1>6. CASE g = <<>>
  <2>1. RolledBack(e) = NoEntry
    BY <1>6 DEF RolledBack, g, h
  <2> QED  BY <2>1, NoEntryWhole
<1>7. CASE g # <<>>
  <2>1. Len(g) \in DOMAIN g
    BY <1>4, <1>7
  <2>2. g[Len(g)] \in artifacts /\ g[Len(g)] \in Guides
    BY <1>4, <1>5, <2>1
  <2>3. Last(g) = g[Len(g)]
    BY DEF Last
  <2>4. RolledBack(e) = Entry(g, g[Len(g)])
    BY <1>7, <2>2, <2>3 DEF RolledBack, g, h
  <2>5. /\ RolledBack(e) \in Entries
        /\ RolledBack(e).history = g /\ RolledBack(e).shown = g[Len(g)]
    BY <1>4, <2>2, <2>4, EntryFields
  <2> QED  BY <1>5, <1>7, <2>5 DEF WholeEntry
<1> QED  BY <1>6, <1>7

-----------------------------------------------------------------------------
(***************************************************************************)
(* The invariant of Promotion.  A trial has its candidate bound, nothing   *)
(* else has; an install carries a guide that its trial proved; whatever an *)
(* actor has read is whole.                                                *)
(***************************************************************************)
WholeOp(o, A, P) ==
    /\ Whole(o.read, A \cap P)
    /\ o.kind = "install" => /\ o.guide \in P /\ Target[o.guide] = o.node
                             /\ o.at # "artifact" => o.guide \in A
    /\ o.kind = "rollback" =>
        o.at # "artifact" /\ (o.at # "read" => o.read[o.node].history # <<>>)

BoundTrial(t, b) ==
    /\ t.honest /\ b[t.node] = t.guide
    /\ t.guide = Bare \/ Target[t.guide] = t.node
    /\ t.gated => t.guide # Bare

FilesWhole ==
    /\ Whole(pointer, artifacts \cap proven)
    /\ \A a \in Actors : op[a] # None => WholeOp(op[a], artifacts, proven)

TrialsBound ==
    \A h \in Hosts :
        /\ \A n \in Nodes : override[h][n] # Off => trial[h] # None /\ trial[h].node = n
        /\ trial[h] # None => BoundTrial(trial[h], override[h])

PInv == PTypeOK /\ FilesWhole /\ TrialsBound

LEMMA WholeOpMonotone ==
    ASSUME NEW o, NEW A, NEW P, NEW B, NEW Q, WholeOp(o, A, P), A \subseteq B, P \subseteq Q
    PROVE  WholeOp(o, B, Q)
<1>1. Whole(o.read, B \cap Q)
  <2>1. A \cap P \subseteq B \cap Q
    OBVIOUS
  <2> QED  BY <2>1, WholeMonotone DEF WholeOp
<1> QED  BY <1>1 DEF WholeOp

LEMMA PInitInv == PInit => PInv
<1> SUFFICES ASSUME PInit  PROVE  PInv
  OBVIOUS
<1>1. Whole(Empty, artifacts \cap proven)
  BY EmptyWhole
<1>2. Empty \in [Nodes -> Entries]
  BY <1>1 DEF Whole
<1>3. PTypeOK
  BY <1>2 DEF PInit, PTypeOK, Candidates
<1>4. FilesWhole
  BY <1>1 DEF PInit, FilesWhole
<1>5. TrialsBound
  BY DEF PInit, TrialsBound
<1> QED  BY <1>3, <1>4, <1>5 DEF PInv

\* A step that leaves the files and the operations alone, or lets K grow only.
LEMMA FilesKept ==
    ASSUME FilesWhole, UNCHANGED <<pointer, op>>,
           artifacts \subseteq artifacts', proven \subseteq proven'
    PROVE  FilesWhole'
<1>1. artifacts \cap proven \subseteq artifacts' \cap proven'
  OBVIOUS
<1>2. Whole(pointer, artifacts' \cap proven')
  BY <1>1, WholeMonotone DEF FilesWhole
<1>3. \A a \in Actors : op[a] # None => WholeOp(op[a], artifacts', proven')
  BY WholeOpMonotone DEF FilesWhole
<1> QED  BY <1>2, <1>3 DEF FilesWhole

LEMMA BeginInv ==
    ASSUME PInv, NEW h \in Hosts, NEW n \in Nodes, NEW c \in Guides \cup {Bare}, NEW g \in BOOLEAN,
           g => c # Bare, Begin(h, n, c, g)
    PROVE  PInv'
<1> USE PromotionAssumption
<1> DEFINE t == Trial(n, c, g)
<1>1. t \in Trials /\ t # None
  <2>1. Goals \in 0..Goals
    OBVIOUS
  <2>2. Trial(n, c, g) \in Trials
    BY <2>1 DEF Trial, Trials
  <2> QED  BY <2>2, NothingAssumption
<1>2. t.node = n /\ t.guide = c /\ t.gated = g /\ t.honest = TRUE
  BY DEF Trial
<1> HIDE DEF t
<1>3. /\ trial' = [trial EXCEPT ![h] = t] /\ override' = [override EXCEPT ![h][n] = c]
      /\ UNCHANGED <<pointer, torn, artifacts, op, suspects, proven>>
      /\ trial[h] = None /\ op[h] = None /\ (c # Bare => Target[c] = n)
  BY DEF Begin, Busy, files, t
<1>4. /\ trial'[h] = t /\ override'[h] = [override[h] EXCEPT ![n] = c]
      /\ \A k \in Hosts : k # h => trial'[k] = trial[k] /\ override'[k] = override[k]
  BY <1>3 DEF PInv, PTypeOK
<1>5. PTypeOK'
  <2>1. override' \in [Hosts -> [Nodes -> Candidates]]
    BY <1>3 DEF PInv, PTypeOK, Candidates
  <2>2. trial' \in [Hosts -> Trials \cup {None}]
    BY <1>1, <1>3 DEF PInv, PTypeOK
  <2> QED  BY <1>3, <1>4, <2>1, <2>2 DEF PInv, PTypeOK
<1>6. FilesWhole'
  BY <1>3, FilesKept DEF PInv
<1>7. TrialsBound'
  <2> SUFFICES ASSUME NEW k \in Hosts
               PROVE  /\ \A m \in Nodes : override'[k][m] # Off => trial'[k] # None /\ trial'[k].node = m
                      /\ trial'[k] # None => BoundTrial(trial'[k], override'[k])
    BY DEF TrialsBound
  <2>1. CASE k # h
    BY <1>4, <2>1 DEF PInv, TrialsBound
  <2>2. CASE k = h
    <3>1. \A m \in Nodes : override[h][m] = Off
      BY <1>3 DEF PInv, TrialsBound
    <3>2. override[h] \in [Nodes -> Candidates]
      BY DEF PInv, PTypeOK
    <3> QED  BY <1>1, <1>2, <1>3, <1>4, <2>2, <3>1, <3>2 DEF BoundTrial
  <2> QED  BY <2>1, <2>2
<1> QED  BY <1>5, <1>6, <1>7 DEF PInv

LEMMA OneLess ==
    ASSUME NEW k \in 0..Goals, k > 0
    PROVE  k - 1 \in 0..Goals
BY PromotionAssumption

LEMMA GoalInv ==
    ASSUME PInv, NEW h \in Hosts, Goal(h)
    PROVE  PInv'
<1> USE PromotionAssumption
<1>1. PICK result \in {"passed", "failed", "no score"} :
        trial' = [trial EXCEPT ![h] = Tried(h, result)]
  BY DEF Goal
<1>2. trial[h] \in Trials /\ trial[h] # None /\ trial[h].left > 0
  BY DEF Goal, PInv, PTypeOK
<1>3. BoundTrial(trial[h], override[h])
  BY <1>2 DEF PInv, TrialsBound
<1>4. Served(h, trial[h].node) = IF trial[h].guide = Bare THEN None ELSE trial[h].guide
  <2>1. trial[h].guide \in Guides \cup {Bare}
    BY <1>2 DEF Trials
  <2> QED  BY <1>3, <2>1 DEF BoundTrial, Served
<1> DEFINE t == Tried(h, result)
<1>5. /\ t \in Trials /\ t.node = trial[h].node /\ t.guide = trial[h].guide
      /\ t.gated = trial[h].gated /\ t.honest
  <2>1. trial[h].left - 1 \in 0..Goals
    <3>1. trial[h].left \in 0..Goals
      BY <1>2 DEF Trials
    <3> QED  BY <1>2, <3>1, OneLess
  <2>2. t = [trial[h] EXCEPT
            !.left = @ - 1,
            !.scored = @ \/ result # "no score",
            !.failed = @ \/ result = "failed",
            !.honest = TRUE]
    BY <1>2, <1>3, <1>4 DEF BoundTrial, Trials, Tried
  <2> HIDE DEF t
  <2> QED  BY <1>2, <2>1, <2>2 DEF Trials
<1>6. UNCHANGED <<pointer, torn, artifacts, override, op, suspects, proven>>
  BY DEF Goal, files
<1> HIDE DEF t
<1>7. /\ trial' = [trial EXCEPT ![h] = t] /\ trial'[h] = t
      /\ \A k \in Hosts : k # h => trial'[k] = trial[k]
      /\ trial' \in [Hosts -> Trials \cup {None}]
  BY <1>1, <1>5 DEF PInv, PTypeOK, t
<1>8. op[h] = None
  BY <1>2 DEF PInv, PTypeOK
<1>9. PTypeOK'
  BY <1>5, <1>6, <1>7, <1>8 DEF PInv, PTypeOK
<1>10. FilesWhole'
  BY <1>6, FilesKept DEF PInv
<1>11. TrialsBound'
  <2> SUFFICES ASSUME NEW k \in Hosts
               PROVE  /\ \A m \in Nodes : override'[k][m] # Off => trial'[k] # None /\ trial'[k].node = m
                      /\ trial'[k] # None => BoundTrial(trial'[k], override'[k])
    BY DEF TrialsBound
  <2>1. CASE k # h
    BY <1>6, <1>7, <2>1 DEF PInv, TrialsBound
  <2>2. CASE k = h
    <3>1. t # None
      BY <1>5, NothingAssumption
    <3>2. BoundTrial(t, override[h])
      BY <1>3, <1>5 DEF BoundTrial
    <3> QED  BY <1>5, <1>6, <1>7, <2>2, <3>1, <3>2 DEF PInv, TrialsBound
  <2> QED  BY <2>1, <2>2
<1> QED  BY <1>9, <1>10, <1>11 DEF PInv

\* The trial of h is over, and its candidate is bound no longer.
LEMMA TrialOver ==
    ASSUME PInv, NEW h \in Hosts, trial[h] # None,
           override' = Cleared(h), trial' = [trial EXCEPT ![h] = None]
    PROVE  /\ override' \in [Hosts -> [Nodes -> Candidates]]
           /\ trial' \in [Hosts -> Trials \cup {None}] /\ trial'[h] = None
           /\ \A k \in Hosts : k # h => trial'[k] = trial[k] /\ override'[k] = override[k]
           /\ TrialsBound'
<1>1. trial[h].node \in Nodes
  BY DEF PInv, PTypeOK, Trials
<1>2. /\ override'[h] = [override[h] EXCEPT ![trial[h].node] = Off] /\ trial'[h] = None
      /\ \A k \in Hosts : k # h => trial'[k] = trial[k] /\ override'[k] = override[k]
  BY <1>1 DEF PInv, PTypeOK, Cleared
<1>3. override' \in [Hosts -> [Nodes -> Candidates]]
  BY <1>1 DEF PInv, PTypeOK, Cleared, Candidates
<1>4. trial' \in [Hosts -> Trials \cup {None}]
  BY DEF PInv, PTypeOK
<1>5. TrialsBound'
  <2> SUFFICES ASSUME NEW k \in Hosts
               PROVE  /\ \A m \in Nodes : override'[k][m] # Off => trial'[k] # None /\ trial'[k].node = m
                      /\ trial'[k] # None => BoundTrial(trial'[k], override'[k])
    BY DEF TrialsBound
  <2>1. CASE k # h
    BY <1>2, <2>1 DEF PInv, TrialsBound
  <2>2. CASE k = h
    <3>1. override[h] \in [Nodes -> Candidates]
      BY DEF PInv, PTypeOK
    <3>2. \A m \in Nodes : m # trial[h].node => override[h][m] = Off
      BY DEF PInv, TrialsBound
    <3> QED  BY <1>1, <1>2, <2>2, <3>1, <3>2
  <2> QED  BY <2>1, <2>2
<1> QED  BY <1>2, <1>3, <1>4, <1>5

LEMMA EndTrialInv ==
    ASSUME PInv, NEW h \in Hosts, EndTrial(h)
    PROVE  PInv'
<1> USE PromotionAssumption
<1>1. /\ trial[h] # None /\ override' = Cleared(h) /\ trial' = [trial EXCEPT ![h] = None]
      /\ UNCHANGED <<pointer, torn, artifacts, suspects>>
  BY DEF EndTrial, files
<1>2. /\ override' \in [Hosts -> [Nodes -> Candidates]]
      /\ trial' \in [Hosts -> Trials \cup {None}] /\ trial'[h] = None
      /\ \A k \in Hosts : k # h => trial'[k] = trial[k] /\ override'[k] = override[k]
      /\ TrialsBound'
  BY <1>1, TrialOver
<1>3. CASE UNCHANGED <<op, proven>>
  <2>1. FilesWhole'
    BY <1>1, <1>3, FilesKept DEF PInv
  <2>2. PTypeOK'
    BY <1>1, <1>2, <1>3 DEF PInv, PTypeOK
  <2> QED  BY <1>2, <2>1, <2>2 DEF PInv
<1>4. CASE /\ Passes(trial[h]) /\ trial[h].gated
           /\ op' = [op EXCEPT ![h] = [kind |-> "install", node |-> trial[h].node,
                                       guide |-> trial[h].guide, at |-> "artifact", read |-> Empty,
                                       mixed |-> FALSE]]
           /\ proven' = IF trial[h].honest /\ trial[h].scored THEN proven \cup {trial[h].guide} ELSE proven
  <2> DEFINE o == [kind |-> "install", node |-> trial[h].node,
                   guide |-> trial[h].guide, at |-> "artifact", read |-> Empty, mixed |-> FALSE]
  <2>1. trial[h] \in Trials /\ BoundTrial(trial[h], override[h])
    BY <1>1 DEF PInv, PTypeOK, TrialsBound
  <2>2. proven' = proven \cup {trial[h].guide} /\ trial[h].guide \in Guides
    BY <1>4, <2>1 DEF BoundTrial, Passes, Trials
  <2>3. Whole(Empty, artifacts' \cap proven')
    BY EmptyWhole
  <2>4. o \in Operations
    BY <2>1, <2>2, <2>3 DEF Operations, Trials, Whole
  <2>5. WholeOp(o, artifacts', proven')
    BY <2>1, <2>2, <2>3, <1>4 DEF WholeOp, BoundTrial
  <2>6. op' = [op EXCEPT ![h] = o]
    BY <1>4
  <2> HIDE DEF o
  <2>7. op'[h] = o /\ (\A a \in Actors : a # h => op'[a] = op[a])
        /\ op' \in [Actors -> Operations \cup {None}]
    BY <2>4, <2>6 DEF PInv, PTypeOK, Actors
  <2>8. PTypeOK'
    <3>1. \A k \in Hosts : trial'[k] = None \/ op'[k] = None
      BY <1>2, <2>7 DEF PInv, PTypeOK, Actors
    <3> QED  BY <1>1, <1>2, <2>2, <2>7, <3>1 DEF PInv, PTypeOK
  <2>9. FilesWhole'
    <3>1. artifacts \cap proven \subseteq artifacts' \cap proven' /\ proven \subseteq proven'
          /\ artifacts \subseteq artifacts' /\ pointer' = pointer
      BY <1>1, <2>2
    <3>2. Whole(pointer', artifacts' \cap proven')
      BY <3>1, WholeMonotone DEF PInv, FilesWhole
    <3>3. ASSUME NEW a \in Actors, op'[a] # None
          PROVE  WholeOp(op'[a], artifacts', proven')
      <4>1. CASE a = h
        BY <4>1, <2>5, <2>7
      <4>2. CASE a # h
        <5>1. WholeOp(op[a], artifacts, proven) /\ op'[a] = op[a]
          BY <3>3, <4>2, <2>7 DEF PInv, FilesWhole
        <5> QED  BY <5>1, <3>1, WholeOpMonotone
      <4> QED  BY <4>1, <4>2
    <3> QED  BY <3>2, <3>3 DEF FilesWhole
  <2> QED  BY <1>2, <2>8, <2>9 DEF PInv
<1> QED  BY <1>3, <1>4 DEF EndTrial

LEMMA CancelInv ==
    ASSUME PInv, NEW h \in Hosts, Cancel(h)
    PROVE  PInv'
<1>1. /\ trial[h] # None /\ override' = Cleared(h) /\ trial' = [trial EXCEPT ![h] = None]
      /\ UNCHANGED <<pointer, torn, artifacts, op, suspects, proven>>
  BY DEF Cancel, files
<1>2. /\ override' \in [Hosts -> [Nodes -> Candidates]]
      /\ trial' \in [Hosts -> Trials \cup {None}] /\ trial'[h] = None
      /\ \A k \in Hosts : k # h => trial'[k] = trial[k] /\ override'[k] = override[k]
      /\ TrialsBound'
  BY <1>1, TrialOver
<1>3. FilesWhole'
  BY <1>1, FilesKept DEF PInv
<1>4. PTypeOK'
  BY <1>1, <1>2 DEF PInv, PTypeOK
<1> QED  BY <1>2, <1>3, <1>4 DEF PInv

-----------------------------------------------------------------------------
(***************************************************************************)
(* Steps of an operation: op[a] becomes o, or the operation ends.          *)
(***************************************************************************)
LEMMA OpStep ==
    ASSUME PInv, NEW a \in Actors, NEW o \in Operations, op[a] # None,
           op' = [op EXCEPT ![a] = o], WholeOp(o, artifacts', proven),
           UNCHANGED <<pointer, override, trial, suspects, proven>>,
           artifacts \subseteq artifacts', artifacts' \subseteq Guides, torn' \in BOOLEAN
    PROVE  PInv'
<1>1. op'[a] = o /\ (\A b \in Actors : b # a => op'[b] = op[b])
      /\ op' \in [Actors -> Operations \cup {None}]
  BY DEF PInv, PTypeOK
<1>2. PTypeOK'
  <2>1. \A h \in Hosts : trial'[h] = None \/ op'[h] = None
    BY <1>1 DEF PInv, PTypeOK, Actors
  <2> QED  BY <1>1, <2>1 DEF PInv, PTypeOK
<1>3. FilesWhole'
  <2>1. artifacts \cap proven \subseteq artifacts' \cap proven'
    OBVIOUS
  <2>2. Whole(pointer', artifacts' \cap proven')
    BY <2>1, WholeMonotone DEF PInv, FilesWhole
  <2>3. ASSUME NEW b \in Actors, op'[b] # None
        PROVE  WholeOp(op'[b], artifacts', proven')
    <3>1. CASE b = a
      BY <1>1, <3>1
    <3>2. CASE b # a
      <4>1. WholeOp(op[b], artifacts, proven) /\ op'[b] = op[b]
        BY <1>1, <2>3, <3>2 DEF PInv, FilesWhole
      <4> QED  BY <4>1, WholeOpMonotone
    <3> QED  BY <3>1, <3>2
  <2> QED  BY <2>2, <2>3 DEF FilesWhole
<1>4. TrialsBound'
  BY DEF PInv, TrialsBound
<1> QED  BY <1>2, <1>3, <1>4 DEF PInv

LEMMA WriteArtifactInv ==
    ASSUME PInv, NEW h \in Hosts, WriteArtifact(h)
    PROVE  PInv'
<1> DEFINE o == [op[h] EXCEPT !.at = "read"]
<1>1. h \in Actors /\ op[h] \in Operations /\ op[h] # None /\ WholeOp(op[h], artifacts, proven)
  BY DEF WriteArtifact, PInv, PTypeOK, FilesWhole, Actors
<1>2. op[h].kind = "install" /\ op[h].guide \in Guides
  BY <1>1 DEF WriteArtifact, WholeOp, Operations, PInv, PTypeOK
<1>3. /\ artifacts' = artifacts \cup {op[h].guide}
      /\ UNCHANGED <<pointer, override, trial, suspects, proven>> /\ torn' \in BOOLEAN
  BY DEF WriteArtifact, PInv, PTypeOK
<1>4. op' = [op EXCEPT ![h] = o]
  BY <1>1 DEF WriteArtifact, PInv, PTypeOK
<1>5. o \in Operations
  BY <1>1 DEF Operations
<1>6. WholeOp(o, artifacts', proven)
  <2>1. WholeOp(op[h], artifacts', proven)
    BY <1>1, <1>3, WholeOpMonotone
  <2>2. /\ o.read = op[h].read /\ o.kind = op[h].kind /\ o.guide = op[h].guide
        /\ o.node = op[h].node
    BY <1>1 DEF Operations
  <2> HIDE DEF o
  <2> QED  BY <1>2, <1>3, <2>1, <2>2 DEF WholeOp
<1> HIDE DEF o
<1>7. artifacts \subseteq artifacts' /\ artifacts' \subseteq Guides
  BY <1>2, <1>3 DEF PInv, PTypeOK
<1> QED  BY <1>1, <1>3, <1>4, <1>5, <1>6, <1>7, OpStep

LEMMA OnDiskWhole ==
    ASSUME PInv
    PROVE  Whole(OnDisk, artifacts \cap proven)
BY EmptyWhole DEF OnDisk, PInv, FilesWhole

\* An operation ends, and the files stay as they are.
LEMMA OpEnds ==
    ASSUME PInv, NEW a \in Actors, op' = [op EXCEPT ![a] = None],
           UNCHANGED <<pointer, torn, artifacts, override, trial, proven>>,
           suspects' \in [Gates -> SUBSET Nodes]
    PROVE  PInv'
<1>1. op'[a] = None /\ (\A b \in Actors : b # a => op'[b] = op[b])
      /\ op' \in [Actors -> Operations \cup {None}]
  BY DEF PInv, PTypeOK
<1>2. PTypeOK'
  <2>1. \A h \in Hosts : trial'[h] = None \/ op'[h] = None
    BY <1>1 DEF PInv, PTypeOK, Actors
  <2> QED  BY <1>1, <2>1 DEF PInv, PTypeOK
<1>3. FilesWhole'
  BY <1>1 DEF PInv, FilesWhole
<1>4. TrialsBound'
  BY DEF PInv, TrialsBound
<1> QED  BY <1>2, <1>3, <1>4 DEF PInv

LEMMA ReadPointerInv ==
    ASSUME PInv, NEW a \in Actors, ReadPointer(a)
    PROVE  PInv'
<1> DEFINE h == OnDisk[op[a].node].history
           o == [op[a] EXCEPT !.at = "write", !.read = OnDisk]
<1>1. op[a] \in Operations /\ op[a] # None /\ op[a].at = "read" /\ WholeOp(op[a], artifacts, proven)
  BY DEF ReadPointer, PInv, PTypeOK, FilesWhole
<1>2. UNCHANGED <<pointer, torn, artifacts, override, trial, suspects, proven>>
  BY DEF ReadPointer, files
<1>3. CASE op[a].kind = "rollback" /\ h = <<>>
  <2>1. op' = [op EXCEPT ![a] = None]
    BY <1>3 DEF ReadPointer
  <2> QED  BY <1>2, <2>1, OpEnds DEF PInv, PTypeOK
<1>4. CASE ~(op[a].kind = "rollback" /\ h = <<>>)
  <2>1. op' = [op EXCEPT ![a] = o]
    BY <1>4 DEF ReadPointer, PInv, PTypeOK
  <2>2. Whole(OnDisk, artifacts \cap proven)
    BY OnDiskWhole
  <2>3. /\ o \in Operations /\ o.read = OnDisk /\ o.kind = op[a].kind /\ o.guide = op[a].guide
        /\ o.node = op[a].node /\ o.at = "write"
    BY <1>1, <2>2 DEF Operations, Whole
  <2> HIDE DEF o
  <2>4. WholeOp(o, artifacts', proven)
    BY <1>1, <1>2, <1>4, <2>2, <2>3 DEF WholeOp
  <2>5. artifacts' \subseteq Guides /\ torn' \in BOOLEAN
    BY <1>2 DEF PInv, PTypeOK
  <2> QED  BY <1>1, <1>2, <2>1, <2>3, <2>4, <2>5, OpStep
<1> QED  BY <1>3, <1>4

LEMMA TruncateInv ==
    ASSUME PInv, NEW a \in Actors, Truncate(a)
    PROVE  PInv'
<1> DEFINE o == [op[a] EXCEPT !.at = "writing"]
<1>1. op[a] \in Operations /\ op[a] # None /\ op[a].at = "write" /\ WholeOp(op[a], artifacts, proven)
  BY DEF Truncate, PInv, PTypeOK, FilesWhole
<1>2. UNCHANGED <<pointer, artifacts, override, trial, suspects, proven>> /\ torn' \in BOOLEAN
  BY DEF Truncate
<1>3. op' = [op EXCEPT ![a] = o]
  BY DEF Truncate, PInv, PTypeOK
<1>4. /\ o \in Operations /\ o.read = op[a].read /\ o.kind = op[a].kind
      /\ o.guide = op[a].guide /\ o.node = op[a].node /\ o.at = "writing"
  BY <1>1 DEF Operations
<1> HIDE DEF o
<1>5. WholeOp(o, artifacts', proven)
  BY <1>1, <1>2, <1>4 DEF WholeOp
<1>6. artifacts' \subseteq Guides
  BY <1>2 DEF PInv, PTypeOK
<1> QED  BY <1>1, <1>2, <1>3, <1>4, <1>5, <1>6, OpStep

\* What is written is whole: the entry of the operation's node, and the others as read.
LEMMA WrittenWhole ==
    ASSUME PInv, NEW a \in Actors, op[a] # None, op[a].at = "writing"
    PROVE  Whole(Written(a), artifacts \cap proven)
<1> DEFINE K == artifacts \cap proven
           n == op[a].node
           f == op[a].read
           e == IF op[a].kind = "install" THEN Installed(f[n], op[a].guide) ELSE RolledBack(f[n])
<1>1. op[a] \in Operations /\ WholeOp(op[a], artifacts, proven)
  BY DEF PInv, PTypeOK, FilesWhole
<1>2. n \in Nodes /\ Whole(f, K)
  BY <1>1 DEF WholeOp, Operations
<1>3. WholeEntry(f[n], n, K)
  BY <1>2 DEF Whole
<1>4. WholeEntry(e, n, K)
  <2>1. CASE op[a].kind = "install"
    <3>1. op[a].guide \in K /\ op[a].guide \in Guides /\ Target[op[a].guide] = n
      BY <1>1, <2>1 DEF WholeOp, PInv, PTypeOK
    <3> QED  BY <1>2, <1>3, <2>1, <3>1, InstalledWhole
  <2>2. CASE op[a].kind # "install"
    <3>1. op[a].kind = "rollback"
      BY <1>1, <2>2 DEF Operations
    <3>2. f[n].history # <<>> /\ K \subseteq artifacts
      BY <1>1, <3>1 DEF WholeOp
    <3> QED  BY <1>2, <1>3, <2>2, <3>2, RolledBackWhole
  <2> QED  BY <2>1, <2>2
<1>5. Written(a) = [f EXCEPT ![n] = e]
  BY DEF Written
<1> HIDE DEF e, f, n, K
<1>6. Whole([f EXCEPT ![n] = e], K)
  <2>1. e \in Entries
    BY <1>4 DEF WholeEntry
  <2>2. f \in [Nodes -> Entries]
    BY <1>2 DEF Whole
  <2>3. [f EXCEPT ![n] = e] \in [Nodes -> Entries]
    BY <2>1, <2>2
  <2>4. ASSUME NEW m \in Nodes  PROVE  WholeEntry([f EXCEPT ![n] = e][m], m, K)
    <3>1. CASE m = n
      BY <1>2, <1>4, <2>2, <3>1
    <3>2. CASE m # n
      <4>1. [f EXCEPT ![n] = e][m] = f[m]
        BY <2>2, <3>2
      <4> QED  BY <1>2, <4>1 DEF Whole
    <3> QED  BY <3>1, <3>2
  <2> QED  BY <2>3, <2>4 DEF Whole
<1> QED  BY <1>5, <1>6 DEF K

LEMMA WritePointerInv ==
    ASSUME PInv, NEW a \in Actors, WritePointer(a)
    PROVE  PInv'
<1>1. /\ op[a] # None /\ op[a].at = "writing" /\ pointer' = Written(a)
      /\ torn' \in {FALSE, op[a].mixed}
      /\ op' = [b \in Actors |->
                IF b = a THEN None
                ELSE IF op[b] # None /\ op[b].at = "writing" THEN [op[b] EXCEPT !.mixed = TRUE]
                ELSE op[b]]
      /\ UNCHANGED <<artifacts, override, trial, suspects, proven>>
  BY DEF WritePointer
<1>2. Whole(pointer', artifacts' \cap proven')
  BY <1>1, WrittenWhole
<1>3. ASSUME NEW b \in Actors
      PROVE  /\ op'[b] = None \/ (op[b] # None /\ op'[b] \in Operations /\ WholeOp(op'[b], artifacts', proven'))
  <2>1. CASE b = a
    BY <1>1, <2>1
  <2>2. CASE b # a /\ op[b] # None /\ op[b].at = "writing"
    <3> DEFINE o == [op[b] EXCEPT !.mixed = TRUE]
    <3>1. op'[b] = o
      BY <1>1, <2>2
    <3>2. op[b] \in Operations /\ WholeOp(op[b], artifacts, proven)
      BY <2>2 DEF PInv, PTypeOK, FilesWhole
    <3>3. /\ o \in Operations /\ o.read = op[b].read /\ o.kind = op[b].kind
          /\ o.guide = op[b].guide /\ o.node = op[b].node /\ o.at = op[b].at
      BY <3>2 DEF Operations
    <3> HIDE DEF o
    <3>4. WholeOp(o, artifacts', proven')
      BY <1>1, <3>2, <3>3 DEF WholeOp
    <3> QED  BY <2>2, <3>1, <3>3, <3>4
  <2>3. CASE b # a /\ ~(op[b] # None /\ op[b].at = "writing")
    <3>1. op'[b] = op[b]
      BY <1>1, <2>3
    <3> QED  BY <1>1, <3>1 DEF PInv, PTypeOK, FilesWhole
  <2> QED  BY <2>1, <2>2, <2>3
<1>4. PTypeOK'
  <2>1. torn' \in BOOLEAN
    <3>1. op[a] \in Operations
      BY <1>1 DEF PInv, PTypeOK
    <3> QED  BY <1>1, <3>1 DEF Operations
  <2>2. op' \in [Actors -> Operations \cup {None}]
    BY <1>1, <1>3
  <2>3. \A h \in Hosts : trial'[h] = None \/ op'[h] = None
    BY <1>1, <1>3 DEF PInv, PTypeOK, Actors
  <2>4. pointer' \in [Nodes -> Entries]
    BY <1>2 DEF Whole
  <2> QED  BY <1>1, <2>1, <2>2, <2>3, <2>4 DEF PInv, PTypeOK
<1>5. FilesWhole'
  BY <1>2, <1>3 DEF FilesWhole
<1>6. TrialsBound'
  BY <1>1 DEF PInv, TrialsBound
<1> QED  BY <1>4, <1>5, <1>6 DEF PInv

LEMMA RegressedInv ==
    ASSUME PInv, NEW g \in Gates, Regressed(g)
    PROVE  PInv'
<1>1. PICK S \in SUBSET Nodes : suspects' = [suspects EXCEPT ![g] = S]
  BY DEF Regressed
<1>2. UNCHANGED <<pointer, torn, artifacts, override, trial, op, proven>>
  BY DEF Regressed, files
<1>3. PTypeOK'
  BY <1>1, <1>2 DEF PInv, PTypeOK
<1> QED  BY <1>2, <1>3 DEF PInv, FilesWhole, TrialsBound

LEMMA RollbackInv ==
    ASSUME PInv, NEW g \in Gates, Rollback(g)
    PROVE  PInv'
<1> USE PromotionAssumption
<1>1. PICK n \in suspects[g] :
        /\ suspects' = [suspects EXCEPT ![g] = @ \ {n}]
        /\ op' = [op EXCEPT ![g] = [kind |-> "rollback", node |-> n, guide |-> None,
                                    at |-> "read", read |-> Empty, mixed |-> FALSE]]
  BY DEF Rollback
<1>2. UNCHANGED <<pointer, torn, artifacts, override, trial, proven>>
  BY DEF Rollback, files
<1> DEFINE o == [kind |-> "rollback", node |-> n, guide |-> None,
                 at |-> "read", read |-> Empty, mixed |-> FALSE]
<1>3. n \in Nodes /\ suspects' \in [Gates -> SUBSET Nodes]
  BY <1>1 DEF PInv, PTypeOK
<1>4. Whole(Empty, artifacts' \cap proven')
  BY EmptyWhole
<1>5. o \in Operations
  BY <1>3, <1>4 DEF Operations, Whole
<1>6. WholeOp(o, artifacts', proven')
  BY <1>4 DEF WholeOp
<1>7. op' = [op EXCEPT ![g] = o]
  BY <1>1
<1> HIDE DEF o
<1>8. /\ op'[g] = o /\ (\A b \in Actors : b # g => op'[b] = op[b])
      /\ op' \in [Actors -> Operations \cup {None}]
  BY <1>5, <1>7 DEF PInv, PTypeOK, Actors
<1>9. PTypeOK'
  <2>1. \A h \in Hosts : h # g
    OBVIOUS
  <2>2. \A h \in Hosts : trial'[h] = None \/ op'[h] = None
    BY <1>2, <1>8, <2>1 DEF PInv, PTypeOK, Actors
  <2> QED  BY <1>2, <1>3, <1>8, <2>2 DEF PInv, PTypeOK
<1>10. FilesWhole'
  BY <1>2, <1>6, <1>8 DEF PInv, FilesWhole
<1>11. TrialsBound'
  BY <1>2 DEF PInv, TrialsBound
<1> QED  BY <1>9, <1>10, <1>11 DEF PInv

LEMMA CrashHostInv ==
    ASSUME PInv, NEW h \in Hosts, CrashHost(h)
    PROVE  PInv'
<1>1. /\ override' = [override EXCEPT ![h] = [n \in Nodes |-> Off]]
      /\ trial' = [trial EXCEPT ![h] = None] /\ op' = [op EXCEPT ![h] = None]
      /\ UNCHANGED <<pointer, torn, artifacts, suspects, proven>>
  BY DEF CrashHost, files
<1>2. /\ op'[h] = None /\ (\A b \in Actors : b # h => op'[b] = op[b])
      /\ trial'[h] = None /\ (\A b \in Hosts : b # h => trial'[b] = trial[b] /\ override'[b] = override[b])
      /\ override'[h] = [n \in Nodes |-> Off]
  BY <1>1 DEF PInv, PTypeOK, Actors
<1>3. PTypeOK'
  <2>1. override' \in [Hosts -> [Nodes -> Candidates]]
    BY <1>1 DEF PInv, PTypeOK, Candidates
  <2>2. trial' \in [Hosts -> Trials \cup {None}] /\ op' \in [Actors -> Operations \cup {None}]
    BY <1>1 DEF PInv, PTypeOK
  <2>3. \A k \in Hosts : trial'[k] = None \/ op'[k] = None
    BY <1>2 DEF PInv, PTypeOK, Actors
  <2> QED  BY <1>1, <2>1, <2>2, <2>3 DEF PInv, PTypeOK
<1>4. FilesWhole'
  BY <1>1, <1>2 DEF PInv, FilesWhole
<1>5. TrialsBound'
  <2> SUFFICES ASSUME NEW k \in Hosts
               PROVE  /\ \A m \in Nodes : override'[k][m] # Off => trial'[k] # None /\ trial'[k].node = m
                      /\ trial'[k] # None => BoundTrial(trial'[k], override'[k])
    BY DEF TrialsBound
  <2>1. CASE k # h
    BY <1>2, <2>1 DEF PInv, TrialsBound
  <2>2. CASE k = h
    BY <1>2, <2>2
  <2> QED  BY <2>1, <2>2
<1> QED  BY <1>3, <1>4, <1>5 DEF PInv

LEMMA CrashGateInv ==
    ASSUME PInv, NEW g \in Gates, CrashGate(g)
    PROVE  PInv'
<1>1. /\ suspects' = [suspects EXCEPT ![g] = {}] /\ op' = [op EXCEPT ![g] = None]
      /\ UNCHANGED <<pointer, torn, artifacts, override, trial, proven>>
  BY DEF CrashGate, files
<1>2. suspects' \in [Gates -> SUBSET Nodes] /\ g \in Actors
  BY <1>1 DEF PInv, PTypeOK, Actors
<1> QED  BY <1>1, <1>2, OpEnds

LEMMA PNextInv == PInv /\ [PNext]_pvars => PInv'
<1> SUFFICES ASSUME PInv, [PNext]_pvars  PROVE  PInv'
  OBVIOUS
<1>1. ASSUME NEW h \in Hosts, NEW n \in Nodes, Baseline(h, n)  PROVE  PInv'
  BY <1>1, BeginInv DEF Baseline
<1>2. ASSUME NEW h \in Hosts, NEW c \in Guides, Measure(h, c) \/ Promote(h, c)  PROVE  PInv'
  <2>1. Target[c] \in Nodes /\ c # Bare
    BY PromotionAssumption
  <2> QED  BY <1>2, <2>1, BeginInv DEF Measure, Promote
<1>3. ASSUME NEW h \in Hosts, Canary(h)  PROVE  PInv'
  BY <1>3, GoalInv, EndTrialInv, CancelInv DEF Canary
<1>4. ASSUME NEW a \in Actors, Change(a)  PROVE  PInv'
  BY <1>4, ReadPointerInv, TruncateInv, WritePointerInv DEF Change
<1>5. ASSUME NEW g \in Gates, CurveGate(g)  PROVE  PInv'
  BY <1>5, RegressedInv, RollbackInv, CrashGateInv DEF CurveGate
<1>6. CASE UNCHANGED pvars
  BY <1>6 DEF pvars, files, PInv, PTypeOK, FilesWhole, TrialsBound
<1> QED  BY <1>1, <1>2, <1>3, <1>4, <1>5, <1>6, WriteArtifactInv, CrashHostInv DEF PNext

-----------------------------------------------------------------------------
(***************************************************************************)
(* What PInv is for.                                                       *)
(***************************************************************************)
LEMMA PInvServed == PInv => ServedProven
<1> SUFFICES ASSUME PInv, NEW h \in Hosts, NEW n \in Nodes,
                    ~(trial[h] # None /\ trial[h].node = n)
             PROVE  Served(h, n) \in proven \cup {None}
  BY DEF ServedProven
<1>1. override[h][n] = Off
  BY DEF PInv, TrialsBound
<1>2. WholeEntry(OnDisk[n], n, artifacts \cap proven)
  BY OnDiskWhole DEF Whole
<1>3. OnDisk[n].shown \in proven \cup {None}
  <2> DEFINE h1 == OnDisk[n].history
  <2>1. CASE h1 = <<>>
    BY <1>2, <2>1 DEF WholeEntry
  <2>2. CASE h1 # <<>>
    <3>1. h1 \in Seq(Guides)
      BY <1>2 DEF WholeEntry, Entries
    <3>2. OnDisk[n].shown = h1[Len(h1)] /\ \A i \in DOMAIN h1 : h1[i] \in artifacts \cap proven
      BY <1>2, <2>2 DEF WholeEntry
    <3> HIDE DEF h1
    <3>3. Len(h1) \in DOMAIN h1
      BY <2>2, <3>1
    <3> QED  BY <3>2, <3>3
  <2> QED  BY <2>1, <2>2
<1> QED  BY <1>1, <1>3 DEF Served

LEMMA PInvWhole == PInv => EntryWhole
<1> SUFFICES ASSUME PInv, NEW n \in Nodes
             PROVE  LET e == pointer[n]
                    IN  /\ e.shown = IF e.history = <<>> THEN None ELSE Last(e.history)
                        /\ \A i \in DOMAIN e.history : e.history[i] \in artifacts /\ Target[e.history[i]] = n
  BY DEF EntryWhole
<1>1. WholeEntry(pointer[n], n, artifacts \cap proven)
  BY DEF PInv, FilesWhole, Whole
<1> QED  BY <1>1 DEF WholeEntry, Last

\* Every process, any number of them, may measure, promote, roll back and die as it
\* likes: the three invariants of the promotion files hold.
THEOREM PromotionInvariants == PSpec => [](PTypeOK /\ ServedProven /\ EntryWhole)
<1>1. PInv => PTypeOK /\ ServedProven /\ EntryWhole
  BY PInvServed, PInvWhole DEF PInv
<1> QED  BY <1>1, PInitInv, PNextInv, PTL DEF PSpec

-----------------------------------------------------------------------------
(***************************************************************************)
(* Evolution takes only steps of Promotion.                                *)
(***************************************************************************)
LEMMA StepOfPromotion ==
    ASSUME [Next]_vars
    PROVE  [PNext]_pvars
<1> USE EvolutionAssumption
<1>1. ASSUME NEW w \in Workers, CycleStep(w)  PROVE  [PNext]_pvars
  <2>1. w \in Hosts
    OBVIOUS
  <2>2. CASE PromotePrompt(w)
    BY <2>1, <2>2 DEF PromotePrompt, PNext
  <2>3. CASE Crash(w)
    BY <2>1, <2>3 DEF Crash, PNext
  <2>4. CASE \/ Analyze(w) \/ Try(w) \/ Compare(w)
             \/ ReadHead(w) \/ WriteFile(w) \/ Commit(w) \/ Verify(w) \/ RollBack(w)
             \/ SkipPromotion(w) \/ Promoted(w) \/ PromoteCode(w)
             \/ Dismiss(w) \/ RecordMutation(w) \/ UpdateStatus(w)
    BY <2>4 DEF Analyze, Try, Compare, ReadHead, WriteFile, Commit, Verify, RollBack,
                SkipPromotion, Promoted, PromoteCode, Dismiss, RecordMutation, UpdateStatus
  <2> QED  BY <1>1, <2>2, <2>3, <2>4 DEF CycleStep
<1>2. ASSUME NEW h \in Hosts, Optimize(h)  PROVE  [PNext]_pvars
  BY <1>2 DEF Optimize, PNext
<1>3. CASE PromotionStep
  BY <1>3 DEF PromotionStep, PNext
<1>4. CASE UNCHANGED vars
  BY <1>4 DEF vars
<1> QED  BY <1>1, <1>2, <1>3, <1>4 DEF Next

\* Evolution implements Promotion: whatever the cycles of the workers, the optimizer and the
\* curve gate do around them (engine.py, job.py, curve_gate.py), the trials, installs and
\* roll-backs of promote.py go through its steps only, and nothing else writes its file.
THEOREM EvolutionImplementsPromotion == Spec => PSpec
<1>1. Init => PInit
  BY DEF Init
<1> QED  BY <1>1, StepOfPromotion, PTL DEF Spec, PSpec

-----------------------------------------------------------------------------
(***************************************************************************)
(* What a step of a host or a gate may touch: a mutation is touched when   *)
(* the pointer names it, when somebody has read a file that does, or when  *)
(* it is on trial, on its way into the pointer or up for review.           *)
(***************************************************************************)
In(f, m) == \E n \in Nodes : \E i \in DOMAIN f[n].history : f[n].history[i] = m

OnTrial(h, m) == trial[h] # None /\ trial[h].guide = m
InHand(a, m) == op[a] # None /\ (op[a].guide = m \/ In(op[a].read, m))

Touched(m) ==
    \/ In(pointer, m) \/ m \in recorded
    \/ \E a \in Actors : InHand(a, m)
    \/ \E h \in Hosts : OnTrial(h, m)

\* No host becomes busy, and nothing new is touched.
Calm ==
    /\ \A h \in Hosts : Busy(h)' => Busy(h)
    /\ \A m \in Mutations : Touched(m)' => Touched(m)

LEMMA InEmpty ==
    ASSUME NEW m  PROVE  ~In(Empty, m)
<1>1. \A n \in Nodes : Empty[n].history = <<>>
  <2>1. <<>> \in Seq(Guides)
    OBVIOUS
  <2> QED  BY <2>1, EntryFields DEF Empty, NoEntry
<1> QED  BY <1>1 DEF In

LEMMA InOnDisk ==
    ASSUME NEW m, In(OnDisk, m)  PROVE  In(pointer, m)
BY InEmpty DEF OnDisk

LEMMA InstalledHistory ==
    ASSUME NEW e \in Entries, NEW c \in Guides, NEW m,
           NEW i \in DOMAIN Installed(e, c).history, Installed(e, c).history[i] = m
    PROVE  c = m \/ \E j \in DOMAIN e.history : e.history[j] = m
<1> DEFINE h == e.history
           g == IF h # <<>> /\ Last(h) = c THEN h ELSE Append(h, c)
<1>1. h \in Seq(Guides)
  BY DEF Entries
<1>2. g \in Seq(Guides)
  BY <1>1
<1>3. Installed(e, c).history = g
  BY <1>2, EntryFields DEF Installed
<1> HIDE DEF h
<1>4. CASE g = h
  <2> HIDE DEF g
  <2> QED  BY <1>3, <1>4 DEF h
<1>5. CASE g = Append(h, c)
  <2>1. DOMAIN g = 1..(Len(h) + 1) /\ Len(h) \in Nat /\ DOMAIN h = 1..Len(h)
        /\ g[Len(h) + 1] = c /\ \A j \in 1..Len(h) : g[j] = h[j]
    BY <1>1, <1>5
  <2> HIDE DEF g
  <2>2. i \in 1..Len(h) \/ i = Len(h) + 1
    BY <1>3, <2>1
  <2> QED  BY <1>3, <2>1, <2>2 DEF h
<1>6. g = h \/ g = Append(h, c)
  OBVIOUS
<1> HIDE DEF g
<1> QED  BY <1>4, <1>5, <1>6

LEMMA RolledBackHistory ==
    ASSUME NEW e \in Entries, e.history # <<>>, artifacts \subseteq Guides, NEW m,
           NEW i \in DOMAIN RolledBack(e).history, RolledBack(e).history[i] = m
    PROVE  \E j \in DOMAIN e.history : e.history[j] = m
<1> DEFINE h == e.history
           g == Front(h)
<1>1. h \in Seq(Guides) /\ h # <<>>
  BY DEF Entries
<1> HIDE DEF h
<1>2. Len(h) \in Nat /\ Len(h) > 0 /\ DOMAIN h = 1..Len(h)
  BY <1>1
<1>3. /\ g \in Seq(Guides) /\ DOMAIN g = 1..(Len(h) - 1)
      /\ \A j \in 1..(Len(h) - 1) : g[j] = h[j]
  BY <1>1, <1>2 DEF Front
<1> HIDE DEF g
<1>4. RolledBack(e).history = g
  <2>1. CASE g = <<>>
    <3>1. RolledBack(e) = NoEntry
      BY <2>1 DEF RolledBack, g, h
    <3>2. <<>> \in Seq(Guides) /\ None \in Guides \cup {None}
      OBVIOUS
    <3>3. NoEntry.history = <<>>
      BY <3>2, EntryFields DEF NoEntry
    <3> QED  BY <2>1, <3>1, <3>3
  <2>2. CASE g # <<>>
    <3> DEFINE s == IF Last(g) \in artifacts THEN Last(g) ELSE None
    <3>1. RolledBack(e) = Entry(g, s)
      BY <2>2 DEF RolledBack, g, h
    <3>2. s \in Guides \cup {None}
      OBVIOUS
    <3> HIDE DEF s
    <3> QED  BY <1>3, <3>1, <3>2, EntryFields
  <2> QED  BY <2>1, <2>2
<1>5. i \in 1..(Len(h) - 1)
  BY <1>3, <1>4
<1>6. i \in 1..Len(h)
  BY <1>2, <1>5
<1>7. g[i] = h[i]
  BY <1>3, <1>5
<1> QED  BY <1>2, <1>4, <1>6, <1>7 DEF h

LEMMA WrittenHistory ==
    ASSUME PInv, NEW a \in Actors, op[a] # None, op[a].at = "writing", NEW m, In(Written(a), m)
    PROVE  InHand(a, m)
<1> DEFINE n == op[a].node
           f == op[a].read
           e == IF op[a].kind = "install" THEN Installed(f[n], op[a].guide) ELSE RolledBack(f[n])
<1>1. op[a] \in Operations /\ WholeOp(op[a], artifacts, proven)
  BY DEF PInv, PTypeOK, FilesWhole
<1>2. n \in Nodes /\ f \in [Nodes -> Entries]
  BY <1>1 DEF WholeOp, Operations
<1>3. Written(a) = [f EXCEPT ![n] = e]
  BY DEF Written
<1>4. PICK k \in Nodes : \E i \in DOMAIN Written(a)[k].history : Written(a)[k].history[i] = m
  BY DEF In
<1>5. CASE k # n
  <2>1. Written(a)[k] = f[k]
    BY <1>2, <1>3, <1>5
  <2> QED  BY <1>4, <2>1 DEF InHand, In
<1>6. CASE k = n
  <2>1. Written(a)[n] = e
    BY <1>2, <1>3
  <2>2. PICK i \in DOMAIN e.history : e.history[i] = m
    BY <1>4, <1>6, <2>1
  <2>3. f[n] \in Entries
    BY <1>2
  <2>4. op[a].guide = m \/ \E j \in DOMAIN f[n].history : f[n].history[j] = m
    <3>1. CASE op[a].kind = "install"
      <4>1. op[a].guide \in Guides
        BY <1>1, <3>1 DEF WholeOp, PInv, PTypeOK
      <4>2. e = Installed(f[n], op[a].guide)
        BY <3>1
      <4> HIDE DEF e, f, n
      <4> QED  BY <2>2, <2>3, <4>1, <4>2, InstalledHistory
    <3>2. CASE op[a].kind # "install"
      <4>1. op[a].kind = "rollback"
        BY <1>1, <3>2 DEF Operations
      <4>2. f[n].history # <<>> /\ artifacts \subseteq Guides /\ e = RolledBack(f[n])
        BY <1>1, <4>1 DEF WholeOp, PInv, PTypeOK
      <4> HIDE DEF e, f, n
      <4> QED  BY <2>2, <2>3, <4>2, RolledBackHistory
    <3> QED  BY <3>1, <3>2
  <2> QED  BY <1>2, <2>4 DEF InHand, In
<1> QED  BY <1>5, <1>6

LEMMA CanaryCalm ==
    ASSUME PInv, NEW h \in Hosts, Canary(h), UNCHANGED recorded
    PROVE  Calm
<1>1. CASE Goal(h)
  <2>1. PICK result \in {"passed", "failed", "no score"} :
            trial' = [trial EXCEPT ![h] = Tried(h, result)]
    BY <1>1 DEF Goal
  <2>2. trial[h] \in Trials /\ trial[h] # None /\ UNCHANGED <<pointer, op>>
    BY <1>1 DEF Goal, PInv, PTypeOK, files
  <2>3. Tried(h, result).guide = trial[h].guide
    BY <2>2 DEF Tried, Trials
  <2>4. trial'[h] = Tried(h, result) /\ \A k \in Hosts : k # h => trial'[k] = trial[k]
    BY <2>1 DEF PInv, PTypeOK
  <2>5. \A k \in Hosts, m \in Mutations : OnTrial(k, m)' => OnTrial(k, m)
    BY <2>2, <2>3, <2>4 DEF OnTrial
  <2>6. \A a \in Actors, m \in Mutations : InHand(a, m)' => InHand(a, m)
    BY <2>2 DEF InHand
  <2>7. \A k \in Hosts : Busy(k)' => Busy(k)
    BY <2>2, <2>4 DEF Busy
  <2> QED  BY <2>2, <2>5, <2>6, <2>7 DEF Calm, Touched
<1>2. CASE EndTrial(h)
  <2>1. trial[h] # None /\ trial' = [trial EXCEPT ![h] = None] /\ UNCHANGED pointer
    BY <1>2 DEF EndTrial, files
  <2>2. trial'[h] = None /\ \A k \in Hosts : k # h => trial'[k] = trial[k]
    BY <2>1 DEF PInv, PTypeOK
  <2>3. \A k \in Hosts, m \in Mutations : OnTrial(k, m)' => OnTrial(k, m)
    BY <2>2 DEF OnTrial
  <2> DEFINE o == [kind |-> "install", node |-> trial[h].node,
                   guide |-> trial[h].guide, at |-> "artifact", read |-> Empty, mixed |-> FALSE]
  <2>4. /\ \A a \in Actors : a # h => op'[a] = op[a]
        /\ op'[h] = op[h] \/ op'[h] = o
    BY <1>2 DEF EndTrial, PInv, PTypeOK, Actors
  <2>5. o.guide = trial[h].guide /\ o.read = Empty
    OBVIOUS
  <2> HIDE DEF o
  <2>6. \A m \in Mutations : InHand(h, m)' => InHand(h, m) \/ OnTrial(h, m)
    BY <2>1, <2>4, <2>5, InEmpty DEF InHand, OnTrial
  <2>7. \A a \in Actors, m \in Mutations : InHand(a, m)' => InHand(a, m) \/ OnTrial(h, m)
    BY <2>4, <2>6 DEF InHand
  <2>8. \A k \in Hosts : Busy(k)' => Busy(k)
    BY <2>1, <2>2, <2>4 DEF Busy, Actors
  <2> QED  BY <2>1, <2>3, <2>7, <2>8 DEF Calm, Touched
<1>3. CASE Cancel(h)
  <2>1. trial' = [trial EXCEPT ![h] = None] /\ UNCHANGED <<pointer, op>>
    BY <1>3 DEF Cancel, files
  <2>2. trial'[h] = None /\ \A k \in Hosts : k # h => trial'[k] = trial[k]
    BY <2>1 DEF PInv, PTypeOK
  <2>3. \A k \in Hosts, m \in Mutations : OnTrial(k, m)' => OnTrial(k, m)
    BY <2>2 DEF OnTrial
  <2>4. \A a \in Actors, m \in Mutations : InHand(a, m)' => InHand(a, m)
    BY <2>1 DEF InHand
  <2>5. \A k \in Hosts : Busy(k)' => Busy(k)
    BY <2>1, <2>2 DEF Busy
  <2> QED  BY <2>1, <2>3, <2>4, <2>5 DEF Calm, Touched
<1> QED  BY <1>1, <1>2, <1>3 DEF Canary

\* A step of a's operation that ends it, or goes on with the same guide and a read
\* file that names nothing new.
LEMMA OpCalm ==
    ASSUME PInv, NEW a \in Actors, op[a] # None, UNCHANGED <<trial, recorded>>,
           \A b \in Actors : b # a => op'[b] = op[b] \/ (op[b] # None /\ op'[b].guide = op[b].guide
                                                         /\ op'[b].read = op[b].read),
           \/ op'[a] = None
           \/ /\ op'[a].guide = op[a].guide
              /\ \A m \in Mutations : In(op'[a].read, m) => In(op[a].read, m) \/ In(pointer, m),
           \A m \in Mutations : In(pointer', m) => In(pointer, m) \/ InHand(a, m)
    PROVE  Calm
<1>1. \A k \in Hosts, m \in Mutations : OnTrial(k, m)' => OnTrial(k, m)
  BY DEF OnTrial
<1>2. ASSUME NEW b \in Actors, NEW m \in Mutations, InHand(b, m)'
      PROVE  InHand(b, m) \/ In(pointer, m)
  <2>1. CASE b = a
    BY <1>2, <2>1 DEF InHand
  <2>2. CASE b # a
    BY <1>2, <2>2 DEF InHand
  <2> QED  BY <2>1, <2>2
<1>3. \A k \in Hosts : Busy(k)' => Busy(k)
  BY DEF Busy, Actors
<1> QED  BY <1>1, <1>2, <1>3 DEF Calm, Touched

LEMMA ChangeCalm ==
    ASSUME PInv, NEW a \in Actors, Change(a), UNCHANGED recorded
    PROVE  Calm
<1>1. CASE ReadPointer(a)
  <2> DEFINE o == [op[a] EXCEPT !.at = "write", !.read = OnDisk]
  <2>1. op[a] \in Operations /\ op[a] # None /\ UNCHANGED <<pointer, trial>>
    BY <1>1 DEF ReadPointer, PInv, PTypeOK, files
  <2>2. (op'[a] = None \/ op'[a] = o) /\ \A b \in Actors : b # a => op'[b] = op[b]
    BY <1>1 DEF ReadPointer, PInv, PTypeOK
  <2>3. o.guide = op[a].guide /\ o.read = OnDisk
    BY <2>1 DEF Operations
  <2> HIDE DEF o
  <2> QED  BY <2>1, <2>2, <2>3, InOnDisk, OpCalm
<1>2. CASE Truncate(a)
  <2> DEFINE o == [op[a] EXCEPT !.at = "writing"]
  <2>1. op[a] \in Operations /\ op[a] # None /\ UNCHANGED <<pointer, trial>>
    BY <1>2 DEF Truncate, PInv, PTypeOK
  <2>2. op'[a] = o /\ \A b \in Actors : b # a => op'[b] = op[b]
    BY <1>2 DEF Truncate, PInv, PTypeOK
  <2>3. o.guide = op[a].guide /\ o.read = op[a].read
    BY <2>1 DEF Operations
  <2> HIDE DEF o
  <2> QED  BY <2>1, <2>2, <2>3, OpCalm
<1>3. CASE WritePointer(a)
  <2>1. /\ op[a] # None /\ op[a].at = "writing" /\ pointer' = Written(a) /\ UNCHANGED trial
        /\ op' = [b \in Actors |->
                  IF b = a THEN None
                  ELSE IF op[b] # None /\ op[b].at = "writing" THEN [op[b] EXCEPT !.mixed = TRUE]
                  ELSE op[b]]
    BY <1>3 DEF WritePointer
  <2>2. \A m \in Mutations : In(pointer', m) => InHand(a, m)
    BY <2>1, WrittenHistory
  <2>3. op'[a] = None
    BY <2>1
  <2>4. ASSUME NEW b \in Actors, b # a
        PROVE  op'[b] = op[b] \/ (op[b] # None /\ op'[b].guide = op[b].guide
                                  /\ op'[b].read = op[b].read)
    <3>1. CASE op[b] # None /\ op[b].at = "writing"
      <4>1. op'[b] = [op[b] EXCEPT !.mixed = TRUE] /\ op[b] \in Operations
        BY <2>1, <2>4, <3>1 DEF PInv, PTypeOK
      <4> QED  BY <3>1, <4>1 DEF Operations
    <3>2. CASE ~(op[b] # None /\ op[b].at = "writing")
      BY <2>1, <2>4, <3>2
    <3> QED  BY <3>1, <3>2
  <2> QED  BY <2>1, <2>2, <2>3, <2>4, OpCalm
<1> QED  BY <1>1, <1>2, <1>3 DEF Change

LEMMA GateCalm ==
    ASSUME PInv, NEW g \in Gates, CurveGate(g), UNCHANGED recorded
    PROVE  Calm
<1> USE PromotionAssumption, EvolutionAssumption
<1>1. UNCHANGED <<pointer, trial>>
  BY DEF CurveGate, Regressed, Rollback, CrashGate, files
<1>2. \A b \in Actors : b # g => op'[b] = op[b]
  BY DEF CurveGate, Regressed, Rollback, CrashGate, PInv, PTypeOK, Actors
<1>3. op'[g] = op[g] \/ op'[g] = None \/ (op'[g].guide = None /\ op'[g].read = Empty)
  <2>1. CASE Rollback(g)
    <3>1. PICK n \in suspects[g] :
            op' = [op EXCEPT ![g] = [kind |-> "rollback", node |-> n, guide |-> None,
                                     at |-> "read", read |-> Empty, mixed |-> FALSE]]
      BY <2>1 DEF Rollback
    <3> QED  BY <3>1 DEF PInv, PTypeOK, Actors
  <2>2. CASE Regressed(g) \/ CrashGate(g)
    BY <2>2 DEF Regressed, CrashGate, PInv, PTypeOK, Actors
  <2> QED  BY <2>1, <2>2 DEF CurveGate
<1>4. \A b \in Actors, m \in Mutations : InHand(b, m)' => InHand(b, m)
  BY <1>2, <1>3, InEmpty DEF InHand
<1>5. \A k \in Hosts : Busy(k)' => Busy(k)
  BY <1>1, <1>2 DEF Busy, Actors
<1> QED  BY <1>1, <1>4, <1>5 DEF Calm, Touched, OnTrial

LEMMA ArtifactCalm ==
    ASSUME PInv, NEW h \in Hosts, WriteArtifact(h), UNCHANGED recorded
    PROVE  Calm
<1> DEFINE o == [op[h] EXCEPT !.at = "read"]
<1>1. h \in Actors /\ op[h] \in Operations /\ op[h] # None /\ UNCHANGED <<pointer, trial>>
  BY DEF WriteArtifact, PInv, PTypeOK, Actors
<1>2. op'[h] = o /\ \A b \in Actors : b # h => op'[b] = op[b]
  BY <1>1 DEF WriteArtifact, PInv, PTypeOK
<1>3. o.guide = op[h].guide /\ o.read = op[h].read
  BY <1>1 DEF Operations
<1> HIDE DEF o
<1> QED  BY <1>1, <1>2, <1>3, OpCalm

LEMMA CrashCalm ==
    ASSUME PInv, NEW h \in Hosts, CrashHost(h), UNCHANGED recorded
    PROVE  Calm /\ ~Busy(h)'
<1>1. UNCHANGED pointer
  BY DEF CrashHost, files
<1>2. /\ op'[h] = None /\ (\A b \in Actors : b # h => op'[b] = op[b])
      /\ trial'[h] = None /\ (\A b \in Hosts : b # h => trial'[b] = trial[b])
  BY DEF CrashHost, PInv, PTypeOK, Actors
<1>3. \A k \in Hosts, m \in Mutations : OnTrial(k, m)' => OnTrial(k, m)
  BY <1>2 DEF OnTrial
<1>4. \A a \in Actors, m \in Mutations : InHand(a, m)' => InHand(a, m)
  BY <1>2 DEF InHand
<1>5. \A k \in Hosts : Busy(k)' => Busy(k) /\ k # h
  BY <1>2 DEF Busy, Actors
<1> QED  BY <1>1, <1>2, <1>3, <1>4, <1>5 DEF Calm, Touched, Busy

LEMMA BeginTouches ==
    ASSUME PInv, NEW h \in Hosts, NEW n \in Nodes, NEW c, NEW g, Begin(h, n, c, g),
           UNCHANGED recorded
    PROVE  /\ \A k \in Hosts : k # h /\ Busy(k)' => Busy(k)
           /\ \A m \in Mutations : Touched(m)' => Touched(m) \/ m = c
<1>1. trial' = [trial EXCEPT ![h] = Trial(n, c, g)] /\ UNCHANGED <<pointer, op>>
  BY DEF Begin, files
<1>2. trial'[h] = Trial(n, c, g) /\ \A k \in Hosts : k # h => trial'[k] = trial[k]
  BY <1>1 DEF PInv, PTypeOK
<1>3. Trial(n, c, g).guide = c
  BY DEF Trial
<1>4. \A k \in Hosts, m \in Mutations : OnTrial(k, m)' => OnTrial(k, m) \/ m = c
  BY <1>2, <1>3 DEF OnTrial
<1>5. \A a \in Actors, m \in Mutations : InHand(a, m)' => InHand(a, m)
  BY <1>1 DEF InHand
<1> QED  BY <1>1, <1>2, <1>4, <1>5 DEF Touched, Busy

-----------------------------------------------------------------------------
(***************************************************************************)
(* The invariant of Evolution.  Phased: the row and the outcome a cycle    *)
(* has in each of its phases.  Untainted: a mutation that is touched was   *)
(* deployed, and will be recorded so or not at all.  RepoTells: what the   *)
(* shadow repository holds, and what a roll-back would bring back.         *)
(***************************************************************************)
Statuses == Outcomes \cup {"none", "generated"}

InPhase(c, r) ==
    /\ c.at # "status" => r = "none"
    /\ c.at = "status" => r \in {"none", "generated"}
    /\ c.at \in {"try", "compare", "deploy", "write", "dismiss"} => c.out = "rejected"
    /\ c.at \in {"commit", "verify", "promote", "promoting"} => c.out = "deployed"
    /\ c.at = "rollback" => c.out = "verify_failed"

Phased ==
    /\ \A m \in Mutations \ used : row[m] = "none"
    /\ \A w \in Workers : cycle[w] # None => InPhase(cycle[w], row[Of(w)])

Deployed(m) ==
    /\ m \in used /\ row[m] \in {"none", "generated", "deployed"}
    /\ \A w \in Workers : cycle[w] # None /\ Of(w) = m =>
        cycle[w].out = "deployed" /\ cycle[w].at \in {"promote", "promoting", "record", "status"}

Untainted == \A m \in Mutations : Touched(m) => Deployed(m)

Early(m) ==
    \/ m \notin used
    \/ \E w \in Workers : cycle[w] # None /\ Of(w) = m
                          /\ cycle[w].at \in {"try", "compare", "deploy", "write"}

Settled(m) ==
    \/ row[m] = "deployed"
    \/ \E w \in Workers : cycle[w] # None /\ Of(w) = m
                          /\ cycle[w].out = "deployed" /\ cycle[w].at # "commit"

Undone(m) ==
    \/ row[m] = "rolled_back"
    \/ \E w \in Workers : cycle[w] # None /\ Of(w) = m /\ cycle[w].out = "rolled_back"

HeadTells ==
    /\ head \subseteq tree
    /\ \A m \in Mutations : /\ Settled(m) /\ m \notin ungitted => m \in head
                            /\ Undone(m) \/ Early(m) => m \notin tree
    /\ \A w \in Workers : At(w, "commit") => Of(w) \in tree \cup ungitted

\* h0: a HEAD that w would reset to.
RestoreTells(w, h0) ==
    /\ Of(w) \notin h0
    /\ \A m \in Mutations : /\ Settled(m) /\ m # Of(w) /\ m \notin ungitted => m \in h0
                            /\ Undone(m) \/ Early(m) => m \notin h0

RepoTells ==
    /\ \A v, w \in Workers : InRepo(v) /\ InRepo(w) => v = w
    /\ HeadTells
    /\ \A w \in Workers : InRepo(w) => \A h0 \in cycle[w].pre : RestoreTells(w, h0)

EInv == PInv /\ TypeOK /\ Phased /\ Untainted /\ (~crowded => RepoTells)

LEMMA InitInv == Init => EInv
<1> SUFFICES ASSUME Init  PROVE  EInv
  OBVIOUS
<1>1. PInv
  BY PInitInv DEF Init
<1>2. \A w \in Workers : cycle[w] = None
  BY DEF Init
<1>3. TypeOK
  <2>1. \A h \in Hosts : ~Busy(h)
    BY DEF Init, PInit, Busy, Actors
  <2> QED  BY <1>1, <1>2, <2>1, EvolutionAssumption DEF Init, PInv, TypeOK, Outcomes
<1>4. Phased
  BY <1>2 DEF Init, Phased
<1>5. Untainted
  <2>1. \A m \in Mutations : ~Touched(m)
    BY InEmpty DEF Init, PInit, Touched, OnTrial, InHand
  <2> QED  BY <2>1 DEF Untainted
<1>6. RepoTells
  BY <1>2 DEF Init, RepoTells, HeadTells, InRepo, Settled, At, Undone
<1> QED  BY <1>1, <1>3, <1>4, <1>5, <1>6 DEF EInv

-----------------------------------------------------------------------------
(***************************************************************************)
(* A step of the cycle of w: cycle[w] becomes c, and only the row of its   *)
(* mutation may change.                                                    *)
(***************************************************************************)
StepOf(w, c) ==
    /\ cycle[w] # None
    /\ c = None \/ (c # None /\ c \in Cycles /\ c.mutation = Of(w) /\ InPhase(c, row'[Of(w)]))
    /\ cycle' = [cycle EXCEPT ![w] = c] /\ UNCHANGED used
    /\ row' \in [Mutations -> Statuses] /\ \A m \in Mutations : m # Of(w) => row'[m] = row[m]

LEMMA OfType ==
    ASSUME TypeOK, NEW w \in Workers, cycle[w] # None
    PROVE  cycle[w] \in Cycles /\ Of(w) \in Mutations /\ Of(w) \in used
BY DEF TypeOK, Cycles, Of

LEMMA StepOfOthers ==
    ASSUME TypeOK, NEW w \in Workers, NEW c, StepOf(w, c)
    PROVE  /\ cycle'[w] = c /\ cycle' \in [Workers -> Cycles \cup {None}]
           /\ \A v \in Workers : v # w => cycle'[v] = cycle[v] /\ (cycle[v] # None => Of(v) # Of(w))
           /\ c # None => Of(w)' = Of(w)
BY DEF TypeOK, StepOf, Of

\* The types and the phases hold on.
LEMMA StepOfPhased ==
    ASSUME PInv', TypeOK, Phased, NEW w \in Workers, NEW c, StepOf(w, c),
           \A v \in Workers \ {w} : Busy(v)' => Busy(v), Busy(w)' => c # None /\ c.at = "promoting",
           head' \subseteq Mutations, tree' \subseteq Mutations, ungitted' \subseteq Mutations,
           crowded' \in BOOLEAN, recorded' \subseteq Mutations
    PROVE  TypeOK' /\ Phased'
<1>1. /\ cycle'[w] = c /\ cycle' \in [Workers -> Cycles \cup {None}]
      /\ \A v \in Workers : v # w => cycle'[v] = cycle[v] /\ (cycle[v] # None => Of(v) # Of(w))
      /\ c # None => Of(w)' = Of(w)
  BY StepOfOthers
<1>2. cycle[w] # None /\ Of(w) \in Mutations /\ Of(w) \in used
  BY OfType DEF StepOf
<1>3. \A v \in Workers : cycle'[v] # None => cycle[v] # None /\ Of(v)' = Of(v)
  BY <1>1, <1>2 DEF Of
<1>4. TypeOK'
  <2>1. \A v \in Workers : Busy(v)' => At(v, "promoting")'
    <3> SUFFICES ASSUME NEW v \in Workers, Busy(v)'  PROVE  At(v, "promoting")'
      OBVIOUS
    <3>1. CASE v = w
      BY <1>1, <3>1 DEF At
    <3>2. CASE v # w
      BY <1>1, <3>2 DEF At, TypeOK
    <3> QED  BY <3>1, <3>2
  <2>2. \A v \in Workers : cycle'[v] # None => Of(v)' \in used'
    BY <1>3 DEF TypeOK, StepOf
  <2>3. \A u, v \in Workers : u # v /\ cycle'[u] # None /\ cycle'[v] # None => Of(u)' # Of(v)'
    BY <1>3 DEF TypeOK
  <2>4. row' \in [Mutations -> Outcomes \cup {"none", "generated"}]
    BY DEF StepOf, Statuses
  <2> QED  BY <1>1, <2>1, <2>2, <2>3, <2>4 DEF TypeOK, StepOf, PInv
<1>5. Phased'
  <2>1. ASSUME NEW m \in Mutations \ used'  PROVE  row'[m] = "none"
    BY <1>2, <2>1 DEF Phased, StepOf
  <2>2. ASSUME NEW v \in Workers, cycle'[v] # None  PROVE  InPhase(cycle'[v], row'[Of(v)'])
    <3>1. CASE v = w
      BY <1>1, <2>2, <3>1 DEF StepOf
    <3>2. CASE v # w
      <4>1. cycle'[v] = cycle[v] /\ cycle[v] # None /\ Of(v)' = Of(v) /\ Of(v) # Of(w)
        BY <1>1, <1>3, <2>2, <3>2
      <4>2. row'[Of(v)] = row[Of(v)]
        BY <4>1, OfType DEF StepOf
      <4> QED  BY <4>1, <4>2 DEF Phased
    <3> QED  BY <3>1, <3>2
  <2> QED  BY <2>1, <2>2 DEF Phased
<1> QED  BY <1>4, <1>5

\* A cycle that nothing is touched of, or that goes on as deployed, leaves what is
\* touched untainted.
LEMMA StepOfUntainted ==
    ASSUME TypeOK, Phased, Untainted, NEW w \in Workers, NEW c, StepOf(w, c),
           NEW o \in Mutations, o = Of(w),
           \A m \in Mutations : Touched(m)' => Touched(m) \/ m = o,
           Touched(o)' =>
              /\ row'[o] \in {"none", "generated", "deployed"}
              /\ c # None => c.out = "deployed" /\ c.at \in {"promote", "promoting", "record", "status"}
    PROVE  Untainted'
<1>1. /\ cycle'[w] = c
      /\ \A v \in Workers : v # w => cycle'[v] = cycle[v] /\ (cycle[v] # None => Of(v) # Of(w))
      /\ c # None => Of(w)' = Of(w)
  BY StepOfOthers
<1>2. cycle[w] # None /\ Of(w) \in Mutations /\ Of(w) \in used
  BY OfType DEF StepOf
<1>3. ASSUME NEW m \in Mutations, Touched(m)'  PROVE  Deployed(m)'
  <2>1. CASE m = o
    <3>1. m \in used' /\ row'[m] \in {"none", "generated", "deployed"}
      BY <1>2, <1>3, <2>1 DEF StepOf
    <3>2. ASSUME NEW v \in Workers, cycle'[v] # None, Of(v)' = m
          PROVE  cycle'[v].out = "deployed" /\ cycle'[v].at \in {"promote", "promoting", "record", "status"}
      <4>1. v = w
        BY <1>1, <2>1, <3>2 DEF Of
      <4> QED  BY <1>1, <1>3, <2>1, <3>2, <4>1
    <3> QED  BY <3>1, <3>2 DEF Deployed
  <2>2. CASE m # o
    <3>1. Deployed(m) /\ row'[m] = row[m] /\ used' = used
      BY <1>3, <2>2 DEF Untainted, StepOf
    <3>2. ASSUME NEW v \in Workers, cycle'[v] # None, Of(v)' = m
          PROVE  cycle'[v].out = "deployed" /\ cycle'[v].at \in {"promote", "promoting", "record", "status"}
      <4>1. v # w
        BY <1>1, <2>2, <3>2
      <4> QED  BY <1>1, <3>1, <3>2, <4>1 DEF Deployed, Of
    <3> QED  BY <3>1, <3>2 DEF Deployed
  <2> QED  BY <2>1, <2>2
<1> QED  BY <1>3 DEF Untainted

\* What a step of w changes of the three predicates about its mutation and others.
LEMMA StepOfTells ==
    ASSUME TypeOK, NEW w \in Workers, NEW c, StepOf(w, c),
           NEW o \in Mutations, o = Of(w)
    PROVE  /\ \A m \in Mutations : m # o =>
                /\ Early(m)' <=> Early(m)
                /\ Settled(m)' <=> Settled(m)
                /\ Undone(m)' <=> Undone(m)
           /\ Early(o)' => c # None /\ c.at \in {"try", "compare", "deploy", "write"}
           /\ Settled(o)' => (row'[o] = "deployed" \/ (c # None /\ c.out = "deployed" /\ c.at # "commit"))
           /\ Undone(o)' => (row'[o] = "rolled_back" \/ (c # None /\ c.out = "rolled_back"))
<1>1. /\ cycle'[w] = c
      /\ \A v \in Workers : v # w => cycle'[v] = cycle[v] /\ (cycle[v] # None => Of(v) # Of(w))
      /\ c # None => Of(w)' = Of(w)
  BY StepOfOthers
<1>2. cycle[w] # None /\ Of(w) \in used /\ used' = used
  BY OfType DEF StepOf
<1>3. ASSUME NEW m \in Mutations, m # o, NEW v \in Workers
      PROVE  /\ (cycle'[v] # None /\ Of(v)' = m) <=> (cycle[v] # None /\ Of(v) = m)
             /\ cycle'[v] # None /\ Of(v)' = m => cycle'[v] = cycle[v]
  <2>1. CASE v = w
    BY <1>1, <1>2, <1>3, <2>1
  <2>2. CASE v # w
    BY <1>1, <2>2 DEF Of
  <2> QED  BY <2>1, <2>2
<1>4. ASSUME NEW m \in Mutations, m # o
      PROVE  /\ Early(m)' <=> Early(m)
             /\ Settled(m)' <=> Settled(m)
             /\ Undone(m)' <=> Undone(m)
  <2>1. row'[m] = row[m]
    BY <1>4 DEF StepOf
  <2>2. Early(m)' <=> Early(m)
    BY <1>2, <1>3, <1>4 DEF Early
  <2>3. Settled(m)' <=> Settled(m)
    BY <1>3, <1>4, <2>1 DEF Settled
  <2>4. Undone(m)' <=> Undone(m)
    BY <1>3, <1>4, <2>1 DEF Undone
  <2> QED  BY <2>2, <2>3, <2>4
<1>5. \A v \in Workers : cycle'[v] # None /\ Of(v)' = o => v = w
  BY <1>1 DEF Of
<1>6. Early(o)' => c # None /\ c.at \in {"try", "compare", "deploy", "write"}
  BY <1>1, <1>2, <1>5 DEF Early
<1>7. Settled(o)' => (row'[o] = "deployed" \/ (c # None /\ c.out = "deployed" /\ c.at # "commit"))
  BY <1>1, <1>5 DEF Settled
<1>8. Undone(o)' => (row'[o] = "rolled_back" \/ (c # None /\ c.out = "rolled_back"))
  BY <1>1, <1>5 DEF Undone
<1> QED  BY <1>4, <1>6, <1>7, <1>8

\* A step of w away from the repository, or one that leaves it as it is.
LEMMA RepoQuiet ==
    ASSUME RepoTells, UNCHANGED <<head, tree, ungitted>>,
           \A m \in Mutations : /\ Early(m)' => Early(m)
                                /\ Settled(m)' => Settled(m)
                                /\ Undone(m)' => Undone(m),
           \A v \in Workers : InRepo(v)' => /\ InRepo(v) /\ cycle'[v].pre = cycle[v].pre
                                            /\ Of(v)' = Of(v)
                                            /\ At(v, "commit")' => At(v, "commit")
    PROVE  RepoTells'
<1>1. \A u, v \in Workers : InRepo(u)' /\ InRepo(v)' => u = v
  BY DEF RepoTells
<1>2. HeadTells'
  <2>1. \A v \in Workers : At(v, "commit")' => InRepo(v)'
    BY DEF At, InRepo
  <2> QED  BY <2>1 DEF RepoTells, HeadTells
<1>3. ASSUME NEW v \in Workers, InRepo(v)', NEW h0 \in cycle'[v].pre  PROVE  RestoreTells(v, h0)'
  <2>1. RestoreTells(v, h0) /\ Of(v)' = Of(v)
    BY <1>3 DEF RepoTells
  <2> QED  BY <2>1 DEF RestoreTells
<1> QED  BY <1>1, <1>2, <1>3 DEF RepoTells

\* w goes on to c and leaves the repository alone.
LEMMA StepOfQuiet ==
    ASSUME TypeOK, Phased, NEW w \in Workers, NEW c, StepOf(w, c), RepoTells,
           UNCHANGED <<head, tree, ungitted>>,
           row'[Of(w)] = "deployed" => cycle[w].out = "deployed" /\ cycle[w].at # "commit",
           row'[Of(w)] = "rolled_back" => cycle[w].out = "rolled_back",
           c # None =>
              /\ c.at \in {"try", "compare", "deploy"} => cycle[w].at \in {"try", "compare", "deploy"}
              /\ c.out = "deployed" => cycle[w].out = "deployed" /\ cycle[w].at # "commit"
              /\ c.out = "rolled_back" => cycle[w].out = "rolled_back"
              /\ c.at \notin {"write", "commit", "verify"}
              /\ c.at = "rollback" => cycle[w].at = "verify" /\ c.pre = cycle[w].pre
    PROVE  RepoTells'
<1> DEFINE o == Of(w)
<1>1. /\ cycle'[w] = c
      /\ \A v \in Workers : v # w => cycle'[v] = cycle[v] /\ (cycle[v] # None => Of(v) # Of(w))
      /\ c # None => Of(w)' = Of(w)
  BY StepOfOthers
<1>2. cycle[w] # None /\ o \in Mutations
  BY OfType DEF StepOf
<1>3. ASSUME NEW m \in Mutations
      PROVE  /\ Early(m)' => Early(m)
             /\ Settled(m)' => Settled(m)
             /\ Undone(m)' => Undone(m)
  <2>1. CASE m # o
    BY <1>2, <2>1, StepOfTells
  <2>2. CASE m = o
    <3>1. /\ Early(m)' => c # None /\ c.at \in {"try", "compare", "deploy", "write"}
          /\ Settled(m)' => \/ row'[m] = "deployed"
                            \/ c # None /\ c.out = "deployed" /\ c.at # "commit"
          /\ Undone(m)' => \/ row'[m] = "rolled_back"
                           \/ c # None /\ c.out = "rolled_back"
      BY <2>2, StepOfTells
    <3>2. Early(m)' => Early(m)
      BY <1>2, <2>2, <3>1 DEF Early
    <3>3. Settled(m)' => Settled(m)
      BY <1>2, <2>2, <3>1 DEF Settled
    <3>4. Undone(m)' => Undone(m)
      BY <1>2, <2>2, <3>1 DEF Undone
    <3> QED  BY <3>2, <3>3, <3>4
  <2> QED  BY <2>1, <2>2
<1> HIDE DEF o
<1>4. ASSUME NEW v \in Workers, InRepo(v)'
      PROVE  /\ InRepo(v) /\ cycle'[v].pre = cycle[v].pre /\ Of(v)' = Of(v)
             /\ At(v, "commit")' => At(v, "commit")
  <2>1. CASE v # w
    BY <1>1, <1>4, <2>1 DEF InRepo, Of, At
  <2>2. CASE v = w
    BY <1>1, <1>2, <1>4, <2>2 DEF InRepo, At
  <2> QED  BY <2>1, <2>2
<1> QED  BY <1>3, <1>4, RepoQuiet

\* Such a step, with the promotion files left alone, keeps EInv.
LEMMA QuietStep ==
    ASSUME EInv, NEW w \in Workers, NEW c, StepOf(w, c),
           UNCHANGED <<pvars, head, tree, ungitted, crowded>>,
           recorded' = recorded \/ (recorded' = recorded \cup {Of(w)} /\ cycle[w].at = "promote"),
           Busy(w) => c # None /\ c.at = "promoting",
           row'[Of(w)] = "deployed" => cycle[w].out = "deployed" /\ cycle[w].at # "commit",
           row'[Of(w)] = "rolled_back" => cycle[w].out = "rolled_back",
           cycle[w].out = "deployed" => row'[Of(w)] \in {"none", "generated", "deployed"},
           c # None =>
              /\ c.at \in {"try", "compare", "deploy"} => cycle[w].at \in {"try", "compare", "deploy"}
              /\ c.out = "deployed" => cycle[w].out = "deployed" /\ cycle[w].at # "commit"
              /\ c.out = "rolled_back" => cycle[w].out = "rolled_back"
              /\ c.at \notin {"write", "commit", "verify"}
              /\ c.at = "rollback" => cycle[w].at = "verify" /\ c.pre = cycle[w].pre
              /\ cycle[w].at \in {"promote", "promoting", "record", "status"} =>
                    c.out = cycle[w].out /\ c.at \in {"promote", "promoting", "record", "status"}
    PROVE  EInv'
<1> USE EvolutionAssumption
<1>0. PICK o \in Mutations : o = Of(w)
  BY OfType DEF StepOf, EInv
<1>1. cycle[w] # None /\ cycle[w] \in Cycles /\ o \in Mutations /\ o \in used /\ o = Of(w)
  BY <1>0, OfType DEF StepOf, EInv
<1>2. PInv'
  BY PNextInv DEF EInv
<1>3. UNCHANGED <<pointer, trial, op>>
  BY DEF pvars, files
<1>4. \A h \in Hosts : Busy(h)' <=> Busy(h)
  BY <1>3 DEF Busy
<1>5. \A m \in Mutations : Touched(m)' => Touched(m) \/ (m = o /\ cycle[w].at = "promote")
  <2>1. ASSUME NEW m \in Mutations, m \in recorded'
        PROVE  m \in recorded \/ (m = o /\ cycle[w].at = "promote")
    BY <1>1, <2>1
  <2> QED  BY <1>3, <2>1 DEF Touched, InHand, OnTrial
<1>6. TypeOK' /\ Phased'
  <2>1. recorded' \subseteq Mutations
    BY <1>1 DEF EInv, TypeOK
  <2>2. \A v \in Workers \ {w} : Busy(v)' => Busy(v)
    BY <1>4
  <2>3. Busy(w)' => c # None /\ c.at = "promoting"
    BY <1>4
  <2> QED  BY <1>2, <2>1, <2>2, <2>3, StepOfPhased DEF EInv, TypeOK
<1>7. Untainted'
  <2>1. Touched(o) => cycle[w].out = "deployed" /\ cycle[w].at \in {"promote", "promoting", "record", "status"}
    BY <1>1 DEF EInv, Untainted, Deployed
  <2>2. cycle[w].at = "promote" => cycle[w].out = "deployed"
    BY <1>1 DEF EInv, Phased, InPhase
  <2>3. Touched(o)' =>
          /\ row'[o] \in {"none", "generated", "deployed"}
          /\ c # None => c.out = "deployed" /\ c.at \in {"promote", "promoting", "record", "status"}
    BY <1>1, <1>5, <2>1, <2>2
  <2> QED  BY <1>1, <1>5, <2>3, StepOfUntainted DEF EInv
<1>8. ~crowded' => RepoTells'
  BY StepOfQuiet DEF EInv
<1> QED  BY <1>2, <1>6, <1>7, <1>8 DEF EInv

-----------------------------------------------------------------------------
(***************************************************************************)
(* The actions away from the repository.                                   *)
(***************************************************************************)
\* What Go makes of the cycle of w.
GoTo(w, phase, out) ==
    /\ cycle[w] # None /\ Go(w, phase, out) /\ UNCHANGED used
    /\ row' \in [Mutations -> Statuses] /\ \A m \in Mutations : m # Of(w) => row'[m] = row[m]
    /\ InPhase([cycle[w] EXCEPT !.at = phase, !.out = out], row'[Of(w)])

WentTo(w, phase, out, c) ==
    StepOf(w, c) /\ c # None /\ c.at = phase /\ c.out = out /\ c.pre = cycle[w].pre

LEMMA GoStep ==
    ASSUME EInv, NEW w \in Workers, NEW phase \in Phases, NEW out \in Outcomes,
           GoTo(w, phase, out)
    PROVE  \E c \in Cycles : WentTo(w, phase, out, c)
<1> DEFINE c == [cycle[w] EXCEPT !.at = phase, !.out = out]
<1>1. cycle[w] \in Cycles /\ cycle[w] # None
  BY OfType DEF EInv, GoTo
<1>2. c \in Cycles /\ c.at = phase /\ c.out = out /\ c.pre = cycle[w].pre /\ c.mutation = Of(w)
  BY <1>1 DEF Cycles, Of
<1>3. cycle' = [cycle EXCEPT ![w] = c]
  BY <1>1 DEF GoTo, Go, EInv, TypeOK, Cycles
<1> HIDE DEF c
<1>4. c # None
  BY <1>2, NoCycleAssumption
<1>5. StepOf(w, c)
  BY <1>2, <1>3, <1>4 DEF GoTo, StepOf, c
<1> QED  BY <1>2, <1>4, <1>5 DEF WentTo

\* The row of w's mutation while nothing has been recorded.
LEMMA RowKept ==
    ASSUME EInv, UNCHANGED row
    PROVE  /\ row' \in [Mutations -> Statuses]
           /\ \A m \in Mutations : row'[m] = row[m]
BY DEF EInv, TypeOK, Statuses

LEMMA IdleElsewhere ==
    ASSUME EInv, NEW w \in Workers, cycle[w] # None, cycle[w].at # "promoting"
    PROVE  ~Busy(w)
BY DEF EInv, TypeOK, At

LEMMA TryInv ==
    ASSUME EInv, NEW w \in Workers, Try(w)
    PROVE  EInv'
<1>1. /\ cycle[w] # None /\ cycle[w].at = "try" /\ cycle[w] \in Cycles
      /\ UNCHANGED <<pvars, used, head, tree, ungitted, crowded, recorded, row>>
  BY OfType DEF Try, At, EInv, repo, rows
<1>2. ~Busy(w) /\ cycle[w].out = "rejected" /\ row[Of(w)] = "none" /\ Of(w) \in Mutations
  BY <1>1, IdleElsewhere, OfType DEF EInv, Phased, InPhase
<1>3. /\ row' \in [Mutations -> Statuses]
      /\ \A m \in Mutations : row'[m] = row[m]
  BY <1>1, RowKept
<1>4. CASE Go(w, "compare", "rejected") \/ Go(w, "dismiss", "rejected")
  <2>1. PICK phase \in {"compare", "dismiss"} : Go(w, phase, "rejected")
    BY <1>4
  <2>2. InPhase([cycle[w] EXCEPT !.at = phase, !.out = "rejected"], row'[Of(w)])
    BY <1>1, <1>2, <1>3 DEF InPhase, Cycles
  <2>3. PICK c \in Cycles : WentTo(w, phase, "rejected", c)
    <3>1. phase \in Phases /\ "rejected" \in Outcomes
      BY <1>1, <1>3, <2>1, <2>2 DEF Phases, Outcomes
    <3>2. GoTo(w, phase, "rejected")
      BY <1>1, <1>3, <2>1, <2>2 DEF GoTo
    <3> QED  BY <3>1, <3>2, GoStep
  <2> QED  BY <1>1, <1>2, <1>3, <2>3, QuietStep DEF WentTo
<1>5. CASE cycle[w].tries + 1 < Attempts /\ cycle' = [cycle EXCEPT ![w].tries = @ + 1]
  <2> DEFINE c == [cycle[w] EXCEPT !.tries = @ + 1]
  <2>1. cycle[w].tries + 1 \in 0..Attempts - 1
    <3> DEFINE t == cycle[w].tries
    <3>1. t \in 0..Attempts - 1 /\ t + 1 < Attempts /\ Attempts \in Nat
      BY <1>1, <1>5, EvolutionAssumption DEF Cycles
    <3> HIDE DEF t
    <3>2. t + 1 \in 0..Attempts - 1
      BY <3>1
    <3> QED  BY <3>2 DEF t
  <2>2. c \in Cycles /\ c.at = "try" /\ c.out = "rejected" /\ c.mutation = Of(w)
    BY <1>1, <1>2, <2>1 DEF Cycles, Of
  <2>3. cycle' = [cycle EXCEPT ![w] = c]
    BY <1>5 DEF EInv, TypeOK
  <2> HIDE DEF c
  <2>4. c # None
    BY <2>2, NoCycleAssumption
  <2>5. StepOf(w, c)
    BY <1>1, <1>2, <1>3, <2>2, <2>3, <2>4 DEF StepOf, InPhase
  <2> QED  BY <1>1, <1>2, <1>3, <2>2, <2>4, <2>5, QuietStep
<1> QED  BY <1>4, <1>5 DEF Try

LEMMA CompareInv ==
    ASSUME EInv, NEW w \in Workers, Compare(w)
    PROVE  EInv'
<1>1. /\ cycle[w] # None /\ cycle[w].at = "compare" /\ cycle[w] \in Cycles
      /\ UNCHANGED <<pvars, used, head, tree, ungitted, crowded, recorded, row>>
  BY OfType DEF Compare, At, EInv, repo, rows
<1>2. ~Busy(w) /\ cycle[w].out = "rejected" /\ row[Of(w)] = "none" /\ Of(w) \in Mutations
  BY <1>1, IdleElsewhere, OfType DEF EInv, Phased, InPhase
<1>3. /\ row' \in [Mutations -> Statuses]
      /\ \A m \in Mutations : row'[m] = row[m]
  BY <1>1, RowKept
<1>4. PICK phase \in {"deploy", "record"} : Go(w, phase, "rejected")
  BY DEF Compare
<1>5. InPhase([cycle[w] EXCEPT !.at = phase, !.out = "rejected"], row'[Of(w)])
  BY <1>1, <1>2, <1>3 DEF InPhase, Cycles
<1>6. PICK c \in Cycles : WentTo(w, phase, "rejected", c)
  <2>1. phase \in Phases /\ "rejected" \in Outcomes
    BY <1>1, <1>3, <1>4, <1>5 DEF Phases, Outcomes
  <2>2. GoTo(w, phase, "rejected")
    BY <1>1, <1>3, <1>4, <1>5 DEF GoTo
  <2> QED  BY <2>1, <2>2, GoStep
<1> QED  BY <1>1, <1>2, <1>3, <1>6, QuietStep DEF WentTo

LEMMA VerifyInv ==
    ASSUME EInv, NEW w \in Workers, Verify(w)
    PROVE  EInv'
<1>1. /\ cycle[w] # None /\ cycle[w].at = "verify" /\ cycle[w] \in Cycles
      /\ UNCHANGED <<pvars, used, head, tree, ungitted, crowded, recorded, row>>
  BY OfType DEF Verify, At, EInv, repo, rows
<1>2. ~Busy(w) /\ cycle[w].out = "deployed" /\ row[Of(w)] = "none" /\ Of(w) \in Mutations
  BY <1>1, IdleElsewhere, OfType DEF EInv, Phased, InPhase
<1>3. /\ row' \in [Mutations -> Statuses]
      /\ \A m \in Mutations : row'[m] = row[m]
  BY <1>1, RowKept
<1>4. PICK phase \in {"promote", "record", "rollback"}, out \in {"deployed", "verify_failed"} :
        Go(w, phase, out) /\ (phase = "promote" <=> out = "deployed")
  BY DEF Verify, Fail
<1>5. InPhase([cycle[w] EXCEPT !.at = phase, !.out = out], row'[Of(w)])
  BY <1>1, <1>2, <1>3, <1>4 DEF InPhase, Cycles
<1>6. PICK c \in Cycles : WentTo(w, phase, out, c)
  <2>1. phase \in Phases /\ out \in Outcomes
    BY <1>1, <1>3, <1>4, <1>5 DEF Phases, Outcomes
  <2>2. GoTo(w, phase, out)
    BY <1>1, <1>3, <1>4, <1>5 DEF GoTo
  <2> QED  BY <2>1, <2>2, GoStep
<1> QED  BY <1>1, <1>2, <1>3, <1>4, <1>6, QuietStep DEF WentTo

\* From the promotion to the record.
LEMMA ToRecord ==
    ASSUME EInv, NEW w \in Workers, cycle[w] # None, cycle[w].at \in {"promote", "promoting"},
           ~Busy(w), Go(w, "record", cycle[w].out),
           UNCHANGED <<pvars, used, head, tree, ungitted, crowded, row>>,
           recorded' = recorded \/ (recorded' = recorded \cup {Of(w)} /\ cycle[w].at = "promote")
    PROVE  EInv'
<1>1. cycle[w] \in Cycles /\ cycle[w].out = "deployed" /\ row[Of(w)] = "none" /\ Of(w) \in Mutations
  BY OfType DEF EInv, Phased, InPhase
<1>2. /\ row' \in [Mutations -> Statuses]
      /\ \A m \in Mutations : row'[m] = row[m]
  BY RowKept
<1>3. InPhase([cycle[w] EXCEPT !.at = "record", !.out = "deployed"], row'[Of(w)])
  BY <1>1, <1>2 DEF InPhase, Cycles
<1>4. PICK c \in Cycles : WentTo(w, "record", "deployed", c)
  <2>1. "record" \in Phases /\ "deployed" \in Outcomes
    BY <1>1, <1>2, <1>3 DEF Phases, Outcomes
  <2>2. GoTo(w, "record", "deployed")
    BY <1>1, <1>2, <1>3 DEF GoTo
  <2> QED  BY <2>1, <2>2, GoStep
<1> QED  BY <1>1, <1>2, <1>4, QuietStep DEF WentTo

LEMMA PromoteInv ==
    ASSUME EInv, NEW w \in Workers, SkipPromotion(w) \/ Promoted(w) \/ PromoteCode(w)
    PROVE  EInv'
<1>1. cycle[w] # None /\ cycle[w].at \in {"promote", "promoting"} /\ ~Busy(w)
  BY IdleElsewhere DEF SkipPromotion, Promoted, PromoteCode, At
<1>2. /\ Go(w, "record", cycle[w].out)
      /\ UNCHANGED <<pvars, used, head, tree, ungitted, crowded, row>>
      /\ recorded' = recorded \/ (recorded' = recorded \cup {Of(w)} /\ cycle[w].at = "promote")
  BY DEF SkipPromotion, Promoted, PromoteCode, At, repo, rows
<1> QED  BY <1>1, <1>2, ToRecord

LEMMA RecordMutationInv ==
    ASSUME EInv, NEW w \in Workers, RecordMutation(w)
    PROVE  EInv'
<1>1. /\ cycle[w] # None /\ cycle[w].at = "record" /\ cycle[w] \in Cycles
      /\ UNCHANGED <<pvars, used, head, tree, ungitted, crowded, recorded>>
      /\ Go(w, "status", cycle[w].out)
  BY OfType DEF RecordMutation, At, EInv, repo
<1>2. ~Busy(w) /\ row[Of(w)] = "none" /\ Of(w) \in Mutations /\ cycle[w].out \in Outcomes
  BY <1>1, IdleElsewhere, OfType DEF EInv, Phased, InPhase, Cycles
<1>3. /\ row' \in [Mutations -> Statuses] /\ row'[Of(w)] \in {"none", "generated"}
      /\ \A m \in Mutations : m # Of(w) => row'[m] = row[m]
  BY <1>2 DEF RecordMutation, EInv, TypeOK, Statuses
<1>4. InPhase([cycle[w] EXCEPT !.at = "status", !.out = cycle[w].out], row'[Of(w)])
  BY <1>1, <1>3 DEF InPhase, Cycles
<1>5. PICK c \in Cycles : WentTo(w, "status", cycle[w].out, c)
  <2>1. "status" \in Phases /\ cycle[w].out \in Outcomes
    BY <1>1, <1>2, <1>3, <1>4 DEF Phases, Outcomes
  <2>2. GoTo(w, "status", cycle[w].out)
    BY <1>1, <1>2, <1>3, <1>4 DEF GoTo
  <2> QED  BY <2>1, <2>2, GoStep
<1> QED  BY <1>1, <1>2, <1>3, <1>5, QuietStep DEF WentTo

\* The cycle ends, with its row as row' has it.
LEMMA CycleEnds ==
    ASSUME EInv, NEW w \in Workers, cycle[w] # None, cycle' = [cycle EXCEPT ![w] = None],
           ~Busy(w), UNCHANGED <<pvars, used, head, tree, ungitted, crowded, recorded>>,
           row' \in [Mutations -> Statuses], \A m \in Mutations : m # Of(w) => row'[m] = row[m],
           row'[Of(w)] = "deployed" => cycle[w].out = "deployed" /\ cycle[w].at # "commit",
           row'[Of(w)] = "rolled_back" => cycle[w].out = "rolled_back",
           cycle[w].out = "deployed" => row'[Of(w)] \in {"none", "generated", "deployed"}
    PROVE  EInv'
<1>1. StepOf(w, None)
  BY DEF StepOf
<1> QED  BY <1>1, QuietStep

LEMMA DismissInv ==
    ASSUME EInv, NEW w \in Workers, Dismiss(w)
    PROVE  EInv'
<1>1. /\ cycle[w] # None /\ cycle[w].at = "dismiss" /\ cycle' = [cycle EXCEPT ![w] = None]
      /\ UNCHANGED <<pvars, used, head, tree, ungitted, crowded, recorded>>
  BY DEF Dismiss, At, repo
<1>2. /\ ~Busy(w) /\ row[Of(w)] = "none" /\ Of(w) \in Mutations /\ cycle[w].out = "rejected"
  BY <1>1, IdleElsewhere, OfType DEF EInv, Phased, InPhase
<1>3. /\ row' \in [Mutations -> Statuses] /\ row'[Of(w)] \in {"none", "rejected"}
      /\ \A m \in Mutations : m # Of(w) => row'[m] = row[m]
  BY <1>2 DEF Dismiss, EInv, TypeOK, Statuses, Outcomes
<1> QED  BY <1>1, <1>2, <1>3, CycleEnds

LEMMA UpdateStatusInv ==
    ASSUME EInv, NEW w \in Workers, UpdateStatus(w)
    PROVE  EInv'
<1>1. /\ cycle[w] # None /\ cycle[w].at = "status" /\ cycle' = [cycle EXCEPT ![w] = None]
      /\ UNCHANGED <<pvars, used, head, tree, ungitted, crowded, recorded>>
  BY DEF UpdateStatus, At, repo
<1>2. /\ ~Busy(w) /\ row[Of(w)] \in {"none", "generated"} /\ Of(w) \in Mutations
      /\ cycle[w].out \in Outcomes
  BY <1>1, IdleElsewhere, OfType DEF EInv, Phased, InPhase, Cycles
<1>3. /\ row' \in [Mutations -> Statuses] /\ row'[Of(w)] \in {row[Of(w)], cycle[w].out}
      /\ \A m \in Mutations : m # Of(w) => row'[m] = row[m]
  <2>1. CASE row' = [row EXCEPT ![Of(w)] = cycle[w].out]
    BY <1>2, <2>1 DEF EInv, TypeOK, Statuses
  <2>2. CASE UNCHANGED row
    BY <2>2, RowKept
  <2> QED  BY <2>1, <2>2 DEF UpdateStatus
<1> QED  BY <1>1, <1>2, <1>3, CycleEnds

LEMMA AnalyzeInv ==
    ASSUME EInv, NEW w \in Workers, Analyze(w)
    PROVE  EInv'
<1>1. PICK o \in Mutations \ used :
        /\ used' = used \cup {o}
        /\ cycle' = [cycle EXCEPT ![w] =
                        [mutation |-> o, at |-> "try", tries |-> 0, pre |-> {}, out |-> "rejected"]]
  BY DEF Analyze
<1> DEFINE c == [mutation |-> o, at |-> "try", tries |-> 0, pre |-> {}, out |-> "rejected"]
<1>2. /\ cycle[w] = None /\ ~Busy(w)
      /\ UNCHANGED <<pvars, head, tree, ungitted, crowded, row, recorded>>
  BY DEF Analyze, repo, rows
<1>3. /\ c \in Cycles /\ c.mutation = o /\ c.at = "try" /\ c.out = "rejected"
  <2>1. 0 \in 0..Attempts - 1
    BY EvolutionAssumption
  <2> QED  BY <2>1 DEF Cycles, Phases, Outcomes
<1>4. cycle' = [cycle EXCEPT ![w] = c]
  BY <1>1
<1> HIDE DEF c
<1>5. c # None
  BY <1>3, NoCycleAssumption
<1>6. /\ cycle'[w] = c /\ cycle' \in [Workers -> Cycles \cup {None}]
      /\ \A v \in Workers : v # w => cycle'[v] = cycle[v]
      /\ \A v \in Workers : v # w /\ cycle[v] # None => Of(v) # o /\ Of(v)' = Of(v)
      /\ Of(w)' = o
  BY <1>1, <1>3, <1>4 DEF EInv, TypeOK, Of
<1>7. UNCHANGED <<pointer, trial, op>> /\ (\A h \in Hosts : Busy(h)' <=> Busy(h))
  BY <1>2 DEF pvars, files, Busy
<1>8. PInv'
  BY <1>2, PNextInv DEF EInv
<1>9. TypeOK'
  <2>1. \A v \in Workers : Busy(v)' => At(v, "promoting")'
    <3> SUFFICES ASSUME NEW v \in Workers, Busy(v)'  PROVE  At(v, "promoting")'
      OBVIOUS
    <3>1. Busy(v) /\ v # w
      BY <1>2, <1>7, EvolutionAssumption
    <3> QED  BY <1>6, <3>1 DEF EInv, TypeOK, At
  <2>2. \A v \in Workers : cycle'[v] # None => Of(v)' \in used'
    BY <1>1, <1>6 DEF EInv, TypeOK
  <2>3. \A u, v \in Workers : u # v /\ cycle'[u] # None /\ cycle'[v] # None => Of(u)' # Of(v)'
    BY <1>6 DEF EInv, TypeOK
  <2> QED  BY <1>1, <1>2, <1>6, <1>8, <2>1, <2>2, <2>3 DEF EInv, PInv, TypeOK
<1>10. Phased'
  <2>1. ASSUME NEW m \in Mutations \ used'  PROVE  row'[m] = "none"
    BY <1>1, <1>2, <2>1 DEF EInv, Phased
  <2>2. ASSUME NEW v \in Workers, cycle'[v] # None  PROVE  InPhase(cycle'[v], row'[Of(v)'])
    <3>1. CASE v = w
      <4>1. row[o] = "none"
        BY <1>1 DEF EInv, Phased
      <4> QED  BY <1>2, <1>3, <1>6, <3>1, <4>1 DEF InPhase
    <3>2. CASE v # w
      BY <1>2, <1>6, <2>2, <3>2 DEF EInv, Phased
    <3> QED  BY <3>1, <3>2
  <2> QED  BY <2>1, <2>2 DEF Phased
<1>11. Untainted'
  <2> SUFFICES ASSUME NEW m \in Mutations, Touched(m)'  PROVE  Deployed(m)'
    BY DEF Untainted
  <2>1. Touched(m)
    BY <1>2, <1>7 DEF Touched, InHand, OnTrial
  <2>2. Deployed(m) /\ m # o
    BY <1>1, <2>1 DEF EInv, Untainted, Deployed
  <2>3. \A v \in Workers : cycle'[v] # None /\ Of(v)' = m => v # w /\ cycle'[v] = cycle[v] /\ Of(v) = m
    BY <1>6, <2>2
  <2> QED  BY <1>1, <1>2, <2>2, <2>3 DEF Deployed
<1>12. ~crowded' => RepoTells'
  <2> SUFFICES ASSUME RepoTells  PROVE  RepoTells'
    BY <1>2 DEF EInv
  <2>1. ASSUME NEW m \in Mutations
        PROVE  /\ Early(m)' => Early(m)
               /\ Settled(m)' => Settled(m)
               /\ Undone(m)' => Undone(m)
    <3>1. Early(m)' => Early(m)
      BY <1>1, <1>2, <1>6 DEF Early
    <3>2. Settled(m)' => Settled(m)
      BY <1>2, <1>3, <1>6 DEF Settled
    <3>3. Undone(m)' => Undone(m)
      BY <1>2, <1>3, <1>6 DEF Undone
    <3> QED  BY <3>1, <3>2, <3>3
  <2>2. ASSUME NEW v \in Workers, InRepo(v)'
        PROVE  /\ InRepo(v) /\ cycle'[v].pre = cycle[v].pre /\ Of(v)' = Of(v)
               /\ At(v, "commit")' => At(v, "commit")
    <3>1. v # w
      BY <1>3, <1>6, <2>2 DEF InRepo
    <3> QED  BY <1>6, <2>2, <3>1 DEF InRepo, At
  <2> QED  BY <1>2, <2>1, <2>2, RepoQuiet
<1> QED  BY <1>8, <1>9, <1>10, <1>11, <1>12 DEF EInv

-----------------------------------------------------------------------------
(***************************************************************************)
(* The actions at the repository.                                          *)
(***************************************************************************)
LEMMA RepoStep ==
    ASSUME EInv, NEW w \in Workers, NEW c, StepOf(w, c), c # None, c.at # "promoting",
           cycle[w].at \in {"deploy", "write", "commit", "rollback"},
           UNCHANGED <<pvars, recorded>>,
           head' \subseteq Mutations, tree' \subseteq Mutations, ungitted' \subseteq Mutations,
           crowded' \in BOOLEAN, ~crowded' => RepoTells'
    PROVE  EInv'
<1>1. PICK o \in Mutations : o = Of(w) /\ cycle[w] # None
  BY OfType DEF StepOf, EInv
<1>2. PInv'
  BY PNextInv DEF EInv
<1>3. UNCHANGED <<pointer, trial, op>> /\ (\A h \in Hosts : Busy(h)' <=> Busy(h))
  BY DEF pvars, files, Busy
<1>4. ~Busy(w)
  BY <1>1, IdleElsewhere
<1>5. TypeOK' /\ Phased'
  <2>1. recorded' \subseteq Mutations
    BY DEF EInv, TypeOK
  <2>2. \A v \in Workers \ {w} : Busy(v)' => Busy(v)
    BY <1>3, EvolutionAssumption
  <2>3. ~Busy(w)'
    BY <1>3, <1>4, EvolutionAssumption
  <2> QED  BY <1>2, <2>1, <2>2, <2>3, StepOfPhased DEF EInv
<1>6. Untainted'
  <2>1. \A m \in Mutations : Touched(m)' => Touched(m)
    BY <1>3 DEF Touched, InHand, OnTrial
  <2>2. ~Touched(o)
    BY <1>1 DEF EInv, Untainted, Deployed
  <2> QED  BY <1>1, <2>1, <2>2, StepOfUntainted DEF EInv
<1> QED  BY <1>2, <1>5, <1>6 DEF EInv

LEMMA ReadHeadInv ==
    ASSUME EInv, NEW w \in Workers, ReadHead(w)
    PROVE  EInv'
<1>1. /\ cycle[w] # None /\ cycle[w].at = "deploy" /\ cycle[w] \in Cycles
      /\ UNCHANGED <<pvars, used, head, tree, ungitted, recorded, row>>
      /\ crowded' = (crowded \/ \E v \in Workers : InRepo(v))
  BY OfType DEF ReadHead, At, EInv, rows
<1>2. PICK pre \in {{}, {head}} : cycle' = [cycle EXCEPT ![w].pre = pre, ![w].at = "write"]
  BY DEF ReadHead
<1>3. PICK o \in Mutations : o = Of(w)
  BY <1>1, OfType DEF EInv
<1>4. cycle[w].out = "rejected" /\ row[o] = "none"
  BY <1>1, <1>3 DEF EInv, Phased, InPhase
<1> DEFINE c == [cycle[w] EXCEPT !.pre = pre, !.at = "write"]
<1>5. c \in Cycles /\ c.at = "write" /\ c.out = "rejected" /\ c.mutation = o /\ c.pre = pre
  <2>1. pre \in SUBSET (SUBSET Mutations)
    BY DEF EInv, TypeOK
  <2> QED  BY <1>1, <1>3, <1>4, <2>1 DEF Cycles, Phases, Of
<1>6. cycle' = [cycle EXCEPT ![w] = c]
  BY <1>2 DEF EInv, TypeOK
<1> HIDE DEF c
<1>7. c # None
  BY <1>5, NoCycleAssumption
<1>8. StepOf(w, c)
  BY <1>1, <1>3, <1>4, <1>5, <1>6, <1>7, RowKept DEF StepOf, InPhase
<1>9. ~crowded' => RepoTells'
  <2> SUFFICES ASSUME RepoTells, \A v \in Workers : ~InRepo(v)  PROVE  RepoTells'
    BY <1>1 DEF EInv
  <2>1. /\ cycle'[w] = c /\ Of(w)' = o
        /\ \A v \in Workers : v # w => cycle'[v] = cycle[v]
    BY <1>3, <1>7, <1>8, StepOfOthers DEF EInv
  <2>2. ASSUME NEW m \in Mutations
        PROVE  /\ Early(m)' => Early(m)
               /\ Settled(m)' => Settled(m)
               /\ Undone(m)' => Undone(m)
    <3>1. CASE m # o
      BY <1>3, <1>8, <3>1, StepOfTells DEF EInv
    <3>2. CASE m = o
      <4>1. Early(m)
        BY <1>1, <1>3, <3>2 DEF Early
      <4>2. ~Settled(m)' /\ ~Undone(m)'
        BY <1>1, <1>3, <1>4, <1>5, <1>8, <3>2, StepOfTells DEF EInv
      <4> QED  BY <4>1, <4>2
    <3> QED  BY <3>1, <3>2
  <2>3. \A v \in Workers : InRepo(v)' => v = w
    BY <2>1 DEF InRepo
  <2>4. HeadTells'
    <3>1. \A v \in Workers : ~At(v, "commit")'
      <4> SUFFICES ASSUME NEW v \in Workers, At(v, "commit")'  PROVE  FALSE
        OBVIOUS
      <4>1. InRepo(v)'
        BY DEF At, InRepo
      <4>2. v = w
        BY <2>3, <4>1
      <4> QED  BY <1>5, <2>1, <4>2 DEF At
    <3> QED  BY <1>1, <2>2, <3>1 DEF RepoTells, HeadTells
  <2>5. RestoreTells(w, head)'
    <3>1. o \notin tree /\ head \subseteq tree
      <4>1. Early(o)
        BY <1>1, <1>3 DEF Early
      <4> QED  BY <4>1 DEF RepoTells, HeadTells
    <3>2. head' = head /\ ungitted' = ungitted
      BY <1>1
    <3>3. \A m \in Mutations : /\ Settled(m)' /\ m \notin ungitted' => m \in head'
                               /\ Undone(m)' \/ Early(m)' => m \notin head'
      BY <2>2, <3>1, <3>2 DEF RepoTells, HeadTells
    <3> QED  BY <2>1, <3>1, <3>2, <3>3 DEF RestoreTells
  <2>6. \A h0 \in cycle'[w].pre : RestoreTells(w, h0)'
    <3> SUFFICES ASSUME NEW h0 \in cycle'[w].pre  PROVE  RestoreTells(w, h0)'
      OBVIOUS
    <3>1. h0 = head /\ head' = head
      BY <1>1, <1>5, <2>1
    <3> QED  BY <2>5, <3>1 DEF RestoreTells
  <2> QED  BY <2>3, <2>4, <2>6 DEF RepoTells
<1>10. /\ head' \subseteq Mutations /\ tree' \subseteq Mutations /\ ungitted' \subseteq Mutations
       /\ crowded' \in BOOLEAN
  BY <1>1 DEF EInv, TypeOK
<1> QED  BY <1>1, <1>5, <1>7, <1>8, <1>9, <1>10, RepoStep

\* The others while w is at the repository.
LEMMA AloneInRepo ==
    ASSUME EInv, RepoTells, NEW w \in Workers, InRepo(w), NEW c, StepOf(w, c),
           NEW o \in Mutations, o = Of(w)
    PROVE  /\ cycle'[w] = c /\ (c # None => Of(w)' = o)
           /\ \A v \in Workers : v # w => ~InRepo(v)' /\ ~At(v, "commit")'
           /\ \A m \in Mutations : m # o => /\ Early(m)' => Early(m)
                                            /\ Settled(m)' => Settled(m)
                                            /\ Undone(m)' => Undone(m)
<1>1. /\ cycle'[w] = c /\ (c # None => Of(w)' = o)
      /\ \A v \in Workers : v # w => cycle'[v] = cycle[v]
  BY StepOfOthers DEF EInv
<1>2. \A v \in Workers : v # w => ~InRepo(v)
  BY DEF RepoTells
<1>3. \A v \in Workers : v # w => ~InRepo(v)' /\ ~At(v, "commit")'
  BY <1>1, <1>2 DEF InRepo, At
<1>4. \A m \in Mutations : m # o => /\ Early(m)' => Early(m)
                                    /\ Settled(m)' => Settled(m)
                                    /\ Undone(m)' => Undone(m)
  BY StepOfTells DEF EInv
<1> QED  BY <1>1, <1>3, <1>4

LEMMA WriteFileInv ==
    ASSUME EInv, NEW w \in Workers, WriteFile(w)
    PROVE  EInv'
<1>1. /\ cycle[w] # None /\ cycle[w].at = "write" /\ cycle[w] \in Cycles
      /\ Go(w, "commit", "deployed")
      /\ UNCHANGED <<pvars, used, head, crowded, recorded, row>>
  BY OfType DEF WriteFile, At, EInv, rows
<1>2. PICK o \in Mutations : o = Of(w)
  BY <1>1, OfType DEF EInv
<1>3. \/ tree' = tree \cup {o} /\ UNCHANGED ungitted
      \/ ungitted' = ungitted \cup {o} /\ UNCHANGED tree
  BY <1>2 DEF WriteFile
<1>4. row[o] = "none"
  BY <1>1, <1>2 DEF EInv, Phased, InPhase
<1>5. GoTo(w, "commit", "deployed")
  BY <1>1, <1>2, <1>4, RowKept DEF GoTo, InPhase, Cycles
<1>6. PICK c \in Cycles : WentTo(w, "commit", "deployed", c)
  <2>1. "commit" \in Phases /\ "deployed" \in Outcomes
    BY DEF Phases, Outcomes
  <2> QED  BY <1>5, <2>1, GoStep
<1>7. /\ head' \subseteq Mutations /\ tree' \subseteq Mutations /\ ungitted' \subseteq Mutations
      /\ crowded' \in BOOLEAN
  BY <1>1, <1>3 DEF EInv, TypeOK
<1>8. ~crowded' => RepoTells'
  <2> SUFFICES ASSUME RepoTells  PROVE  RepoTells'
    BY <1>1 DEF EInv
  <2>1. InRepo(w)
    BY <1>1 DEF InRepo
  <2>2. /\ cycle'[w] = c /\ Of(w)' = o /\ cycle'[w].pre = cycle[w].pre
        /\ \A v \in Workers : v # w => ~InRepo(v)' /\ ~At(v, "commit")'
        /\ \A m \in Mutations : m # o => /\ Early(m)' => Early(m)
                                         /\ Settled(m)' => Settled(m)
                                         /\ Undone(m)' => Undone(m)
    BY <1>2, <1>6, <2>1, AloneInRepo DEF WentTo
  <2>3. ~Early(o)' /\ ~Settled(o)' /\ ~Undone(o)'
    BY <1>1, <1>2, <1>4, <1>6, StepOfTells DEF EInv, WentTo
  <2>4. HeadTells'
    <3>1. head' \subseteq tree'
      BY <1>1, <1>3 DEF RepoTells, HeadTells
    <3>2. ASSUME NEW m \in Mutations
          PROVE  /\ Settled(m)' /\ m \notin ungitted' => m \in head'
                 /\ Undone(m)' \/ Early(m)' => m \notin tree'
      <4>1. CASE m = o
        BY <2>3, <4>1
      <4>2. CASE m # o
        BY <1>1, <1>3, <2>2, <4>2 DEF RepoTells, HeadTells
      <4> QED  BY <4>1, <4>2
    <3>3. \A v \in Workers : At(v, "commit")' => Of(v)' \in tree' \cup ungitted'
      BY <1>3, <2>2
    <3> QED  BY <3>1, <3>2, <3>3 DEF HeadTells
  <2>5. ASSUME NEW h0 \in cycle'[w].pre  PROVE  RestoreTells(w, h0)'
    <3>1. RestoreTells(w, h0)
      BY <2>1, <2>2, <2>5 DEF RepoTells
    <3>2. ASSUME NEW m \in Mutations
          PROVE  /\ Settled(m)' /\ m # o /\ m \notin ungitted' => m \in h0
                 /\ Undone(m)' \/ Early(m)' => m \notin h0
      <4>1. CASE m = o
        BY <2>3, <4>1
      <4>2. CASE m # o
        BY <1>2, <1>3, <2>2, <3>1, <4>2 DEF RestoreTells
      <4> QED  BY <4>1, <4>2
    <3> QED  BY <1>2, <2>2, <3>1, <3>2 DEF RestoreTells
  <2> QED  BY <2>2, <2>4, <2>5 DEF RepoTells
<1> QED  BY <1>1, <1>6, <1>7, <1>8, RepoStep DEF WentTo

LEMMA CommitInv ==
    ASSUME EInv, NEW w \in Workers, Commit(w)
    PROVE  EInv'
<1>1. /\ cycle[w] # None /\ cycle[w].at = "commit" /\ cycle[w] \in Cycles
      /\ Go(w, "verify", "deployed")
      /\ UNCHANGED <<pvars, used, tree, crowded, recorded, row>>
  BY OfType DEF Commit, At, EInv, rows
<1>2. PICK o \in Mutations : o = Of(w)
  BY <1>1, OfType DEF EInv
<1>3. \/ head' = tree /\ UNCHANGED ungitted
      \/ ungitted' = ungitted \cup {o} /\ UNCHANGED head
  BY <1>2 DEF Commit
<1>4. row[o] = "none"
  BY <1>1, <1>2 DEF EInv, Phased, InPhase
<1>5. GoTo(w, "verify", "deployed")
  BY <1>1, <1>2, <1>4, RowKept DEF GoTo, InPhase, Cycles
<1>6. PICK c \in Cycles : WentTo(w, "verify", "deployed", c)
  <2>1. "verify" \in Phases /\ "deployed" \in Outcomes
    BY DEF Phases, Outcomes
  <2> QED  BY <1>5, <2>1, GoStep
<1>7. /\ head' \subseteq Mutations /\ tree' \subseteq Mutations /\ ungitted' \subseteq Mutations
      /\ crowded' \in BOOLEAN
  BY <1>1, <1>3 DEF EInv, TypeOK
<1>8. ~crowded' => RepoTells'
  <2> SUFFICES ASSUME RepoTells  PROVE  RepoTells'
    BY <1>1 DEF EInv
  <2>1. InRepo(w)
    BY <1>1 DEF InRepo
  <2>2. /\ cycle'[w] = c /\ Of(w)' = o /\ cycle'[w].pre = cycle[w].pre /\ c.at = "verify"
        /\ \A v \in Workers : v # w => ~InRepo(v)' /\ ~At(v, "commit")'
        /\ \A m \in Mutations : m # o => /\ Early(m)' => Early(m)
                                         /\ Settled(m)' => Settled(m)
                                         /\ Undone(m)' => Undone(m)
    BY <1>2, <1>6, <2>1, AloneInRepo DEF WentTo
  <2>3. ~Early(o)' /\ ~Undone(o)'
    BY <1>1, <1>2, <1>4, <1>6, StepOfTells DEF EInv, WentTo
  <2>4. HeadTells'
    <3>1. head' \subseteq tree' /\ head \subseteq head' /\ ungitted \subseteq ungitted'
      BY <1>1, <1>3 DEF RepoTells, HeadTells
    <3>2. o \in head' \cup ungitted'
      <4>1. o \in tree \cup ungitted
        BY <1>1, <1>2 DEF RepoTells, HeadTells, At
      <4> QED  BY <1>3, <4>1
    <3>3. ASSUME NEW m \in Mutations
          PROVE  /\ Settled(m)' /\ m \notin ungitted' => m \in head'
                 /\ Undone(m)' \/ Early(m)' => m \notin tree'
      <4>1. CASE m = o
        BY <2>3, <3>2, <4>1
      <4>2. CASE m # o
        BY <1>1, <2>2, <3>1, <4>2 DEF RepoTells, HeadTells
      <4> QED  BY <4>1, <4>2
    <3>4. \A v \in Workers : ~At(v, "commit")'
      BY <2>2 DEF At
    <3> QED  BY <3>1, <3>3, <3>4 DEF HeadTells
  <2>5. ASSUME NEW h0 \in cycle'[w].pre  PROVE  RestoreTells(w, h0)'
    <3>1. RestoreTells(w, h0) /\ ungitted \subseteq ungitted'
      BY <1>3, <2>1, <2>2, <2>5 DEF RepoTells
    <3>2. ASSUME NEW m \in Mutations
          PROVE  /\ Settled(m)' /\ m # o /\ m \notin ungitted' => m \in h0
                 /\ Undone(m)' \/ Early(m)' => m \notin h0
      <4>1. CASE m = o
        BY <2>3, <4>1
      <4>2. CASE m # o
        BY <1>2, <2>2, <3>1, <4>2 DEF RestoreTells
      <4> QED  BY <4>1, <4>2
    <3> QED  BY <1>2, <2>2, <3>1, <3>2 DEF RestoreTells
  <2> QED  BY <2>2, <2>4, <2>5 DEF RepoTells
<1> QED  BY <1>1, <1>6, <1>7, <1>8, RepoStep DEF WentTo

LEMMA RollBackInv ==
    ASSUME EInv, NEW w \in Workers, RollBack(w)
    PROVE  EInv'
<1>1. /\ cycle[w] # None /\ cycle[w].at = "rollback" /\ cycle[w] \in Cycles
      /\ UNCHANGED <<pvars, used, ungitted, crowded, recorded, row>>
  BY OfType DEF RollBack, At, EInv, rows
<1>2. PICK o \in Mutations : o = Of(w)
  BY <1>1, OfType DEF EInv
<1>3. row[o] = "none" /\ cycle[w].out = "verify_failed" /\ ~Busy(w)
  BY <1>1, <1>2, IdleElsewhere DEF EInv, Phased, InPhase
<1>4. /\ row' \in [Mutations -> Statuses]
      /\ \A m \in Mutations : row'[m] = row[m]
  BY <1>1, RowKept
<1>5. CASE Go(w, "record", "verify_failed") /\ UNCHANGED <<head, tree>>
  <2>1. GoTo(w, "record", "verify_failed")
    BY <1>1, <1>2, <1>3, <1>4, <1>5 DEF GoTo, InPhase, Cycles
  <2>2. PICK c \in Cycles : WentTo(w, "record", "verify_failed", c)
    <3>1. "record" \in Phases /\ "verify_failed" \in Outcomes
      BY DEF Phases, Outcomes
    <3> QED  BY <2>1, <3>1, GoStep
  <2> QED  BY <1>1, <1>2, <1>3, <1>4, <1>5, <2>2, QuietStep DEF WentTo
<1>6. ASSUME NEW out \in {"rolled_back", "verify_failed"},
             NEW untracked \in {{}, tree \ head},
             Reset(w, untracked), Go(w, "record", out),
             out = "rolled_back" => untracked = {}
      PROVE  EInv'
  <2>1. PICK pre \in cycle[w].pre : head' = pre /\ tree' = pre \cup untracked
    BY <1>6 DEF Reset
  <2>2. GoTo(w, "record", out)
    BY <1>1, <1>2, <1>3, <1>4, <1>6 DEF GoTo, InPhase, Cycles
  <2>3. PICK c \in Cycles : WentTo(w, "record", out, c)
    <3>1. "record" \in Phases /\ out \in Outcomes
      BY DEF Phases, Outcomes
    <3> QED  BY <2>2, <3>1, GoStep
  <2>4. /\ head' \subseteq Mutations /\ tree' \subseteq Mutations /\ ungitted' \subseteq Mutations
        /\ crowded' \in BOOLEAN
    BY <1>1, <1>6, <2>1 DEF EInv, TypeOK, Cycles
  <2>5. ~crowded' => RepoTells'
    <3> SUFFICES ASSUME RepoTells  PROVE  RepoTells'
      BY <1>1 DEF EInv
    <3>1. InRepo(w)
      BY <1>1 DEF InRepo
    <3>2. /\ cycle'[w] = c /\ c.at = "record"
          /\ \A v \in Workers : v # w => ~InRepo(v)' /\ ~At(v, "commit")'
          /\ \A m \in Mutations : m # o => /\ Early(m)' => Early(m)
                                           /\ Settled(m)' => Settled(m)
                                           /\ Undone(m)' => Undone(m)
      BY <1>2, <2>3, <3>1, AloneInRepo DEF WentTo
    <3>3. ~Early(o)' /\ ~Settled(o)' /\ (Undone(o)' => untracked = {})
      BY <1>1, <1>2, <1>3, <1>6, <2>3, StepOfTells DEF EInv, WentTo
    <3>4. RestoreTells(w, pre)
      BY <2>1, <3>1 DEF RepoTells
    <3>5. HeadTells'
      <4>1. ASSUME NEW m \in Mutations
            PROVE  /\ Settled(m)' /\ m \notin ungitted' => m \in head'
                   /\ Undone(m)' \/ Early(m)' => m \notin tree'
        <5>1. CASE m = o
          BY <1>2, <2>1, <3>3, <3>4, <5>1 DEF RestoreTells
        <5>2. CASE m # o
          <6>1. Undone(m) \/ Early(m) => m \notin tree
            BY DEF RepoTells, HeadTells
          <6> QED
            BY <1>1, <1>2, <1>6, <2>1, <3>2, <3>4, <5>2, <6>1 DEF RestoreTells
        <5> QED  BY <5>1, <5>2
      <4>2. \A v \in Workers : ~At(v, "commit")'
        BY <3>2 DEF At
      <4> QED  BY <2>1, <4>1, <4>2 DEF HeadTells
    <3>6. \A v \in Workers : ~InRepo(v)'
      BY <3>2 DEF InRepo
    <3> QED  BY <3>5, <3>6 DEF RepoTells
  <2> QED  BY <1>1, <2>3, <2>4, <2>5, RepoStep DEF WentTo
<1> QED  BY <1>5, <1>6, <1>1 DEF RollBack

-----------------------------------------------------------------------------
(***************************************************************************)
(* The actions that meet Promotion.                                        *)
(***************************************************************************)
LEMMA PromotePromptInv ==
    ASSUME EInv, NEW w \in Workers, PromotePrompt(w)
    PROVE  EInv'
<1>1. /\ cycle[w] # None /\ cycle[w].at = "promote" /\ cycle[w] \in Cycles /\ w \in Hosts
      /\ UNCHANGED <<used, head, tree, ungitted, crowded, recorded, row>>
  BY OfType, EvolutionAssumption DEF PromotePrompt, At, EInv, repo, rows
<1>2. PICK o \in Mutations : o = Of(w) /\ o \in Prompts /\ o \in Guides
  BY <1>1, OfType, EvolutionAssumption DEF EInv, PromotePrompt
<1>3. row[o] = "none" /\ cycle[w].out = "deployed"
  BY <1>1, <1>2 DEF EInv, Phased, InPhase
<1>4. /\ row' \in [Mutations -> Statuses]
      /\ \A m \in Mutations : row'[m] = row[m]
  BY <1>1, RowKept
<1>5. GoTo(w, "promoting", "deployed")
  <2>1. Go(w, "promoting", "deployed")
    BY <1>3 DEF PromotePrompt
  <2> QED  BY <1>1, <1>2, <1>3, <1>4, <2>1 DEF GoTo, InPhase, Cycles
<1>6. PICK c \in Cycles : WentTo(w, "promoting", "deployed", c)
  <2>1. "promoting" \in Phases /\ "deployed" \in Outcomes
    BY DEF Phases, Outcomes
  <2> QED  BY <1>5, <2>1, GoStep
<1>7. Begin(w, Target[o], o, TRUE) /\ Target[o] \in Nodes
  BY <1>2, PromotionAssumption DEF PromotePrompt, Promote
<1>8. /\ \A k \in Hosts : k # w /\ Busy(k)' => Busy(k)
      /\ \A m \in Mutations : Touched(m)' => Touched(m) \/ m = o
  BY <1>1, <1>7, BeginTouches DEF EInv
<1>9. PInv'
  <2>1. PNext
    BY <1>1, <1>2 DEF PromotePrompt, PNext
  <2> QED  BY <2>1, PNextInv DEF EInv
<1>10. TypeOK' /\ Phased'
  <2>1. \A v \in Workers \ {w} : Busy(v)' => Busy(v)
    BY <1>8, EvolutionAssumption
  <2>2. /\ head' \subseteq Mutations /\ tree' \subseteq Mutations /\ ungitted' \subseteq Mutations
        /\ crowded' \in BOOLEAN /\ recorded' \subseteq Mutations
    BY <1>1 DEF EInv, TypeOK
  <2> QED  BY <1>6, <1>9, <2>1, <2>2, StepOfPhased DEF EInv, WentTo
<1>11. Untainted'
  <2>1. row'[o] = "none"
    BY <1>3, <1>4
  <2> QED  BY <1>2, <1>6, <1>8, <2>1, StepOfUntainted DEF EInv, WentTo
<1>12. ~crowded' => RepoTells'
  <2>1. row'[Of(w)] = "none"
    BY <1>2, <1>3, <1>4
  <2> QED  BY <1>1, <1>3, <1>6, <2>1, StepOfQuiet DEF EInv, WentTo
<1> QED  BY <1>9, <1>10, <1>11, <1>12 DEF EInv

LEMMA CrashInv ==
    ASSUME EInv, NEW w \in Workers, Crash(w)
    PROVE  EInv'
<1>1. /\ cycle[w] # None /\ cycle[w] \in Cycles /\ w \in Hosts
      /\ cycle' = [cycle EXCEPT ![w] = None]
      /\ UNCHANGED <<used, head, tree, ungitted, crowded, recorded, row>>
  BY OfType, EvolutionAssumption DEF Crash, EInv, repo, rows
<1>2. PICK o \in Mutations : o = Of(w)
  BY <1>1, OfType DEF EInv
<1>3. row[o] \in {"none", "generated"}
  BY <1>1, <1>2 DEF EInv, Phased, InPhase
<1>4. /\ row' \in [Mutations -> Statuses]
      /\ \A m \in Mutations : row'[m] = row[m]
  BY <1>1, RowKept
<1>5. CASE ~Busy(w)
  <2>1. UNCHANGED pvars
    BY <1>5 DEF Crash
  <2> QED  BY <1>1, <1>2, <1>3, <1>4, <1>5, <2>1, CycleEnds
<1>6. CASE Busy(w)
  <2>1. CrashHost(w)
    BY <1>6 DEF Crash
  <2>2. Calm /\ ~Busy(w)'
    BY <1>1, <2>1, CrashCalm DEF EInv
  <2>3. PInv'
    BY <1>1, <2>1, CrashHostInv DEF EInv
  <2>4. StepOf(w, None)
    BY <1>1, <1>4 DEF StepOf
  <2>5. TypeOK' /\ Phased'
    <3>1. \A v \in Workers \ {w} : Busy(v)' => Busy(v)
      BY <2>2, EvolutionAssumption DEF Calm
    <3>2. /\ head' \subseteq Mutations /\ tree' \subseteq Mutations /\ ungitted' \subseteq Mutations
          /\ crowded' \in BOOLEAN /\ recorded' \subseteq Mutations
      BY <1>1 DEF EInv, TypeOK
    <3> QED  BY <2>2, <2>3, <2>4, <3>1, <3>2, StepOfPhased DEF EInv
  <2>6. Untainted'
    <3>1. row'[o] \in {"none", "generated"}
      BY <1>3, <1>4
    <3>2. \A m \in Mutations : Touched(m)' => Touched(m) \/ m = o
      BY <2>2 DEF Calm
    <3> QED  BY <1>2, <2>4, <3>1, <3>2, StepOfUntainted DEF EInv
  <2>7. ~crowded' => RepoTells'
    <3>1. row'[Of(w)] \in {"none", "generated"}
      BY <1>2, <1>3, <1>4
    <3> QED  BY <1>1, <2>4, <3>1, StepOfQuiet DEF EInv
  <2> QED  BY <2>3, <2>5, <2>6, <2>7 DEF EInv
<1> QED  BY <1>5, <1>6

\* A step of others than the cycles.
LEMMA ElsewhereInv ==
    ASSUME EInv, PInv', UNCHANGED evars,
           \A w \in Workers : Busy(w)' => Busy(w),
           \A m \in Mutations : Touched(m)' => Touched(m)
    PROVE  EInv'
<1>1. UNCHANGED <<used, cycle, head, tree, ungitted, crowded, row, recorded>>
  BY DEF evars, repo, rows
<1>2. TypeOK'
  BY <1>1 DEF EInv, PInv, TypeOK, At, Of
<1>3. Phased'
  BY <1>1 DEF EInv, Phased, Of
<1>4. Untainted'
  BY <1>1 DEF EInv, Untainted, Deployed, Of
<1>5. ~crowded' => RepoTells'
  <2>1. RepoTells => RepoTells'
    BY <1>1 DEF RepoTells, HeadTells, RestoreTells, InRepo, At, Of, Early, Settled, Undone
  <2> QED  BY <1>1, <2>1 DEF EInv
<1> QED  BY <1>2, <1>3, <1>4, <1>5 DEF EInv

LEMMA OptimizeInv ==
    ASSUME EInv, NEW h \in Hosts \ Workers, Optimize(h)
    PROVE  EInv'
<1> USE EvolutionAssumption
<1>1. UNCHANGED evars /\ UNCHANGED recorded
  BY DEF Optimize, evars, rows
<1>2. PInv'
  <2>1. PNext
    BY DEF Optimize, PNext
  <2> QED  BY <2>1, PNextInv DEF EInv
<1>3. ASSUME NEW n \in Nodes, NEW c, c \notin Mutations, NEW g, Begin(h, n, c, g)
      PROVE  /\ \A w \in Workers : Busy(w)' => Busy(w)
             /\ \A m \in Mutations : Touched(m)' => Touched(m)
  <2>1. /\ \A k \in Hosts : k # h /\ Busy(k)' => Busy(k)
        /\ \A m \in Mutations : Touched(m)' => Touched(m) \/ m = c
    BY <1>1, <1>3, BeginTouches DEF EInv
  <2>2. \A w \in Workers : w \in Hosts /\ w # h
    OBVIOUS
  <2> QED  BY <1>3, <2>1, <2>2
<1>4. CASE \E n \in Nodes : Baseline(h, n)
  BY <1>1, <1>2, <1>3, <1>4, ElsewhereInv DEF Baseline
<1>5. CASE \E c \in Guides \ Mutations : Measure(h, c) \/ Promote(h, c)
  <2>1. PICK c \in Guides \ Mutations, g \in BOOLEAN : Begin(h, Target[c], c, g)
    BY <1>5 DEF Measure, Promote
  <2>2. Target[c] \in Nodes
    BY PromotionAssumption
  <2> QED  BY <1>1, <1>2, <1>3, <2>1, <2>2, ElsewhereInv
<1>6. CASE CrashHost(h)
  <2>1. Calm
    BY <1>1, <1>6, CrashCalm DEF EInv
  <2> QED  BY <1>1, <1>2, <2>1, ElsewhereInv DEF Calm
<1> QED  BY <1>4, <1>5, <1>6 DEF Optimize

LEMMA PromotionStepInv ==
    ASSUME EInv, PromotionStep
    PROVE  EInv'
<1>1. UNCHANGED evars /\ UNCHANGED recorded
  BY DEF PromotionStep, evars, rows
<1>2. PInv'
  <2>1. PNext
    BY DEF PromotionStep, PNext
  <2> QED  BY <2>1, PNextInv DEF EInv
<1>3. Calm
  BY <1>1, CanaryCalm, ArtifactCalm, ChangeCalm, GateCalm DEF EInv, PromotionStep
<1> QED  BY <1>1, <1>2, <1>3, ElsewhereInv, EvolutionAssumption DEF Calm

LEMMA NextInv == EInv /\ [Next]_vars => EInv'
<1> SUFFICES ASSUME EInv, [Next]_vars  PROVE  EInv'
  OBVIOUS
<1>1. ASSUME NEW w \in Workers, CycleStep(w)  PROVE  EInv'
  BY <1>1, AnalyzeInv, TryInv, CompareInv, ReadHeadInv, WriteFileInv, CommitInv, VerifyInv,
     RollBackInv, PromoteInv, PromotePromptInv, DismissInv, RecordMutationInv,
     UpdateStatusInv, CrashInv DEF CycleStep
<1>2. CASE UNCHANGED vars
  <2>1. UNCHANGED evars /\ UNCHANGED pvars
    BY <1>2 DEF vars
  <2>2. PInv'
    BY <2>1, PNextInv DEF EInv
  <2>3. /\ \A w \in Workers : Busy(w)' => Busy(w)
        /\ \A m \in Mutations : Touched(m)' => Touched(m)
    BY <2>1 DEF evars, rows, pvars, files, Busy, Touched, InHand, OnTrial
  <2> QED  BY <2>1, <2>2, <2>3, ElsewhereInv
<1> QED  BY <1>1, <1>2, OptimizeInv, PromotionStepInv DEF Next

-----------------------------------------------------------------------------
(***************************************************************************)
(* Theorems.                                                               *)
(***************************************************************************)
LEMMA EInvCondemned == EInv => CondemnedNotPromoted
<1> SUFFICES ASSUME EInv, NEW m \in Mutations, row[m] \in Outcomes \ {"deployed"}
             PROVE  /\ m \notin InUse \cup recorded
                    /\ \A h \in Hosts : op[h] = None \/ op[h].guide # m
                    /\ \A h \in Hosts : trial[h] = None \/ trial[h].guide # m
  BY DEF CondemnedNotPromoted
<1>1. ~Touched(m)
  BY DEF EInv, Untainted, Deployed, Outcomes
<1>2. m \notin InUse
  BY <1>1 DEF InUse, Touched, In
<1> QED  BY <1>1, <1>2 DEF Touched, InHand, OnTrial, Actors

LEMMA EInvRows == EInv => RowsTellRepo
BY DEF EInv, RowsTellRepo, RepoTells, HeadTells, Settled, Undone

LEMMA Invariance == Spec => []EInv
BY InitInv, NextInv, PTL DEF Spec

\* Types hold, no two cycles have one mutation, and a worker is busy with a promotion
\* only where its cycle waits for it (run_cycle is one coroutine).
THEOREM EvolutionTypeCorrect == Spec => []TypeOK
<1>1. EInv => TypeOK
  BY DEF EInv
<1> QED  BY <1>1, Invariance, PTL

\* "Only on a passing canary score": prompts are built from guidance that a canary
\* measured and passed, whatever processes write the pointer file at once and die.
THEOREM OnlyProvenServed == Spec => []ServedProven
<1>1. EInv => ServedProven
  BY PInvServed DEF EInv
<1> QED  BY <1>1, Invariance, PTL

\* Lost updates of the pointer file never cost a version its artifact: every history
\* on the disk can be rolled back step by step.
THEOREM HistoryWhole == Spec => []EntryWhole
<1>1. EInv => EntryWhole
  BY PInvWhole DEF EInv
<1> QED  BY <1>1, Invariance, PTL

\* What was rejected, rolled back or failed its verification was never promoted.
THEOREM CondemnedNeverPromoted == Spec => []CondemnedNotPromoted
BY Invariance, EInvCondemned, PTL

\* The rows tell what the shadow repository holds while no two workers are at it.
THEOREM RowsTrue == Spec => []RowsTellRepo
BY Invariance, EInvRows, PTL
=============================================================================
