---------------------------- MODULE NightlyProofs ----------------------------
(***************************************************************************)
(* Theorems about what the daemon of the scheduler does beside the runs,   *)
(* mostly at night: the passes that thin out the catalog of tools          *)
(* (Governance), the cron and the collector of checkpoints                 *)
(* (ScheduledJobs), and the consolidation of the memory (Memory).  The     *)
(* three share no state; they are for every value of their constants.      *)
(***************************************************************************)
EXTENDS Governance, ScheduledJobs, Memory, FiniteSetTheorems, WellFoundedInduction, TLAPS

-----------------------------------------------------------------------------
(***************************************************************************)
(* Numbers.                                                                *)
(***************************************************************************)
\* The least element of a set of numbers, and induction over them.
LEMMA Least == ASSUME NEW S \in SUBSET Nat, S # {} PROVE \E n \in S : \A m \in S : n <= m
<1> DEFINE lt == OpToRel(<, Nat)
<1>1. IsWellFoundedOn(lt, Nat)
  BY NatLessThanWellFounded
<1>2. PICK x \in S : \A y \in S : ~ (<<y, x>> \in lt)
  BY <1>1, WFMin
<1>3. lt = {p \in Nat \X Nat : p[1] < p[2]}
  BY DEF OpToRel
<1> HIDE DEF lt
<1>4. ASSUME NEW y \in S PROVE x <= y
  <2>1. <<y, x>> \in Nat \X Nat
    OBVIOUS
  <2>2. ~ (y < x)
    BY <1>2, <1>3, <2>1
  <2> QED BY <2>2
<1> QED BY <1>2, <1>4

LEMMA Induction == ASSUME NEW S, 0 \in S, \A n \in Nat : n \in S => n + 1 \in S
                   PROVE  Nat \subseteq S
<1> SUFFICES ASSUME Nat \ S # {} PROVE FALSE
  OBVIOUS
<1>1. PICK n \in Nat \ S : \A m \in Nat \ S : n <= m
  BY Least
<1>2. n # 0 /\ n - 1 \in Nat /\ n - 1 < n
  BY <1>1
<1>3. n - 1 \in S
  BY <1>1, <1>2
<1>4. n - 1 + 1 \in S
  BY <1>2, <1>3
<1> QED BY <1>1, <1>4

-----------------------------------------------------------------------------
(*****************************************************************************)
(* Governance.                                                             *)
(*****************************************************************************)

\* What the proof knows of the types, beyond TypeOK: ages are handed out in turn, and
\* an actor has a selection in three of its passes only.
Kept == {u \in Tools : born[u] > 0}
GTypes ==
    /\ TypeOK
    /\ \A t \in Tools : born[t] <= Cardinality(Kept)
    /\ \A a \in Actors : doomed[a] # {} => pass[a] \in {"twins", "slow", "unused"}
    /\ overtaken \in BOOLEAN

\* While no rank has moved under a selection, each tool selected as a duplicate has a
\* better one in its group that is there or went for a reason of its own.
Present(t) == reg[t] \in {"active", "unfit"}
Backed(t) == \E u \in Group(t) : Better(u, t) /\ Present(u)
SelectedTwin(t) ==
    \/ \E a \in Actors : t \in doomed[a] /\ pass[a] = "twins"
    \/ \E p \in Pruners : \E m \in plan[p] : t = m[1]
TwinInv == ~overtaken => \A t \in Tools : SelectedTwin(t) => Backed(t)

GInv == GTypes /\ TwinInv /\ GroupSurvives

-----------------------------------------------------------------------------
\* Groups.
LEMMA GroupSelf == ASSUME NEW t \in Tools PROVE t \in Group(t)
BY DEF Group

LEMMA GroupTwin == ASSUME NEW t \in Tools, NEW u \in Tools, Twins(t, u) PROVE u \in Group(t)
BY DEF Group, Closed

LEMMA GroupTrans ==
  ASSUME NEW t \in Tools, NEW u \in Group(t), NEW v \in Group(u) PROVE v \in Group(t)
BY DEF Group

LEMMA TwinsSym == \A t, u : Twins(t, u) => Twins(u, t) /\ t # u
BY DEF Twins

\* Ranks.  Tools that were ever registered are strictly ordered.
LEMMA BetterOrder ==
  ASSUME TypeOK
  PROVE  /\ \A t, u \in Tools : Better(t, u) => ~Better(u, t) /\ t # u
         /\ \A t, u, v \in Tools : Better(t, u) /\ Better(u, v) => Better(t, v)
         /\ \A t, u \in Kept : t # u => Better(t, u) \/ Better(u, t)
<1>1. \A t \in Tools : version[t] \in Nat /\ born[t] \in Nat
  BY GovernanceAssumption, FS_CardinalityType DEF TypeOK, GovernanceAssumption
<1>2. \A t, u \in Kept : t # u => born[t] # born[u]
  BY DEF TypeOK, Kept
<1> QED BY <1>1, <1>2 DEF Better, Kept

\* The worst of a set, and the best.
LEMMA Worst ==
  ASSUME TypeOK, NEW S \in SUBSET Tools, S # {}
  PROVE  \E w \in S : \A t \in S : ~Better(w, t)
<1>1. \A t \in Tools : version[t] \in Nat /\ born[t] \in Nat
  BY GovernanceAssumption, FS_CardinalityType DEF TypeOK, GovernanceAssumption
<1> DEFINE V == {version[t] : t \in S}
<1>2. PICK m \in V : \A n \in V : m <= n
  <2>1. V \in SUBSET Nat /\ V # {}
    BY <1>1
  <2> HIDE DEF V
  <2> QED BY <2>1, Least
<1> DEFINE B == {born[t] : t \in {u \in S : version[u] = m}}
<1>3. PICK b \in B : \A n \in B : b <= n
  <2>1. B \in SUBSET Nat /\ B # {}
    BY <1>1, <1>2
  <2> HIDE DEF B
  <2> QED BY <2>1, Least
<1>4. PICK w \in S : version[w] = m /\ born[w] = b
  BY <1>3
<1>5. ASSUME NEW t \in S PROVE ~Better(w, t)
  <2>1. m <= version[t] /\ (version[t] = m => b <= born[t])
    BY <1>2, <1>3
  <2> QED BY <1>1, <1>4, <2>1 DEF Better
<1> QED BY <1>5

LEMMA Best ==
  ASSUME TypeOK, NEW S \in SUBSET Tools, S # {}
  PROVE  \E w \in S : \A t \in S : ~Better(t, w)
<1> DEFINE C == Cardinality(Tools)
<1>1. \A t \in Tools : version[t] \in 0..MaxVersions /\ born[t] \in 0..C
  BY DEF TypeOK
<1>c. C \in Nat /\ MaxVersions \in Nat
  BY GovernanceAssumption, FS_CardinalityType
<1> HIDE DEF C
<1> DEFINE V == {MaxVersions - version[t] : t \in S}
<1>2. PICK m \in V : \A n \in V : m <= n
  <2>1. V \in SUBSET Nat /\ V # {}
    BY <1>1, <1>c
  <2> HIDE DEF V
  <2> QED BY <2>1, Least
<1> DEFINE B == {C - born[t] : t \in {u \in S : MaxVersions - version[u] = m}}
<1>3. PICK b \in B : \A n \in B : b <= n
  <2>1. B \in SUBSET Nat /\ B # {}
    BY <1>1, <1>c, <1>2
  <2> HIDE DEF B
  <2> QED BY <2>1, Least
<1>4. PICK w \in S : MaxVersions - version[w] = m /\ C - born[w] = b
  BY <1>3
<1>5. ASSUME NEW t \in S PROVE ~Better(t, w)
  <2>1. m <= MaxVersions - version[t] /\ (MaxVersions - version[t] = m => b <= C - born[t])
    BY <1>2, <1>3
  <2> QED BY <1>1, <1>c, <1>4, <2>1 DEF Better
<1> QED BY <1>5

LEMMA ActiveKept == TypeOK => Active \subseteq Kept /\ \A t \in Tools : Present(t) => t \in Kept
BY DEF TypeOK, Active, Kept, Present, Standings

-----------------------------------------------------------------------------
\* _plan_clusters: the greedy choice exists, whatever part of the tools it is made on.
IsKernel(K, S) == \A t \in S : t \in K <=> ~ \E u \in K : Better(u, t) /\ Twins(u, t)

LEMMA Kernel ==
  ASSUME TypeOK, NEW S \in SUBSET Tools
  PROVE  \E K \in SUBSET S : IsKernel(K, S)
<1> DEFINE N == {n \in Nat : \A P \in SUBSET Tools :
                               Cardinality(P) = n => \E K \in SUBSET P : IsKernel(K, P)}
<1>f. \A P \in SUBSET Tools : IsFiniteSet(P) /\ Cardinality(P) \in Nat
  BY GovernanceAssumption, FS_Subset, FS_CardinalityType
<1>1. 0 \in N
  <2> SUFFICES ASSUME NEW P \in SUBSET Tools, Cardinality(P) = 0
               PROVE  \E K \in SUBSET P : IsKernel(K, P)
    OBVIOUS
  <2>1. P = {}
    BY <1>f, FS_EmptySet
  <2> QED BY <2>1 DEF IsKernel
<1>2. ASSUME NEW n \in Nat, n \in N PROVE n + 1 \in N
  <2> SUFFICES ASSUME NEW P \in SUBSET Tools, Cardinality(P) = n + 1
               PROVE  \E K \in SUBSET P : IsKernel(K, P)
    OBVIOUS
  <2>1. P # {}
    BY FS_EmptySet
  <2>2. PICK w \in P : \A t \in P : ~Better(w, t)
    BY <2>1, Worst
  <2>3. Cardinality(P \ {w}) = n
    <3>1. Cardinality(P \ {w}) = Cardinality(P) - 1
      BY <1>f, FS_RemoveElement
    <3> QED BY <3>1
  <2>4. PICK K \in SUBSET (P \ {w}) : IsKernel(K, P \ {w})
    BY <1>2, <2>3
  <2>5. CASE \E u \in K : Better(u, w) /\ Twins(u, w)
    <3>1. IsKernel(K, P)
      BY <2>4, <2>5 DEF IsKernel
    <3> QED BY <3>1
  <2>6. CASE ~ \E u \in K : Better(u, w) /\ Twins(u, w)
    <3>1. IsKernel(K \cup {w}, P)
      BY <2>2, <2>4, <2>6 DEF IsKernel
    <3> QED BY <3>1
  <2> QED BY <2>5, <2>6
<1> HIDE DEF N
<1>3. Nat \subseteq N
  BY <1>1, <1>2, Induction
<1>4. Cardinality(S) \in N
  BY <1>f, <1>3
<1> QED BY <1>4 DEF N

LEMMA SurvivorsKernel ==
  ASSUME TypeOK, NEW S \in SUBSET Tools
  PROVE  Survivors(S) \in SUBSET S /\ IsKernel(Survivors(S), S)
BY Kernel DEF Survivors, IsKernel

LEMMA SurvivorsSound ==
  ASSUME TypeOK, NEW S \in SUBSET Active
  PROVE  Thinned(S, Survivors(S))
<1>1. S \subseteq Tools /\ S \subseteq Kept
  BY ActiveKept DEF Active
<1>2. Survivors(S) \in SUBSET S /\ IsKernel(Survivors(S), S)
  BY <1>1, SurvivorsKernel
<1>3. \A t, u \in Survivors(S) : ~Twins(t, u)
  BY <1>1, <1>2, BetterOrder, TwinsSym DEF IsKernel
<1>4. \A t \in S \ Survivors(S) : \E u \in S : Better(u, t) /\ Twins(u, t)
  BY <1>2 DEF IsKernel
<1> QED BY <1>3, <1>4 DEF Thinned

\* retire_redundant: the set of losers, row by row.
LEMMA ListingShape ==
  ASSUME NEW S \in SUBSET Tools, NEW rows \in Listings(S)
  PROVE  /\ Len(rows) \in Nat /\ DOMAIN rows = 1..Len(rows)
         /\ \A i \in 1..Len(rows) : rows[i] \in S
<1>1. PICK P \in SUBSET S : rows \in [1..Cardinality(P) -> P]
  BY DEF Listings
<1>2. Cardinality(P) \in Nat
  BY GovernanceAssumption, FS_Subset, FS_CardinalityType
<1>3. rows \in Seq(P) /\ Len(rows) = Cardinality(P)
  BY <1>1, <1>2
<1> QED BY <1>1, <1>2, <1>3

\* The losers after the first i rows.
LostUpTo(rows, f, n) ==
  f = [i \in 0..n |-> IF i = 0 THEN {} ELSE f[i - 1] \cup Losers(rows, i, f[i - 1])]

LEMMA RedundantDef ==
  ASSUME NEW S \in SUBSET Tools, NEW rows \in Listings(S)
  PROVE  \E lost : /\ LostUpTo(rows, lost, Len(rows))
                   /\ Redundant(rows) = lost[Len(rows)]
<1> DEFINE N == {m \in Nat : \E f : LostUpTo(rows, f, m)}
<1>1. 0 \in N
  <2> DEFINE f == [i \in 0..0 |-> {}]
  <2>1. LostUpTo(rows, f, 0)
    BY DEF LostUpTo
  <2> QED BY <2>1
<1>2. ASSUME NEW m \in Nat, m \in N PROVE m + 1 \in N
  <2>1. PICK f : LostUpTo(rows, f, m)
    BY <1>2
  <2> DEFINE g == [i \in 0..m + 1 |->
                     IF i = m + 1 THEN f[m] \cup Losers(rows, m + 1, f[m]) ELSE f[i]]
  <2>2. ASSUME NEW i \in 0..m + 1
        PROVE  g[i] = IF i = 0 THEN {} ELSE g[i - 1] \cup Losers(rows, i, g[i - 1])
    <3>1. CASE i = m + 1
      <4>1. i - 1 = m /\ g[i - 1] = f[m]
        BY <3>1
      <4> QED BY <3>1, <4>1
    <3>2. CASE i \in 0..m
      <4>1. f[i] = IF i = 0 THEN {} ELSE f[i - 1] \cup Losers(rows, i, f[i - 1])
        BY <2>1, <3>2 DEF LostUpTo
      <4>2. g[i] = f[i] /\ (i # 0 => g[i - 1] = f[i - 1])
        BY <3>2
      <4> QED BY <4>1, <4>2
    <3> QED BY <3>1, <3>2
  <2>3. LostUpTo(rows, g, m + 1)
    BY <2>2 DEF LostUpTo
  <2> HIDE DEF g
  <2> QED BY <2>3
<1> HIDE DEF N
<1>3. Nat \subseteq N
  BY <1>1, <1>2, Induction
<1>4. \E f : LostUpTo(rows, f, Len(rows))
  <2>1. Len(rows) \in Nat
    BY ListingShape
  <2>2. Len(rows) \in N
    BY <1>3, <2>1
  <2> QED BY <2>2 DEF N
<1> DEFINE lost == CHOOSE f : LostUpTo(rows, f, Len(rows))
<1>5. LostUpTo(rows, lost, Len(rows))
  BY <1>4
<1>6. Redundant(rows) = lost[Len(rows)]
  BY DEF Redundant, LostUpTo
<1> HIDE DEF lost
<1> QED BY <1>5, <1>6

LEMMA RedundantSound ==
  ASSUME TypeOK, NEW rows \in Listings(Active)
  PROVE  LET S == {rows[i] : i \in DOMAIN rows}
         IN  Redundant(rows) \subseteq S /\ S \subseteq Active /\ Thinned(S, S \ Redundant(rows))
<1>0. Active \in SUBSET Tools /\ Active \subseteq Kept
  BY ActiveKept DEF Active
<1> DEFINE n == Len(rows)
           S == {rows[i] : i \in DOMAIN rows}
<1>1. n \in Nat /\ DOMAIN rows = 1..n /\ \A i \in 1..n : rows[i] \in Active
  BY <1>0, ListingShape
<1>2. PICK lost : LostUpTo(rows, lost, n) /\ Redundant(rows) = lost[n]
  BY <1>0, RedundantDef
<1> HIDE DEF n
<1>3. /\ lost[0] = {}
      /\ \A i \in 1..n : lost[i] = lost[i - 1] \cup Losers(rows, i, lost[i - 1])
  <2>1. \A i \in 0..n : lost[i] = IF i = 0 THEN {} ELSE lost[i - 1] \cup Losers(rows, i, lost[i - 1])
    BY <1>2 DEF LostUpTo
  <2>2. 0 \in 0..n /\ \A i \in 1..n : i \in 0..n /\ i # 0
    BY <1>1
  <2>3. lost[0] = {}
    BY <2>1, <2>2
  <2>4. \A i \in 1..n : lost[i] = lost[i - 1] \cup Losers(rows, i, lost[i - 1])
    BY <2>1, <2>2
  <2> QED BY <2>3, <2>4
\* every loser has lost to a better one it duplicates
<1> DEFINE Beaten(t) == t \in S /\ \E u \in S : Better(u, t) /\ Twins(u, t)
<1>4. ASSUME NEW i \in 1..n, NEW L, NEW t \in Losers(rows, i, L) PROVE Beaten(t)
  <2>1. PICK j \in i + 1..n : Twins(rows[i], rows[j]) /\ t = Loser(rows[i], rows[j])
    BY <1>4 DEF Losers, n
  <2>2. rows[i] \in S /\ rows[j] \in S /\ rows[i] \in Kept /\ rows[j] \in Kept
    BY <1>0, <1>1, <2>1
  <2> HIDE DEF S
  <2>3. rows[i] # rows[j] /\ Twins(rows[j], rows[i])
    BY <2>1, TwinsSym
  <2>4. Better(rows[i], rows[j]) \/ Better(rows[j], rows[i])
    BY <2>2, <2>3, BetterOrder
  <2> QED BY <2>1, <2>2, <2>3, <2>4 DEF Loser
<1> DEFINE N == {i \in Nat : i \in 0..n => \A t \in lost[i] : Beaten(t)}
<1>5. Nat \subseteq N
  <2> HIDE DEF Beaten
  <2>1. 0 \in N
    BY <1>3
  <2>2. ASSUME NEW i \in Nat, i \in N PROVE i + 1 \in N
    <3> SUFFICES ASSUME i + 1 \in 0..n, NEW t \in lost[i + 1] PROVE Beaten(t)
      OBVIOUS
    <3>1. i \in 0..n /\ i + 1 \in 1..n /\ lost[i + 1] = lost[i] \cup Losers(rows, i + 1, lost[i])
      BY <1>1, <1>3
    <3> QED BY <1>4, <2>2, <3>1
  <2> HIDE DEF N
  <2> QED BY <2>1, <2>2, Induction
<1>6. \A t \in lost[n] : Beaten(t)
  BY <1>1, <1>5
\* what is lost stays lost
<1> DEFINE M == {i \in Nat : i \in 0..n => \A k \in 0..i : lost[k] \subseteq lost[i]}
<1>7. Nat \subseteq M
  <2>1. 0 \in M
    OBVIOUS
  <2>2. ASSUME NEW i \in Nat, i \in M PROVE i + 1 \in M
    <3> SUFFICES ASSUME i + 1 \in 0..n, NEW k \in 0..i + 1 PROVE lost[k] \subseteq lost[i + 1]
      OBVIOUS
    <3>1. i \in 0..n /\ i + 1 \in 1..n /\ lost[i] \subseteq lost[i + 1]
      BY <1>1, <1>3
    <3> QED BY <2>2, <3>1
  <2> HIDE DEF M
  <2> QED BY <2>1, <2>2, Induction
<1>8. \A k \in 0..n : lost[k] \subseteq lost[n]
  BY <1>1, <1>7
\* of two duplicates in the list one has lost when both had their turn
<1>9. ASSUME NEW i \in 1..n, NEW j \in i + 1..n, Twins(rows[i], rows[j])
      PROVE  rows[i] \in lost[n] \/ rows[j] \in lost[n]
  <2> SUFFICES ASSUME rows[i] \notin lost[i - 1], rows[j] \notin lost[i - 1]
               PROVE  rows[i] \in lost[n] \/ rows[j] \in lost[n]
    BY <1>1, <1>8
  <2>1. Loser(rows[i], rows[j]) \in Losers(rows, i, lost[i - 1])
    BY <1>9 DEF Losers, n
  <2>2. Loser(rows[i], rows[j]) \in lost[n]
    BY <1>1, <1>3, <1>8, <2>1
  <2> QED BY <2>2 DEF Loser
<1>10. \A t, u \in S \ lost[n] : ~Twins(t, u)
  <2> SUFFICES ASSUME NEW t \in S \ lost[n], NEW u \in S \ lost[n], Twins(t, u) PROVE FALSE
    OBVIOUS
  <2>1. PICK i \in 1..n, j \in 1..n : t = rows[i] /\ u = rows[j]
    BY <1>1
  <2>2. Twins(u, t) /\ i # j
    BY <2>1, TwinsSym
  <2>3. j \in i + 1..n \/ i \in j + 1..n
    BY <1>1, <2>2
  <2> QED BY <1>9, <2>1, <2>2, <2>3
<1>11. lost[n] \subseteq S /\ S \subseteq Active
  BY <1>1, <1>6
<1>12. Thinned(S, S \ lost[n])
  BY <1>6, <1>10 DEF Thinned
<1> QED BY <1>2, <1>11, <1>12

LEMMA SoundRedundancy == TypeOK => RedundancySound
BY RedundantSound, SurvivorsSound DEF RedundancySound

-----------------------------------------------------------------------------
\* Types.
LEMMA GovernanceInit == Init => GInv
<1> SUFFICES ASSUME Init PROVE GInv
  OBVIOUS
<1>1. IsFiniteSet(Tools) /\ Cardinality(Tools) \in Nat /\ MaxVersions \in Nat
      /\ InitScope \in [SubAgents -> SUBSET Tools]
  BY GovernanceAssumption, FS_CardinalityType
<1>2. TypeOK
  BY <1>1 DEF Init, TypeOK, Standings
<1>3. Cardinality(Kept) \in Nat
  BY <1>1, FS_Subset, FS_CardinalityType DEF Kept
<1>4. GTypes
  <2>1. \A t \in Tools : born[t] = 0
    BY DEF Init
  <2>2. \A a \in Actors : doomed[a] = {}
    BY DEF Init
  <2>3. overtaken \in BOOLEAN
    BY DEF Init
  <2> QED BY <1>2, <1>3, <2>1, <2>2, <2>3 DEF GTypes
<1> QED BY <1>4 DEF Init, GInv, TwinInv, SelectedTwin, GroupSurvives

\* What a new age is: one more than the tools there are.
LEMMA NewAge ==
  ASSUME GTypes, NEW t \in Tools, born[t] = 0
  PROVE  LET c == Cardinality(Kept) IN
         /\ c \in Nat /\ c + 1 <= Cardinality(Tools)
         /\ Cardinality(Kept \cup {t}) = c + 1
         /\ \A u \in Tools : born[u] < c + 1
<1>1. IsFiniteSet(Tools) /\ IsFiniteSet(Kept) /\ Cardinality(Tools) \in Nat /\ Cardinality(Kept) \in Nat
  BY GovernanceAssumption, FS_Subset, FS_CardinalityType DEF Kept
<1>2. t \notin Kept
  BY DEF Kept
<1>3. Cardinality(Kept \cup {t}) = Cardinality(Kept) + 1
  BY <1>1, <1>2, FS_AddElement
<1>4. Kept \cup {t} \in SUBSET Tools
  BY DEF Kept
<1>5. Cardinality(Kept \cup {t}) <= Cardinality(Tools)
  BY <1>1, <1>4, FS_Subset
<1>6. \A u \in Tools : born[u] \in Nat /\ born[u] <= Cardinality(Kept)
  BY <1>1 DEF GTypes, TypeOK
<1> QED BY <1>1, <1>3, <1>5, <1>6

LEMMA PersistTypes == ASSUME GTypes, NEW t \in Tools, Persist(t) PROVE GTypes'
<1> DEFINE c == Cardinality(Kept)
<1>0. c \in Nat /\ Cardinality(Tools) \in Nat /\ MaxVersions \in Nat
  BY GovernanceAssumption, FS_Subset, FS_CardinalityType DEF Kept
<1>1. /\ version[t] < MaxVersions /\ version' = [version EXCEPT ![t] = @ + 1]
      /\ born' = [born EXCEPT ![t] = IF @ > 0 THEN @ ELSE c + 1]
      /\ reg' = [reg EXCEPT ![t] = "active"] \/ (reg[t] # "absent" /\ UNCHANGED reg)
      /\ UNCHANGED <<scope, work>>
  <2>1. c = Cardinality({u \in Tools : born[u] > 0})
    BY DEF Kept
  <2> HIDE DEF c
  <2>2. born' = [born EXCEPT ![t] = IF @ > 0 THEN @ ELSE c + 1]
    BY <2>1 DEF Persist
  <2>3. version[t] < MaxVersions /\ version' = [version EXCEPT ![t] = @ + 1]
    BY DEF Persist
  <2>4. reg' = [reg EXCEPT ![t] = "active"] \/ (reg[t] # "absent" /\ UNCHANGED reg)
    BY DEF Persist
  <2>5. UNCHANGED <<scope, work>>
    BY DEF Persist
  <2> QED BY <2>2, <2>3, <2>4, <2>5
<1>b. overtaken' \in BOOLEAN
  BY DEF Persist
<1>2. /\ version \in [Tools -> 0..MaxVersions] /\ born \in [Tools -> 0..Cardinality(Tools)]
      /\ reg \in [Tools -> Standings]
      /\ \A u \in Tools : reg[u] = "absent" <=> born[u] = 0
      /\ \A u, v \in Tools : born[u] = born[v] /\ born[u] > 0 => u = v
  BY DEF GTypes, TypeOK
<1>3. UNCHANGED <<scope, pass, doomed, plan, alias>>
  BY <1>1 DEF work
<1> HIDE DEF c
<1>4. version' \in [Tools -> 0..MaxVersions] /\ reg' \in [Tools -> Standings]
  BY <1>0, <1>1, <1>2 DEF Standings
<1>5. CASE born[t] > 0
  <2>1. born' = born
    BY <1>1, <1>2, <1>5
  <2>2. \A u \in Tools : reg'[u] = "absent" <=> born'[u] = 0
    BY <1>1, <1>2, <1>5, <2>1
  <2>3. Kept' = Kept
    BY <2>1 DEF Kept
  <2> QED BY <1>b, <1>3, <1>4, <2>1, <2>2, <2>3 DEF GTypes, TypeOK
<1>6. CASE ~(born[t] > 0)
  <2>1. born[t] = 0 /\ reg[t] = "absent"
    BY <1>0, <1>2, <1>6
  <2>2. /\ c + 1 <= Cardinality(Tools) /\ Cardinality(Kept \cup {t}) = c + 1
        /\ \A u \in Tools : born[u] < c + 1
    BY <2>1, NewAge DEF c
  <2>3. born' = [born EXCEPT ![t] = c + 1] /\ reg' = [reg EXCEPT ![t] = "active"]
    BY <1>1, <1>6, <2>1
  <2>4. Kept' = Kept \cup {t}
    BY <1>0, <1>2, <2>3 DEF Kept
  <2>5. born' \in [Tools -> 0..Cardinality(Tools)]
    BY <1>0, <1>2, <2>2, <2>3
  <2>6. \A u \in Tools : reg'[u] = "absent" <=> born'[u] = 0
    BY <1>0, <1>2, <2>3
  <2>7. \A u, v \in Tools : born'[u] = born'[v] /\ born'[u] > 0 => u = v
    BY <1>2, <2>2, <2>3
  <2>8. \A u \in Tools : born'[u] <= Cardinality(Kept')
    BY <1>0, <1>2, <2>2, <2>3, <2>4
  <2>9. TypeOK'
    BY <1>3, <1>4, <2>5, <2>6, <2>7 DEF GTypes, TypeOK
  <2> QED BY <1>b, <1>3, <2>8, <2>9 DEF GTypes
<1> QED BY <1>5, <1>6

\* A step that changes no rank, and which tools are retired.
LEMMA RetiredTypes ==
  ASSUME GTypes, NEW S, NEW why \in {"redundant", "unfit"}, Retire(S, why)
  PROVE  /\ reg' \in [Tools -> Standings]
         /\ \A t \in Tools : reg'[t] = "absent" <=> reg[t] = "absent"
BY DEF Retire, GTypes, TypeOK, Standings, Active

LEMMA WorkTypes ==
  ASSUME GTypes, UNCHANGED <<version, born, overtaken>>,
         reg' \in [Tools -> Standings],
         \A t \in Tools : reg'[t] = "absent" <=> reg[t] = "absent",
         scope' \in [SubAgents -> SUBSET Tools],
         pass' \in [Actors -> {"off", "twins", "merge", "slow", "unused", "excess"}],
         doomed' \in [Actors -> SUBSET Tools],
         plan' \in [Pruners -> SUBSET (Tools \X Tools)],
         alias' \in [Pruners -> SUBSET (Tools \X Tools)],
         \A a \in Actors : doomed'[a] # {} => pass'[a] \in {"twins", "slow", "unused"}
  PROVE  GTypes'
BY DEF GTypes, TypeOK, Kept

\* What each pass leads to, and what a plan holds.
LEMMA AfterTypes ==
  ASSUME NEW a, NEW kind \in {"twins", "merge", "slow", "unused", "excess"}
  PROVE  After(a, kind) \in {"off", "excess", "slow", "unused"}
BY DEF After

LEMMA PlanSound ==
  ASSUME TypeOK, NEW S \in SUBSET Active, NEW P \in Plans(S)
  PROVE  /\ P \in SUBSET (Tools \X Tools)
         /\ \A m \in P : m[1] \in Tools /\ m[2] \in Active /\ Twins(m[1], m[2]) /\ Better(m[2], m[1])
<1>1. S \in SUBSET Tools
  BY DEF Active
<1>2. Survivors(S) \in SUBSET S
  BY <1>1, SurvivorsKernel
<1> DEFINE K == Survivors(S)
<1>3. PICK f \in {g \in [S \ K -> K] : \A t \in S \ K : Twins(t, g[t]) /\ Better(g[t], t)} :
        P = {<<t, f[t]>> : t \in S \ K}
  BY DEF Plans
<1> HIDE DEF K
<1>4. \A t \in S \ K : f[t] \in K /\ Twins(t, f[t]) /\ Better(f[t], t)
  BY <1>3
<1>5. K \subseteq Active
  BY <1>2 DEF K
<1> QED BY <1>1, <1>3, <1>4, <1>5 DEF Active

LEMMA TwinsSelection ==
  ASSUME TypeOK, NEW rows \in Listings(Active)
  PROVE  /\ Redundant(rows) \in SUBSET Tools
         /\ \A t \in Redundant(rows) : \E u \in Active : Better(u, t) /\ Twins(u, t)
<1> DEFINE S == {rows[i] : i \in DOMAIN rows}
<1>1. Redundant(rows) \subseteq S /\ S \subseteq Active /\ Thinned(S, S \ Redundant(rows))
  BY RedundantSound
<1> HIDE DEF S
<1> QED BY <1>1 DEF Thinned, Active

\* One actor's steps of a pass.
LEMMA SelectTypes ==
  ASSUME GTypes, NEW a \in Actors, NEW kind \in {"twins", "slow", "unused"},
         NEW S \in SUBSET Tools, Select(a, kind, S)
  PROVE  GTypes'
<1>1. /\ scope \in [SubAgents -> SUBSET Tools] /\ reg \in [Tools -> Standings]
      /\ pass \in [Actors -> {"off", "twins", "merge", "slow", "unused", "excess"}]
      /\ doomed \in [Actors -> SUBSET Tools]
      /\ plan \in [Pruners -> SUBSET (Tools \X Tools)]
      /\ alias \in [Pruners -> SUBSET (Tools \X Tools)]
      /\ \A b \in Actors : doomed[b] # {} => pass[b] \in {"twins", "slow", "unused"}
  BY DEF GTypes, TypeOK
<1>2. UNCHANGED <<reg, version, born, scope, plan, alias, overtaken>>
  BY DEF Select, catalog
<1>3. pass[a] = kind /\ doomed[a] = {}
  BY DEF Select
<1>4. CASE doomed' = [doomed EXCEPT ![a] = S] /\ pass' = pass
  <2>1. doomed' \in [Actors -> SUBSET Tools]
    BY <1>1, <1>4
  <2>2. \A b \in Actors : doomed'[b] # {} => pass'[b] \in {"twins", "slow", "unused"}
    BY <1>1, <1>3, <1>4
  <2> QED BY <1>1, <1>2, <1>4, <2>1, <2>2, WorkTypes
<1>5. CASE Go(a, After(a, kind)) /\ doomed' = doomed
  <2>1. After(a, kind) \in {"off", "excess", "slow", "unused"}
    BY AfterTypes
  <2>2. pass' = [pass EXCEPT ![a] = After(a, kind)]
    BY <1>5 DEF Go
  <2>3. pass' \in [Actors -> {"off", "twins", "merge", "slow", "unused", "excess"}]
    BY <1>1, <2>1, <2>2
  <2>4. \A b \in Actors : doomed'[b] # {} => pass'[b] \in {"twins", "slow", "unused"}
    BY <1>1, <1>3, <1>5, <2>2
  <2> QED BY <1>1, <1>2, <1>5, <2>3, <2>4, WorkTypes
<1> QED BY <1>4, <1>5 DEF Select

LEMMA MoveTypes ==
  ASSUME GTypes, NEW a \in Actors, doomed[a] = {},
         NEW to \in {"off", "twins", "merge", "slow", "unused", "excess"}, Go(a, to),
         UNCHANGED <<version, born, scope, doomed, alias, overtaken>>,
         reg' \in [Tools -> Standings],
         \A t \in Tools : reg'[t] = "absent" <=> reg[t] = "absent",
         plan' \in [Pruners -> SUBSET (Tools \X Tools)]
  PROVE  GTypes'
<1>1. /\ scope \in [SubAgents -> SUBSET Tools]
      /\ pass \in [Actors -> {"off", "twins", "merge", "slow", "unused", "excess"}]
      /\ doomed \in [Actors -> SUBSET Tools]
      /\ alias \in [Pruners -> SUBSET (Tools \X Tools)]
      /\ \A b \in Actors : doomed[b] # {} => pass[b] \in {"twins", "slow", "unused"}
  BY DEF GTypes, TypeOK
<1>2. pass' = [pass EXCEPT ![a] = to]
  BY DEF Go
<1>3. pass' \in [Actors -> {"off", "twins", "merge", "slow", "unused", "excess"}]
  BY <1>1, <1>2
<1>4. \A b \in Actors : doomed'[b] # {} => pass'[b] \in {"twins", "slow", "unused"}
  BY <1>1, <1>2
<1> QED BY <1>1, <1>3, <1>4, WorkTypes

LEMMA RetireSelectedTypes == ASSUME GTypes, NEW a \in Actors, RetireSelected(a) PROVE GTypes'
<1>1. /\ scope \in [SubAgents -> SUBSET Tools]
      /\ pass \in [Actors -> {"off", "twins", "merge", "slow", "unused", "excess"}]
      /\ doomed \in [Actors -> SUBSET Tools]
      /\ plan \in [Pruners -> SUBSET (Tools \X Tools)]
      /\ alias \in [Pruners -> SUBSET (Tools \X Tools)]
      /\ \A b \in Actors : doomed[b] # {} => pass[b] \in {"twins", "slow", "unused"}
  BY DEF GTypes, TypeOK
<1>2. /\ UNCHANGED <<version, born, scope, plan, alias, overtaken>>
      /\ doomed' = [doomed EXCEPT ![a] = {}] /\ pass' = [pass EXCEPT ![a] = After(a, pass[a])]
      /\ doomed[a] # {}
  BY DEF RetireSelected, Go
<1>3. After(a, pass[a]) \in {"off", "excess", "slow", "unused"}
  BY <1>1, <1>2, AfterTypes
<1>4. \E S : Retire(S, IF pass[a] = "twins" THEN "redundant" ELSE "unfit")
  BY DEF RetireSelected
<1>5. /\ reg' \in [Tools -> Standings]
      /\ \A t \in Tools : reg'[t] = "absent" <=> reg[t] = "absent"
  BY <1>4, RetiredTypes
<1>6. pass' \in [Actors -> {"off", "twins", "merge", "slow", "unused", "excess"}]
  BY <1>1, <1>2, <1>3
<1>7. /\ doomed' \in [Actors -> SUBSET Tools]
      /\ \A b \in Actors : doomed'[b] # {} => pass'[b] \in {"twins", "slow", "unused"}
  BY <1>1, <1>2
<1> QED BY <1>1, <1>2, <1>5, <1>6, <1>7, WorkTypes

LEMMA RetireClusterTypes ==
  ASSUME GTypes, NEW p \in Pruners, NEW target \in Tools, RetireCluster(p, target) PROVE GTypes'
<1>1. /\ scope \in [SubAgents -> SUBSET Tools]
      /\ pass \in [Actors -> {"off", "twins", "merge", "slow", "unused", "excess"}]
      /\ doomed \in [Actors -> SUBSET Tools]
      /\ plan \in [Pruners -> SUBSET (Tools \X Tools)]
      /\ alias \in [Pruners -> SUBSET (Tools \X Tools)]
      /\ \A b \in Actors : doomed[b] # {} => pass[b] \in {"twins", "slow", "unused"}
  BY DEF GTypes, TypeOK
<1> DEFINE cluster == {m \in plan[p] : m[2] = target}
<1>2. /\ UNCHANGED <<version, born, scope, pass, doomed, overtaken>>
      /\ plan' = [plan EXCEPT ![p] = @ \ cluster] /\ alias' = [alias EXCEPT ![p] = cluster]
      /\ \E S : Retire(S, "redundant")
  BY DEF RetireCluster
<1>3. cluster \in SUBSET (Tools \X Tools)
  BY <1>1
<1> HIDE DEF cluster
<1>4. /\ reg' \in [Tools -> Standings]
      /\ \A t \in Tools : reg'[t] = "absent" <=> reg[t] = "absent"
  BY <1>2, RetiredTypes
<1>5. plan' \in [Pruners -> SUBSET (Tools \X Tools)] /\ alias' \in [Pruners -> SUBSET (Tools \X Tools)]
  BY <1>1, <1>2, <1>3
<1> QED BY <1>1, <1>2, <1>4, <1>5, WorkTypes

LEMMA MergeAliasTypes ==
  ASSUME GTypes, NEW p \in Pruners, NEW m \in alias[p], MergeAlias(p, m) PROVE GTypes'
<1>1. /\ scope \in [SubAgents -> SUBSET Tools] /\ reg \in [Tools -> Standings]
      /\ pass \in [Actors -> {"off", "twins", "merge", "slow", "unused", "excess"}]
      /\ doomed \in [Actors -> SUBSET Tools]
      /\ plan \in [Pruners -> SUBSET (Tools \X Tools)]
      /\ alias \in [Pruners -> SUBSET (Tools \X Tools)]
      /\ \A b \in Actors : doomed[b] # {} => pass[b] \in {"twins", "slow", "unused"}
  BY DEF GTypes, TypeOK
<1>2. UNCHANGED <<reg, version, born, pass, doomed, plan, overtaken>>
      /\ alias' = [alias EXCEPT ![p] = @ \ {m}]
  BY DEF MergeAlias, catalog
<1>3. alias' \in [Pruners -> SUBSET (Tools \X Tools)]
  BY <1>1, <1>2
<1>4. m[1] \in Tools /\ m[2] \in Tools
  BY <1>1
<1>5. scope' \in [SubAgents -> SUBSET Tools]
  <2>1. CASE scope' = scope
    BY <1>1, <2>1
  <2>2. CASE scope' = [g \in SubAgents |-> Repoint(scope[g], m)]
    BY <1>1, <1>4, <2>2 DEF Repoint
  <2> QED BY <2>1, <2>2 DEF MergeAlias
<1> QED BY <1>1, <1>2, <1>3, <1>5, WorkTypes

-----------------------------------------------------------------------------
\* What a step does to the groups: it may retire, as duplicates, only backed tools,
\* and select only such.  The best present tool of a group is not backed, so a step
\* of that kind leaves it.
LEMMA BestStays ==
  ASSUME TypeOK, NEW D, \A t \in D : t \in Tools /\ Backed(t),
         NEW t \in Tools, NEW u \in Group(t), Present(u)
  PROVE  \E w \in Group(t) : Present(w) /\ w \notin D /\ (w = u \/ Better(w, u))
<1> DEFINE A == {v \in Group(t) : Present(v)}
<1>1. A \in SUBSET Tools /\ u \in A
  BY DEF Group
<1>2. PICK w \in A : \A v \in A : ~Better(v, w)
  <2> HIDE DEF A
  <2> QED BY <1>1, Best
<1>3. w \notin D
  <2> SUFFICES ASSUME w \in D PROVE FALSE
    OBVIOUS
  <2>1. PICK v \in Group(w) : Better(v, w) /\ Present(v)
    BY DEF Backed
  <2>2. v \in Group(t)
    BY <2>1, GroupTrans
  <2> QED BY <1>2, <2>1, <2>2
<1>4. w = u \/ Better(w, u)
  <2>1. w \in Kept /\ u \in Kept
    BY <1>1, ActiveKept
  <2> QED BY <1>1, <1>2, <2>1, BetterOrder
<1> QED BY <1>3, <1>4

LEMMA GroupsKept ==
  ASSUME GInv, UNCHANGED <<version, born, overtaken>>,
         NEW D, D \subseteq Tools, ~overtaken => \A t \in D : Backed(t),
         \A t \in Tools : Present(t) /\ t \notin D => Present(t)',
         \A t \in Tools : reg'[t] = "redundant" => reg[t] = "redundant" \/ t \in D,
         \A t \in Tools : SelectedTwin(t)' => SelectedTwin(t) \/ Backed(t)
  PROVE  TwinInv' /\ GroupSurvives'
<1> SUFFICES ASSUME ~overtaken
             PROVE  /\ \A t \in Tools : SelectedTwin(t)' => Backed(t)'
                    /\ \A t \in Tools : reg'[t] = "redundant" =>
                         \E u \in Group(t) : reg'[u] \in {"active", "unfit"}
  BY DEF TwinInv, GroupSurvives
<1>1. TypeOK
  BY DEF GInv, GTypes
<1>2. ASSUME NEW t \in Tools, NEW u \in Group(t), Present(u)
      PROVE  \E w \in Group(t) : Present(w)' /\ (w = u \/ Better(w, u))
  <2>1. PICK w \in Group(t) : Present(w) /\ w \notin D /\ (w = u \/ Better(w, u))
    BY <1>1, <1>2, BestStays
  <2>2. w \in Tools
    BY DEF Group
  <2> QED BY <2>1, <2>2
<1>3. ASSUME NEW t \in Tools, Backed(t) PROVE Backed(t)'
  <2>1. PICK u \in Group(t) : Better(u, t) /\ Present(u)
    BY <1>3 DEF Backed
  <2>2. PICK w \in Group(t) : Present(w)' /\ (w = u \/ Better(w, u))
    BY <1>2, <2>1
  <2>3. Better(w, t)
    <3>1. w \in Tools /\ u \in Tools
      BY <2>1, <2>2 DEF Group
    <3> QED BY <1>1, <2>1, <2>2, <3>1, BetterOrder
  <2>4. Better(w, t)'
    BY <2>3 DEF Better
  <2> QED BY <2>2, <2>4 DEF Backed
<1>4. ASSUME NEW t \in Tools, SelectedTwin(t)' PROVE Backed(t)'
  <2>1. Backed(t)
    BY <1>4 DEF GInv, TwinInv
  <2> QED BY <1>3, <2>1
<1>5. ASSUME NEW t \in Tools, reg'[t] = "redundant"
      PROVE  \E u \in Group(t) : reg'[u] \in {"active", "unfit"}
  <2>1. \E u \in Group(t) : Present(u)
    <3>1. CASE reg[t] = "redundant"
      BY <3>1 DEF GInv, GroupSurvives, Present
    <3>2. CASE t \in D
      BY <3>2 DEF Backed
    <3> QED BY <1>5, <3>1, <3>2
  <2>2. \E u \in Group(t) : Present(u)'
    BY <1>2, <2>1
  <2> QED BY <2>2 DEF Present
<1> QED BY <1>4, <1>5

\* A step that retires nothing as a duplicate.
LEMMA GroupsUntouched ==
  ASSUME GInv, UNCHANGED <<version, born, overtaken>>,
         UNCHANGED reg \/ \E S : Retire(S, "unfit"),
         \A t \in Tools : SelectedTwin(t)' => SelectedTwin(t) \/ Backed(t)
  PROVE  TwinInv' /\ GroupSurvives'
<1> DEFINE D == {}
<1>1. \A t \in Tools : Present(t) /\ t \notin D => Present(t)'
  BY DEF Retire, Present, Active
<1>2. \A t \in Tools : reg'[t] = "redundant" => reg[t] = "redundant" \/ t \in D
  BY DEF Retire
<1>3. D \subseteq Tools /\ \A t \in D : Backed(t)
  OBVIOUS
<1> HIDE DEF D
<1> QED BY <1>1, <1>2, <1>3, GroupsKept

\* A step that retires duplicates.
LEMMA GroupsThinned ==
  ASSUME GInv, UNCHANGED <<version, born, overtaken>>,
         NEW S \in SUBSET Tools, Retire(S, "redundant"), \A t \in S : SelectedTwin(t),
         \A t \in Tools : SelectedTwin(t)' => SelectedTwin(t)
  PROVE  TwinInv' /\ GroupSurvives'
<1>1. \A t \in Tools : Present(t) /\ t \notin S => Present(t)'
  BY DEF Retire, Present
<1>2. \A t \in Tools : reg'[t] = "redundant" => reg[t] = "redundant" \/ t \in S
  BY DEF Retire
<1>3. ~overtaken => \A t \in S : Backed(t)
  BY DEF GInv, TwinInv
<1> QED BY <1>1, <1>2, <1>3, GroupsKept

\* Persist ends the selections' claim, or there are none.
LEMMA PersistGroups ==
  ASSUME GInv, NEW t \in Tools, Persist(t)
  PROVE  TwinInv' /\ GroupSurvives'
<1> SUFFICES ASSUME ~overtaken' PROVE TwinInv' /\ GroupSurvives'
  BY DEF TwinInv, GroupSurvives
<1>1. /\ ~overtaken /\ \A a \in Actors : doomed[a] = {}
      /\ \A p \in Pruners : plan[p] = {}
  BY DEF Persist
<1>2. doomed' = doomed /\ plan' = plan /\ pass' = pass
  BY DEF Persist, work
<1>3. TwinInv'
  BY <1>1, <1>2 DEF TwinInv, SelectedTwin
<1>4. \A u \in Tools : reg'[u] = reg[u] \/ reg'[u] = "active"
  BY DEF Persist, GInv, GTypes, TypeOK
<1>5. ASSUME NEW u \in Tools, reg'[u] = "redundant"
      PROVE  \E v \in Group(u) : reg'[v] \in {"active", "unfit"}
  <2>1. reg[u] = "redundant"
    BY <1>4, <1>5
  <2>2. PICK v \in Group(u) : reg[v] \in {"active", "unfit"}
    BY <1>1, <2>1 DEF GInv, GroupSurvives
  <2>3. v \in Tools
    BY <2>2 DEF Group
  <2> QED BY <1>4, <2>2, <2>3
<1> QED BY <1>3, <1>5 DEF GroupSurvives

LEMMA SelectGroups ==
  ASSUME GInv, NEW a \in Actors, NEW kind \in {"twins", "slow", "unused"}, NEW S \in SUBSET Tools,
         kind = "twins" => \A t \in S : Backed(t),
         Select(a, kind, S)
  PROVE  TwinInv' /\ GroupSurvives'
<1>1. UNCHANGED <<reg, version, born, overtaken, plan>> /\ pass[a] = kind /\ doomed[a] = {}
  BY DEF Select, catalog
<1>2. pass \in [Actors -> {"off", "twins", "merge", "slow", "unused", "excess"}]
      /\ doomed \in [Actors -> SUBSET Tools]
  BY DEF GInv, GTypes, TypeOK
<1>3. ASSUME NEW t \in Tools, SelectedTwin(t)' PROVE SelectedTwin(t) \/ Backed(t)
  <2>1. CASE \E p \in Pruners : \E m \in plan[p] : t = m[1]
    BY <2>1 DEF SelectedTwin
  <2>2. CASE \E b \in Actors : t \in doomed'[b] /\ pass'[b] = "twins"
    <3>1. PICK b \in Actors : t \in doomed'[b] /\ pass'[b] = "twins"
      BY <2>2
    <3>2. CASE doomed' = [doomed EXCEPT ![a] = S] /\ pass' = pass
      BY <1>1, <1>2, <3>1, <3>2 DEF SelectedTwin
    <3>3. CASE Go(a, After(a, kind)) /\ doomed' = doomed
      <4>1. b # a
        BY <1>1, <3>1, <3>3
      <4>2. pass'[b] = pass[b]
        BY <1>2, <3>3, <4>1 DEF Go
      <4> QED BY <3>1, <3>3, <4>2 DEF SelectedTwin
    <3> QED BY <3>2, <3>3 DEF Select
  <2> QED BY <1>1, <1>3, <2>1, <2>2 DEF SelectedTwin
<1> QED BY <1>1, <1>3, GroupsUntouched

LEMMA MoveGroups ==
  ASSUME GInv, NEW a \in Actors, doomed[a] = {}, NEW to, Go(a, to),
         UNCHANGED <<version, born, overtaken, doomed>>,
         UNCHANGED reg \/ \E S : Retire(S, "unfit"),
         \A p \in Pruners : \A m \in plan'[p] : m \in plan[p] \/ Backed(m[1])
  PROVE  TwinInv' /\ GroupSurvives'
<1>1. pass \in [Actors -> {"off", "twins", "merge", "slow", "unused", "excess"}]
  BY DEF GInv, GTypes, TypeOK
<1>2. ASSUME NEW t \in Tools, SelectedTwin(t)' PROVE SelectedTwin(t) \/ Backed(t)
  <2>1. CASE \E p \in Pruners : \E m \in plan'[p] : t = m[1]
    BY <2>1 DEF SelectedTwin
  <2>2. CASE \E b \in Actors : t \in doomed[b] /\ pass'[b] = "twins"
    <3>1. PICK b \in Actors : t \in doomed[b] /\ pass'[b] = "twins"
      BY <2>2
    <3>2. b # a
      BY <3>1
    <3>3. pass'[b] = pass[b]
      BY <1>1, <3>2 DEF Go
    <3> QED BY <3>1, <3>3 DEF SelectedTwin
  <2> QED BY <1>2, <2>1, <2>2 DEF SelectedTwin
<1> QED BY <1>2, GroupsUntouched

LEMMA RetireSelectedGroups ==
  ASSUME GInv, NEW a \in Actors, RetireSelected(a) PROVE TwinInv' /\ GroupSurvives'
<1>1. pass \in [Actors -> {"off", "twins", "merge", "slow", "unused", "excess"}]
      /\ doomed \in [Actors -> SUBSET Tools]
  BY DEF GInv, GTypes, TypeOK
<1>2. /\ UNCHANGED <<version, born, plan, overtaken>>
      /\ doomed' = [doomed EXCEPT ![a] = {}] /\ pass' = [pass EXCEPT ![a] = After(a, pass[a])]
  BY DEF RetireSelected, Go
<1>3. ASSUME NEW t \in Tools, SelectedTwin(t)' PROVE SelectedTwin(t)
  <2>1. CASE \E p \in Pruners : \E m \in plan[p] : t = m[1]
    BY <2>1 DEF SelectedTwin
  <2>2. CASE \E b \in Actors : t \in doomed'[b] /\ pass'[b] = "twins"
    <3>1. PICK b \in Actors : t \in doomed'[b] /\ pass'[b] = "twins"
      BY <2>2
    <3>2. b # a
      BY <1>1, <1>2, <3>1
    <3> QED BY <1>1, <1>2, <3>1, <3>2 DEF SelectedTwin
  <2> QED BY <1>2, <1>3, <2>1, <2>2 DEF SelectedTwin
<1>4. CASE pass[a] = "twins"
  <2>1. PICK S \in {{}, doomed[a]} : Retire(S, "redundant")
    BY <1>4 DEF RetireSelected
  <2>2. S \in SUBSET Tools /\ \A t \in S : SelectedTwin(t)
    BY <1>1, <1>4 DEF SelectedTwin
  <2> QED BY <1>2, <1>3, <2>1, <2>2, GroupsThinned
<1>5. CASE pass[a] # "twins"
  <2>1. \E S : Retire(S, "unfit")
    BY <1>5 DEF RetireSelected
  <2> QED BY <1>2, <1>3, <2>1, GroupsUntouched
<1> QED BY <1>4, <1>5

LEMMA RetireClusterGroups ==
  ASSUME GInv, NEW p \in Pruners, NEW target \in Tools, RetireCluster(p, target)
  PROVE  TwinInv' /\ GroupSurvives'
<1>1. plan \in [Pruners -> SUBSET (Tools \X Tools)]
  BY DEF GInv, GTypes, TypeOK
<1> DEFINE cluster == {m \in plan[p] : m[2] = target}
<1>2. /\ UNCHANGED <<version, born, pass, doomed, overtaken>>
      /\ plan' = [plan EXCEPT ![p] = @ \ cluster]
      /\ \E S \in {{}, {m[1] : m \in cluster}} : Retire(S, "redundant")
  BY DEF RetireCluster
<1>3. PICK S \in {{}, {m[1] : m \in cluster}} : Retire(S, "redundant")
  BY <1>2
<1>4. S \in SUBSET Tools /\ \A t \in S : SelectedTwin(t)
  BY <1>1, <1>3 DEF SelectedTwin
<1>5. \A q \in Pruners : plan'[q] \subseteq plan[q]
  BY <1>1, <1>2
<1>6. \A t \in Tools : SelectedTwin(t)' => SelectedTwin(t)
  BY <1>2, <1>5 DEF SelectedTwin
<1> QED BY <1>2, <1>3, <1>4, <1>6, GroupsThinned

-----------------------------------------------------------------------------
\* Every step.
LEMMA GovernanceStutter == GInv /\ UNCHANGED vars => GInv'
<1> SUFFICES ASSUME GInv, UNCHANGED vars PROVE GInv'
  OBVIOUS
<1>1. UNCHANGED <<reg, version, born, scope, pass, doomed, plan, alias, overtaken>>
  BY DEF vars, catalog, work
<1>2. GTypes'
  BY <1>1 DEF GInv, GTypes, TypeOK, Kept
<1>3. UNCHANGED reg /\ \A t \in Tools : SelectedTwin(t)' => SelectedTwin(t)
  BY <1>1 DEF SelectedTwin
<1>4. TwinInv' /\ GroupSurvives'
  BY <1>1, <1>3, GroupsUntouched
<1> QED BY <1>2, <1>4 DEF GInv

\* A step that moves an actor with no selection to another pass.
LEMMA MoveStep ==
  ASSUME GInv, NEW a \in Actors, doomed[a] = {},
         NEW to \in {"off", "twins", "merge", "slow", "unused", "excess"}, Go(a, to),
         UNCHANGED <<version, born, scope, doomed, alias, overtaken>>,
         UNCHANGED reg \/ \E S : Retire(S, "unfit"),
         plan' \in [Pruners -> SUBSET (Tools \X Tools)],
         \A p \in Pruners : \A m \in plan'[p] : m \in plan[p] \/ Backed(m[1])
  PROVE  GInv'
<1>1. GTypes
  BY DEF GInv
<1>2. reg' \in [Tools -> Standings] /\ \A t \in Tools : reg'[t] = "absent" <=> reg[t] = "absent"
  <2>1. CASE UNCHANGED reg
    BY <1>1, <2>1 DEF GTypes, TypeOK
  <2>2. CASE \E S : Retire(S, "unfit")
    BY <1>1, <2>2, RetiredTypes
  <2> QED BY <2>1, <2>2
<1>3. GTypes'
  BY <1>1, <1>2, MoveTypes
<1>4. TwinInv' /\ GroupSurvives'
  BY MoveGroups
<1> QED BY <1>3, <1>4 DEF GInv

LEMMA LoadStep == ASSUME GInv, NEW r \in Loaders, Load(r) PROVE GInv'
<1>1. GTypes /\ TypeOK /\ r \in Actors
  BY DEF GInv, GTypes, Actors
<1>2. CASE StartLoad(r)
  <2>1. /\ pass[r] = "off" /\ Go(r, "twins")
        /\ UNCHANGED <<reg, version, born, scope, doomed, plan, alias, overtaken>>
    BY <1>2 DEF StartLoad, catalog
  <2>2. doomed[r] = {}
    BY <1>1, <2>1 DEF GTypes
  <2>3. /\ plan' \in [Pruners -> SUBSET (Tools \X Tools)]
        /\ \A p \in Pruners : \A m \in plan'[p] : m \in plan[p] \/ Backed(m[1])
    BY <1>1, <2>1 DEF TypeOK
  <2> QED BY <1>1, <2>1, <2>2, <2>3, MoveStep
<1>3. CASE SelectTwins(r)
  <2>1. PICK rows \in Listings(Active) : Select(r, "twins", Redundant(rows))
    BY <1>3 DEF SelectTwins
  <2>2. /\ Redundant(rows) \in SUBSET Tools
        /\ \A t \in Redundant(rows) : \E u \in Active : Better(u, t) /\ Twins(u, t)
    BY <1>1, TwinsSelection
  <2>3. \A t \in Redundant(rows) : Backed(t)
    <3>1. ASSUME NEW t \in Redundant(rows) PROVE Backed(t)
      <4>1. PICK u \in Active : Better(u, t) /\ Twins(u, t)
        BY <2>2
      <4>2. u \in Group(t) /\ Present(u)
        BY <2>2, <4>1, GroupTwin, TwinsSym DEF Active, Present
      <4> QED BY <4>1, <4>2 DEF Backed
    <3> QED BY <3>1
  <2>4. GTypes'
    BY <1>1, <2>1, <2>2, SelectTypes
  <2>5. TwinInv' /\ GroupSurvives'
    BY <1>1, <2>1, <2>2, <2>3, SelectGroups
  <2> QED BY <2>4, <2>5 DEF GInv
<1> QED BY <1>2, <1>3 DEF Load

LEMMA UseStep ==
  ASSUME GInv, NEW a \in Actors, NEW kind \in {"slow", "unused"}, SelectByUse(a, kind)
  PROVE  GInv'
<1>1. PICK S \in {{}} \cup {{t} : t \in Active} : Select(a, kind, S)
  BY DEF SelectByUse
<1>2. S \in SUBSET Tools
  BY <1>1 DEF Active
<1>3. GTypes'
  BY <1>1, <1>2, SelectTypes DEF GInv
<1>4. TwinInv' /\ GroupSurvives'
  BY <1>1, <1>2, SelectGroups
<1> QED BY <1>3, <1>4 DEF GInv

LEMMA StartPruneStep == ASSUME GInv, NEW p \in Pruners, StartPrune(p) PROVE GInv'
<1>1. GTypes /\ TypeOK /\ p \in Actors
  BY DEF GInv, GTypes, Actors
<1>2. /\ pass[p] = "off" /\ Go(p, "merge")
      /\ UNCHANGED <<reg, version, born, scope, doomed, alias, overtaken>>
  BY DEF StartPrune, catalog
<1>3. PICK S \in SUBSET Active : \E P \in Plans(S) : plan' = [plan EXCEPT ![p] = P]
  BY DEF StartPrune
<1>4. PICK P \in Plans(S) : plan' = [plan EXCEPT ![p] = P]
  BY <1>3
<1>5. /\ P \in SUBSET (Tools \X Tools)
      /\ \A m \in P : m[1] \in Tools /\ m[2] \in Active /\ Twins(m[1], m[2]) /\ Better(m[2], m[1])
  BY <1>1, <1>3, <1>4, PlanSound
<1>6. doomed[p] = {}
  BY <1>1, <1>2 DEF GTypes
<1>7. \A m \in P : Backed(m[1])
  <2>1. ASSUME NEW m \in P PROVE Backed(m[1])
    <3>1. m[1] \in Tools /\ m[2] \in Tools /\ m[2] \in Group(m[1]) /\ Present(m[2])
      BY <1>5, GroupTwin DEF Active, Present
    <3> QED BY <1>5, <3>1 DEF Backed
  <2> QED BY <2>1
<1>8. plan' \in [Pruners -> SUBSET (Tools \X Tools)]
      /\ \A q \in Pruners : \A m \in plan'[q] : m \in plan[q] \/ Backed(m[1])
  BY <1>1, <1>4, <1>5, <1>7 DEF TypeOK
<1> QED BY <1>1, <1>2, <1>6, <1>8, MoveStep

LEMMA MergeAliasStep == ASSUME GInv, NEW p \in Pruners, NEW m \in alias[p], MergeAlias(p, m) PROVE GInv'
<1>1. GTypes'
  BY MergeAliasTypes DEF GInv
<1>2. UNCHANGED <<reg, version, born, pass, doomed, plan, overtaken>>
  BY DEF MergeAlias, catalog
<1>3. \A t \in Tools : SelectedTwin(t)' => SelectedTwin(t)
  BY <1>2 DEF SelectedTwin
<1>4. TwinInv' /\ GroupSurvives'
  BY <1>2, <1>3, GroupsUntouched
<1> QED BY <1>1, <1>4 DEF GInv

LEMMA PruneStep == ASSUME GInv, NEW p \in Pruners, Prune(p) PROVE GInv'
<1>1. GTypes /\ TypeOK /\ p \in Actors
  BY DEF GInv, GTypes, Actors
<1>2. CASE StartPrune(p)
  BY <1>2, StartPruneStep
<1>3. CASE \E t \in Tools : RetireCluster(p, t)
  <2>1. GTypes'
    BY <1>1, <1>3, RetireClusterTypes
  <2>2. TwinInv' /\ GroupSurvives'
    BY <1>3, RetireClusterGroups
  <2> QED BY <2>1, <2>2 DEF GInv
<1>4. CASE \E m \in alias[p] : MergeAlias(p, m)
  BY <1>4, MergeAliasStep
<1>5. CASE EndMerge(p)
  <2>1. /\ pass[p] = "merge" /\ Go(p, After(p, "merge"))
        /\ UNCHANGED <<reg, version, born, scope, doomed, plan, alias, overtaken>>
    BY <1>5 DEF EndMerge, catalog
  <2>2. doomed[p] = {}
    BY <1>1, <2>1 DEF GTypes
  <2>3. /\ plan' \in [Pruners -> SUBSET (Tools \X Tools)]
        /\ \A q \in Pruners : \A m \in plan'[q] : m \in plan[q] \/ Backed(m[1])
    BY <1>1, <2>1 DEF TypeOK
  <2>4. After(p, "merge") \in {"off", "twins", "merge", "slow", "unused", "excess"}
    BY AfterTypes
  <2> QED BY <1>1, <2>1, <2>2, <2>3, <2>4, MoveStep
<1>6. CASE SelectByUse(p, "unused")
  BY <1>1, <1>6, UseStep
<1> QED BY <1>2, <1>3, <1>4, <1>5, <1>6 DEF Prune

LEMMA PassStep == ASSUME GInv, NEW a \in Actors, Pass(a) PROVE GInv'
<1>1. GTypes /\ TypeOK
  BY DEF GInv, GTypes
<1>2. CASE SelectByUse(a, "slow")
  BY <1>2, UseStep
<1>3. CASE RetireSelected(a)
  <2>1. GTypes'
    BY <1>1, <1>3, RetireSelectedTypes
  <2>2. TwinInv' /\ GroupSurvives'
    BY <1>3, RetireSelectedGroups
  <2> QED BY <2>1, <2>2 DEF GInv
<1>4. CASE RetireExcess(a)
  <2>1. /\ pass[a] = "excess" /\ Go(a, After(a, "excess")) /\ \E S : Retire(S, "unfit")
        /\ UNCHANGED <<version, born, scope, doomed, plan, alias, overtaken>>
    BY <1>4 DEF RetireExcess
  <2>2. doomed[a] = {}
    BY <1>1, <2>1 DEF GTypes
  <2>3. /\ plan' \in [Pruners -> SUBSET (Tools \X Tools)]
        /\ \A q \in Pruners : \A m \in plan'[q] : m \in plan[q] \/ Backed(m[1])
    BY <1>1, <2>1 DEF TypeOK
  <2>4. After(a, "excess") \in {"off", "twins", "merge", "slow", "unused", "excess"}
    BY AfterTypes
  <2> QED BY <2>1, <2>2, <2>3, <2>4, MoveStep
<1> QED BY <1>2, <1>3, <1>4 DEF Pass

LEMMA GovernanceStep == GInv /\ [Next]_vars => GInv'
<1> SUFFICES ASSUME GInv, [Next]_vars PROVE GInv'
  OBVIOUS
<1>1. ASSUME NEW t \in Tools, Persist(t) PROVE GInv'
  <2>1. GTypes'
    BY <1>1, PersistTypes DEF GInv
  <2>2. TwinInv' /\ GroupSurvives'
    BY <1>1, PersistGroups
  <2> QED BY <2>1, <2>2 DEF GInv
<1>2. CASE UNCHANGED vars
  BY <1>2, GovernanceStutter
<1> QED BY <1>1, <1>2, LoadStep, PruneStep, PassStep DEF Next

LEMMA GovernanceInvariant == Spec => []GInv
<1>1. Init => GInv
  BY GovernanceInit
<1>2. GInv /\ [Next]_vars => GInv'
  BY GovernanceStep
<1> QED BY <1>1, <1>2, PTL DEF Spec

\* Every field of the catalog and of the passes keeps its type: the ages given to new
\* registrations never collide and never exceed the number of names (persister.py).
THEOREM GovernanceTypeCorrect == Spec => []TypeOK
<1>1. GInv => TypeOK
  BY DEF GInv, GTypes
<1> QED BY <1>1, GovernanceInvariant, PTL

\* retire_redundant leaves no two duplicates and retires a tool only for a better one
\* it duplicates, for any catalog, any listing of it and any similarity; and so does
\* the greedy clustering of _plan_clusters (consolidate.py).
THEOREM RedundancyIsSound == Spec => []RedundancySound
<1>1. GInv => RedundancySound
  BY SoundRedundancy DEF GInv, GTypes
<1> QED BY <1>1, GovernanceInvariant, PTL

\* Any number of runs that load their tools and of pruners, each on its own reading,
\* leave in each group of duplicates a tool that is active or went for another reason,
\* as long as no tool was persisted under a selection.
THEOREM GroupsSurvive == Spec => []GroupSurvives
<1>1. GInv => GroupSurvives
  BY DEF GInv
<1> QED BY <1>1, GovernanceInvariant, PTL
-----------------------------------------------------------------------------
(*****************************************************************************)
(* ScheduledJobs.                                                          *)
(*****************************************************************************)
TaskRows == [goal : Goals, cron : Crons \cup {BadCron}, on : BOOLEAN]
Armed == [goal : Goals, cron : Crons \cup {BadCron}]

TableInv ==
  /\ row \in [Names -> SUBSET TaskRows] /\ \A n \in Names : Sole(row[n])
  /\ ask \in [Callers -> SUBSET [name : Names, row : TaskRows]]

\* A job is that of the row the last reconcile read, unless that does not parse.
Current(n) ==
  job[n] # {} => \E x \in seen[n] : x.on /\ (x.cron = BadCron \/ {y.goal : y \in job[n]} = {x.goal})
MirrorInv ==
  /\ loaded \in [Names -> SUBSET TaskRows] /\ \A n \in Names : Sole(loaded[n])
  /\ job \in [Names -> SUBSET Armed]
  /\ \A n \in Names : Current(n)

JobInv == TableInv /\ MirrorInv

\* What the collector has on its list stays old until it is dropped; a run on fresh
\* checkpoints writes one a day.
Ages == {NoRows} \cup 0 .. Ttl + 1
ThreadInv ==
  /\ state \in [Threads -> {"free", "queued", "active", "idle"}]
  /\ newest \in [Threads -> Ages]
  /\ \A r \in Threads :
       /\ state[r] \in {"free", "queued"} => newest[r] = NoRows
       /\ state[r] = "active" => newest[r] <= Ttl \/ r \in revived
       /\ r \in stale => newest[r] > Ttl \/ r \in revived

-----------------------------------------------------------------------------
LEMMA JobInit == JobsInit => JobInv
BY DEF JobsInit, JobInv, TableInv, MirrorInv, Current, NoTasks, Sole

LEMMA JobStep == JobInv /\ [JobsNext]_jobsVars => JobInv'
<1> SUFFICES ASSUME JobInv, [JobsNext]_jobsVars PROVE JobInv'
  OBVIOUS
<1> USE DEF JobInv
<1>j. ASSUME UNCHANGED <<loaded, seen, job>> PROVE MirrorInv'
  BY <1>j DEF MirrorInv, Current
<1>k. ASSUME UNCHANGED <<row, ask>> PROVE TableInv'
  BY <1>k DEF TableInv
<1>r. \A g \in Goals, k \in Crons : Row(g, k) \in TaskRows
  BY DEF Row, TaskRows
<1>w. ASSUME NEW n \in Names, NEW y, row' = [row EXCEPT ![n] = {y}], y \in TaskRows
      PROVE  row' \in [Names -> SUBSET TaskRows] /\ \A m \in Names : Sole(row'[m])
  BY <1>w DEF TableInv, Sole
<1>1. ASSUME NEW c \in Callers, NEW n \in Names, NEW g \in Goals, NEW k \in Crons, Revise(c, n, g, k)
      PROVE  JobInv'
  <2>1. TableInv'
    BY <1>1, <1>r, <1>w DEF TableInv, Revise
  <2> QED BY <1>1, <2>1, <1>j DEF Revise, daemon
<1>2. ASSUME NEW c \in Callers, NEW n \in Names, NEW g \in Goals, NEW k \in Crons, CheckCap(c, n, g, k)
      PROVE  JobInv'
  <2>1. [name |-> n, row |-> Row(g, k)] \in [name : Names, row : TaskRows]
    BY <1>r
  <2>2. TableInv'
    BY <1>2, <2>1 DEF TableInv, CheckCap
  <2> QED BY <1>2, <2>2, <1>j DEF CheckCap, daemon
<1>3. ASSUME NEW c \in Callers, Insert(c) PROVE JobInv'
  <2>1. PICK x \in ask[c] :
          row' = IF row[x.name] = {} THEN [row EXCEPT ![x.name] = {x.row}] ELSE row
    BY <1>3 DEF Insert
  <2>2. x.name \in Names /\ x.row \in TaskRows
    BY DEF TableInv
  <2>3. row' \in [Names -> SUBSET TaskRows] /\ \A m \in Names : Sole(row'[m])
    BY <2>1, <2>2, <1>w DEF TableInv
  <2>4. TableInv'
    BY <1>3, <2>3 DEF TableInv, Insert
  <2> QED BY <1>3, <2>4, <1>j DEF Insert, daemon
<1>4. ASSUME NEW n \in Names, Operate(n) PROVE JobInv'
  <2>1. PICK x \in row[n] :
          row' \in {[row EXCEPT ![n] = y] :
                      y \in {{}, {[x EXCEPT !.on = FALSE]}, {[x EXCEPT !.cron = BadCron]}}}
    BY <1>4 DEF Operate
  <2>2. [x EXCEPT !.on = FALSE] \in TaskRows /\ [x EXCEPT !.cron = BadCron] \in TaskRows
    <3>1. x \in TaskRows
      BY DEF TableInv
    <3>2. [x EXCEPT !.on = FALSE] \in TaskRows
      BY <3>1 DEF TaskRows
    <3>3. [x EXCEPT !.cron = BadCron] \in TaskRows
      BY <3>1 DEF TaskRows
    <3> QED BY <3>2, <3>3
  <2>3. \/ row' = [row EXCEPT ![n] = {}]
        \/ \E y \in TaskRows : row' = [row EXCEPT ![n] = {y}]
    BY <2>1, <2>2
  <2>4. row' \in [Names -> SUBSET TaskRows] /\ \A m \in Names : Sole(row'[m])
    BY <2>3, <1>w DEF TableInv, Sole
  <2>5. TableInv'
    BY <1>4, <2>4 DEF TableInv, Operate
  <2> QED BY <1>4, <2>5, <1>j DEF Operate, daemon
<1>5. CASE LoadTasks
  <2>1. MirrorInv'
    BY <1>5 DEF MirrorInv, TableInv, Current, LoadTasks, table
  <2> QED BY <1>5, <2>1, <1>k DEF LoadTasks, table
<1>6. CASE Reconcile
  <2>1. /\ UNCHANGED table /\ seen' = loaded /\ loaded' = NoTasks
        /\ job' = [n \in Names |->
             IF Rearmed(n) THEN Fresh(n) ELSE IF On(loaded[n]) THEN job[n] ELSE {}]
    BY <1>6 DEF Reconcile, Arm
  <2>2. ASSUME NEW n \in Names PROVE job'[n] \subseteq Armed /\ Current(n)'
    <3>1. loaded[n] \subseteq TaskRows /\ Sole(loaded[n]) /\ job[n] \subseteq Armed
      BY DEF MirrorInv
    <3>2. CASE Rearmed(n)
      <4>1. PICK x \in loaded[n] : x.on /\ x.cron # BadCron
        BY <3>2 DEF Rearmed
      <4>2. loaded[n] = {x}
        BY <3>1, <4>1 DEF Sole
      <4>3. job'[n] = {[goal |-> x.goal, cron |-> x.cron]}
        BY <2>1, <3>2, <4>2 DEF Fresh
      <4>4. {y.goal : y \in job'[n]} = {x.goal}
        BY <4>3
      <4> QED BY <2>1, <3>1, <4>1, <4>3, <4>4 DEF TaskRows, Armed, Current
    <3>3. CASE ~Rearmed(n) /\ On(loaded[n])
      BY <2>1, <3>1, <3>3 DEF Rearmed, On, Current
    <3>4. CASE ~Rearmed(n) /\ ~On(loaded[n])
      BY <2>1, <3>4 DEF Current
    <3> QED BY <3>2, <3>3, <3>4
  <2>3. NoTasks \in [Names -> SUBSET TaskRows] /\ \A n \in Names : Sole(NoTasks[n])
    BY DEF NoTasks, Sole
  <2>4. job' \in [Names -> SUBSET Armed]
    BY <2>1, <2>2
  <2>5. MirrorInv'
    BY <2>1, <2>2, <2>3, <2>4 DEF MirrorInv
  <2> QED BY <2>1, <2>5, <1>k DEF table
<1>7. CASE Restart
  <2>1. MirrorInv'
    BY <1>7 DEF MirrorInv, Current, Restart, NoTasks, Sole
  <2> QED BY <1>7, <2>1, <1>k DEF Restart, table
<1>8. CASE Tick \/ Fire
  BY <1>8, <1>j, <1>k DEF Tick, Fire, table
<1>9. CASE \/ \E n \in Names : Enqueue(n)
           \/ \E r \in Threads : Launch(r) \/ Resume(r) \/ Checkpoint(r) \/ EndRun(r)
           \/ NextDay \/ Scan \/ Drop
           \/ UNCHANGED jobsVars
  BY <1>9, <1>j, <1>k
     DEF Enqueue, Launch, Resume, Activate, Checkpoint, EndRun, NextDay, Scan, Drop, jobsVars, table, daemon
<1> QED
  BY <1>1, <1>2, <1>3, <1>4, <1>5, <1>6, <1>7, <1>8, <1>9 DEF JobsNext

\* _fire enqueues the goal of the row the last reconcile read, enabled, or the old one of a
\* row whose crontab no longer parses: no job outlives the reconcile that replaces it.
THEOREM FiresAreCurrent == JobsSpec => FiresCurrent
<1>1. JobInv /\ [JobsNext]_jobsVars =>
        [\A n \in Names :
           (firing'[n] # firing[n] /\ firing'[n] # {})
             => \E x \in seen[n] : x.on /\ (x.cron = BadCron \/ firing'[n] = {x.goal})]_jobsVars
  <2> SUFFICES ASSUME JobInv, [JobsNext]_jobsVars, NEW n \in Names,
                      firing'[n] # firing[n], firing'[n] # {}
               PROVE  \E x \in seen[n] : x.on /\ (x.cron = BadCron \/ firing'[n] = {x.goal})
    OBVIOUS
  <2>1. CASE Fire
    <3>1. job[n] # {} /\ firing'[n] = {x.goal : x \in job[n]}
      BY <2>1 DEF Fire, DueJob
    <3> QED BY <3>1 DEF JobInv, MirrorInv, Current
  <2>2. CASE \E m \in Names : Enqueue(m)
    <3>1. firing'[n] \in {firing[n], {}}
      BY <2>2 DEF Enqueue
    <3> QED BY <3>1
  <2>3. CASE Restart
    BY <2>3 DEF Restart, NoTasks
  <2>4. CASE UNCHANGED firing
    BY <2>4
  <2> QED BY <2>1, <2>2, <2>3, <2>4
      DEF JobsNext, jobsVars, daemon, Revise, CheckCap, Insert, Operate, LoadTasks, Reconcile, Arm, Tick,
          Launch, Resume, Activate, Checkpoint, EndRun, NextDay, Scan, Drop
<1>2. JobsInit => JobInv
  BY JobInit
<1>3. JobInv /\ [JobsNext]_jobsVars => JobInv'
  BY JobStep
<1> QED BY <1>1, <1>2, <1>3, PTL DEF JobsSpec, FiresCurrent

-----------------------------------------------------------------------------
LEMMA ThreadInit == JobsInit => ThreadInv
BY DEF JobsInit, ThreadInv, Ages

LEMMA ThreadStep == Ttl # 0 /\ ThreadInv /\ [JobsNext]_jobsVars => ThreadInv'
<1> SUFFICES ASSUME Ttl # 0, ThreadInv, [JobsNext]_jobsVars PROVE ThreadInv'
  OBVIOUS
<1>t. Ttl \in Nat /\ Ttl >= 1 /\ NoRows = -1
  BY ScheduleAssumption DEF NoRows
<1>1. ASSUME NEW n \in Names, Enqueue(n) PROVE ThreadInv'
  BY <1>1 DEF Enqueue, ThreadInv, gc
<1>2. CASE Restart
  BY <1>2 DEF Restart, ThreadInv, threads
<1>3. ASSUME NEW r \in Threads, Launch(r) \/ Resume(r) PROVE ThreadInv'
  <2>1. Activate(r)
    BY <1>3 DEF Launch, Resume
  <2>2. newest[r] <= Ttl \/ r \in revived'
    BY <1>t, <2>1 DEF Activate, ThreadInv, Ages
  <2> QED BY <2>1, <2>2 DEF Activate, ThreadInv
<1>4. ASSUME NEW r \in Threads, Checkpoint(r) PROVE ThreadInv'
  BY <1>4, <1>t DEF Checkpoint, ThreadInv, Ages, gc
<1>5. ASSUME NEW r \in Threads, EndRun(r) PROVE ThreadInv'
  BY <1>5 DEF EndRun, ThreadInv, gc
<1>6. CASE NextDay
  <2>1. ASSUME NEW a \in Ages
        PROVE  /\ Older(a) \in Ages /\ (a = NoRows => Older(a) = NoRows)
               /\ (a > Ttl => Older(a) > Ttl) /\ (a = 0 => Older(a) <= Ttl)
    BY <1>t DEF Older, Ages
  <2>2. /\ newest' = [r \in Threads |-> Older(newest[r])]
        /\ \A r \in Threads : state[r] = "active" => newest[r] = 0
        /\ UNCHANGED <<state, stale, revived>>
    BY <1>6 DEF NextDay, gc
  <2> QED BY <2>1, <2>2 DEF ThreadInv
<1>7. CASE Scan
  BY <1>7 DEF Scan, Stale, ThreadInv, threads
<1>8. CASE Drop
  BY <1>8, <1>t DEF Drop, ThreadInv, Ages
<1>9. CASE UNCHANGED <<state, newest, stale, revived>>
  BY <1>9 DEF ThreadInv
<1> QED
  BY <1>1, <1>2, <1>3, <1>4, <1>5, <1>6, <1>7, <1>8, <1>9
     DEF JobsNext, jobsVars, threads, gc, Revise, CheckCap, Insert, Operate, LoadTasks, Reconcile, Arm,
         Tick, Fire

\* With a TTL of a day or more, CheckpointGc.run drops the checkpoints of idle threads whose
\* newest is older than the TTL, and of runs that were resumed from stale checkpoints.
\* With a TTL of zero days a run that crosses midnight could lose its own.
THEOREM LiveThreadsKept == Ttl # 0 => (JobsSpec => LiveThreadKept)
<1> SUFFICES ASSUME Ttl # 0 PROVE JobsSpec => LiveThreadKept
  OBVIOUS
<1>t. Ttl \in Nat /\ Ttl >= 1 /\ NoRows = -1
  BY ScheduleAssumption DEF NoRows
<1>1. ThreadInv /\ [JobsNext]_jobsVars =>
        [\A r \in Threads :
           (newest[r] # NoRows /\ newest'[r] = NoRows)
             => (newest[r] > Ttl /\ state[r] = "idle") \/ r \in revived]_jobsVars
  <2> SUFFICES ASSUME ThreadInv, [JobsNext]_jobsVars, NEW r \in Threads,
                      newest[r] # NoRows, newest'[r] = NoRows
               PROVE  (newest[r] > Ttl /\ state[r] = "idle") \/ r \in revived
    OBVIOUS
  <2>1. CASE Drop
    <3>1. r \in stale
      BY <2>1 DEF Drop, ThreadInv
    <3>2. newest[r] > Ttl \/ r \in revived
      BY <3>1 DEF ThreadInv
    <3>3. state[r] \in {"active", "idle"} /\ newest[r] \in Ages
      BY DEF ThreadInv
    <3>4. state[r] = "active" => newest[r] <= Ttl \/ r \in revived
      BY DEF ThreadInv
    <3>5. ~(newest[r] > Ttl /\ newest[r] <= Ttl)
      BY <1>t, <3>3 DEF Ages
    <3> QED BY <3>2, <3>3, <3>4, <3>5
  <2>2. CASE NextDay
    BY <2>2, <1>t DEF NextDay, ThreadInv, Older, Ages
  <2>3. CASE \E q \in Threads : Checkpoint(q)
    BY <2>3, <1>t DEF Checkpoint, ThreadInv
  <2>4. CASE UNCHANGED newest
    BY <2>4
  <2> QED BY <2>1, <2>2, <2>3, <2>4
      DEF JobsNext, jobsVars, threads, Revise, CheckCap, Insert, Operate, LoadTasks, Reconcile, Arm, Tick,
          Fire, Enqueue, Restart, Launch, Resume, Activate, EndRun, Scan
<1>2. JobsInit => ThreadInv
  BY ThreadInit
<1>3. ThreadInv /\ [JobsNext]_jobsVars => ThreadInv'
  BY ThreadStep
<1> QED BY <1>1, <1>2, <1>3, PTL DEF JobsSpec, LiveThreadKept

-----------------------------------------------------------------------------
(*****************************************************************************)
(* Memory.                                                                 *)
(*****************************************************************************)
\* Halved(i) is the function its recursion says.
LEMMA HalvedDef ==
  ASSUME Halvings \in Nat, NEW i \in Nat
  PROVE  /\ Halved(i) \in [0 .. Halvings -> Nat]
         /\ Halved(i)[0] = i
         /\ \A n \in 0 .. Halvings - 1 : Halved(i)[n + 1] = Halved(i)[n] \div 2
<1> DEFINE Fits(f, m) == f = [n \in 0 .. m |-> IF n = 0 THEN i ELSE f[n - 1] \div 2]
           S == {m \in Nat : \E f : Fits(f, m)}
<1>1. 0 \in S
  <2> DEFINE f == [n \in 0 .. 0 |-> i]
  <2>1. Fits(f, 0)
    OBVIOUS
  <2> QED BY <2>1
<1>2. ASSUME NEW m \in Nat, m \in S PROVE m + 1 \in S
  <2>1. PICK f : Fits(f, m)
    BY <1>2
  <2> DEFINE g == [n \in 0 .. m + 1 |-> IF n = m + 1 THEN f[m] \div 2 ELSE f[n]]
  <2>2. ASSUME NEW n \in 0 .. m + 1 PROVE g[n] = IF n = 0 THEN i ELSE g[n - 1] \div 2
    <3>1. CASE n = m + 1
      BY <3>1
    <3>2. CASE n \in 0 .. m
      <4>1. f[n] = IF n = 0 THEN i ELSE f[n - 1] \div 2
        BY <2>1, <3>2
      <4> QED BY <3>2, <4>1
    <3> QED BY <3>1, <3>2
  <2>3. Fits(g, m + 1)
    BY <2>2
  <2> HIDE DEF g, Fits
  <2> QED BY <2>3
<1>3. \E f : Fits(f, Halvings)
  <2> HIDE DEF S
  <2>1. Nat \subseteq S
    BY <1>1, <1>2, Induction
  <2> QED BY <2>1 DEF S
<1>4. Halved(i) = CHOOSE f : Fits(f, Halvings)
  BY DEF Halved
<1>5. Fits(Halved(i), Halvings)
  <2> HIDE DEF Fits
  <2> QED BY <1>3, <1>4
<1> HIDE DEF S
<1>6. /\ Halved(i)[0] = i
      /\ \A n \in 0 .. Halvings - 1 : Halved(i)[n + 1] = Halved(i)[n] \div 2
  <2>1. \A n \in 0 .. Halvings : Halved(i)[n] = IF n = 0 THEN i ELSE Halved(i)[n - 1] \div 2
    BY <1>5
  <2> QED BY <2>1
<1> DEFINE T == {m \in Nat : m \in 0 .. Halvings => Halved(i)[m] \in Nat}
<1>7. 0 \in T
  BY <1>6
<1>8. ASSUME NEW n \in Nat, n \in T PROVE n + 1 \in T
  BY <1>6, <1>8
<1>9. Nat \subseteq T
  <2> HIDE DEF T
  <2> QED BY <1>7, <1>8, Induction
<1>10. \A n \in 0 .. Halvings : Halved(i)[n] \in Nat
  BY <1>9
<1>11. Halved(i) \in [0 .. Halvings -> Nat]
  BY <1>5, <1>10
<1> QED BY <1>6, <1>11

\* The passes of an importance are the least number that takes it below the floor.
LEMMA PassesLeast ==
  ASSUME NEW i \in Importances, NEW n \in 0 .. Halvings, Halved(i)[n] < Floor
  PROVE  PassesOf(i) \in 0 .. n
<1> USE MemoryAssumption
<1> DEFINE S == {m \in 0 .. Halvings : Halved(i)[m] < Floor}
<1>0. Halved(i) \in [0 .. Halvings -> Nat]
  BY HalvedDef
<1>1. PICK m \in S : \A k \in S : m <= k
  <2>1. S \in SUBSET Nat /\ n \in S
    OBVIOUS
  <2> HIDE DEF S
  <2> QED BY <2>1, Least
<1>2. m \in 0 .. Halvings /\ Halved(i)[m] < Floor /\ \A k \in 0 .. m - 1 : Halved(i)[k] >= Floor
  BY <1>0, <1>1
<1>3. /\ PassesOf(i) \in 0 .. Halvings
      /\ \A k \in 0 .. PassesOf(i) - 1 : Halved(i)[k] >= Floor
  BY <1>2 DEF PassesOf
<1>4. Halved(i)[n] \in Nat
  BY <1>0
<1> QED BY <1>3, <1>4

-----------------------------------------------------------------------------
\* A row lock belongs to one write, and what its DELETE found is what is there.
Holds(r, w) == session[r] = "clean" /\ w.step # "upsert"
LockInv ==
  /\ \A q, r \in Runs : \A v \in write[q], w \in write[r] :
       q # r /\ Holds(q, v) /\ Holds(r, w) => v.key # w.key
  /\ \A r \in Runs : \A w \in write[r] :
       Holds(r, w) /\ w.step = "commit" => w.gone = Superseded(w.key)

\* An episode has been halved k times, and is a day past its age limit for each of
\* them; one more when a pass has read it, and one more when none has today.
Late(e) == (IF e \in UNION reading THEN 1 ELSE 0) + (IF ran THEN 0 ELSE 1)
Aged(e, x, k) ==
  /\ x.importance = Halved(x.born)[k]
  /\ k > 0 \/ e \in UNION reading => x.age >= MaxAge + k + Late(e) \/ x.age = Oldest
AgeInv ==
  /\ \A e \in UNION reading : episode[e] # {}
  /\ \A e \in Episodes : \A x \in episode[e] : \E k \in 0 .. Halvings - 1 : Aged(e, x, k)

MInv == MemTypeOK /\ LockInv /\ EmbeddingCurrent /\ AgeInv

LEMMA HalfOf ==
  ASSUME NEW x, x \in Rows, x.importance \in Floor .. x.born,
         NEW k \in 0 .. Halvings - 1, x.importance = Halved(x.born)[k]
  PROVE  /\ x.born \in Nat
         /\ x.importance \div 2 \in Nat
         /\ x.importance \div 2 = Halved(x.born)[k + 1]
         /\ x.importance >= 2 * Floor => /\ x.importance \div 2 \in Floor .. x.born
                                         /\ k + 1 \in 0 .. Halvings - 1
         /\ x.importance < 2 * Floor => Halved(x.born)[k + 1] < Floor
<1> USE MemoryAssumption DEF Rows
<1>1. x.born \in Importances /\ x.born \in Nat
  OBVIOUS
<1>2. Halved(x.born)[k + 1] = Halved(x.born)[k] \div 2 /\ Halved(x.born)[k] \in Nat
  BY <1>1, HalvedDef
<1>3. x.importance \div 2 = Halved(x.born)[k + 1] /\ x.importance \in Nat
  BY <1>2
<1>4. ASSUME x.importance >= 2 * Floor
      PROVE  x.importance \div 2 \in Floor .. x.born /\ k + 1 \in 0 .. Halvings - 1
  <2>1. x.importance \div 2 \in Floor .. x.born
    BY <1>3, <1>4
  <2>2. Halved(x.born)[k + 1] >= Floor
    BY <1>3, <2>1
  <2>3. Halved(x.born)[Halvings] < Floor
    BY <1>1
  <2>4. k + 1 # Halvings
    <3> SUFFICES ASSUME k + 1 = Halvings PROVE FALSE
      OBVIOUS
    <3>1. Halved(x.born)[Halvings] >= Floor
      BY <2>2
    <3>2. Halved(x.born)[Halvings] \in Nat
      BY <1>2
    <3> QED BY <2>3, <3>1, <3>2
  <2> QED BY <2>1, <2>4
<1>5. x.importance < 2 * Floor => x.importance \div 2 < Floor
  BY <1>3
<1> QED BY <1>1, <1>2, <1>3, <1>4, <1>5

\* The row a run stores, and the rows a pass leaves.
LEMMA StoredFacts ==
  ASSUME MemTypeOK, NEW r \in Runs, NEW w \in write[r]
  PROVE  /\ Stored(w) \in [Keys -> SUBSET Facts]
         /\ \A k \in Keys : Sole(Stored(w)[k])
         /\ \A k \in Keys : k # w.key => Stored(w)[k] = fact[k]
         /\ w.gone = Superseded(w.key) => \A f \in Stored(w)[w.key] : f.embeds = {f.value}
<1> USE DEF MemTypeOK, Writes, Facts
<1>1. w.key \in Keys /\ w.value \in Values /\ w.gone \subseteq Values
  OBVIOUS
<1> DEFINE new == [value |-> w.value, embeds |-> ((UNION {f.embeds : f \in fact[w.key]}) \ w.gone) \cup {w.value}]
<1>2. Stored(w) = [fact EXCEPT ![w.key] = {new}]
  BY DEF Stored
<1>3. new \in Facts
  <2>1. (UNION {f.embeds : f \in fact[w.key]}) \subseteq Values
    BY <1>1
  <2> QED BY <1>1, <2>1
<1>4. ASSUME w.gone = Superseded(w.key) PROVE new.embeds = {new.value}
  <2> DEFINE U == UNION {f.embeds : f \in fact[w.key]}
  <2>1. w.gone = U
    BY <1>4 DEF Superseded
  <2> HIDE DEF U
  <2>2. new.embeds = (U \ w.gone) \cup {w.value} /\ new.value = w.value
    BY DEF U
  <2> HIDE DEF new
  <2> QED BY <2>1, <2>2
<1> HIDE DEF new
<1> QED BY <1>1, <1>2, <1>3, <1>4 DEF Sole

LEMMA MemoryInit == MemInit => MInv
BY DEF MemInit, MInv, MemTypeOK, LockInv, EmbeddingCurrent, AgeInv, Aged, Sole, Writes, Facts, Rows

\* A step of one run that changes its session and its write.
LEMMA RunTypes ==
  ASSUME MemTypeOK, NEW r \in Runs,
         at' \in [Runs -> {"loop", "sink", "over", "cancelled"}],
         session' \in [Runs -> {"clean", "aborted", "inactive"}],
         \/ UNCHANGED write
         \/ write' = [write EXCEPT ![r] = {}]
         \/ \E v \in Writes : write' = [write EXCEPT ![r] = {v}],
         \/ UNCHANGED fact
         \/ \E w \in write[r] : fact' = Stored(w),
         UNCHANGED cold
  PROVE  MemTypeOK'
<1> USE DEF MemTypeOK, cold
<1>1. fact' \in [Keys -> SUBSET Facts] /\ \A k \in Keys : Sole(fact'[k])
  BY StoredFacts DEF Sole
<1>2. write' \in [Runs -> SUBSET Writes] /\ \A q \in Runs : Sole(write'[q])
  BY DEF Sole
<1>3. UNCHANGED <<episode, reading, ran>>
  OBVIOUS
<1> QED BY <1>1, <1>2, <1>3

LEMMA ColdKept == ASSUME AgeInv, UNCHANGED cold PROVE AgeInv'
BY DEF AgeInv, Aged, Late, cold

\* What a step of run r owes the locks when it leaves the facts alone.
LEMMA LocksKept ==
  ASSUME MemTypeOK, LockInv, EmbeddingCurrent, NEW r \in Runs, UNCHANGED fact,
         \A q \in Runs \ {r} : session'[q] = session[q] /\ write'[q] = write[q],
         \A w \in write'[r] : session'[r] = "clean" /\ w.step # "upsert" =>
            /\ session[r] = "clean"
            /\ \/ \E v \in write[r] : v.key = w.key /\ v.step # "upsert"
               \/ ~Locked(w.key)
            /\ w.step = "commit" => w \in write[r] \/ w.gone = Superseded(w.key)
  PROVE  LockInv' /\ EmbeddingCurrent'
<1> USE DEF LockInv, Holds
<1>1. EmbeddingCurrent'
  BY DEF EmbeddingCurrent
<1>2. \A k : Superseded(k)' = Superseded(k)
  BY DEF Superseded
<1>3. ASSUME NEW q \in Runs, NEW p \in Runs, NEW v \in write'[q], NEW w \in write'[p],
             q # p, Holds(q, v)', Holds(p, w)'
      PROVE  v.key # w.key
  <2>1. CASE q # r /\ p # r
    BY <1>3, <2>1
  <2>2. CASE q = r /\ p # r
    <3>1. w \in write[p] /\ Holds(p, w)
      BY <1>3, <2>2
    <3>2. CASE \E u \in write[r] : u.key = v.key /\ u.step # "upsert"
      BY <1>3, <2>2, <3>1, <3>2
    <3>3. CASE ~Locked(v.key)
      BY <1>3, <2>2, <3>1, <3>3 DEF Locked
    <3> QED BY <1>3, <2>2, <3>2, <3>3
  <2>3. CASE q # r /\ p = r
    <3>1. v \in write[q] /\ Holds(q, v)
      BY <1>3, <2>3
    <3>2. CASE \E u \in write[r] : u.key = w.key /\ u.step # "upsert"
      BY <1>3, <2>3, <3>1, <3>2
    <3>3. CASE ~Locked(w.key)
      BY <1>3, <2>3, <3>1, <3>3 DEF Locked
    <3> QED BY <1>3, <2>3, <3>2, <3>3
  <2> QED BY <1>3, <2>1, <2>2, <2>3
<1>4. ASSUME NEW q \in Runs, NEW w \in write'[q], Holds(q, w)', w.step = "commit"
      PROVE  w.gone = Superseded(w.key)'
  <2>1. CASE q = r
    BY <1>2, <1>4, <2>1
  <2>2. CASE q # r
    BY <1>2, <1>4, <2>2
  <2> QED BY <2>1, <2>2
<1> QED BY <1>1, <1>3, <1>4

\* A commit of what the session holds.
LEMMA CommitKeepsLocks ==
  ASSUME MemTypeOK, LockInv, EmbeddingCurrent, NEW r \in Runs, NEW w \in write[r],
         w.step = "commit", session[r] = "clean", fact' = Stored(w),
         UNCHANGED session, write' = [write EXCEPT ![r] = {}]
  PROVE  LockInv' /\ EmbeddingCurrent'
<1> USE DEF LockInv, Holds
<1>1. \A k \in Keys : k # w.key => fact'[k] = fact[k]
  BY StoredFacts
<1>2. w.gone = Superseded(w.key)
  OBVIOUS
<1>3. \A f \in fact'[w.key] : f.embeds = {f.value}
  BY <1>2, StoredFacts
<1>4. EmbeddingCurrent'
  BY <1>1, <1>3 DEF EmbeddingCurrent
<1>5. \A q \in Runs : \A v \in write'[q] : q # r /\ v \in write[q] /\ v.key \in Keys
  BY DEF MemTypeOK, Writes
<1>6. ASSUME NEW q \in Runs, NEW v \in write'[q], Holds(q, v)'
      PROVE  v.key # w.key /\ Superseded(v.key)' = Superseded(v.key)
  <2>1. v.key # w.key
    BY <1>5, <1>6
  <2> QED BY <1>1, <1>5, <2>1 DEF Superseded
<1>7. ASSUME NEW q \in Runs, NEW v \in write'[q], Holds(q, v)', v.step = "commit"
      PROVE  v.gone = Superseded(v.key)'
  BY <1>5, <1>6, <1>7
<1>8. \A p, q \in Runs : \A u \in write'[p], v \in write'[q] :
        p # q /\ Holds(p, u)' /\ Holds(q, v)' => u.key # v.key
  BY <1>5
<1> QED BY <1>4, <1>7, <1>8

LEMMA MemoryStep == MInv /\ [MemNext]_memVars => MInv'
<1> SUFFICES ASSUME MInv, [MemNext]_memVars PROVE MInv'
  OBVIOUS
<1> USE DEF MInv
<1>t. /\ at \in [Runs -> {"loop", "sink", "over", "cancelled"}]
      /\ session \in [Runs -> {"clean", "aborted", "inactive"}]
      /\ write \in [Runs -> SUBSET Writes] /\ \A r \in Runs : Sole(write[r])
  BY DEF MemTypeOK
<1>1. ASSUME NEW r \in Runs, Recall(r) PROVE MInv'
  <2>1. MemTypeOK'
    BY <1>1, <1>t, RunTypes DEF Recall, StatementFails
  <2>2. LockInv' /\ EmbeddingCurrent'
    BY <1>1, <1>t, LocksKept DEF Recall, StatementFails, Holds
  <2> QED BY <1>1, <2>1, <2>2, ColdKept DEF Recall
<1>2. ASSUME NEW r \in Runs, StoreSkill(r) PROVE MInv'
  <2>1. MemTypeOK'
    BY <1>2, <1>t, RunTypes DEF StoreSkill, Unflushed
  <2>2. LockInv' /\ EmbeddingCurrent'
    BY <1>2, <1>t, LocksKept DEF StoreSkill, Idle, Flushed, Unflushed
  <2> QED BY <1>2, <2>1, <2>2, ColdKept DEF StoreSkill
<1>3. ASSUME NEW r \in Runs, Finish(r) PROVE MInv'
  <2>1. MemTypeOK'
    BY <1>3, <1>t, RunTypes DEF Finish
  <2>2. LockInv' /\ EmbeddingCurrent'
    BY <1>3, <1>t, LocksKept DEF Finish, Idle
  <2> QED BY <1>3, <2>1, <2>2, ColdKept DEF Finish
<1>4. ASSUME NEW r \in Runs, End(r) PROVE MInv'
  <2>1. MemTypeOK'
    BY <1>4, <1>t, RunTypes DEF End, Leave
  <2>2. LockInv' /\ EmbeddingCurrent'
    BY <1>4, <1>t, LocksKept DEF End, Leave, Idle
  <2> QED BY <1>4, <2>1, <2>2, ColdKept DEF End, Leave
<1>5. ASSUME NEW r \in Runs, NEW e \in Episodes, NEW i \in Importances, StoreObservation(r, e, i)
      PROVE  MInv'
  <2>1. /\ UNCHANGED <<at, write, fact, reading, ran>>
        /\ session' \in [Runs -> {"clean", "aborted", "inactive"}]
        /\ \A q \in Runs \ {r} : session'[q] = session[q]
        /\ write[r] = {}
    BY <1>5, <1>t DEF StoreObservation, Unflushed, Idle
  <2>2. LockInv' /\ EmbeddingCurrent'
    BY <2>1, LocksKept
  <2> DEFINE new == [importance |-> i, born |-> i, age |-> 0]
  <2>3. \/ UNCHANGED episode
        \/ episode[e] = {} /\ episode' = [episode EXCEPT ![e] = {new}]
    BY <1>5 DEF StoreObservation
  <2>4. new \in Rows /\ new.importance \in Floor .. new.born
    BY MemoryAssumption DEF Rows, Oldest
  <2>5. CASE UNCHANGED episode
    <3>1. UNCHANGED cold
      BY <2>1, <2>5 DEF cold
    <3>2. MemTypeOK'
      BY <1>t, <2>1, <3>1, RunTypes
    <3> QED BY <2>2, <3>1, <3>2, ColdKept
  <2>6. CASE episode[e] = {} /\ episode' = [episode EXCEPT ![e] = {new}]
    <3>1. \A d \in Episodes : episode'[d] = IF d = e THEN {new} ELSE episode[d]
      BY <2>6 DEF MemTypeOK
    <3>2. \A d \in Episodes : Late(d)' = Late(d) /\ (d \in UNION reading => d # e)
      BY <2>1, <2>6 DEF Late, AgeInv
    <3>3. MemTypeOK'
      <4>1. episode' \in [Episodes -> SUBSET Rows]
        BY <2>4, <2>6 DEF MemTypeOK
      <4>2. \A d \in Episodes : /\ Sole(episode'[d])
                                /\ \A x \in episode'[d] : x.importance \in Floor .. x.born
        BY <2>4, <3>1 DEF MemTypeOK, Sole
      <4> QED BY <2>1, <4>1, <4>2 DEF MemTypeOK
    <3>4. 0 \in 0 .. Halvings - 1 /\ new.importance = Halved(new.born)[0]
      <4>1. Halvings \in Nat \ {0} /\ i \in Nat
        BY MemoryAssumption
      <4>2. Halved(i)[0] = i
        BY <4>1, HalvedDef
      <4> QED BY <4>1, <4>2
    <3>5. AgeInv'
      <4>1. \A d \in UNION reading' : episode'[d] # {}
        BY <2>1, <3>1, <3>2 DEF AgeInv, MemTypeOK
      <4>2. ASSUME NEW d \in Episodes, NEW x \in episode'[d]
            PROVE  \E k \in 0 .. Halvings - 1 : Aged(d, x, k)'
        <5>1. CASE d = e
          <6>1. x = new /\ d \notin UNION reading'
            BY <2>1, <3>1, <3>2, <4>2, <5>1
          <6>2. Aged(d, x, 0)'
            BY <3>4, <6>1 DEF Aged
          <6> QED BY <3>4, <6>2
        <5>2. CASE d # e
          <6>1. PICK k \in 0 .. Halvings - 1 : Aged(d, x, k)
            BY <3>1, <4>2, <5>2 DEF AgeInv
          <6>2. Aged(d, x, k)'
            BY <2>1, <3>2, <6>1 DEF Aged
          <6> QED BY <6>2
        <5> QED BY <5>1, <5>2
      <4> QED BY <4>1, <4>2 DEF AgeInv
    <3> QED BY <2>2, <3>3, <3>5
  <2> QED BY <2>3, <2>5, <2>6
<1>6. ASSUME NEW r \in Runs, NEW k \in Keys, NEW v \in Values, BeginFact(r, k, v) PROVE MInv'
  <2> DEFINE w == [key |-> k, value |-> v, step |-> "upsert", gone |-> {}]
  <2>1. w \in Writes /\ w.step = "upsert"
    BY DEF Writes, Steps
  <2>2. write' = [write EXCEPT ![r] = {w}] /\ UNCHANGED <<at, session, fact, cold>>
    BY <1>6 DEF BeginFact
  <2> HIDE DEF w
  <2>3. MemTypeOK'
    BY <1>t, <2>1, <2>2, RunTypes
  <2>4. LockInv' /\ EmbeddingCurrent'
    BY <1>t, <2>1, <2>2, LocksKept
  <2> QED BY <2>2, <2>3, <2>4, ColdKept
<1>7. ASSUME NEW r \in Runs, Upsert(r) PROVE MInv'
  <2>1. PICK w \in write[r] : /\ w.step = "upsert" /\ ~Locked(w.key)
                              /\ write' = [write EXCEPT ![r] = {[w EXCEPT !.step = "embed"]}]
    BY <1>7 DEF Upsert
  <2> DEFINE v == [w EXCEPT !.step = "embed"]
  <2>2. v \in Writes /\ v.key = w.key /\ v.step = "embed"
    BY <1>t DEF Writes, Steps
  <2>3. write' = [write EXCEPT ![r] = {v}] /\ UNCHANGED <<at, session, fact, cold>>
    BY <1>7, <2>1 DEF Upsert
  <2> HIDE DEF v
  <2>4. MemTypeOK'
    BY <1>t, <2>2, <2>3, RunTypes
  <2>5. LockInv' /\ EmbeddingCurrent'
    BY <1>t, <2>1, <2>2, <2>3, LocksKept
  <2> QED BY <2>3, <2>4, <2>5, ColdKept
<1>8. ASSUME NEW r \in Runs, UpsertFails(r) PROVE MInv'
  <2>1. MemTypeOK'
    BY <1>8, <1>t, RunTypes DEF UpsertFails, StatementFails
  <2>2. LockInv' /\ EmbeddingCurrent'
    BY <1>8, <1>t, LocksKept DEF UpsertFails, StatementFails
  <2> QED BY <1>8, <2>1, <2>2, ColdKept DEF UpsertFails
<1>9. ASSUME NEW r \in Runs, Embed(r) PROVE MInv'
  <2>1. PICK w \in write[r] :
          /\ w.step = "embed"
          /\ write' = [write EXCEPT ![r] = {[w EXCEPT !.step = "commit", !.gone = Superseded(w.key)]}]
    BY <1>9 DEF Embed
  <2> DEFINE v == [w EXCEPT !.step = "commit", !.gone = Superseded(w.key)]
  <2>2. Superseded(w.key) \subseteq Values
    BY <1>t DEF Superseded, MemTypeOK, Facts, Writes
  <2>3. v \in Writes /\ v.key = w.key /\ v.step = "commit" /\ v.gone = Superseded(w.key)
    <3>1. w \in Writes /\ Superseded(w.key) \in SUBSET Values /\ "commit" \in Steps
      BY <1>t, <2>2 DEF Steps
    <3>2. v = [key |-> w.key, value |-> w.value, step |-> "commit", gone |-> Superseded(w.key)]
      <4> DEFINE u == [w EXCEPT !.step = "commit"]
      <4>1. u = [key |-> w.key, value |-> w.value, step |-> "commit", gone |-> w.gone]
        BY <3>1 DEF Writes
      <4>2. v = [u EXCEPT !.gone = Superseded(w.key)]
        BY <4>1
      <4> HIDE DEF u
      <4> QED BY <4>1, <4>2
    <3> HIDE DEF v
    <3> QED BY <3>1, <3>2 DEF Writes
  <2>4. /\ write' = [write EXCEPT ![r] = {v}] /\ UNCHANGED <<at, fact, cold>>
        /\ UNCHANGED session \/ StatementFails(r)
    BY <1>9, <2>1 DEF Embed
  <2> HIDE DEF v
  <2>5. MemTypeOK'
    BY <1>t, <2>3, <2>4, RunTypes DEF StatementFails
  <2>6. LockInv' /\ EmbeddingCurrent'
    BY <1>t, <2>1, <2>3, <2>4, LocksKept DEF StatementFails
  <2> QED BY <2>4, <2>5, <2>6, ColdKept
<1>10. ASSUME NEW r \in Runs, CommitFact(r) PROVE MInv'
  <2>1. PICK w \in write[r] :
          /\ w.step = "commit"
          /\ \/ session[r] = "clean" /\ fact' = Stored(w) /\ UNCHANGED session
             \/ session[r] # "aborted" /\ Unflushed(r) /\ UNCHANGED fact
             \/ /\ session[r] = "aborted"
                /\ session' = [session EXCEPT ![r] = "clean"]
                /\ UNCHANGED fact
    BY <1>10 DEF CommitFact
  <2>2. write' = [write EXCEPT ![r] = {}] /\ UNCHANGED <<at, cold>>
    BY <1>10 DEF CommitFact
  <2>3. MemTypeOK'
    BY <1>t, <2>1, <2>2, RunTypes DEF Unflushed
  <2>4. LockInv' /\ EmbeddingCurrent'
    <3>1. CASE session[r] = "clean" /\ fact' = Stored(w) /\ UNCHANGED session
      BY <2>1, <2>2, <3>1, CommitKeepsLocks
    <3>2. CASE UNCHANGED fact /\ \A q \in Runs \ {r} : session'[q] = session[q]
      BY <1>t, <2>2, <3>2, LocksKept
    <3> QED BY <1>t, <2>1, <3>1, <3>2 DEF Unflushed
  <2> QED BY <2>2, <2>3, <2>4, ColdKept
<1>11. ASSUME NEW r \in Runs, Cancel(r) PROVE MInv'
  <2>1. /\ at' = [at EXCEPT ![r] = "cancelled"]
        /\ UNCHANGED <<session, cold>>
    BY <1>11 DEF Cancel
  <2>2. CASE UNCHANGED <<write, fact>>
    <3>1. MemTypeOK'
      BY <1>t, <2>1, <2>2, RunTypes
    <3>2. LockInv' /\ EmbeddingCurrent'
      BY <1>t, <2>1, <2>2, LocksKept
    <3> QED BY <2>1, <3>1, <3>2, ColdKept
  <2>3. CASE write' = [write EXCEPT ![r] = {}] /\ UNCHANGED fact
    <3>1. MemTypeOK'
      BY <1>t, <2>1, <2>3, RunTypes
    <3>2. LockInv' /\ EmbeddingCurrent'
      BY <1>t, <2>1, <2>3, LocksKept
    <3> QED BY <2>1, <3>1, <3>2, ColdKept
  <2>4. CASE /\ write' = [write EXCEPT ![r] = {}]
             /\ \E w \in write[r] : w.step = "commit" /\ session[r] = "clean" /\ fact' = Stored(w)
    <3>1. PICK w \in write[r] : w.step = "commit" /\ session[r] = "clean" /\ fact' = Stored(w)
      BY <2>4
    <3>2. MemTypeOK'
      BY <1>t, <2>1, <2>4, <3>1, RunTypes
    <3>3. LockInv' /\ EmbeddingCurrent'
      BY <2>1, <2>4, <3>1, CommitKeepsLocks
    <3> QED BY <2>1, <3>2, <3>3, ColdKept
  <2> QED BY <1>11, <2>2, <2>3, <2>4 DEF Cancel
<1>12. ASSUME NEW r \in Runs, Collect(r) PROVE MInv'
  <2>1. MemTypeOK'
    BY <1>12, <1>t, RunTypes DEF Collect, Leave
  <2>2. LockInv' /\ EmbeddingCurrent'
    BY <1>12, <1>t, LocksKept DEF Collect, Leave
  <2> QED BY <1>12, <2>1, <2>2, ColdKept DEF Collect, Leave
<1>13. CASE Read
  <2>1. /\ ~ran /\ reading = {} /\ ran' = TRUE
        /\ reading' = {{e \in Episodes : \E x \in episode[e] : Due(x)}}
        /\ UNCHANGED <<run, fact, episode>>
    BY <1>13 DEF Read
  <2>2. /\ UNION reading = {}
        /\ UNION reading' = {e \in Episodes : \E x \in episode[e] : Due(x)}
    BY <2>1
  <2>3. MemTypeOK'
    BY <2>1 DEF MemTypeOK, Sole, run
  <2>4. LockInv' /\ EmbeddingCurrent'
    BY <2>1 DEF LockInv, Holds, Superseded, EmbeddingCurrent, run
  <2>5. ASSUME NEW e \in Episodes, NEW x \in episode'[e]
        PROVE  \E k \in 0 .. Halvings - 1 : Aged(e, x, k)'
    <3>1. PICK k \in 0 .. Halvings - 1 : Aged(e, x, k)
      BY <2>1, <2>5 DEF AgeInv
    <3>2. x.age \in Nat /\ MaxAge \in Nat /\ k \in Nat /\ Sole(episode[e])
      BY <2>1, <2>5, MemoryAssumption DEF MemTypeOK, Rows, Oldest
    <3>3. Late(e) = 1 /\ Late(e)' = IF e \in UNION reading' THEN 1 ELSE 0
      BY <2>1, <2>2 DEF Late
    <3>4. e \in UNION reading' => x.age >= MaxAge + 1
      BY <2>1, <2>2, <2>5, <3>2 DEF Due, Sole
    <3>5. Aged(e, x, k)'
      BY <2>1, <2>2, <3>1, <3>2, <3>3, <3>4 DEF Aged
    <3> QED BY <3>5
  <2>6. \A e \in UNION reading' : episode'[e] # {}
    BY <2>1, <2>2
  <2> QED BY <2>3, <2>4, <2>5, <2>6 DEF AgeInv
<1>14. CASE Abandon
  <2>1. reading' = {} /\ UNCHANGED <<run, fact, episode, ran>>
    BY <1>14 DEF Abandon
  <2>2. MemTypeOK'
    BY <2>1 DEF MemTypeOK, Sole, run
  <2>3. LockInv' /\ EmbeddingCurrent'
    BY <2>1 DEF LockInv, Holds, Superseded, EmbeddingCurrent, run
  <2>4. ASSUME NEW e \in Episodes, NEW x \in episode'[e]
        PROVE  \E k \in 0 .. Halvings - 1 : Aged(e, x, k)'
    <3>1. PICK k \in 0 .. Halvings - 1 : Aged(e, x, k)
      BY <2>1, <2>4 DEF AgeInv
    <3>2. x.age \in Nat /\ MaxAge \in Nat /\ k \in Nat
      BY <2>1, <2>4, MemoryAssumption DEF MemTypeOK, Rows, Oldest
    <3>3. Aged(e, x, k)'
      BY <2>1, <3>1, <3>2 DEF Aged, Late
    <3> QED BY <3>3
  <2> QED BY <2>1, <2>2, <2>3, <2>4 DEF AgeInv
<1>15. CASE Day
  <2> DEFINE older(x) == [x EXCEPT !.age = IF @ < Oldest THEN @ + 1 ELSE @]
  <2>1. /\ ran' = FALSE /\ UNCHANGED <<run, fact, reading>>
        /\ episode' = [e \in Episodes |-> {older(x) : x \in episode[e]}]
    BY <1>15 DEF Day
  <2>2. ASSUME NEW x \in Rows
        PROVE  /\ older(x) \in Rows /\ older(x).importance = x.importance /\ older(x).born = x.born
               /\ older(x).age = IF x.age < Oldest THEN x.age + 1 ELSE x.age
    BY MemoryAssumption DEF Rows, Oldest
  <2> HIDE DEF older
  <2>3. \A e \in Episodes : \A y \in episode'[e] : \E x \in episode[e] : x \in Rows /\ y = older(x)
    BY <2>1 DEF MemTypeOK
  <2>4. MemTypeOK'
    <3>1. episode' \in [Episodes -> SUBSET Rows]
      BY <2>1, <2>2, <2>3
    <3>2. \A e \in Episodes : /\ Sole(episode'[e])
                              /\ \A x \in episode'[e] : x.importance \in Floor .. x.born
      BY <2>2, <2>3 DEF MemTypeOK, Sole
    <3> QED BY <2>1, <3>1, <3>2 DEF MemTypeOK, run
  <2>5. LockInv' /\ EmbeddingCurrent'
    BY <2>1 DEF LockInv, Holds, Superseded, EmbeddingCurrent, run
  <2>6. ASSUME NEW e \in Episodes, NEW y \in episode'[e]
        PROVE  \E k \in 0 .. Halvings - 1 : Aged(e, y, k)'
    <3>1. PICK x \in episode[e] : x \in Rows /\ y = older(x)
      BY <2>3, <2>6
    <3>2. PICK k \in 0 .. Halvings - 1 : Aged(e, x, k)
      BY <2>6, <3>1 DEF AgeInv
    <3>3. x.age \in 0 .. Oldest /\ MaxAge \in Nat /\ k \in Nat /\ k < Halvings
      BY <3>1, MemoryAssumption DEF Rows
    <3>4. /\ Late(e) \in {0, 1, 2} /\ Late(e)' \in {0, 1, 2} /\ Late(e)' <= Late(e) + 1
      BY <2>1 DEF Late, MemTypeOK
    <3>5. /\ y.importance = x.importance /\ y.born = x.born
          /\ y.age = IF x.age < Oldest THEN x.age + 1 ELSE x.age
      BY <2>2, <3>1
    <3>6. Aged(e, y, k)'
      BY <2>1, <3>2, <3>3, <3>4, <3>5, MemoryAssumption DEF Aged, Oldest
    <3> QED BY <3>6
  <2>7. \A e \in UNION reading' : episode'[e] # {}
    <3> SUFFICES ASSUME NEW e \in UNION reading PROVE episode'[e] # {}
      BY <2>1
    <3>1. e \in Episodes /\ episode[e] # {}
      BY DEF AgeInv, MemTypeOK
    <3>2. PICK x \in episode[e] : TRUE
      BY <3>1
    <3>3. older(x) \in episode'[e]
      BY <2>1, <3>1, <3>2
    <3> QED BY <3>3
  <2> QED BY <2>4, <2>5, <2>6, <2>7 DEF AgeInv
<1>16. CASE Consolidate
  <2>1. PICK es \in reading :
          episode' = [e \in Episodes |-> IF e \in es THEN Decayed(episode[e]) ELSE episode[e]]
    BY <1>16 DEF Consolidate
  <2>2. reading' = {} /\ UNION reading = es /\ UNCHANGED <<run, fact, ran>>
    BY <1>16, <2>1 DEF Consolidate, MemTypeOK, Sole
  <2> DEFINE half(x) == [x EXCEPT !.importance = @ \div 2]
  <2>3. ASSUME NEW e \in Episodes, NEW y \in episode'[e]
        PROVE  \/ e \notin es /\ y \in episode[e]
               \/ e \in es /\ \E x \in episode[e] : x.importance >= 2 * Floor /\ y = half(x)
    BY <2>1, <2>3 DEF Decayed
  <2>4. ASSUME NEW x \in Rows
        PROVE  /\ half(x).importance = x.importance \div 2 /\ half(x).born = x.born
               /\ half(x).age = x.age
               /\ x.importance \div 2 \in Nat => half(x) \in Rows
    BY DEF Rows
  <2> HIDE DEF half
  <2>5. ASSUME NEW e \in Episodes, NEW x \in episode[e], x.importance >= 2 * Floor, e \in es
        PROVE  /\ half(x) \in Rows /\ half(x).importance \in Floor .. half(x).born
               /\ \E k \in 0 .. Halvings - 1 : Aged(e, half(x), k)'
    <3>1. PICK k \in 0 .. Halvings - 1 : Aged(e, x, k)
      BY <2>5 DEF AgeInv
    <3>2. x \in Rows /\ x.importance \in Floor .. x.born
      BY <2>5 DEF MemTypeOK
    <3>3. /\ x.importance \div 2 \in Nat /\ x.importance \div 2 = Halved(x.born)[k + 1]
          /\ x.importance \div 2 \in Floor .. x.born /\ k + 1 \in 0 .. Halvings - 1
      BY <2>5, <3>1, <3>2, HalfOf DEF Aged
    <3>4. half(x) \in Rows /\ half(x).importance \in Floor .. half(x).born
      BY <2>4, <3>2, <3>3
    <3>5. Late(e) = Late(e)' + 1 /\ Late(e)' \in {0, 1}
      BY <2>2, <2>5 DEF Late, MemTypeOK
    <3>6. x.age \in Nat /\ MaxAge \in Nat /\ k \in Nat
      BY <3>2, MemoryAssumption DEF Rows, Oldest
    <3>7. x.age >= MaxAge + k + Late(e) \/ x.age = Oldest
      BY <2>2, <2>5, <3>1 DEF Aged
    <3>8. half(x).age >= MaxAge + (k + 1) + Late(e)' \/ half(x).age = Oldest
      BY <2>4, <3>2, <3>5, <3>6, <3>7
    <3>9. Aged(e, half(x), k + 1)'
      BY <2>4, <3>2, <3>3, <3>8 DEF Aged
    <3> QED BY <3>3, <3>4, <3>9
  <2>6. MemTypeOK'
    <3>1. episode' \in [Episodes -> SUBSET Rows]
      BY <2>1, <2>3, <2>5 DEF MemTypeOK
    <3>2. \A e \in Episodes : /\ Sole(episode'[e])
                              /\ \A x \in episode'[e] : x.importance \in Floor .. x.born
      BY <2>3, <2>5 DEF MemTypeOK, Sole
    <3> QED BY <2>2, <3>1, <3>2 DEF MemTypeOK, Sole, run
  <2>7. LockInv' /\ EmbeddingCurrent'
    BY <2>2 DEF LockInv, Holds, Superseded, EmbeddingCurrent, run
  <2>8. ASSUME NEW e \in Episodes, NEW y \in episode'[e]
        PROVE  \E k \in 0 .. Halvings - 1 : Aged(e, y, k)'
    <3>1. CASE e \in es
      BY <2>3, <2>5, <2>8, <3>1
    <3>2. CASE e \notin es
      <4>1. y \in episode[e]
        BY <2>3, <2>8, <3>2
      <4>2. PICK k \in 0 .. Halvings - 1 : Aged(e, y, k)
        BY <4>1 DEF AgeInv
      <4>3. Aged(e, y, k)'
        BY <2>2, <3>2, <4>2 DEF Aged, Late
      <4> QED BY <4>3
    <3> QED BY <3>1, <3>2
  <2> QED BY <2>2, <2>6, <2>7, <2>8 DEF AgeInv
<1>17. CASE UNCHANGED memVars
  BY <1>17 DEF memVars, run, cold, MemTypeOK, LockInv, Holds, Superseded, EmbeddingCurrent, AgeInv, Aged, Late
<1> QED
  BY <1>1, <1>2, <1>3, <1>4, <1>5, <1>6, <1>7, <1>8, <1>9, <1>10, <1>11, <1>12, <1>13,
     <1>14, <1>15, <1>16, <1>17 DEF MemNext

LEMMA MemoryInvariant == MemSpec => []MInv
<1>1. MemInit => MInv
  BY MemoryInit
<1>2. MInv /\ [MemNext]_memVars => MInv'
  BY MemoryStep
<1> QED BY <1>1, <1>2, PTL DEF MemSpec

\* The types of the memory: a row has the fields the stores write, an importance never
\* leaves the range from the floor to what it was at birth, a run stores one fact at a time.
THEOREM MemoryTypeCorrect == MemSpec => []MemTypeOK
<1>1. MInv => MemTypeOK
  BY DEF MInv
<1> QED BY <1>1, MemoryInvariant, PTL

\* A live fact has one embedding, that of its value, however the writes of store_fact on
\* one key interleave, fail or are cancelled: the upsert locks the row up to the commit.
THEOREM EmbeddingsCurrent == MemSpec => []EmbeddingCurrent
<1>1. MInv => EmbeddingCurrent
  BY DEF MInv
<1> QED BY <1>1, MemoryInvariant, PTL

\* consolidate deletes an episode no earlier than a day past the age limit for each time
\* its importance can be halved, also when a pass is still under way on the next day.
THEOREM EpisodesNotForgottenEarly == MemSpec => NotForgottenEarly
<1>1. ASSUME MInv, [MemNext]_memVars, NEW e \in Episodes, NEW x \in episode[e], episode'[e] = {}
      PROVE  x.age >= MaxAge + PassesOf(x.born)
  <2> USE DEF MInv
  <2>0. \A d \in Episodes : episode'[d] # {} => d # e
    BY <1>1
  <2>1. CASE Consolidate
    <3>1. PICK es \in reading :
            episode' = [d \in Episodes |-> IF d \in es THEN Decayed(episode[d]) ELSE episode[d]]
      BY <2>1 DEF Consolidate
    <3>2. e \in es /\ e \in UNION reading /\ Decayed(episode[e]) = {}
      BY <1>1, <3>1
    <3>3. x.importance < 2 * Floor
      <4>1. ~ (x.importance >= 2 * Floor)
        BY <1>1, <3>2 DEF Decayed
      <4> QED BY <1>1, <4>1, MemoryAssumption DEF MemTypeOK, Rows
    <3>4. PICK k \in 0 .. Halvings - 1 : Aged(e, x, k)
      BY <1>1 DEF AgeInv
    <3>5. x \in Rows /\ x.importance \in Floor .. x.born /\ x.born \in Importances
      BY <1>1 DEF MemTypeOK, Rows
    <3>6. Halved(x.born)[k + 1] < Floor
      BY <1>1, <3>3, <3>4, <3>5, HalfOf DEF Aged
    <3>7. k + 1 \in 0 .. Halvings /\ Late(e) \in {1, 2}
      BY <1>1, <3>2, MemoryAssumption DEF Late, MemTypeOK
    <3>8. PassesOf(x.born) \in 0 .. k + 1
      BY <1>1, <3>5, <3>6, <3>7, PassesLeast
    <3>9. x.age >= MaxAge + k + Late(e) \/ x.age = Oldest
      BY <3>2, <3>4 DEF Aged
    <3>10. x.age \in Nat /\ MaxAge \in Nat
      BY <1>1, <3>5, MemoryAssumption DEF Rows, Oldest
    <3> QED BY <3>7, <3>8, <3>9, <3>10, MemoryAssumption DEF Oldest
  <2>2. CASE Day
    <3> DEFINE older(y) == [y EXCEPT !.age = IF @ < Oldest THEN @ + 1 ELSE @]
    <3>0. episode' = [d \in Episodes |-> {older(y) : y \in episode[d]}]
      BY <2>2 DEF Day
    <3> HIDE DEF older
    <3>1. older(x) \in episode'[e]
      BY <1>1, <3>0
    <3> QED BY <1>1, <3>1
  <2>3. CASE \E r \in Runs, d \in Episodes, i \in Importances : StoreObservation(r, d, i)
    <3>1. episode'[e] # {}
      BY <1>1, <2>3 DEF StoreObservation, Unflushed, MemTypeOK
    <3> QED BY <1>1, <3>1
  <2>4. CASE UNCHANGED episode
    BY <1>1, <2>4
  <2> QED BY <1>1, <2>1, <2>2, <2>3, <2>4
      DEF MemNext, memVars, cold, Recall, StoreSkill, Finish, End, Leave, BeginFact, Upsert, UpsertFails,
          Embed, CommitFact, Cancel, Collect, Read, Abandon
<1>2. MInv /\ [MemNext]_memVars =>
        [\A e \in Episodes : \A x \in episode[e] :
           episode'[e] = {} => x.age >= MaxAge + PassesOf(x.born)]_memVars
  BY <1>1
<1> QED BY <1>2, MemoryInvariant, PTL DEF MemSpec, NotForgottenEarly

=============================================================================
