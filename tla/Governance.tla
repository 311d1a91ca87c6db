----------------------------- MODULE Governance ------------------------------
(***************************************************************************)
(* Governance of the capability catalog: the passes that retire active     *)
(* tools, run by load_active_tools (tools/dynamic/persister.py) whenever a *)
(* run starts and by GovernancePruner (governance/prune.py) every night    *)
(* and, if so configured, by runs in the middle of their work.             *)
(*                                                                         *)
(* A pass selects names in one transaction and retires them in another;    *)
(* several processes do so at once, over one table, while runs persist new *)
(* tools and new versions (module ToolCatalog, whose version rows are only *)
(* counted here: they are a tool's rank).                                  *)
(***************************************************************************)
EXTENDS Naturals, Sequences, FiniteSets

CONSTANTS
    Tools,          \* names of generated tools
    Similar,        \* pairs of embeddings at capability_redundancy_threshold
    SubAgents,      \* persisted sub-agents of scope inherit_subset
    InitScope,      \* their tool_subset
    Loaders,        \* processes that start runs
    Pruners,        \* processes that run the pruner
    Cap,            \* max_active_tools
    MaxVersions     \* bound on the versions of one tool

Actors == Loaders \cup Pruners

ASSUME GovernanceAssumption ==
    /\ IsFiniteSet(Tools)
    /\ Similar \subseteq Tools \X Tools
    /\ InitScope \in [SubAgents -> SUBSET Tools]
    /\ Loaders \cap Pruners = {}
    /\ Cap \in Nat /\ MaxVersions \in Nat

VARIABLES
    reg,        \* each registration: "absent", "active", or why it is not active
    version,    \* its highest version number
    born,       \* the rank of its created_at
    scope,      \* tool_subset of each sub-agent
    pass,       \* the pass each actor is in
    doomed,     \* what it has selected in that pass and not yet retired
    plan,       \* <<loser, survivor>> of a pruner's plan, its clusters to come
    alias,      \* the same for the cluster in hand: references to re-point
    overtaken   \* a tool was persisted while it was selected

catalog == <<reg, version, born>>
work    == <<pass, doomed, plan, alias>>
vars    == <<catalog, scope, work, overtaken>>

\* Rows are inactive; why is kept for the properties only: as a duplicate of
\* another tool, or for its use, its age or the cap.
Standings == {"absent", "active", "redundant", "unfit"}
Active == {t \in Tools : reg[t] = "active"}

-----------------------------------------------------------------------------
(***************************************************************************)
(* Ranking and redundancy.                                                 *)
(***************************************************************************)
Twins(t, u) == t # u /\ (<<t, u>> \in Similar \/ <<u, t>> \in Similar)

\* The score of _active_tool_capability_rows, (max version, created_at).
Better(t, u) ==
    \/ version[t] > version[u]
    \/ version[t] = version[u] /\ born[t] > born[u]

\* The rows come in no stated order, and those without an embedding are passed
\* over: any listing of any part of the active tools.
Listings(S) ==
    UNION {{s \in [1..Cardinality(P) -> P] : {s[i] : i \in DOMAIN s} = P} : P \in SUBSET S}

\* whichever comes second
M_Loser(t, u) == u

Loser(t, u) == IF Better(u, t) THEN t ELSE u

\* retire_redundant: the pairs i < j, row by row.  A row that lost before its turn
\* is skipped; one that loses in its turn goes on to be compared.
Losers(rows, i, lost) ==
    IF rows[i] \in lost THEN {}
    ELSE {Loser(rows[i], rows[j]) :
             j \in {k \in i + 1..Len(rows) : rows[k] \notin lost /\ Twins(rows[i], rows[k])}}

Redundant(rows) ==
    LET lost[i \in 0..Len(rows)] ==
            IF i = 0 THEN {} ELSE lost[i - 1] \cup Losers(rows, i, lost[i - 1])
    IN  lost[Len(rows)]

\* _plan_clusters: best first, a row joins the cluster of a survivor it is a twin
\* of, or survives itself.
Survivors(S) ==
    CHOOSE K \in SUBSET S :
        \A t \in S : t \in K <=> ~ \E u \in K : Better(u, t) /\ Twins(u, t)

\* the rows sorted worst first
M_Plans(S) ==
    LET K == CHOOSE K \in SUBSET S :
                 \A t \in S : t \in K <=> ~ \E u \in K : Better(t, u) /\ Twins(u, t)
    IN  {{<<t, f[t]>> : t \in S \ K} :
            f \in {g \in [S \ K -> K] : \A t \in S \ K : Twins(t, g[t])}}

Plans(S) ==
    LET K == Survivors(S)
    IN  {{<<t, f[t]>> : t \in S \ K} :
            f \in {g \in [S \ K -> K] : \A t \in S \ K : Twins(t, g[t]) /\ Better(g[t], t)}}

-----------------------------------------------------------------------------
Init ==
    /\ reg = [t \in Tools |-> "absent"]
    /\ version = [t \in Tools |-> 0] /\ born = [t \in Tools |-> 0]
    /\ scope = InitScope
    /\ pass = [a \in Actors |-> "off"] /\ doomed = [a \in Actors |-> {}]
    /\ plan = [p \in Pruners |-> {}] /\ alias = [p \in Pruners |-> {}]
    /\ overtaken = FALSE

\* a new version is a new registration
M_Persist(t) ==
    /\ version[t] < MaxVersions
    /\ version' = [version EXCEPT ![t] = @ + 1]
    /\ born' = [born EXCEPT ![t] = Cardinality({u \in Tools : born[u] > 0}) + 1]
    /\ reg' = [reg EXCEPT ![t] = "active"]
    /\ UNCHANGED <<scope, work, overtaken>>

\* ToolPersister.persist: a new tool, or a new version of one, active again; also
\* an operator's edit, which counts for the rank while it awaits review.
Persist(t) ==
    /\ version[t] < MaxVersions
    /\ version' = [version EXCEPT ![t] = @ + 1]
    /\ born' = [born EXCEPT ![t] = IF @ > 0 THEN @ ELSE Cardinality({u \in Tools : born[u] > 0}) + 1]
    /\ \/ reg' = [reg EXCEPT ![t] = "active"]
       \/ reg[t] # "absent" /\ UNCHANGED reg
    /\ overtaken' = (overtaken \/ (\E a \in Actors : doomed[a] # {}) \/ (\E p \in Pruners : plan[p] # {}))
    /\ UNCHANGED <<scope, work>>

Retire(S, why) == reg' = [t \in Tools |-> IF t \in S \cap Active THEN why ELSE reg[t]]
Go(a, to) == pass' = [pass EXCEPT ![a] = to]

-----------------------------------------------------------------------------
(***************************************************************************)
(* The passes of load_active_tools with settings: duplicates, cap, use.    *)
(***************************************************************************)
After(a, kind) ==
    CASE kind = "twins"  -> "excess"
      [] kind = "merge"  -> "slow"
      [] kind = "slow"   -> IF a \in Loaders THEN "off" ELSE "unused"
      [] kind = "unused" -> "excess"
      [] kind = "excess" -> IF a \in Loaders THEN "slow" ELSE "off"

StartLoad(r) ==
    /\ pass[r] = "off" /\ Go(r, "twins")
    /\ UNCHANGED <<catalog, scope, doomed, plan, alias, overtaken>>

\* A selection; what fails selects nothing, and of the tools selected for their use
\* one is enough to follow.
Select(a, kind, S) ==
    /\ pass[a] = kind /\ doomed[a] = {}
    /\ \/ S # {} /\ doomed' = [doomed EXCEPT ![a] = S] /\ UNCHANGED pass
       \/ S = {} /\ Go(a, After(a, kind)) /\ UNCHANGED doomed
    /\ UNCHANGED <<catalog, scope, plan, alias, overtaken>>

SelectTwins(r) == \E rows \in Listings(Active) : Select(r, "twins", Redundant(rows))

\* underperforming_tools and unused_tools: which tools they name depends on calls
\* and success rates, which are not followed here.
SelectByUse(a, kind) == \E S \in {{}} \cup {{t} : t \in Active} : Select(a, kind, S)

\* ToolPersister.retire, which may fail or spare what is within its window.
RetireSelected(a) ==
    /\ doomed[a] # {}
    /\ \E S \in {{}, doomed[a]} : Retire(S, IF pass[a] = "twins" THEN "redundant" ELSE "unfit")
    /\ doomed' = [doomed EXCEPT ![a] = {}] /\ Go(a, After(a, pass[a]))
    /\ UNCHANGED <<version, born, scope, plan, alias, overtaken>>

\* _retire_excess_tools: the newest Cap stay.
Excess == {t \in Active : Cardinality({u \in Active : born[u] > born[t]}) >= Cap}

RetireExcess(a) ==
    /\ pass[a] = "excess" /\ Go(a, After(a, "excess"))
    /\ \E S \in {{}, Excess} : Retire(S, "unfit")
    /\ UNCHANGED <<version, born, scope, doomed, plan, alias, overtaken>>

-----------------------------------------------------------------------------
(***************************************************************************)
(* GovernancePruner.run: consolidate_tools, use, age, cap.                 *)
(***************************************************************************)
StartPrune(p) ==
    /\ pass[p] = "off" /\ Go(p, "merge")
    /\ \E S \in SUBSET Active : \E P \in Plans(S) : plan' = [plan EXCEPT ![p] = P]
    /\ UNCHANGED <<catalog, scope, doomed, alias, overtaken>>

\* A cluster of the plan: its losers are retired together, and their references
\* re-pointed one after the other whether or not that succeeded.
RetireCluster(p, target) ==
    LET cluster == {m \in plan[p] : m[2] = target}
    IN  /\ pass[p] = "merge" /\ alias[p] = {} /\ cluster # {}
        /\ \E S \in {{}, {m[1] : m \in cluster}} : Retire(S, "redundant")
        /\ plan' = [plan EXCEPT ![p] = @ \ cluster]
        /\ alias' = [alias EXCEPT ![p] = cluster]
        /\ UNCHANGED <<version, born, scope, pass, doomed, overtaken>>

\* merge_alias: all the sub-agents in one transaction, or none.
Repoint(S, m) == IF m[1] \in S THEN (S \ {m[1]}) \cup {m[2]} ELSE S

MergeAlias(p, m) ==
    /\ m \in alias[p] /\ alias' = [alias EXCEPT ![p] = @ \ {m}]
    /\ \/ scope' = [g \in SubAgents |-> Repoint(scope[g], m)]
       \/ UNCHANGED scope
    /\ UNCHANGED <<catalog, pass, doomed, plan, overtaken>>

EndMerge(p) ==
    /\ pass[p] = "merge" /\ plan[p] = {} /\ alias[p] = {}
    /\ Go(p, After(p, "merge"))
    /\ UNCHANGED <<catalog, scope, doomed, plan, alias, overtaken>>

-----------------------------------------------------------------------------
Load(r) == StartLoad(r) \/ SelectTwins(r)

Prune(p) ==
    \/ StartPrune(p) \/ \E t \in Tools : RetireCluster(p, t)
    \/ \E m \in alias[p] : MergeAlias(p, m)
    \/ EndMerge(p) \/ SelectByUse(p, "unused")

Pass(a) == SelectByUse(a, "slow") \/ RetireSelected(a) \/ RetireExcess(a)

Next ==
    \/ \E t \in Tools : Persist(t)
    \/ \E r \in Loaders : Load(r)
    \/ \E p \in Pruners : Prune(p)
    \/ \E a \in Actors : Pass(a)

Spec == Init /\ [][Next]_vars

-----------------------------------------------------------------------------
(***************************************************************************)
(* Properties                                                              *)
(***************************************************************************)
\* The type invariant of governance.
TypeOK ==
    /\ reg \in [Tools -> Standings]
    /\ version \in [Tools -> 0..MaxVersions] /\ born \in [Tools -> 0..Cardinality(Tools)]
    /\ \A t \in Tools : reg[t] = "absent" <=> born[t] = 0
    /\ \A t, u \in Tools : born[t] = born[u] /\ born[t] > 0 => t = u
    /\ scope \in [SubAgents -> SUBSET Tools]
    /\ pass \in [Actors -> {"off", "twins", "merge", "slow", "unused", "excess"}]
    /\ doomed \in [Actors -> SUBSET Tools]
    /\ plan \in [Pruners -> SUBSET (Tools \X Tools)]
    /\ alias \in [Pruners -> SUBSET (Tools \X Tools)]

\* What both redundancy passes owe a catalog, whatever the order of its rows: no
\* two duplicates stay, and a tool goes only for a better one it duplicates ("a
\* more-evolved/newer tool survives", retire_redundant; "keeps the best-scoring
\* member of each redundant cluster", consolidate.py).
Thinned(S, kept) ==
    /\ \A t, u \in kept : ~Twins(t, u)
    /\ \A t \in S \ kept : \E u \in S : Better(u, t) /\ Twins(u, t)

RedundancySound ==
    /\ \A rows \in Listings(Active) :
        LET S == {rows[i] : i \in DOMAIN rows} IN Thinned(S, S \ Redundant(rows))
    /\ \A S \in SUBSET Active : Thinned(S, Survivors(S))

\* The tools a chain of duplicates leads to: the least set that is closed.
Closed(S) == \A v \in S : \A w \in Tools : Twins(v, w) => w \in S
Group(t) == {u \in Tools : \A S \in SUBSET Tools : t \in S /\ Closed(S) => u \in S}

\* Passes of several processes, each on its own reading of the catalog, never retire
\* one another's survivors: a tool that was retired as a duplicate leaves an active
\* one in its group, or one that was retired for a reason of its own.  Ranks must
\* not change under a selection; if they do, two passes can disagree on who is best.
GroupSurvives ==
    ~overtaken => \A t \in Tools : reg[t] = "redundant" =>
        \E u \in Group(t) : reg[u] \in {"active", "unfit"}
=============================================================================
