----------------------------- MODULE ToolCatalog -----------------------------
(***************************************************************************)
(* The catalog of generated tools in the database                          *)
(* (tools/dynamic/persister.py): registrations and their versions, the     *)
(* runs that load them, generate new ones and persist them (runner.py,     *)
(* graph/nodes/tool_create.py, tools/dynamic/generator.py), and the        *)
(* operators who edit, approve and reject versions (api/routes/tool.py).   *)
(* Which tools governance retires is the matter of module Governance; here *)
(* it may retire any.                                                      *)
(*                                                                         *)
(* Each method of the persister is one transaction under READ COMMITTED.   *)
(* persist locks the row of the registration with its first UPDATE; the    *)
(* verdicts of the operators read a version and write it without a lock in *)
(* between.  Every method is best effort: one that fails changes nothing,  *)
(* and its caller goes on.                                                 *)
(***************************************************************************)
EXTENDS Naturals, Sequences, FiniteSets

CONSTANTS
    Tools,          \* names of generated tools
    Runs,           \* processes with a ToolRegistry: runs, and their sub-agents
    Operators,      \* callers of the review routes
    Cap,            \* max_active_tools
    PersistTries,   \* max(tool_persist_max_attempts, 1)
    MaxVersions,    \* bound on the versions of one tool
    Own,            \* code a run has generated itself
    None            \* no persist, no verdict under way

ASSUME CatalogAssumption == Cap \in Nat /\ PersistTries \in Nat \ {0} /\ MaxVersions \in Nat
                             /\ Own \notin Nat

VARIABLES
    reg,        \* is_active of each registration, "absent" when there is none
    versions,   \* its ToolVersion rows, oldest first
    awake,      \* runs in progress
    registry,   \* what each run would call: a version, or code of its own
    job,        \* the persist of each run: tool, tries so far, transaction open
    verdict     \* what each operator has read and is about to write

catalog == <<reg, versions>>
vars    == <<catalog, awake, registry, job, verdict>>

Version(st, on) == [status |-> st, live |-> on]
VersionRows == [status : {"approved", "pending_review", "rejected"}, live : BOOLEAN]

\* In a registry: nothing, code this run has generated (Own), or the number of a row.
Absent == 0

Active == {t \in Tools : reg[t] = "active"}
Held(r) == {t \in Tools : registry[r][t] # Absent}

Newest(S) == IF S = {} THEN 0 ELSE CHOOSE i \in S : \A j \in S : j <= i

\* The row load_active_tools materializes: the newest live and approved one.
Loadable(t) == {i \in DOMAIN versions[t] : versions[t][i].live /\ versions[t][i].status = "approved"}

\* _latest_version(status="pending_review")
Pending(t) == {i \in DOMAIN versions[t] : versions[t][i].status = "pending_review"}

\* UPDATE ... SET is_active = false, on the rows a statement sees.
AllOff(vs, seen) ==
    [i \in DOMAIN vs |-> IF i \in seen THEN Version(vs[i].status, FALSE) ELSE vs[i]]

\* The row locks of a persist, from its first UPDATE to its commit.
Locked(t) == \E r \in Runs : job[r] # None /\ job[r].open /\ job[r].tool = t

Init ==
    /\ reg = [t \in Tools |-> "absent"] /\ versions = [t \in Tools |-> <<>>]
    /\ awake = {} /\ registry = [r \in Runs |-> [t \in Tools |-> Absent]]
    /\ job = [r \in Runs |-> None]
    /\ verdict = [o \in Operators |-> None]

-----------------------------------------------------------------------------
(***************************************************************************)
(* A run: load_active_tools, then the rounds of tool_create.               *)
(***************************************************************************)
\* Without the database the run starts with the builtin tools.
Load(r) ==
    /\ r \notin awake /\ awake' = awake \cup {r}
    /\ \E S \in {{}, Active} :
        registry' = [registry EXCEPT ![r] = [t \in Tools |-> IF t \in S THEN Newest(Loadable(t)) ELSE Absent]]
    /\ UNCHANGED <<catalog, job, verdict>>

\* scope_tools: a sub-agent works with part of its parent's registry.
Delegate(r, parent) ==
    /\ r \notin awake /\ parent \in awake /\ awake' = awake \cup {r}
    /\ \E S \in SUBSET Held(parent) :
        registry' = [registry EXCEPT ![r] = [t \in Tools |-> IF t \in S THEN registry[parent][t] ELSE Absent]]
    /\ UNCHANGED <<catalog, job, verdict>>

\* _create_single_tool: what was generated and has passed the gate is registered
\* below the cap, and then persisted.  A gap that a tool of the registry covers
\* (find_similar) or that fails the gate changes nothing.
Generate(r, t) ==
    /\ r \in awake /\ job[r] = None /\ Cardinality(Held(r)) < Cap
    /\ registry' = [registry EXCEPT ![r][t] = Own]
    /\ job' = [job EXCEPT ![r] = [tool |-> t, tries |-> 0, open |-> FALSE]]
    /\ UNCHANGED <<catalog, awake, verdict>>

\* persist up to its commit, for a name that has a registration.
BeginPersist(r) ==
    /\ job[r] # None /\ ~job[r].open
    /\ reg[job[r].tool] # "absent" /\ ~Locked(job[r].tool)
    /\ Len(versions[job[r].tool]) < MaxVersions
    /\ job' = [job EXCEPT ![r].open = TRUE]
    /\ UNCHANGED <<catalog, awake, registry, verdict>>

\* Its commit: the registration is active again, the new version the live one.
M_CommitVersion(r) ==
    LET t == job[r].tool
    IN  /\ job[r] # None /\ job[r].open
        /\ reg' = [reg EXCEPT ![t] = "active"]
        /\ versions' = [versions EXCEPT ![t] = Append(AllOff(@, DOMAIN @), Version("approved", FALSE))]
        /\ job' = [job EXCEPT ![r] = None]
        /\ UNCHANGED <<awake, registry, verdict>>

CommitVersion(r) ==
    LET t == job[r].tool
    IN  /\ job[r] # None /\ job[r].open
        /\ reg' = [reg EXCEPT ![t] = "active"]
        /\ versions' = [versions EXCEPT ![t] = Append(AllOff(@, DOMAIN @), Version("approved", TRUE))]
        /\ job' = [job EXCEPT ![r] = None]
        /\ UNCHANGED <<awake, registry, verdict>>

CommitNew(r) ==
    LET t == job[r].tool
    IN  /\ job[r] # None /\ ~job[r].open /\ reg[t] = "absent"
        /\ reg' = [reg EXCEPT ![t] = "active"]
        /\ versions' = [versions EXCEPT ![t] = <<Version("approved", TRUE)>>]
        /\ job' = [job EXCEPT ![r] = None]
        /\ UNCHANGED <<awake, registry, verdict>>

\* The transaction is rolled back, as when another run inserts the name first.
\* _persist_tool tries again; after that the tool is in memory only.
PersistFails(r) ==
    /\ job[r] # None
    /\ \/ /\ job[r].tries + 1 < PersistTries
          /\ job' = [job EXCEPT ![r].tries = @ + 1, ![r].open = FALSE]
       \/ /\ job[r].tries + 1 >= PersistTries
          /\ job' = [job EXCEPT ![r] = None]
    /\ UNCHANGED <<catalog, awake, registry, verdict>>

\* The run returns, or its process dies and the transaction with it.
End(r) ==
    /\ r \in awake /\ awake' = awake \ {r}
    /\ job' = [job EXCEPT ![r] = None]
    /\ registry' = [registry EXCEPT ![r] = [t \in Tools |-> Absent]]
    /\ UNCHANGED <<catalog, verdict>>

\* retire, _retire_excess_tools: any active tool whose row is not locked.
Retire(t) ==
    /\ t \in Active /\ ~Locked(t)
    /\ reg' = [reg EXCEPT ![t] = "retired"]
    /\ UNCHANGED <<versions, awake, registry, job, verdict>>

-----------------------------------------------------------------------------
(***************************************************************************)
(* The operators.                                                          *)
(***************************************************************************)
\* submit_pending_version updates, and so locks, the registration first.  A name
\* that is new gets an active registration with nothing to load.
Submit(t) ==
    /\ ~Locked(t) /\ Len(versions[t]) < MaxVersions
    /\ reg' = [reg EXCEPT ![t] = IF @ = "absent" THEN "active" ELSE @]
    /\ versions' = [versions EXCEPT ![t] = Append(@, Version("pending_review", FALSE))]
    /\ UNCHANGED <<awake, registry, job, verdict>>

\* approve_pending and reject_pending read the latest pending version ...
Read(o, t, as) ==
    /\ verdict[o] = None /\ Pending(t) # {}
    /\ verdict' = [verdict EXCEPT ![o] = [tool |-> t, at |-> Newest(Pending(t)), as |-> as, rows |-> {}]]
    /\ UNCHANGED <<catalog, awake, registry, job>>

\* ... and write.  The UPDATE of all versions waits where it meets the locks of a
\* persist, and then changes the rows it had seen before.
AwaitCommit(o) ==
    LET v == verdict[o]
    IN  /\ v # None /\ v.as = "approved" /\ v.rows = {} /\ Locked(v.tool)
        /\ verdict' = [verdict EXCEPT ![o].rows = DOMAIN versions[v.tool]]
        /\ UNCHANGED <<catalog, awake, registry, job>>

Seen(v) == IF v.rows = {} THEN DOMAIN versions[v.tool] ELSE v.rows

\* the version goes live and stays pending
M_Approve(o) ==
    LET v == verdict[o]
    IN  /\ v # None /\ v.as = "approved" /\ ~Locked(v.tool)
        /\ versions' = [versions EXCEPT ![v.tool] = [AllOff(@, Seen(v)) EXCEPT ![v.at].live = TRUE]]
        /\ verdict' = [verdict EXCEPT ![o] = None]
        /\ UNCHANGED <<reg, awake, registry, job>>

Approve(o) ==
    LET v == verdict[o]
    IN  /\ v # None /\ v.as = "approved" /\ ~Locked(v.tool)
        /\ versions' = [versions EXCEPT ![v.tool] =
                            [AllOff(@, Seen(v)) EXCEPT ![v.at] = Version("approved", TRUE)]]
        /\ verdict' = [verdict EXCEPT ![o] = None]
        /\ UNCHANGED <<reg, awake, registry, job>>

\* the whole tool is taken down
M_Reject(o) ==
    LET v == verdict[o]
    IN  /\ v # None /\ v.as = "rejected" /\ ~Locked(v.tool)
        /\ versions' = [versions EXCEPT ![v.tool] =
                            [AllOff(@, DOMAIN @) EXCEPT ![v.at].status = "rejected"]]
        /\ verdict' = [verdict EXCEPT ![o] = None]
        /\ UNCHANGED <<reg, awake, registry, job>>

Reject(o) ==
    LET v == verdict[o]
    IN  /\ v # None /\ v.as = "rejected" /\ ~Locked(v.tool)
        /\ versions' = [versions EXCEPT ![v.tool][v.at].status = "rejected"]
        /\ verdict' = [verdict EXCEPT ![o] = None]
        /\ UNCHANGED <<reg, awake, registry, job>>

ReviewFails(o) ==
    /\ verdict[o] # None
    /\ verdict' = [verdict EXCEPT ![o] = None]
    /\ UNCHANGED <<catalog, awake, registry, job>>

-----------------------------------------------------------------------------
Persist(r) == BeginPersist(r) \/ CommitVersion(r) \/ CommitNew(r) \/ PersistFails(r)

Run(r) ==
    \/ Load(r) \/ \E parent \in Runs : Delegate(r, parent)
    \/ \E t \in Tools : Generate(r, t)
    \/ Persist(r) \/ End(r)

Review(o) ==
    \/ \E t \in Tools : Read(o, t, "approved") \/ Read(o, t, "rejected")
    \/ AwaitCommit(o) \/ Approve(o) \/ Reject(o) \/ ReviewFails(o)

Next ==
    \/ \E r \in Runs : Run(r)
    \/ \E t \in Tools : Retire(t) \/ Submit(t)
    \/ \E o \in Operators : Review(o)

Spec == Init /\ [][Next]_vars

-----------------------------------------------------------------------------
(***************************************************************************)
(* Properties                                                              *)
(***************************************************************************)
Jobs == [tool : Tools, tries : Nat, open : BOOLEAN]
Verdicts == [tool : Tools, at : Nat, as : {"approved", "rejected"}, rows : SUBSET Nat]

\* The type invariant of the catalog: versions only exist under a registration, a
\* name a persist holds has one, and no operator decides on a row that is not there.
TypeOK ==
    /\ reg \in [Tools -> {"absent", "active", "retired"}]
    /\ versions \in [Tools -> Seq(VersionRows)]
    /\ \A t \in Tools : reg[t] = "absent" => versions[t] = <<>>
    /\ awake \subseteq Runs
    /\ registry \in [Runs -> [Tools -> Nat \cup {Own}]]
    /\ job \in [Runs -> Jobs \cup {None}]
    /\ \A r \in Runs : job[r] # None =>
        /\ r \in awake
        /\ job[r].open => reg[job[r].tool] # "absent"
    /\ verdict \in [Operators -> Verdicts \cup {None}]
    /\ \A o \in Operators : verdict[o] # None =>
        /\ verdict[o].at \in DOMAIN versions[verdict[o].tool]
        /\ verdict[o].rows \subseteq DOMAIN versions[verdict[o].tool]

\* A tool that ever had an approved version has one load_active_tools finds: no
\* order of persists, edits, verdicts, roll-backs and retirements leaves an active
\* registration it passes over.
RecallKept ==
    \A t \in Tools :
        (\E i \in DOMAIN versions[t] : versions[t][i].status = "approved") => Loadable(t) # {}

\* "The live version is always approved+active" (load_active_tools), also for a run
\* that goes on with what it loaded: no run ever works with a version that awaits
\* review or was rejected, before or after the run began.
OnlyReviewedCode ==
    /\ \A t \in Tools : \A i \in DOMAIN versions[t] :
        versions[t][i].live => versions[t][i].status = "approved"
    /\ \A r \in Runs : \A t \in Tools :
        registry[r][t] \notin {Absent, Own} =>
            /\ registry[r][t] \in DOMAIN versions[t]
            /\ versions[t][registry[r][t]].status = "approved"

\* Staging an edit and rejecting it leave what is live as it was ("Prior approved
\* versions are untouched, so the live tool is unaffected", reject_pending), also
\* when a run persists a version of the tool between the two steps of the verdict.
ReviewSparesLive ==
    [][((\E t \in Tools : Submit(t)) \/ (\E o \in Operators : Reject(o)))
        => \A t \in Tools : Loadable(t)' = Loadable(t)]_vars
=============================================================================
