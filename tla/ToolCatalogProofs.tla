-------------------------- MODULE ToolCatalogProofs --------------------------
(***************************************************************************)
(* Theorems about ToolCatalog, for all sets of tools, runs and operators   *)
(* and all limits.                                                         *)
(***************************************************************************)
EXTENDS ToolCatalog, WellFoundedInduction, TLAPS

(***************************************************************************)
(* Newest picks a member: a set of row numbers has a largest one.          *)
(***************************************************************************)
Below == {p \in Nat \X Nat : p[1] < p[2]}

LEMMA BelowWellFounded == IsWellFoundedOn(Below, Nat)
BY NatLessThanWellFounded, Zenon DEF OpToRel, Below

LEMMA LargestExists ==
    ASSUME NEW n \in Nat, NEW S \in SUBSET (1..n), S # {}
    PROVE  \E i \in S : \A j \in S : j <= i
<1> DEFINE T == {k \in Nat : \E i \in S : k = n - i}
<1>1. T # {} /\ T \subseteq Nat
  <2>1. PICK i \in S : TRUE
    OBVIOUS
  <2>2. n - i \in T
    OBVIOUS
  <2> QED
    BY <2>2
<1>2. PICK x \in T : \A y \in T : <<y, x>> \notin Below
  <2> HIDE DEF T
  <2> QED
    BY <1>1, BelowWellFounded, WFMin, Zenon
<1>3. PICK i \in S : x = n - i
  OBVIOUS
<1>4. ASSUME NEW j \in S PROVE j <= i
  <2>1. n - j \in T
    OBVIOUS
  <2>2. <<n - j, x>> \notin Below
    BY <1>2, <2>1
  <2>3. ~ (n - j < x)
    BY <2>2, <1>3 DEF Below
  <2> QED
    BY <2>3, <1>3
<1> QED
  BY <1>4

LEMMA NewestMember ==
    ASSUME NEW n \in Nat, NEW S \in SUBSET (1..n), S # {}
    PROVE  Newest(S) \in S
<1>1. \E i \in S : \A j \in S : j <= i
  BY LargestExists
<1> QED
  BY <1>1 DEF Newest

(***************************************************************************)
(* The two ways a statement changes the rows of a tool.                    *)
(***************************************************************************)
LEMMA RowOff ==
    ASSUME NEW row \in VersionRows
    PROVE  /\ Version(row.status, FALSE) \in VersionRows
           /\ Version(row.status, FALSE).status = row.status
           /\ Version(row.status, FALSE).live = FALSE
BY DEF VersionRows, Version

LEMMA ListSeq ==
    ASSUME NEW n \in Nat, NEW S, NEW f \in [1..n -> S]
    PROVE  f \in Seq(S) /\ Len(f) = n
OBVIOUS

LEMMA AllOffRows ==
    ASSUME NEW vs \in Seq(VersionRows), NEW seen
    PROVE  /\ AllOff(vs, seen) \in Seq(VersionRows)
           /\ Len(AllOff(vs, seen)) = Len(vs)
           /\ \A i \in 1..Len(vs) :
                /\ AllOff(vs, seen)[i].status = vs[i].status
                /\ AllOff(vs, seen)[i].live => vs[i].live
                /\ i \in seen => ~AllOff(vs, seen)[i].live
<1> DEFINE off == [i \in DOMAIN vs |-> IF i \in seen THEN Version(vs[i].status, FALSE) ELSE vs[i]]
<1>1. DOMAIN vs = 1..Len(vs) /\ Len(vs) \in Nat
  OBVIOUS
<1>2. ASSUME NEW i \in 1..Len(vs)
      PROVE  /\ off[i] \in VersionRows
             /\ off[i].status = vs[i].status
             /\ off[i].live => vs[i].live
             /\ i \in seen => ~off[i].live
  <2>1. vs[i] \in VersionRows
    OBVIOUS
  <2>2. off[i] = IF i \in seen THEN Version(vs[i].status, FALSE) ELSE vs[i]
    BY <1>1
  <2>3. CASE i \in seen
    BY <2>1, <2>2, <2>3, RowOff
  <2>4. CASE i \notin seen
    BY <2>1, <2>2, <2>4
  <2> QED
    BY <2>3, <2>4
<1>3. off \in Seq(VersionRows) /\ Len(off) = Len(vs)
  <2>1. off \in [1..Len(vs) -> VersionRows]
    BY <1>1, <1>2
  <2> QED
    BY <2>1, <1>1, ListSeq
<1> QED
  BY <1>2, <1>3 DEF AllOff

LEMMA OneRow ==
    ASSUME NEW vs \in Seq(VersionRows), NEW i \in 1..Len(vs), NEW row \in VersionRows
    PROVE  /\ [vs EXCEPT ![i] = row] \in Seq(VersionRows)
           /\ Len([vs EXCEPT ![i] = row]) = Len(vs)
           /\ [vs EXCEPT ![i] = row][i] = row
           /\ \A j \in 1..Len(vs) : j # i => [vs EXCEPT ![i] = row][j] = vs[j]
OBVIOUS

LEMMA NewRow ==
    ASSUME NEW vs \in Seq(VersionRows), NEW row \in VersionRows
    PROVE  /\ Append(vs, row) \in Seq(VersionRows)
           /\ Len(Append(vs, row)) = Len(vs) + 1
           /\ Append(vs, row)[Len(vs) + 1] = row
           /\ \A j \in 1..Len(vs) : Append(vs, row)[j] = vs[j]
OBVIOUS

LEMMA VersionsChange ==
    ASSUME TypeOK, NEW t \in Tools, NEW vs \in Seq(VersionRows), Len(versions[t]) <= Len(vs),
           versions' = [versions EXCEPT ![t] = vs]
    PROVE  /\ versions' \in [Tools -> Seq(VersionRows)]
           /\ versions'[t] = vs
           /\ \A u \in Tools \ {t} : versions'[u] = versions[u]
           /\ \A u \in Tools : DOMAIN versions[u] \subseteq DOMAIN versions'[u]
<1>1. versions \in [Tools -> Seq(VersionRows)]
  BY DEF TypeOK
<1>2. versions[t] \in Seq(VersionRows)
  BY <1>1
<1>3. DOMAIN versions[t] \subseteq DOMAIN vs
  BY <1>2
<1> QED
  BY <1>1, <1>3

\* What a step that only adds or changes rows leaves of the type.
LEMMA VerdictsStay ==
    ASSUME TypeOK, verdict' = verdict,
           \A u \in Tools : DOMAIN versions[u] \subseteq DOMAIN versions'[u]
    PROVE  /\ verdict' \in [Operators -> Verdicts \cup {None}]
           /\ \A o \in Operators : verdict'[o] # None =>
                /\ verdict'[o].at \in DOMAIN versions'[verdict'[o].tool]
                /\ verdict'[o].rows \subseteq DOMAIN versions'[verdict'[o].tool]
<1>1. \A o \in Operators : verdict[o] # None => verdict[o].tool \in Tools
  BY DEF TypeOK, Verdicts
<1> QED
  BY <1>1 DEF TypeOK

LEMMA JobType ==
    ASSUME TypeOK, NEW r \in Runs, job[r] # None
    PROVE  job[r] \in Jobs /\ job[r].tool \in Tools
BY DEF TypeOK, Jobs

LEMMA TryAgain ==
    ASSUME NEW j \in Jobs
    PROVE  /\ [j EXCEPT !.tries = @ + 1, !.open = FALSE] \in Jobs
           /\ ~[j EXCEPT !.tries = @ + 1, !.open = FALSE].open
           /\ [j EXCEPT !.open = TRUE] \in Jobs /\ [j EXCEPT !.open = TRUE].tool = j.tool
<1>1. j.tries + 1 \in Nat /\ j.tool \in Tools
  BY DEF Jobs
<1> QED
  BY <1>1 DEF Jobs

LEMMA VerdictType ==
    ASSUME TypeOK, NEW o \in Operators, verdict[o] # None
    PROVE  /\ verdict[o] \in Verdicts /\ verdict[o].tool \in Tools
           /\ versions[verdict[o].tool] \in Seq(VersionRows)
           /\ verdict[o].at \in 1..Len(versions[verdict[o].tool])
<1>1. verdict[o] \in Verdicts /\ verdict[o].tool \in Tools
  BY DEF TypeOK, Verdicts
<1>2. versions[verdict[o].tool] \in Seq(VersionRows)
  BY <1>1 DEF TypeOK
<1>3. verdict[o].at \in DOMAIN versions[verdict[o].tool]
  BY DEF TypeOK
<1> QED
  BY <1>1, <1>2, <1>3

(***************************************************************************)
(* What each of the writing steps makes of the rows.                       *)
(***************************************************************************)
\* The rows of t may grow, and a row that was there keeps its status.
Grows(t, vs) ==
    /\ vs \in Seq(VersionRows) /\ Len(versions[t]) <= Len(vs)
    /\ \A i \in 1..Len(versions[t]) : vs[i].status = versions[t][i].status

LEMMA CommitRows ==
    ASSUME TypeOK, NEW r \in Runs, CommitVersion(r) \/ CommitNew(r)
    PROVE  \E t \in Tools, vs \in Seq(VersionRows) :
             /\ t = job[r].tool /\ job[r] # None
             /\ versions' = [versions EXCEPT ![t] = vs]
             /\ Grows(t, vs) /\ vs # <<>>
             /\ vs[Len(vs)].live /\ vs[Len(vs)].status = "approved"
             /\ \A i \in 1..Len(vs) : vs[i].live => i = Len(vs)
<1> DEFINE t == job[r].tool
           row == Version("approved", TRUE)
<1>1. job[r] # None
  BY DEF CommitVersion, CommitNew
<1>2. t \in Tools /\ versions[t] \in Seq(VersionRows)
  BY <1>1, JobType DEF TypeOK
<1>3. row \in VersionRows /\ row.live /\ row.status = "approved"
  BY DEF Version, VersionRows
<1>4. CASE CommitVersion(r)
  <2> DEFINE off == AllOff(versions[t], DOMAIN versions[t])
             vs == Append(off, row)
  <2>1. /\ off \in Seq(VersionRows) /\ Len(off) = Len(versions[t])
        /\ \A i \in 1..Len(versions[t]) : off[i].status = versions[t][i].status /\ ~off[i].live
    BY <1>2, AllOffRows
  <2>2. /\ vs \in Seq(VersionRows) /\ Len(vs) = Len(versions[t]) + 1 /\ vs[Len(vs)] = row
        /\ \A i \in 1..Len(versions[t]) : vs[i] = off[i]
    <3> HIDE DEF off, row
    <3> QED
      BY <2>1, <1>3, NewRow
  <2>3. versions' = [versions EXCEPT ![t] = vs]
    BY <1>4 DEF CommitVersion
  <2>4. Len(versions[t]) \in Nat
    BY <1>2
  <2> HIDE DEF vs, off, row
  <2>5. Grows(t, vs) /\ vs # <<>>
    BY <2>1, <2>2, <2>4 DEF Grows
  <2>6. vs[Len(vs)].live /\ vs[Len(vs)].status = "approved"
    BY <1>3, <2>2
  <2>7. \A i \in 1..Len(vs) : vs[i].live => i = Len(vs)
    BY <2>1, <2>2, <2>4
  <2>8. t = job[r].tool
    OBVIOUS
  <2> HIDE DEF t
  <2> QED
    BY <1>1, <1>2, <2>2, <2>3, <2>5, <2>6, <2>7, <2>8, Zenon
<1>5. CASE CommitNew(r)
  <2>1. versions[t] = <<>>
    BY <1>5, <1>2 DEF CommitNew, TypeOK
  <2>2. versions' = [versions EXCEPT ![t] = <<row>>]
    BY <1>5 DEF CommitNew
  <2> HIDE DEF row
  <2>3. /\ <<row>> \in Seq(VersionRows) /\ Len(<<row>>) = 1 /\ <<row>>[1] = row
    BY <1>3
  <2>4. Grows(t, <<row>>) /\ <<row>> # <<>>
    BY <2>1, <2>3 DEF Grows
  <2>5. /\ <<row>>[Len(<<row>>)].live /\ <<row>>[Len(<<row>>)].status = "approved"
        /\ \A i \in 1..Len(<<row>>) : <<row>>[i].live => i = Len(<<row>>)
    BY <1>3, <2>3
  <2>8. t = job[r].tool
    OBVIOUS
  <2> HIDE DEF t
  <2> QED
    BY <1>1, <1>2, <2>2, <2>3, <2>4, <2>5, <2>8, Zenon
<1> QED
  BY <1>4, <1>5

LEMMA SubmitRows ==
    ASSUME TypeOK, NEW t \in Tools, Submit(t)
    PROVE  \E vs \in Seq(VersionRows) :
             /\ versions' = [versions EXCEPT ![t] = vs] /\ Grows(t, vs)
             /\ \A i \in 1..Len(versions[t]) : vs[i] = versions[t][i]
             /\ Len(vs) = Len(versions[t]) + 1
             /\ ~vs[Len(vs)].live /\ vs[Len(vs)].status = "pending_review"
<1> DEFINE row == Version("pending_review", FALSE)
           vs == Append(versions[t], row)
<1>1. versions[t] \in Seq(VersionRows) /\ Len(versions[t]) \in Nat
  BY DEF TypeOK
<1>2. row \in VersionRows /\ ~row.live /\ row.status = "pending_review"
  BY DEF Version, VersionRows
<1>3. versions' = [versions EXCEPT ![t] = vs]
  BY DEF Submit
<1>4. /\ vs \in Seq(VersionRows) /\ Len(vs) = Len(versions[t]) + 1 /\ vs[Len(vs)] = row
      /\ \A i \in 1..Len(versions[t]) : vs[i] = versions[t][i]
  <2> HIDE DEF row
  <2> QED
    BY <1>1, <1>2, NewRow
<1> HIDE DEF vs, row
<1>5. Grows(t, vs)
  BY <1>1, <1>4 DEF Grows
<1>6. ~vs[Len(vs)].live /\ vs[Len(vs)].status = "pending_review"
  BY <1>2, <1>4
<1> QED
  BY <1>3, <1>4, <1>5, <1>6, Zenon

LEMMA ApproveRows ==
    ASSUME TypeOK, NEW o \in Operators, Approve(o)
    PROVE  LET t == verdict[o].tool IN
           \E vs \in Seq(VersionRows) :
             /\ versions' = [versions EXCEPT ![t] = vs] /\ Len(vs) = Len(versions[t])
             /\ vs[verdict[o].at].live /\ vs[verdict[o].at].status = "approved"
             /\ \A i \in 1..Len(vs) : i # verdict[o].at =>
                    vs[i].status = versions[t][i].status /\ (vs[i].live => versions[t][i].live)
<1> DEFINE t == verdict[o].tool
           off == AllOff(versions[t], Seen(verdict[o]))
           row == Version("approved", TRUE)
           vs == [off EXCEPT ![verdict[o].at] = row]
<1>1. verdict[o] # None /\ versions' = [versions EXCEPT ![t] = vs]
  BY DEF Approve
<1>2. versions[t] \in Seq(VersionRows) /\ verdict[o].at \in 1..Len(versions[t])
  BY <1>1, VerdictType
<1>3. row \in VersionRows /\ row.live /\ row.status = "approved"
  BY DEF Version, VersionRows
<1>4. /\ off \in Seq(VersionRows) /\ Len(off) = Len(versions[t])
      /\ \A i \in 1..Len(versions[t]) :
            off[i].status = versions[t][i].status /\ (off[i].live => versions[t][i].live)
  BY <1>2, AllOffRows
<1>5. /\ vs \in Seq(VersionRows) /\ Len(vs) = Len(off) /\ vs[verdict[o].at] = row
      /\ \A i \in 1..Len(off) : i # verdict[o].at => vs[i] = off[i]
  <2> HIDE DEF off, row
  <2> QED
    BY <1>2, <1>3, <1>4, OneRow
<1> HIDE DEF vs, off, row
<1>6. Len(vs) = Len(versions[t])
  BY <1>4, <1>5
<1>7. vs[verdict[o].at].live /\ vs[verdict[o].at].status = "approved"
  BY <1>3, <1>5
<1>8. \A i \in 1..Len(vs) : i # verdict[o].at =>
            vs[i].status = versions[t][i].status /\ (vs[i].live => versions[t][i].live)
  BY <1>4, <1>5
<1> QED
  BY <1>1, <1>5, <1>6, <1>7, <1>8, Zenon

LEMMA RejectRows ==
    ASSUME TypeOK, NEW o \in Operators, Reject(o)
    PROVE  LET t == verdict[o].tool IN
           \E vs \in Seq(VersionRows) :
             /\ versions' = [versions EXCEPT ![t] = vs] /\ Len(vs) = Len(versions[t])
             /\ vs[verdict[o].at].status = "rejected"
             /\ vs[verdict[o].at].live = versions[t][verdict[o].at].live
             /\ \A i \in 1..Len(vs) : i # verdict[o].at => vs[i] = versions[t][i]
<1> DEFINE t == verdict[o].tool
           at == verdict[o].at
           row == [versions[t][at] EXCEPT !.status = "rejected"]
           vs == [versions[t] EXCEPT ![at] = row]
<1>1. verdict[o] # None
  BY DEF Reject
<1>2. t \in Tools /\ versions[t] \in Seq(VersionRows) /\ at \in 1..Len(versions[t])
  BY <1>1, VerdictType
<1>3. versions' = [versions EXCEPT ![t] = vs]
  BY <1>2 DEF Reject, TypeOK
<1>4. versions[t][at] \in VersionRows
  BY <1>2
<1>5. row \in VersionRows /\ row.status = "rejected" /\ row.live = versions[t][at].live
  BY <1>4 DEF VersionRows
<1>6. /\ vs \in Seq(VersionRows) /\ Len(vs) = Len(versions[t]) /\ vs[at] = row
      /\ \A i \in 1..Len(versions[t]) : i # at => vs[i] = versions[t][i]
  <2> HIDE DEF row
  <2> QED
    BY <1>2, <1>5, OneRow
<1> HIDE DEF vs, row
<1>7. vs[at].status = "rejected" /\ vs[at].live = versions[t][at].live
  BY <1>5, <1>6
<1> QED
  BY <1>3, <1>6, <1>7, Zenon

(***************************************************************************)
(* The catalog keeps its type.                                             *)
(***************************************************************************)
LEMMA CatalogTypeInit == Init => TypeOK
<1> SUFFICES ASSUME Init PROVE TypeOK
  OBVIOUS
<1>1. versions \in [Tools -> Seq(VersionRows)]
  BY DEF Init
<1> QED
  BY <1>1 DEF Init, TypeOK, Absent

LEMMA LoadableType ==
    ASSUME TypeOK, NEW t \in Tools
    PROVE  Newest(Loadable(t)) \in Nat
<1>1. versions[t] \in Seq(VersionRows) /\ Len(versions[t]) \in Nat
  BY DEF TypeOK
<1>2. Loadable(t) \subseteq 1..Len(versions[t])
  BY <1>1 DEF Loadable
<1>3. CASE Loadable(t) = {}
  BY <1>3 DEF Newest
<1>4. CASE Loadable(t) # {}
  <2>1. Newest(Loadable(t)) \in Loadable(t)
    BY <1>1, <1>2, <1>4, NewestMember, Zenon
  <2>2. Newest(Loadable(t)) \in 1..Len(versions[t])
    BY <1>2, <2>1, Zenon
  <2> DEFINE n == Newest(Loadable(t))
  <2>3. n \in 1..Len(versions[t])
    BY <2>2
  <2> HIDE DEF n
  <2>4. n \in Nat
    BY <1>1, <2>3
  <2> QED
    BY <2>4, Zenon DEF n
<1> QED
  BY <1>3, <1>4

LEMMA RunType ==
    ASSUME TypeOK, NEW r \in Runs, Run(r)
    PROVE  TypeOK'
<1>0. /\ reg \in [Tools -> {"absent", "active", "retired"}]
      /\ versions \in [Tools -> Seq(VersionRows)]
      /\ registry \in [Runs -> [Tools -> Nat \cup {Own}]]
      /\ job \in [Runs -> Jobs \cup {None}]
  BY DEF TypeOK
<1>1. CASE Load(r)
  <2>1. PICK S \in {{}, Active} :
            registry' = [registry EXCEPT ![r] = [t \in Tools |-> IF t \in S THEN Newest(Loadable(t)) ELSE Absent]]
    BY <1>1 DEF Load
  <2>2. [t \in Tools |-> IF t \in S THEN Newest(Loadable(t)) ELSE Absent] \in [Tools -> Nat \cup {Own}]
    BY LoadableType DEF Absent
  <2>3. registry' \in [Runs -> [Tools -> Nat \cup {Own}]]
    BY <1>0, <2>1, <2>2
  <2> QED
    BY <1>1, <2>3 DEF Load, TypeOK, catalog
<1>2. ASSUME NEW parent \in Runs, Delegate(r, parent) PROVE TypeOK'
  <2>1. PICK S \in SUBSET Held(parent) :
            registry' = [registry EXCEPT ![r] = [t \in Tools |-> IF t \in S THEN registry[parent][t] ELSE Absent]]
    BY <1>2 DEF Delegate
  <2>2. [t \in Tools |-> IF t \in S THEN registry[parent][t] ELSE Absent] \in [Tools -> Nat \cup {Own}]
    BY <1>0 DEF Absent
  <2>3. registry' \in [Runs -> [Tools -> Nat \cup {Own}]]
    BY <1>0, <2>1, <2>2
  <2> QED
    BY <1>2, <2>3 DEF Delegate, TypeOK, catalog
<1>3. ASSUME NEW t \in Tools, Generate(r, t) PROVE TypeOK'
  <2>1. registry' \in [Runs -> [Tools -> Nat \cup {Own}]]
    BY <1>0, <1>3 DEF Generate
  <2>2. [tool |-> t, tries |-> 0, open |-> FALSE] \in Jobs
    BY DEF Jobs
  <2>3. job' = [job EXCEPT ![r] = [tool |-> t, tries |-> 0, open |-> FALSE]]
    BY <1>3 DEF Generate
  <2>4. job' \in [Runs -> Jobs \cup {None}]
    BY <1>0, <2>2, <2>3
  <2>5. \A s \in Runs : job'[s] # None =>
            s \in awake /\ (job'[s].open => reg[job'[s].tool] # "absent")
    BY <1>0, <1>3, <2>3 DEF Generate, TypeOK
  <2> QED
    BY <1>3, <2>1, <2>4, <2>5 DEF Generate, TypeOK, catalog
<1>4. CASE BeginPersist(r)
  <2>1. job[r] \in Jobs
    BY <1>4, JobType DEF BeginPersist
  <2>2. [job[r] EXCEPT !.open = TRUE] \in Jobs /\ [job[r] EXCEPT !.open = TRUE].tool = job[r].tool
    BY <2>1 DEF Jobs
  <2>3. job' = [job EXCEPT ![r] = [job[r] EXCEPT !.open = TRUE]]
    BY <1>0, <1>4 DEF BeginPersist
  <2>4. job' \in [Runs -> Jobs \cup {None}]
    BY <1>0, <2>2, <2>3
  <2>5. \A s \in Runs : job'[s] # None =>
            s \in awake /\ (job'[s].open => reg[job'[s].tool] # "absent")
    BY <1>0, <1>4, <2>2, <2>3 DEF BeginPersist, TypeOK
  <2> QED
    BY <1>4, <2>4, <2>5 DEF BeginPersist, TypeOK, catalog
<1>5. CASE CommitVersion(r) \/ CommitNew(r)
  <2>1. PICK t \in Tools, vs \in Seq(VersionRows) :
             t = job[r].tool /\ versions' = [versions EXCEPT ![t] = vs] /\ Grows(t, vs)
    BY <1>5, CommitRows
  <2>2. reg' = [reg EXCEPT ![t] = "active"] /\ job' = [job EXCEPT ![r] = None]
    BY <1>5, <2>1 DEF CommitVersion, CommitNew
  <2>3. UNCHANGED <<awake, registry, verdict>>
    BY <1>5 DEF CommitVersion, CommitNew
  <2>4. /\ versions' \in [Tools -> Seq(VersionRows)]
        /\ \A u \in Tools \ {t} : versions'[u] = versions[u]
        /\ \A u \in Tools : DOMAIN versions[u] \subseteq DOMAIN versions'[u]
    BY <2>1, VersionsChange DEF Grows
  <2>5. \A u \in Tools : reg'[u] = "absent" => versions'[u] = <<>>
    BY <1>0, <2>2, <2>4 DEF TypeOK
  <2>6. \A s \in Runs : job'[s] # None =>
            s \in awake /\ (job'[s].open => reg'[job'[s].tool] # "absent")
    <3>1. \A s \in Runs : job[s] # None => job[s].tool \in Tools
      BY JobType
    <3> QED
      BY <1>0, <2>2, <3>1 DEF TypeOK
  <2>7. reg' \in [Tools -> {"absent", "active", "retired"}] /\ job' \in [Runs -> Jobs \cup {None}]
    BY <1>0, <2>2
  <2> QED
    BY <2>3, <2>4, <2>5, <2>6, <2>7, VerdictsStay DEF TypeOK
<1>6. CASE PersistFails(r)
  <2>1. job[r] \in Jobs
    BY <1>6, JobType DEF PersistFails
  <2>2. CASE job' = [job EXCEPT ![r].tries = @ + 1, ![r].open = FALSE]
    <3> DEFINE next == [job[r] EXCEPT !.tries = @ + 1, !.open = FALSE]
    <3>1. next \in Jobs /\ ~next.open
      BY <2>1, TryAgain
    <3>2. job' = [job EXCEPT ![r] = next]
      BY <1>0, <2>1, <2>2 DEF Jobs
    <3> HIDE DEF next
    <3>3. job' \in [Runs -> Jobs \cup {None}]
      BY <1>0, <3>1, <3>2
    <3>4. \A s \in Runs : job'[s] # None =>
            s \in awake /\ (job'[s].open => reg[job'[s].tool] # "absent")
      BY <1>0, <1>6, <3>1, <3>2 DEF PersistFails, TypeOK
    <3> QED
      BY <1>6, <3>3, <3>4 DEF PersistFails, TypeOK, catalog
  <2>3. CASE job' = [job EXCEPT ![r] = None]
    BY <1>6, <2>3 DEF PersistFails, TypeOK, catalog
  <2> QED
    BY <1>6, <2>2, <2>3 DEF PersistFails
<1>7. CASE End(r)
  <2>1. registry' \in [Runs -> [Tools -> Nat \cup {Own}]] /\ job' \in [Runs -> Jobs \cup {None}]
    BY <1>0, <1>7 DEF End, Absent
  <2> QED
    BY <1>0, <1>7, <2>1 DEF End, TypeOK, catalog
<1> QED
  BY <1>1, <1>2, <1>3, <1>4, <1>5, <1>6, <1>7 DEF Run, Persist

\* A step of an operator that rewrites the rows of one tool without removing any.
LEMMA RewriteType ==
    ASSUME TypeOK, NEW t \in Tools, NEW vs \in Seq(VersionRows), Len(versions[t]) <= Len(vs),
           versions' = [versions EXCEPT ![t] = vs],
           NEW o \in Operators, verdict' = [verdict EXCEPT ![o] = None],
           vs # <<>> => reg[t] # "absent",
           UNCHANGED <<reg, awake, registry, job>>
    PROVE  TypeOK'
<1>1. /\ versions' \in [Tools -> Seq(VersionRows)] /\ versions'[t] = vs
      /\ \A u \in Tools \ {t} : versions'[u] = versions[u]
      /\ \A u \in Tools : DOMAIN versions[u] \subseteq DOMAIN versions'[u]
  BY VersionsChange
<1>2. \A u \in Tools : reg'[u] = "absent" => versions'[u] = <<>>
  BY <1>1 DEF TypeOK
<1>3. verdict' \in [Operators -> Verdicts \cup {None}]
  BY DEF TypeOK
<1>4. \A p \in Operators : verdict'[p] # None =>
        verdict'[p] = verdict[p] /\ verdict[p] # None /\ verdict[p].tool \in Tools
  BY VerdictType DEF TypeOK
<1>5. \A p \in Operators : verdict'[p] # None =>
        /\ verdict'[p].at \in DOMAIN versions'[verdict'[p].tool]
        /\ verdict'[p].rows \subseteq DOMAIN versions'[verdict'[p].tool]
  BY <1>1, <1>4 DEF TypeOK
<1> QED
  BY <1>1, <1>2, <1>3, <1>5 DEF TypeOK

\* Only a tool with a registration has rows.
LEMMA RowsRegistered ==
    ASSUME TypeOK, NEW t \in Tools, versions[t] # <<>>
    PROVE  reg[t] # "absent"
BY DEF TypeOK

LEMMA ReviewType ==
    ASSUME TypeOK, NEW o \in Operators, Review(o)
    PROVE  TypeOK'
<1>0. versions \in [Tools -> Seq(VersionRows)] /\ verdict \in [Operators -> Verdicts \cup {None}]
  BY DEF TypeOK
<1>1. ASSUME NEW t \in Tools, NEW as \in {"approved", "rejected"}, Read(o, t, as) PROVE TypeOK'
  <2> DEFINE n == Newest(Pending(t))
             v == [tool |-> t, at |-> n, as |-> as, rows |-> {}]
  <2>1. versions[t] \in Seq(VersionRows) /\ Len(versions[t]) \in Nat
    BY <1>0
  <2>2. Pending(t) \subseteq 1..Len(versions[t]) /\ Pending(t) # {}
    BY <1>1, <2>1 DEF Pending, Read
  <2>3. n \in Pending(t)
    BY <2>1, <2>2, NewestMember, Zenon
  <2>4. verdict' = [verdict EXCEPT ![o] = v]
    BY <1>1 DEF Read
  <2> HIDE DEF n
  <2>5. n \in 1..Len(versions[t]) /\ n \in Nat
    BY <2>1, <2>2, <2>3
  <2>6. v \in Verdicts /\ v.tool = t /\ v.at = n /\ v.rows = {}
    BY <2>5 DEF Verdicts
  <2> HIDE DEF v
  <2>7. verdict' \in [Operators -> Verdicts \cup {None}]
    BY <1>0, <2>4, <2>6
  <2>8. \A p \in Operators : verdict'[p] # None =>
          /\ verdict'[p].at \in DOMAIN versions[verdict'[p].tool]
          /\ verdict'[p].rows \subseteq DOMAIN versions[verdict'[p].tool]
    BY <1>0, <2>1, <2>4, <2>5, <2>6 DEF TypeOK
  <2> QED
    BY <1>1, <2>7, <2>8 DEF Read, catalog, TypeOK
<1>2. CASE AwaitCommit(o)
  <2> DEFINE t == verdict[o].tool
             v == [verdict[o] EXCEPT !.rows = DOMAIN versions[t]]
  <2>1. verdict[o] # None
    BY <1>2 DEF AwaitCommit
  <2>2. /\ verdict[o] \in Verdicts /\ t \in Tools
        /\ versions[t] \in Seq(VersionRows) /\ verdict[o].at \in 1..Len(versions[t])
    BY <2>1, VerdictType
  <2>3. DOMAIN versions[t] = 1..Len(versions[t]) /\ DOMAIN versions[t] \subseteq Nat
    BY <2>2
  <2>4. v \in Verdicts /\ v.tool = t /\ v.at = verdict[o].at /\ v.rows = DOMAIN versions[t]
    BY <2>2, <2>3 DEF Verdicts
  <2>5. verdict' = [verdict EXCEPT ![o] = v]
    BY <1>0, <1>2 DEF AwaitCommit
  <2> HIDE DEF v, t
  <2>6. verdict' \in [Operators -> Verdicts \cup {None}]
    BY <1>0, <2>4, <2>5
  <2>7. \A p \in Operators : verdict'[p] # None =>
          /\ verdict'[p].at \in DOMAIN versions[verdict'[p].tool]
          /\ verdict'[p].rows \subseteq DOMAIN versions[verdict'[p].tool]
    BY <1>0, <2>2, <2>3, <2>4, <2>5 DEF TypeOK
  <2> QED
    BY <1>2, <2>6, <2>7 DEF AwaitCommit, catalog, TypeOK
<1>3. CASE Approve(o)
  <2> DEFINE t == verdict[o].tool
  <2>1. /\ verdict[o] # None /\ verdict' = [verdict EXCEPT ![o] = None]
        /\ UNCHANGED <<reg, awake, registry, job>>
    BY <1>3 DEF Approve
  <2>2. PICK vs \in Seq(VersionRows) :
            versions' = [versions EXCEPT ![t] = vs] /\ Len(vs) = Len(versions[t])
    BY <1>3, ApproveRows
  <2>3. t \in Tools /\ versions[t] \in Seq(VersionRows) /\ verdict[o].at \in 1..Len(versions[t])
    BY <2>1, VerdictType
  <2>4. reg[t] # "absent"
    BY <2>3, RowsRegistered
  <2>5. Len(versions[t]) <= Len(vs)
    BY <2>2, <2>3
  <2> HIDE DEF t
  <2> QED
    BY <2>1, <2>2, <2>3, <2>4, <2>5, RewriteType
<1>4. CASE Reject(o)
  <2> DEFINE t == verdict[o].tool
  <2>1. /\ verdict[o] # None /\ verdict' = [verdict EXCEPT ![o] = None]
        /\ UNCHANGED <<reg, awake, registry, job>>
    BY <1>4 DEF Reject
  <2>2. PICK vs \in Seq(VersionRows) :
            versions' = [versions EXCEPT ![t] = vs] /\ Len(vs) = Len(versions[t])
    BY <1>4, RejectRows
  <2>3. t \in Tools /\ versions[t] \in Seq(VersionRows) /\ verdict[o].at \in 1..Len(versions[t])
    BY <2>1, VerdictType
  <2>4. reg[t] # "absent"
    BY <2>3, RowsRegistered
  <2>5. Len(versions[t]) <= Len(vs)
    BY <2>2, <2>3
  <2> HIDE DEF t
  <2> QED
    BY <2>1, <2>2, <2>3, <2>4, <2>5, RewriteType
<1>5. CASE ReviewFails(o)
  BY <1>0, <1>5 DEF ReviewFails, catalog, TypeOK
<1> QED
  BY <1>1, <1>2, <1>3, <1>4, <1>5 DEF Review

LEMMA SubmitType ==
    ASSUME TypeOK, NEW t \in Tools, Submit(t)
    PROVE  TypeOK'
<1>1. PICK vs \in Seq(VersionRows) :
          versions' = [versions EXCEPT ![t] = vs] /\ Grows(t, vs)
  BY SubmitRows
<1>2. /\ versions' \in [Tools -> Seq(VersionRows)]
      /\ \A u \in Tools \ {t} : versions'[u] = versions[u]
      /\ \A u \in Tools : DOMAIN versions[u] \subseteq DOMAIN versions'[u]
  BY <1>1, VersionsChange DEF Grows
<1>3. reg' = [reg EXCEPT ![t] = IF reg[t] = "absent" THEN "active" ELSE reg[t]]
  BY DEF Submit
<1>4. /\ reg' \in [Tools -> {"absent", "active", "retired"}] /\ reg'[t] # "absent"
      /\ \A u \in Tools : reg'[u] = "absent" => reg[u] = "absent" /\ u # t
  BY <1>3 DEF TypeOK
<1>5. UNCHANGED <<awake, registry, job, verdict>>
  BY DEF Submit
<1>6. \A s \in Runs : job'[s] # None =>
        s \in awake' /\ (job'[s].open => reg'[job'[s].tool] # "absent")
  BY <1>4, <1>5, JobType DEF TypeOK
<1>7. \A u \in Tools : reg'[u] = "absent" => versions'[u] = <<>>
  BY <1>2, <1>4 DEF TypeOK
<1> QED
  BY <1>2, <1>4, <1>5, <1>6, <1>7, VerdictsStay DEF TypeOK

LEMMA RetireType ==
    ASSUME TypeOK, NEW t \in Tools, Retire(t)
    PROVE  TypeOK'
<1>1. /\ reg' \in [Tools -> {"absent", "active", "retired"}]
      /\ \A u \in Tools : reg'[u] = "absent" => reg[u] = "absent"
  BY DEF Retire, TypeOK, Active
<1>2. \A s \in Runs : job[s] # None => job[s].tool \in Tools
  BY JobType
<1> QED
  BY <1>1, <1>2 DEF Retire, TypeOK

LEMMA CatalogTypeStep == TypeOK /\ [Next]_vars => TypeOK'
<1> SUFFICES ASSUME TypeOK, [Next]_vars PROVE TypeOK'
  OBVIOUS
<1>1. CASE UNCHANGED vars
  BY <1>1 DEF vars, catalog, TypeOK
<1> QED
  BY <1>1, RunType, ReviewType, SubmitType, RetireType DEF Next

\* However runs, persists, roll-backs, retirements and reviews interleave, rows only
\* exist under a registration, a transaction that is open writes to one, and no
\* operator decides on a row that is not there.
THEOREM CatalogTypeCorrect == Spec => []TypeOK
BY CatalogTypeInit, CatalogTypeStep, PTL DEF Spec

(***************************************************************************)
(* What a tool would run: with one operator at a time.  With two, an       *)
(* approval and a rejection of one version can both read it as pending.    *)
(***************************************************************************)
OneOperator == \A o, p \in Operators : o = p

Tidy(t) ==
    /\ \A i \in 1..Len(versions[t]) : versions[t][i].live => versions[t][i].status = "approved"
    /\ (\E i \in 1..Len(versions[t]) : versions[t][i].status = "approved") =>
            \E i \in 1..Len(versions[t]) : versions[t][i].live

Holding(r, t) ==
    registry[r][t] \notin {Absent, Own} =>
        registry[r][t] \in 1..Len(versions[t]) /\ versions[t][registry[r][t]].status = "approved"

\* The version an operator decides on is still the pending one that was read.
Undecided(o) ==
    verdict[o] # None => versions[verdict[o].tool][verdict[o].at].status = "pending_review"

CatalogInv ==
    /\ TypeOK
    /\ \A t \in Tools : Tidy(t)
    /\ \A r \in Runs, t \in Tools : Holding(r, t)
    /\ \A o \in Operators : Undecided(o)

LEMMA DomainRows ==
    ASSUME TypeOK, NEW t \in Tools
    PROVE  /\ versions[t] \in Seq(VersionRows) /\ Len(versions[t]) \in Nat
           /\ DOMAIN versions[t] = 1..Len(versions[t])
BY DEF TypeOK

LEMMA CatalogInvInit == Init => CatalogInv
<1> SUFFICES ASSUME Init PROVE CatalogInv
  OBVIOUS
<1>1. \A t \in Tools : versions[t] = <<>> /\ Len(versions[t]) = 0
  BY DEF Init
<1>2. \A t \in Tools : Tidy(t)
  BY <1>1 DEF Tidy
<1>3. \A r \in Runs, t \in Tools : Holding(r, t)
  BY DEF Init, Holding
<1>4. \A o \in Operators : Undecided(o)
  BY DEF Init, Undecided
<1> QED
  BY <1>2, <1>3, <1>4, CatalogTypeInit DEF CatalogInv

\* A step that leaves the rows alone and only drops what runs hold and verdicts.
LEMMA RowsAlone ==
    ASSUME CatalogInv, TypeOK', versions' = versions,
           \A r \in Runs, t \in Tools : registry'[r][t] # Absent =>
               \/ registry'[r][t] = Own
               \/ registry'[r][t] \in Loadable(t)
               \/ \E s \in Runs : registry'[r][t] = registry[s][t],
           \A o \in Operators : verdict'[o] # None =>
               versions[verdict'[o].tool][verdict'[o].at].status = "pending_review"
    PROVE  CatalogInv'
<1>1. \A t \in Tools : Tidy(t)'
  BY DEF CatalogInv, Tidy
<1>2. ASSUME NEW r \in Runs, NEW t \in Tools PROVE Holding(r, t)'
  <2>1. DOMAIN versions[t] = 1..Len(versions[t])
    BY DomainRows DEF CatalogInv
  <2>2. CASE registry'[r][t] \in Loadable(t)
    BY <2>1, <2>2 DEF Loadable, Holding
  <2>3. ASSUME NEW s \in Runs, registry'[r][t] = registry[s][t] PROVE Holding(r, t)'
    BY <2>3 DEF CatalogInv, Holding
  <2>4. CASE registry'[r][t] \in {Absent, Own}
    BY <2>4 DEF Holding
  <2> QED
    BY <2>2, <2>3, <2>4
<1>3. \A o \in Operators : Undecided(o)'
  BY DEF Undecided
<1> QED
  BY <1>1, <1>2, <1>3 DEF CatalogInv

\* A step that makes vs of the rows of one tool: what was approved stays so, and vs
\* is tidy.
Rewritten(t, vs) ==
    /\ versions' = [versions EXCEPT ![t] = vs] /\ Len(versions[t]) <= Len(vs)
    /\ \A i \in 1..Len(versions[t]) : versions[t][i].status = "approved" => vs[i].status = "approved"
    /\ \A i \in 1..Len(vs) : vs[i].live => vs[i].status = "approved"
    /\ (\E i \in 1..Len(vs) : vs[i].status = "approved") => \E i \in 1..Len(vs) : vs[i].live

LEMMA RowsOfOne ==
    ASSUME CatalogInv, TypeOK', NEW t \in Tools, NEW vs \in Seq(VersionRows),
           Rewritten(t, vs), registry' = registry,
           \A o \in Operators : verdict'[o] # None =>
               /\ verdict'[o] = verdict[o]
               /\ verdict[o].tool = t => vs[verdict[o].at].status = "pending_review"
    PROVE  CatalogInv'
<1>0. TypeOK
  BY DEF CatalogInv
<1>1. versions'[t] = vs /\ \A u \in Tools \ {t} : versions'[u] = versions[u]
  BY <1>0, VersionsChange DEF Rewritten
<1>2. ASSUME NEW u \in Tools PROVE Tidy(u)'
  BY <1>1 DEF CatalogInv, Tidy, Rewritten
<1>3. ASSUME NEW r \in Runs, NEW u \in Tools PROVE Holding(r, u)'
  <2>1. Holding(r, u)
    BY DEF CatalogInv
  <2>2. CASE u = t
    <3>1. Len(versions[t]) \in Nat /\ Len(vs) \in Nat
      BY <1>0, DomainRows
    <3> QED
      BY <1>1, <2>1, <2>2, <3>1 DEF Holding, Rewritten
  <2>3. CASE u # t
    BY <1>1, <2>1, <2>3 DEF Holding
  <2> QED
    BY <2>2, <2>3
<1>4. ASSUME NEW o \in Operators PROVE Undecided(o)'
  <2> SUFFICES ASSUME verdict'[o] # None
               PROVE  versions'[verdict'[o].tool][verdict'[o].at].status = "pending_review"
    BY DEF Undecided
  <2>1. verdict'[o] = verdict[o] /\ verdict[o].tool \in Tools
    BY <1>0, VerdictType
  <2>2. versions[verdict[o].tool][verdict[o].at].status = "pending_review"
    BY <2>1 DEF CatalogInv, Undecided
  <2> QED
    BY <1>1, <2>1, <2>2
<1> QED
  BY <1>2, <1>3, <1>4 DEF CatalogInv

LEMMA CatalogRunStep ==
    ASSUME CatalogInv, TypeOK', NEW r \in Runs, Run(r)
    PROVE  CatalogInv'
<1>0. TypeOK /\ registry \in [Runs -> [Tools -> Nat \cup {Own}]]
  BY DEF CatalogInv, TypeOK
<1>a. \A o \in Operators : verdict[o] # None =>
          versions[verdict[o].tool][verdict[o].at].status = "pending_review"
  BY DEF CatalogInv, Undecided
<1>1. CASE Load(r)
  <2>1. PICK S \in {{}, Active} :
            registry' = [registry EXCEPT ![r] = [t \in Tools |-> IF t \in S THEN Newest(Loadable(t)) ELSE Absent]]
    BY <1>1 DEF Load
  <2>2. ASSUME NEW t \in Tools PROVE Newest(Loadable(t)) \in Loadable(t) \cup {Absent}
    <3>1. CASE Loadable(t) = {}
      BY <3>1 DEF Newest, Absent
    <3>2. CASE Loadable(t) # {}
      <4>1. Loadable(t) \in SUBSET (1..Len(versions[t])) /\ Len(versions[t]) \in Nat
        BY <1>0, DomainRows DEF Loadable
      <4> QED
        BY <3>2, <4>1, NewestMember, Zenon
    <3> QED
      BY <3>1, <3>2
  <2>3. ASSUME NEW s \in Runs, NEW t \in Tools, registry'[s][t] # Absent
        PROVE  registry'[s][t] \in Loadable(t) \/ \E q \in Runs : registry'[s][t] = registry[q][t]
    <3>1. CASE s = r
      <4>1. registry'[s][t] = IF t \in S THEN Newest(Loadable(t)) ELSE Absent
        BY <1>0, <2>1, <3>1
      <4> QED
        BY <2>2, <2>3, <4>1
    <3>2. CASE s # r
      <4>1. registry'[s] = registry[s]
        BY <1>0, <2>1, <3>2
      <4> QED
        BY <4>1
    <3> QED
      BY <3>1, <3>2
  <2>4. versions' = versions /\ verdict' = verdict
    BY <1>1 DEF Load, catalog
  <2> QED
    BY <1>a, <2>3, <2>4, RowsAlone
<1>2. ASSUME NEW parent \in Runs, Delegate(r, parent) PROVE CatalogInv'
  <2>1. PICK S \in SUBSET Held(parent) :
            registry' = [registry EXCEPT ![r] = [t \in Tools |-> IF t \in S THEN registry[parent][t] ELSE Absent]]
    BY <1>2 DEF Delegate
  <2>2. \A s \in Runs, t \in Tools : registry'[s][t] # Absent =>
            \E q \in Runs : registry'[s][t] = registry[q][t]
    BY <1>0, <2>1
  <2>3. versions' = versions /\ verdict' = verdict
    BY <1>2 DEF Delegate, catalog
  <2> QED
    BY <1>a, <2>2, <2>3, RowsAlone
<1>3. ASSUME NEW t \in Tools, Generate(r, t) PROVE CatalogInv'
  <2>1. \A s \in Runs, u \in Tools : registry'[s][u] = Own \/ registry'[s][u] = registry[s][u]
    BY <1>0, <1>3 DEF Generate
  <2>2. versions' = versions /\ verdict' = verdict
    BY <1>3 DEF Generate, catalog
  <2> QED
    BY <1>a, <2>1, <2>2, RowsAlone
<1>4. CASE BeginPersist(r) \/ PersistFails(r)
  <2>1. versions' = versions /\ verdict' = verdict /\ registry' = registry
    BY <1>4 DEF BeginPersist, PersistFails, catalog
  <2> QED
    BY <1>a, <2>1, RowsAlone
<1>5. CASE CommitVersion(r) \/ CommitNew(r)
  <2>1. PICK t \in Tools, vs \in Seq(VersionRows) :
             /\ versions' = [versions EXCEPT ![t] = vs]
             /\ Grows(t, vs) /\ vs # <<>>
             /\ vs[Len(vs)].live /\ vs[Len(vs)].status = "approved"
             /\ \A i \in 1..Len(vs) : vs[i].live => i = Len(vs)
    BY <1>0, <1>5, CommitRows
  <2>2. verdict' = verdict /\ registry' = registry
    BY <1>5 DEF CommitVersion, CommitNew
  <2>3. Len(vs) \in 1..Len(vs)
    BY <2>1
  <2>4. \A o \in Operators : verdict[o] # None /\ verdict[o].tool = t =>
            vs[verdict[o].at].status = "pending_review"
    BY <1>0, <1>a, <2>1, VerdictType DEF Grows
  <2>5. \A i \in 1..Len(versions[t]) : versions[t][i].status = "approved" => vs[i].status = "approved"
    BY <2>1 DEF Grows
  <2>6. Len(versions[t]) <= Len(vs)
    BY <2>1 DEF Grows
  <2>7. \A i \in 1..Len(vs) : vs[i].live => vs[i].status = "approved"
    BY <2>1
  <2>8. (\E i \in 1..Len(vs) : vs[i].status = "approved") => \E i \in 1..Len(vs) : vs[i].live
    BY <2>1, <2>3
  <2>9. \A o \in Operators : verdict'[o] # None =>
            verdict'[o] = verdict[o] /\ (verdict[o].tool = t => vs[verdict[o].at].status = "pending_review")
    BY <2>2, <2>4
  <2> QED
    <3>1. Rewritten(t, vs)
      BY <2>1, <2>5, <2>6, <2>7, <2>8, Zenon DEF Rewritten
    <3> QED
      BY <2>1, <2>2, <2>9, <3>1, RowsOfOne, Zenon
<1>6. CASE End(r)
  <2>1. \A s \in Runs, t \in Tools : registry'[s][t] # Absent => registry'[s][t] = registry[s][t]
    BY <1>0, <1>6 DEF End
  <2>2. versions' = versions /\ verdict' = verdict
    BY <1>6 DEF End, catalog
  <2> QED
    BY <1>a, <2>1, <2>2, RowsAlone
<1> QED
  BY <1>1, <1>2, <1>3, <1>4, <1>5, <1>6 DEF Run, Persist

LEMMA CatalogReviewStep ==
    ASSUME OneOperator, CatalogInv, TypeOK', NEW o \in Operators, Review(o)
    PROVE  CatalogInv'
<1>0. TypeOK /\ verdict \in [Operators -> Verdicts \cup {None}]
  BY DEF CatalogInv, TypeOK
<1>a. \A p \in Operators : verdict[p] # None =>
          versions[verdict[p].tool][verdict[p].at].status = "pending_review"
  BY DEF CatalogInv, Undecided
<1>b. ASSUME versions' = versions, registry' = registry,
             \A p \in Operators : verdict'[p] # None =>
                 versions[verdict'[p].tool][verdict'[p].at].status = "pending_review"
      PROVE  CatalogInv'
  BY <1>b, RowsAlone
<1>1. ASSUME NEW t \in Tools, NEW as \in {"approved", "rejected"}, Read(o, t, as) PROVE CatalogInv'
  <2> DEFINE n == Newest(Pending(t))
             v == [tool |-> t, at |-> n, as |-> as, rows |-> {}]
  <2>1. Pending(t) \in SUBSET (1..Len(versions[t])) /\ Len(versions[t]) \in Nat /\ Pending(t) # {}
    BY <1>0, <1>1, DomainRows DEF Pending, Read
  <2>2. n \in Pending(t)
    BY <2>1, NewestMember, Zenon
  <2>3. versions[t][n].status = "pending_review"
    BY <2>2 DEF Pending
  <2>4. verdict' = [verdict EXCEPT ![o] = v] /\ versions' = versions /\ registry' = registry
    BY <1>1 DEF Read, catalog
  <2> HIDE DEF n
  <2>5. \A p \in Operators : verdict'[p] # None =>
            versions[verdict'[p].tool][verdict'[p].at].status = "pending_review"
    BY <1>0, <1>a, <2>3, <2>4
  <2> QED
    BY <1>b, <2>4, <2>5
<1>2. CASE AwaitCommit(o)
  <2>1. \A p \in Operators : verdict'[p] # None =>
            verdict[p] # None /\ verdict'[p].tool = verdict[p].tool /\ verdict'[p].at = verdict[p].at
    BY <1>0, <1>2, VerdictType DEF AwaitCommit, Verdicts
  <2>2. versions' = versions /\ registry' = registry
    BY <1>2 DEF AwaitCommit, catalog
  <2> QED
    BY <1>a, <1>b, <2>1, <2>2
<1>3. CASE Approve(o)
  <2> DEFINE t == verdict[o].tool
             at == verdict[o].at
  <2>1. verdict[o] # None /\ verdict' = [verdict EXCEPT ![o] = None] /\ registry' = registry
    BY <1>3 DEF Approve
  <2>2. PICK vs \in Seq(VersionRows) :
             /\ versions' = [versions EXCEPT ![t] = vs] /\ Len(vs) = Len(versions[t])
             /\ vs[at].live /\ vs[at].status = "approved"
             /\ \A i \in 1..Len(vs) : i # at =>
                    vs[i].status = versions[t][i].status /\ (vs[i].live => versions[t][i].live)
    BY <1>0, <1>3, ApproveRows
  <2>3. t \in Tools /\ at \in 1..Len(versions[t]) /\ Len(versions[t]) \in Nat
    BY <1>0, <2>1, VerdictType
  <2>4. \A p \in Operators : verdict'[p] = None
    BY <1>0, <2>1 DEF OneOperator
  <2>5. Tidy(t)
    BY <2>3 DEF CatalogInv
  <2> HIDE DEF t, at
  <2>6. \A i \in 1..Len(versions[t]) : versions[t][i].status = "approved" => vs[i].status = "approved"
    BY <2>2
  <2>7. \A i \in 1..Len(vs) : vs[i].live => vs[i].status = "approved"
    BY <2>2, <2>5 DEF Tidy
  <2>8. \E i \in 1..Len(vs) : vs[i].live
    BY <2>2, <2>3
  <2>9. Len(versions[t]) <= Len(vs)
    BY <2>2, <2>3
  <2> QED
    <3>1. Rewritten(t, vs)
      BY <2>2, <2>6, <2>7, <2>8, <2>9, Zenon DEF Rewritten
    <3> QED
      BY <2>1, <2>3, <2>4, <3>1, RowsOfOne, Zenon
<1>4. CASE Reject(o)
  <2> DEFINE t == verdict[o].tool
             at == verdict[o].at
  <2>1. verdict[o] # None /\ verdict' = [verdict EXCEPT ![o] = None] /\ registry' = registry
    BY <1>4 DEF Reject
  <2>2. PICK vs \in Seq(VersionRows) :
             /\ versions' = [versions EXCEPT ![t] = vs] /\ Len(vs) = Len(versions[t])
             /\ vs[at].status = "rejected"
             /\ vs[at].live = versions[t][at].live
             /\ \A i \in 1..Len(vs) : i # at => vs[i] = versions[t][i]
    BY <1>0, <1>4, RejectRows
  <2>3. t \in Tools /\ at \in 1..Len(versions[t]) /\ Len(versions[t]) \in Nat
    BY <1>0, <2>1, VerdictType
  <2>4. \A p \in Operators : verdict'[p] = None
    BY <1>0, <2>1 DEF OneOperator
  <2>5. Tidy(t) /\ versions[t][at].status = "pending_review"
    BY <1>a, <2>1, <2>3 DEF CatalogInv
  <2> HIDE DEF t, at
  <2>6. ~versions[t][at].live
    BY <2>3, <2>5 DEF Tidy
  <2>7. \A i \in 1..Len(versions[t]) : versions[t][i].status = "approved" => vs[i].status = "approved"
    BY <2>2, <2>5
  <2>8. \A i \in 1..Len(vs) : vs[i].live => vs[i].status = "approved"
    BY <2>2, <2>5, <2>6 DEF Tidy
  <2>9. (\E i \in 1..Len(vs) : vs[i].status = "approved") => \E i \in 1..Len(vs) : vs[i].live
    <3> SUFFICES ASSUME NEW i \in 1..Len(vs), vs[i].status = "approved"
                 PROVE  \E j \in 1..Len(vs) : vs[j].live
      OBVIOUS
    <3>1. i # at /\ versions[t][i].status = "approved" /\ i \in 1..Len(versions[t])
      BY <2>2
    <3>2. PICK j \in 1..Len(versions[t]) : versions[t][j].live
      BY <2>5, <3>1 DEF Tidy
    <3> QED
      BY <2>2, <2>6, <3>2
  <2>10. Len(versions[t]) <= Len(vs)
    BY <2>2, <2>3
  <2> QED
    <3>1. Rewritten(t, vs)
      BY <2>2, <2>7, <2>8, <2>9, <2>10, Zenon DEF Rewritten
    <3> QED
      BY <2>1, <2>3, <2>4, <3>1, RowsOfOne, Zenon
<1>5. CASE ReviewFails(o)
  BY <1>0, <1>a, <1>b, <1>5 DEF ReviewFails, catalog
<1> QED
  BY <1>1, <1>2, <1>3, <1>4, <1>5 DEF Review

LEMMA CatalogSubmitStep ==
    ASSUME CatalogInv, TypeOK', NEW t \in Tools, Submit(t)
    PROVE  CatalogInv'
<1>0. TypeOK
  BY DEF CatalogInv
<1>1. PICK vs \in Seq(VersionRows) :
          /\ versions' = [versions EXCEPT ![t] = vs]
          /\ \A i \in 1..Len(versions[t]) : vs[i] = versions[t][i]
          /\ Len(vs) = Len(versions[t]) + 1
          /\ ~vs[Len(vs)].live /\ vs[Len(vs)].status = "pending_review"
  BY <1>0, SubmitRows
<1>2. verdict' = verdict /\ registry' = registry
  BY DEF Submit
<1>3. Len(versions[t]) \in Nat /\ Tidy(t)
  BY <1>0, DomainRows DEF CatalogInv
<1>4. \A i \in 1..Len(vs) : i \in 1..Len(versions[t]) \/ i = Len(vs)
  BY <1>1, <1>3
<1>5. \A i \in 1..Len(versions[t]) : versions[t][i].status = "approved" => vs[i].status = "approved"
  BY <1>1
<1>6. \A i \in 1..Len(vs) : vs[i].live => vs[i].status = "approved"
  BY <1>1, <1>3, <1>4 DEF Tidy
<1>7. (\E i \in 1..Len(vs) : vs[i].status = "approved") => \E i \in 1..Len(vs) : vs[i].live
  <2> SUFFICES ASSUME NEW i \in 1..Len(vs), vs[i].status = "approved"
               PROVE  \E j \in 1..Len(vs) : vs[j].live
    OBVIOUS
  <2>1. i \in 1..Len(versions[t]) /\ versions[t][i].status = "approved"
    BY <1>1, <1>4
  <2>2. PICK j \in 1..Len(versions[t]) : versions[t][j].live
    BY <1>3, <2>1 DEF Tidy
  <2> QED
    BY <1>1, <1>3, <2>2
<1>8. \A o \in Operators : verdict[o] # None /\ verdict[o].tool = t =>
          vs[verdict[o].at].status = "pending_review"
  BY <1>0, <1>1, VerdictType DEF CatalogInv, Undecided
<1>9. Len(versions[t]) <= Len(vs)
  BY <1>1, <1>3
<1>10. \A o \in Operators : verdict'[o] # None =>
          verdict'[o] = verdict[o] /\ (verdict[o].tool = t => vs[verdict[o].at].status = "pending_review")
  BY <1>2, <1>8
<1> QED
  <2>1. Rewritten(t, vs)
    BY <1>1, <1>5, <1>6, <1>7, <1>9, Zenon DEF Rewritten
  <2> QED
    BY <1>2, <1>10, <2>1, RowsOfOne, Zenon

LEMMA CatalogInvStep ==
    ASSUME OneOperator PROVE CatalogInv /\ [Next]_vars => CatalogInv'
<1> SUFFICES ASSUME CatalogInv, [Next]_vars PROVE CatalogInv'
  OBVIOUS
<1>0. TypeOK'
  BY CatalogTypeStep DEF CatalogInv
<1>1. ASSUME versions' = versions, registry' = registry, verdict' = verdict PROVE CatalogInv'
  BY <1>0, <1>1, RowsAlone DEF CatalogInv, Undecided
<1>2. CASE UNCHANGED vars
  BY <1>1, <1>2 DEF vars, catalog
<1>3. ASSUME NEW t \in Tools, Retire(t) PROVE CatalogInv'
  BY <1>1, <1>3 DEF Retire
<1> QED
  BY <1>0, <1>2, <1>3, CatalogRunStep, CatalogReviewStep, CatalogSubmitStep DEF Next

LEMMA CatalogInvAlways ==
    ASSUME OneOperator PROVE Spec => []CatalogInv
BY CatalogInvInit, CatalogInvStep, PTL DEF Spec

\* With one operator, no order of persists, edits, verdicts, roll-backs and
\* retirements leaves a tool that was ever approved without a version to load.
THEOREM RecallAlwaysKept == OneOperator => (Spec => []RecallKept)
<1> SUFFICES ASSUME OneOperator PROVE Spec => []RecallKept
  OBVIOUS
<1>1. CatalogInv => RecallKept
  <2> SUFFICES ASSUME CatalogInv, NEW t \in Tools,
                      NEW i \in DOMAIN versions[t], versions[t][i].status = "approved"
               PROVE  Loadable(t) # {}
    BY DEF RecallKept
  <2>1. DOMAIN versions[t] = 1..Len(versions[t]) /\ Tidy(t)
    BY DomainRows DEF CatalogInv
  <2>2. PICK j \in DOMAIN versions[t] : versions[t][j].live
    BY <2>1 DEF Tidy
  <2>3. j \in Loadable(t)
    BY <2>1, <2>2 DEF Tidy, Loadable
  <2> QED
    BY <2>3
<1> QED
  BY <1>1, CatalogInvAlways, PTL

\* With one operator, no run ever works with a version that awaits review or was
\* rejected, for every number of runs, sub-agents and versions.
THEOREM ReviewedCodeOnly == OneOperator => (Spec => []OnlyReviewedCode)
<1> SUFFICES ASSUME OneOperator PROVE Spec => []OnlyReviewedCode
  OBVIOUS
<1>1. CatalogInv => OnlyReviewedCode
  <2> SUFFICES ASSUME CatalogInv PROVE OnlyReviewedCode
    OBVIOUS
  <2>1. \A t \in Tools : DOMAIN versions[t] = 1..Len(versions[t])
    BY DomainRows DEF CatalogInv
  <2> QED
    BY <2>1 DEF CatalogInv, Tidy, Holding, OnlyReviewedCode
<1> QED
  BY <1>1, CatalogInvAlways, PTL

\* With one operator, staging an edit or rejecting it changes nothing of what any
\* tool would load, whatever happened between the two steps of the verdict.
THEOREM LiveSpared == OneOperator => (Spec => ReviewSparesLive)
<1> SUFFICES ASSUME OneOperator PROVE Spec => ReviewSparesLive
  OBVIOUS
<1> DEFINE Staged == (\E t \in Tools : Submit(t)) \/ (\E o \in Operators : Reject(o))
           Spared == Staged => \A t \in Tools : Loadable(t)' = Loadable(t)
<1>1. ASSUME CatalogInv, NEW t \in Tools, Submit(t), NEW u \in Tools
      PROVE  Loadable(u)' = Loadable(u)
  <2>0. TypeOK
    BY <1>1 DEF CatalogInv
  <2>1. PICK vs \in Seq(VersionRows) :
            /\ versions' = [versions EXCEPT ![t] = vs]
            /\ \A i \in 1..Len(versions[t]) : vs[i] = versions[t][i]
            /\ Len(vs) = Len(versions[t]) + 1 /\ ~vs[Len(vs)].live
    BY <1>1, <2>0, SubmitRows
  <2>2. /\ versions'[t] = vs /\ \A w \in Tools \ {t} : versions'[w] = versions[w]
        /\ Len(versions[t]) \in Nat /\ DOMAIN versions[t] = 1..Len(versions[t])
    BY <2>0, <2>1, DomainRows DEF TypeOK
  <2>3. DOMAIN vs = 1..Len(versions[t]) \cup {Len(vs)} /\ Len(vs) \notin 1..Len(versions[t])
    <3> DEFINE n == Len(versions[t])
    <3>1. n \in Nat /\ Len(vs) = n + 1 /\ DOMAIN vs = 1..Len(vs)
      BY <2>1, <2>2
    <3> HIDE DEF n
    <3>2. 1..(n + 1) = 1..n \cup {n + 1} /\ n + 1 \notin 1..n
      BY <3>1
    <3>3. DOMAIN vs = 1..n \cup {Len(vs)} /\ Len(vs) \notin 1..n
      BY <3>1, <3>2
    <3> QED
      BY <3>3 DEF n
  <2> QED
    BY <2>1, <2>2, <2>3 DEF Loadable
<1>2. ASSUME CatalogInv, NEW o \in Operators, Reject(o), NEW u \in Tools
      PROVE  Loadable(u)' = Loadable(u)
  <2> DEFINE t == verdict[o].tool
             at == verdict[o].at
  <2>0. TypeOK /\ verdict[o] # None
    BY <1>2 DEF CatalogInv, Reject
  <2>1. PICK vs \in Seq(VersionRows) :
             /\ versions' = [versions EXCEPT ![t] = vs] /\ Len(vs) = Len(versions[t])
             /\ vs[at].status = "rejected" /\ vs[at].live = versions[t][at].live
             /\ \A i \in 1..Len(vs) : i # at => vs[i] = versions[t][i]
    BY <1>2, <2>0, RejectRows
  <2>2. t \in Tools /\ at \in 1..Len(versions[t]) /\ versions[t][at].status = "pending_review"
    BY <1>2, <2>0, VerdictType DEF CatalogInv, Undecided
  <2>3. /\ versions'[t] = vs /\ \A w \in Tools \ {t} : versions'[w] = versions[w]
        /\ DOMAIN versions[t] = 1..Len(versions[t])
    BY <2>0, <2>1, <2>2, DomainRows DEF TypeOK
  <2> HIDE DEF t, at
  <2>4. DOMAIN vs = 1..Len(versions[t])
    BY <2>1
  <2> QED
    BY <2>1, <2>2, <2>3, <2>4 DEF Loadable
<1>3. CatalogInv => [Spared]_vars
  BY <1>1, <1>2
<1> HIDE DEF Spared
<1>4. Spec => [][Spared]_vars
  BY <1>3, CatalogInvAlways, PTL
<1> QED
  BY <1>4 DEF Spared, ReviewSparesLive
=============================================================================
