---------------------------- MODULE BudgetProofs ----------------------------
(***************************************************************************)
(* Theorems about Budget, for all runs, helpers, tiers, charges and caps.  *)
(***************************************************************************)
EXTENDS Budget, FiniteSetTheorems, TLAPS

(***************************************************************************)
(* What the ceilings rest on: a call in flight has its place in them       *)
(* reserved.  n is how many calls may be in flight at once, f how many     *)
(* are.                                                                    *)
(***************************************************************************)
Roomy(cap, spent, charge, f, n) ==
  cap > 0 => spent + charge * f < cap + charge * n

LEMMA TimesMonotone ==
  ASSUME NEW c \in Nat, NEW m \in Nat, NEW n \in Nat, m <= n
  PROVE  c * m <= c * n
<1>1. PICK k \in Nat : n = m + k
  <2>1. n - m \in Nat /\ n = m + (n - m)
    OBVIOUS
  <2> QED
    BY <2>1
<1>2. c * k \in Nat /\ c * (m + k) = c * m + c * k
  OBVIOUS
<1> QED
  BY <1>1, <1>2

\* a call that passes the gate takes a place that is free
LEMMA RoomToStart ==
  ASSUME NEW cap \in Nat, NEW spent \in Int, NEW c \in Nat, NEW f \in Nat, NEW n \in Nat,
         f <= n, ~Over(cap, spent)
  PROVE  Roomy(cap, spent, c, f, n)
<1>1. c * f <= c * n /\ c * f \in Nat /\ c * n \in Nat
  BY TimesMonotone
<1> QED
  BY <1>1 DEF Roomy, Over

\* nothing is taken when neither the rows nor the calls grow
LEMMA RoomKept ==
  ASSUME NEW cap \in Nat, NEW s \in Int, NEW t \in Int, NEW c \in Nat,
         NEW f \in Nat, NEW g \in Nat, NEW n \in Nat,
         t <= s, g <= f, Roomy(cap, s, c, f, n)
  PROVE  Roomy(cap, t, c, g, n)
<1>1. c * g <= c * f /\ c * f \in Nat /\ c * g \in Nat /\ c * n \in Nat
  BY TimesMonotone
<1> QED
  BY <1>1 DEF Roomy

\* a call that is written gives its place back
LEMMA RoomPaid ==
  ASSUME NEW cap \in Nat, NEW s \in Int, NEW c \in Nat, NEW f \in Nat, NEW n \in Nat,
         NEW paid \in 0 .. c, f >= 1, Roomy(cap, s, c, f, n)
  PROVE  Roomy(cap, s + paid, c, f - 1, n)
<1>1. c * (f - 1) = c * f - c /\ c * f \in Nat /\ c * n \in Nat
  OBVIOUS
<1> QED
  BY <1>1 DEF Roomy

LEMMA RoomBounds ==
  ASSUME NEW cap \in Nat, NEW s \in Int, NEW c \in Nat, NEW f \in Nat, NEW n \in Nat,
         Roomy(cap, s, c, f, n)
  PROVE  cap > 0 => s < cap + c * n
<1>1. c * f \in Nat /\ c * n \in Nat
  OBVIOUS
<1> QED
  BY <1>1 DEF Roomy

-----------------------------------------------------------------------------
LEMMA ConstantsFinite ==
  /\ IsFiniteSet(Callers)
  /\ Cardinality(Helpers) \in Nat /\ Cardinality(Helpers) >= 1
  /\ Cardinality(Runs) \in Nat
  /\ IsFiniteSet(Runs \X Callers)
  /\ IsFiniteSet(Runs \X Helpers)
  /\ Cardinality(Runs \X Helpers) = Cardinality(Runs) * Cardinality(Helpers)
<1>1. IsFiniteSet(Callers)
  BY BudgetAssumption, FS_AddElement DEF Callers
<1>2. Cardinality(Helpers) \in Nat /\ Cardinality(Runs) \in Nat
  BY BudgetAssumption, FS_CardinalityType
<1>3. Cardinality(Helpers) # 0
  BY BudgetAssumption, FS_EmptySet
<1>4. IsFiniteSet(Runs \X Callers)
  BY BudgetAssumption, <1>1, FS_Product
<1>5. IsFiniteSet(Runs \X Helpers)
      /\ Cardinality(Runs \X Helpers) = Cardinality(Runs) * Cardinality(Helpers)
  BY BudgetAssumption, FS_Product
<1> QED
  BY <1>1, <1>2, <1>3, <1>4, <1>5

-----------------------------------------------------------------------------
(***************************************************************************)
(* The phases: only a running attempt has callers at work, and the graph   *)
(* itself waits while helpers are.                                         *)
(***************************************************************************)
Phased ==
  \A r \in Runs :
    /\ attempt[r] # "running" => \A w \in Callers : phase[r][w] = "rest"
    /\ \A h \in Helpers : phase[r][h] # "rest" => phase[r][Main] = "wait"
    /\ \A h \in Helpers : phase[r][h] # "wait"
    /\ \A w \in Callers : call[r][w] # NoCall => phase[r][w] \in {"think", "act"}

\* the calls in flight that will be written, of one run and of all
Flight(r) == {w \in Callers : tracked[r] /\ call[r][w] # NoCall}
Flights   == {p \in Runs \X Callers : tracked[p[1]] /\ call[p[1]][p[2]] # NoCall}

Abreast == Cardinality(Helpers)

\* a baseline holds no more than the run had spent when the attempt began
Baselined ==
  \A r \in Runs : \A k \in {1, 2} : base[r][k] <= start[r][k] /\ start[r][k] <= ledger[r][k]

RunRooms(r) ==
  /\ Roomy(RunTokens, Tokens(r), MaxTokens, Cardinality(Flight(r)), Abreast)
  /\ Roomy(RunCost, Cost(r), MaxCost, Cardinality(Flight(r)), Abreast)

AttemptRooms(r) ==
  /\ Roomy(TaskTokens, Tokens(r) - start[r][1], MaxTokens, Cardinality(Flight(r)), Abreast)
  /\ Roomy(TaskCost, Cost(r) - start[r][2], MaxCost, Cardinality(Flight(r)), Abreast)

DayRoom ==
  Roomy(DayCost, today, MaxCost, Cardinality(Flights), Cardinality(Runs) * Abreast)

Rooms == hardStop => DayRoom /\ \A r \in Runs : RunRooms(r) /\ AttemptRooms(r)

BInv == TypeOK /\ Phased /\ Baselined /\ Rooms

-----------------------------------------------------------------------------
(***************************************************************************)
(* How many calls may be in flight: the graph of a run or its helpers.     *)
(***************************************************************************)
LEMMA FewAbreast ==
  ASSUME NEW F \in SUBSET Callers, Main \in F => \A h \in Helpers : h \notin F
  PROVE  /\ IsFiniteSet(F)
         /\ Cardinality(F) \in Nat
         /\ Cardinality(F) <= Abreast
<1>1. IsFiniteSet(F) /\ Cardinality(F) \in Nat
  BY ConstantsFinite, FS_Subset, FS_CardinalityType
<1>2. CASE Main \in F
  <2>1. F = {Main}
    BY <1>2 DEF Callers
  <2> QED
    BY <1>1, <2>1, FS_Singleton, ConstantsFinite DEF Abreast
<1>3. CASE Main \notin F
  <2>1. F \in SUBSET Helpers
    BY <1>3 DEF Callers
  <2> QED
    BY <1>1, <2>1, FS_Subset, BudgetAssumption DEF Abreast
<1> QED
  BY <1>2, <1>3

LEMMA FewInAll ==
  ASSUME NEW F \in SUBSET (Runs \X Callers),
         \A r \in Runs : <<r, Main>> \in F => \A h \in Helpers : <<r, h>> \notin F
  PROVE  /\ IsFiniteSet(F)
         /\ Cardinality(F) \in Nat
         /\ Cardinality(F) <= Cardinality(Runs) * Abreast
<1>1. IsFiniteSet(F) /\ Cardinality(F) \in Nat
  BY ConstantsFinite, FS_Subset, FS_CardinalityType
<1>2. PICK stand \in Helpers : TRUE
  BY BudgetAssumption
<1> DEFINE g == [p \in F |-> IF p[2] = Main THEN <<p[1], stand>> ELSE p]
<1>3. g \in [F -> Runs \X Helpers]
  <2>1. ASSUME NEW p \in F PROVE g[p] \in Runs \X Helpers
    <3>1. p = <<p[1], p[2]>> /\ p[1] \in Runs /\ p[2] \in Callers
      OBVIOUS
    <3>2. CASE p[2] = Main
      BY <3>1, <3>2, <1>2
    <3>3. CASE p[2] # Main
      <4>1. p[2] \in Helpers
        BY <3>1, <3>3 DEF Callers
      <4>2. g[p] = p
        BY <3>3
      <4> QED
        BY <3>1, <4>1, <4>2
    <3> QED
      BY <3>2, <3>3
  <2> QED
    BY <2>1
<1>4. ASSUME NEW p \in F, NEW q \in F, g[p] = g[q] PROVE p = q
  <2>1. /\ p = <<p[1], p[2]>> /\ p[1] \in Runs /\ p[2] \in Callers
        /\ q = <<q[1], q[2]>> /\ q[1] \in Runs /\ q[2] \in Callers
    OBVIOUS
  <2>2. CASE p[2] = Main /\ q[2] = Main
    <3>1. <<p[1], stand>> = <<q[1], stand>>
      BY <1>4, <2>2
    <3>2. p[1] = q[1]
      BY <3>1
    <3> QED
      BY <2>1, <2>2, <3>2
  <2>3. CASE p[2] = Main /\ q[2] # Main
    <3>1. <<p[1], stand>> = q
      BY <1>4, <2>3
    <3>2. <<p[1], Main>> \in F
      BY <2>1, <2>3
    <3> QED
      BY <3>1, <3>2, <2>1
  <2>4. CASE p[2] # Main /\ q[2] = Main
    <3>1. <<q[1], stand>> = p
      BY <1>4, <2>4
    <3>2. <<q[1], Main>> \in F
      BY <2>1, <2>4
    <3> QED
      BY <3>1, <3>2, <2>1
  <2>5. CASE p[2] # Main /\ q[2] # Main
    BY <1>4, <2>5
  <2> QED
    BY <2>2, <2>3, <2>4, <2>5
<1>5. g \in Injection(F, Runs \X Helpers)
  <2> HIDE DEF g
  <2> QED
    BY <1>3, <1>4 DEF Injection, IsInjective
<1>6. Cardinality(F) <= Cardinality(Runs \X Helpers)
  <2> HIDE DEF g
  <2> QED
    BY <1>5, ConstantsFinite, FS_Injection, Zenon
<1> QED
  BY <1>1, <1>6, ConstantsFinite DEF Abreast

-----------------------------------------------------------------------------
(***************************************************************************)
(* The actions, one by one, preserve the type.                             *)
(***************************************************************************)
\* what a call adds to the ledger, and what a baseline may be
LEMMA RecordedType ==
  ASSUME NEW r \in Runs, NEW ch \in Recorded(r)
  PROVE  /\ ch \in (0 .. MaxTokens) \X (0 .. MaxCost)
         /\ ~tracked[r] => ch = <<0, 0>>
<1>1. <<0, 0>> \in (0 .. MaxTokens) \X (0 .. MaxCost)
  BY BudgetAssumption
<1>2. CASE tracked[r]
  <2>1. ch = <<0, 0>> \/ \E t \in Tiers : ch \in Charges[t]
    BY <1>2 DEF Recorded, Unwritten
  <2> QED
    BY <1>1, <1>2, <2>1, BudgetAssumption
<1>3. CASE ~tracked[r]
  BY <1>1, <1>3 DEF Recorded, Unwritten
<1> QED
  BY <1>2, <1>3

LEMMA BaselinesType ==
  ASSUME TypeOK, NEW r \in Runs, NEW b \in Baselines(r)
  PROVE  /\ b \in Nat \X Nat
         /\ \A k \in {1, 2} : b[k] <= ledger[r][k]
<1>1. ledger[r] \in Nat \X Nat
  BY DEF TypeOK
<1>2. ledger[r] = <<ledger[r][1], ledger[r][2]>> /\ ledger[r][1] \in Nat /\ ledger[r][2] \in Nat
  BY <1>1
<1> QED
  BY <1>1, <1>2 DEF Baselines, Tokens

LEMMA InitType == Init => TypeOK
<1> SUFFICES ASSUME Init PROVE TypeOK
  OBVIOUS
<1> USE DEF Init
<1>1. attempts \in [Runs -> 0 .. MaxAttempts] /\ days \in 0 .. MaxDays /\ today \in Nat
  BY BudgetAssumption
<1>2. base \in [Runs -> Nat \X Nat] /\ start \in [Runs -> Nat \X Nat]
      /\ ledger \in [Runs -> Nat \X Nat]
  OBVIOUS
<1>3. /\ phase \in [Runs -> [Callers -> {"rest", "think", "act", "wait"}]]
      /\ call \in [Runs -> [Callers -> Tiers \cup {NoCall}]]
  OBVIOUS
<1> QED
  BY <1>1, <1>2, <1>3 DEF TypeOK

LEMMA MainCalls == Main \in Callers /\ Helpers \subseteq Callers /\ Main \notin Helpers
BY BudgetAssumption DEF Callers

LEMMA TypeStep == TypeOK /\ [Next]_vars => TypeOK'
<1> SUFFICES ASSUME TypeOK, [Next]_vars PROVE TypeOK'
  OBVIOUS
<1> USE MainCalls
<1>1. ASSUME NEW r \in Runs, Begin(r) PROVE TypeOK'
  <2>1. PICK t \in BOOLEAN, b \in Baselines(r) :
          tracked' = [tracked EXCEPT ![r] = t] /\ base' = [base EXCEPT ![r] = b]
    BY <1>1 DEF Begin
  <2>2. b \in Nat \X Nat
    BY BaselinesType
  <2>3. base' \in [Runs -> Nat \X Nat] /\ start' \in [Runs -> Nat \X Nat]
        /\ tracked' \in [Runs -> BOOLEAN]
    BY <1>1, <2>1, <2>2 DEF Begin, TypeOK
  <2>4. attempts' \in [Runs -> 0 .. MaxAttempts]
    BY <1>1, BudgetAssumption DEF Begin, TypeOK
  <2>5. phase' \in [Runs -> [Callers -> {"rest", "think", "act", "wait"}]]
    BY <1>1 DEF Begin, TypeOK
  <2> QED
    BY <1>1, <2>3, <2>4, <2>5 DEF Begin, spending, TypeOK
<1>2. ASSUME NEW r \in Runs, NEW w \in Callers,
             phase' = [phase EXCEPT ![r][w] = Moved(r, w)] \/ phase' = [phase EXCEPT ![r][w] = "rest"]
             \/ phase' = [phase EXCEPT ![r][w] = "think"]
      PROVE  phase' \in [Runs -> [Callers -> {"rest", "think", "act", "wait"}]]
  <2>1. PICK x \in {"rest", "think", "act"} : phase' = [phase EXCEPT ![r][w] = x]
    BY <1>2, Moved(r, w) \in {"rest", "think", "act"} DEF Moved
  <2> QED
    BY <2>1 DEF TypeOK
<1>3. ASSUME NEW r \in Runs, StopRun(r) \/ Finish(r) PROVE TypeOK'
  <2>1. phase' \in [Runs -> [Callers -> {"rest", "think", "act", "wait"}]]
    BY <1>2, <1>3 DEF StopRun, Finish
  <2> QED
    BY <1>3, <2>1 DEF StopRun, Finish, tracker, spending, TypeOK
<1>4. ASSUME NEW r \in Runs, FanOut(r) PROVE TypeOK'
  <2>1. PICK S \in SUBSET Helpers :
          phase' = [phase EXCEPT ![r] = [w \in Callers |->
            IF w = Main THEN "wait" ELSE IF w \in S THEN "think" ELSE "rest"]]
    BY <1>4 DEF FanOut
  <2>2. phase' \in [Runs -> [Callers -> {"rest", "think", "act", "wait"}]]
    BY <2>1 DEF TypeOK
  <2> QED
    BY <1>4, <2>2 DEF FanOut, tracker, spending, TypeOK
<1>5. ASSUME NEW r \in Runs, Join(r) PROVE TypeOK'
  <2>1. phase' \in [Runs -> [Callers -> {"rest", "think", "act", "wait"}]]
    BY <1>2, <1>5 DEF Join
  <2> QED
    BY <1>5, <2>1 DEF Join, tracker, spending, TypeOK
<1>6. ASSUME NEW r \in Runs, Abort(r) PROVE TypeOK'
  <2>1. /\ phase' \in [Runs -> [Callers -> {"rest", "think", "act", "wait"}]]
        /\ call' \in [Runs -> [Callers -> Tiers \cup {NoCall}]]
    BY <1>6 DEF Abort, TypeOK
  <2> QED
    BY <1>6, <2>1 DEF Abort, tracker, spending, TypeOK
<1>7. ASSUME NEW r \in Runs, Resume(r) PROVE TypeOK'
  BY <1>7 DEF Resume, tracker, spending, TypeOK
<1>8. ASSUME NEW r \in Runs, NEW h \in Helpers, FailHelper(r, h) \/ Leave(r, h) PROVE TypeOK'
  <2>1. phase' \in [Runs -> [Callers -> {"rest", "think", "act", "wait"}]]
    BY <1>2, <1>8 DEF FailHelper, Leave
  <2> QED
    BY <1>8, <2>1 DEF FailHelper, Leave, tracker, spending, TypeOK
<1>9. ASSUME NEW r \in Runs, NEW w \in Callers, Admit(r, w) \/ Downgrade(r, w) PROVE TypeOK'
  <2>1. PICK t \in Tiers : Send(r, w, t)
    BY <1>9 DEF Admit, Downgrade
  <2> QED
    BY <2>1 DEF Send, tracker, spending, TypeOK
<1>10. ASSUME NEW r \in Runs, NEW w \in Callers, Cached(r, w) \/ Simulate(r, w) PROVE TypeOK'
  <2>1. phase' \in [Runs -> [Callers -> {"rest", "think", "act", "wait"}]]
    BY <1>2, <1>10 DEF Cached, Simulate
  <2> QED
    BY <1>10, <2>1 DEF Cached, Simulate, tracker, spending, TypeOK
<1>11. ASSUME NEW r \in Runs, NEW w \in Callers, Record(r, w) PROVE TypeOK'
  <2>1. PICK ch \in Recorded(r) :
          /\ ledger' = [ledger EXCEPT ![r] = <<@[1] + ch[1], @[2] + ch[2]>>]
          /\ today' = today + ch[2]
    BY <1>11 DEF Record
  <2>2. ch[1] \in Nat /\ ch[2] \in Nat
    BY RecordedType, BudgetAssumption
  <2>3. ledger[r][1] \in Nat /\ ledger[r][2] \in Nat
    BY DEF TypeOK
  <2>4. ledger' \in [Runs -> Nat \X Nat]
    <3>1. <<ledger[r][1] + ch[1], ledger[r][2] + ch[2]>> \in Nat \X Nat
      BY <2>2, <2>3
    <3> QED
      BY <2>1, <3>1 DEF TypeOK
  <2>5. today' \in Nat
    BY <2>1, <2>2 DEF TypeOK
  <2>6. phase' \in [Runs -> [Callers -> {"rest", "think", "act", "wait"}]]
    BY <1>2, <1>11 DEF Record
  <2>7. call' \in [Runs -> [Callers -> Tiers \cup {NoCall}]]
    BY <1>11 DEF Record, TypeOK
  <2> QED
    BY <1>11, <2>4, <2>5, <2>6, <2>7 DEF Record, tracker, TypeOK
<1>12. ASSUME Midnight PROVE TypeOK'
  BY <1>12, BudgetAssumption DEF Midnight, tracker, TypeOK
<1>13. ASSUME UNCHANGED vars PROVE TypeOK'
  BY <1>13 DEF vars, tracker, spending, TypeOK
<1> QED
  BY <1>1, <1>3, <1>4, <1>5, <1>6, <1>7, <1>8, <1>9, <1>10, <1>11, <1>12, <1>13 DEF Next

-----------------------------------------------------------------------------
(***************************************************************************)
(* The phases.  An action moves the callers of one run; the others keep    *)
(* theirs.                                                                 *)
(***************************************************************************)
PhasedAt(a, ph, c) ==
  /\ a # "running" => \A w \in Callers : ph[w] = "rest"
  /\ \A h \in Helpers : ph[h] # "rest" => ph[Main] = "wait"
  /\ \A h \in Helpers : ph[h] # "wait"
  /\ \A w \in Callers : c[w] # NoCall => ph[w] \in {"think", "act"}

LEMMA PhasedStep == TypeOK /\ Phased /\ [Next]_vars => Phased'
<1> SUFFICES ASSUME TypeOK, Phased, [Next]_vars,
                    NEW q \in Runs
             PROVE  PhasedAt(attempt'[q], phase'[q], call'[q])
  BY DEF Phased, PhasedAt
<1> USE MainCalls
<1>p. PhasedAt(attempt[q], phase[q], call[q])
  BY DEF Phased, PhasedAt
<1>k. ASSUME attempt'[q] = attempt[q], phase'[q] = phase[q], call'[q] = call[q]
      PROVE  PhasedAt(attempt'[q], phase'[q], call'[q])
  BY <1>k, <1>p
<1>m. phase \in [Runs -> [Callers -> {"rest", "think", "act", "wait"}]]
      /\ call \in [Runs -> [Callers -> Tiers \cup {NoCall}]]
      /\ attempt \in [Runs -> {"waiting", "running", "stopped", "finished"}]
  BY DEF TypeOK
<1>t. \A t \in Tiers : t # NoCall
  BY BudgetAssumption DEF Tiers, NoCall
<1>1. ASSUME NEW r \in Runs, Begin(r) PROVE PhasedAt(attempt'[q], phase'[q], call'[q])
  <2>1. CASE q # r
    BY <1>1, <2>1, <1>k, <1>m DEF Begin
  <2>2. CASE q = r
    <3>1. /\ attempt'[q] = "running" /\ call'[q] = call[q]
          /\ phase'[q] = [phase[q] EXCEPT ![Main] = "think"]
          /\ attempt[q] = "waiting"
      BY <1>1, <2>2, <1>m DEF Begin
    <3>2. \A h \in Helpers : phase'[q][h] = "rest"
      BY <3>1, <1>p, <1>m DEF PhasedAt
    <3>3. \A w \in Callers : call[q][w] = NoCall
      BY <3>1, <1>p, <1>m DEF PhasedAt
    <3> QED
      BY <3>1, <3>2, <3>3 DEF PhasedAt
  <2> QED
    BY <2>1, <2>2
<1>2. ASSUME NEW r \in Runs, StopRun(r) \/ Finish(r)
      PROVE  PhasedAt(attempt'[q], phase'[q], call'[q])
  <2>1. CASE q # r
    BY <1>2, <2>1, <1>k, <1>m DEF StopRun, Finish
  <2>2. CASE q = r
    <3>1. /\ call'[q] = call[q] /\ call[q][Main] = NoCall
          /\ phase'[q] = [phase[q] EXCEPT ![Main] = "rest"]
          /\ phase[q][Main] = "think"
      BY <1>2, <2>2, <1>m DEF StopRun, Finish, Refused, Asks
    <3>2. \A h \in Helpers : phase'[q][h] = "rest"
      BY <3>1, <1>p, <1>m DEF PhasedAt
    <3>3. phase'[q][Main] = "rest"
      BY <3>1, <1>m
    <3>4. \A w \in Callers : phase'[q][w] = "rest"
      BY <3>2, <3>3 DEF Callers
    <3>5. \A w \in Callers : call[q][w] = NoCall
      <4>1. \A h \in Helpers : phase[q][h] = "rest"
        BY <3>1, <1>p DEF PhasedAt
      <4> QED
        BY <4>1, <3>1, <1>p DEF PhasedAt, Callers
    <3> QED
      BY <3>1, <3>4, <3>5 DEF PhasedAt
  <2> QED
    BY <2>1, <2>2
<1>3. ASSUME NEW r \in Runs, FanOut(r) PROVE PhasedAt(attempt'[q], phase'[q], call'[q])
  <2>1. PICK S \in SUBSET Helpers :
          phase' = [phase EXCEPT ![r] = [w \in Callers |->
            IF w = Main THEN "wait" ELSE IF w \in S THEN "think" ELSE "rest"]]
    BY <1>3 DEF FanOut
  <2>2. CASE q # r
    BY <1>3, <2>1, <2>2, <1>k, <1>m DEF FanOut
  <2>3. CASE q = r
    <3>1. /\ call'[q] = call[q] /\ call[q][Main] = NoCall
          /\ attempt'[q] = "running"
          /\ phase[q][Main] = "act"
      BY <1>3, <2>3, <1>m DEF FanOut, Asks
    <3>2. phase'[q] = [w \in Callers |->
            IF w = Main THEN "wait" ELSE IF w \in S THEN "think" ELSE "rest"]
      BY <2>1, <2>3, <1>m
    <3>3. \A w \in Callers : call[q][w] = NoCall
      <4>1. \A h \in Helpers : phase[q][h] = "rest"
        BY <3>1, <1>p DEF PhasedAt
      <4> QED
        BY <4>1, <3>1, <1>p DEF PhasedAt, Callers
    <3> QED
      BY <3>1, <3>2, <3>3 DEF PhasedAt
  <2> QED
    BY <2>2, <2>3
<1>4. ASSUME NEW r \in Runs, Join(r) PROVE PhasedAt(attempt'[q], phase'[q], call'[q])
  <2>1. CASE q # r
    BY <1>4, <2>1, <1>k, <1>m DEF Join
  <2>2. CASE q = r
    <3>1. /\ call'[q] = call[q] /\ attempt'[q] = attempt[q]
          /\ phase[q][Main] = "wait"
          /\ \A h \in Helpers : phase[q][h] = "rest"
          /\ phase'[q] = [phase[q] EXCEPT ![Main] = "think"]
      BY <1>4, <2>2, <1>m DEF Join
    <3>2. attempt[q] = "running"
      BY <3>1, <1>p DEF PhasedAt
    <3>3. phase'[q][Main] = "think" /\ \A h \in Helpers : phase'[q][h] = "rest"
      BY <3>1, <1>m
    <3>4. \A w \in Callers : call[q][w] = NoCall
      BY <3>1, <1>p DEF PhasedAt, Callers
    <3> QED
      BY <3>1, <3>2, <3>3, <3>4 DEF PhasedAt
  <2> QED
    BY <2>1, <2>2
<1>5. ASSUME NEW r \in Runs, Abort(r) PROVE PhasedAt(attempt'[q], phase'[q], call'[q])
  <2>1. CASE q # r
    BY <1>5, <2>1, <1>k, <1>m DEF Abort
  <2>2. CASE q = r
    <3>1. /\ phase'[q] = [w \in Callers |-> "rest"]
          /\ call'[q] = [w \in Callers |-> NoCall]
      BY <1>5, <2>2, <1>m DEF Abort
    <3> QED
      BY <3>1 DEF PhasedAt
  <2> QED
    BY <2>1, <2>2
<1>6. ASSUME NEW r \in Runs, Resume(r) PROVE PhasedAt(attempt'[q], phase'[q], call'[q])
  <2>1. CASE q # r
    BY <1>6, <2>1, <1>k, <1>m DEF Resume
  <2>2. CASE q = r
    BY <1>6, <2>2, <1>p, <1>m DEF Resume, PhasedAt
  <2> QED
    BY <2>1, <2>2
\* a caller at work, w, goes on with no call, or rests
<1>7. ASSUME NEW r \in Runs, NEW w \in Callers, NEW x \in {"rest", "think", "act"},
             attempt[r] = "running", phase[r][w] \in {"think", "act"},
             x = "rest" => w \in Helpers,
             attempt' = attempt, phase' = [phase EXCEPT ![r][w] = x],
             call' = call \/ call' = [call EXCEPT ![r][w] = NoCall],
             call'[r][w] = NoCall
      PROVE  PhasedAt(attempt'[q], phase'[q], call'[q])
  <2>1. CASE q # r
    BY <1>7, <2>1, <1>k, <1>m
  <2>2. CASE q = r
    <3>1. /\ attempt'[q] = "running"
          /\ phase'[q] = [phase[q] EXCEPT ![w] = x]
          /\ call'[q][w] = NoCall
          /\ \A v \in Callers : v # w => call'[q][v] = call[q][v]
      BY <1>7, <2>2, <1>m
    <3>2. \A v \in Callers : v # w => phase'[q][v] = phase[q][v]
      BY <3>1, <1>m
    <3>3. phase'[q][w] = x
      BY <3>1, <1>m
    <3>4. \A v \in Callers : call'[q][v] # NoCall => phase'[q][v] \in {"think", "act"}
      BY <3>1, <3>2, <3>3, <1>p DEF PhasedAt
    <3>5. \A h \in Helpers : phase'[q][h] # "wait"
      BY <3>2, <3>3, <1>p DEF PhasedAt
    <3>6. \A h \in Helpers : phase'[q][h] # "rest" => phase'[q][Main] = "wait"
      <4>1. CASE w = Main
        <5>1. \A h \in Helpers : phase[q][h] = "rest"
          BY <4>1, <1>7, <2>2, <1>p DEF PhasedAt
        <5> QED
          BY <5>1, <4>1, <3>2
      <4>2. CASE w \in Helpers
        <5>1. phase[q][Main] = "wait"
          BY <4>2, <1>7, <2>2, <1>p DEF PhasedAt
        <5> QED
          BY <5>1, <4>2, <3>2
      <4> QED
        BY <4>1, <4>2 DEF Callers
    <3> QED
      BY <3>1, <3>4, <3>5, <3>6 DEF PhasedAt
  <2> QED
    BY <2>1, <2>2
<1>8. ASSUME NEW r \in Runs, NEW h \in Helpers, FailHelper(r, h) \/ Leave(r, h)
      PROVE  PhasedAt(attempt'[q], phase'[q], call'[q])
  <2>1. /\ attempt[r] = "running" /\ phase[r][h] \in {"think", "act"}
        /\ attempt' = attempt /\ call' = call
        /\ phase' = [phase EXCEPT ![r][h] = "rest"]
        /\ call'[r][h] = NoCall
    BY <1>8 DEF FailHelper, Leave, Refused, Asks
  <2> QED
    BY <1>7, <2>1
<1>9. ASSUME NEW r \in Runs, NEW w \in Callers, Admit(r, w) \/ Downgrade(r, w)
      PROVE  PhasedAt(attempt'[q], phase'[q], call'[q])
  <2>1. PICK t \in Tiers : Send(r, w, t)
    BY <1>9 DEF Admit, Downgrade
  <2>2. CASE q # r
    BY <2>1, <2>2, <1>k, <1>m DEF Send
  <2>3. CASE q = r
    <3>1. /\ attempt'[q] = attempt[q] /\ phase'[q] = phase[q]
          /\ phase[q][w] \in {"think", "act"}
          /\ \A v \in Callers : v # w => call'[q][v] = call[q][v]
      BY <1>9, <2>1, <2>3, <1>m DEF Admit, Downgrade, Send, Asks
    <3> QED
      BY <3>1, <1>p DEF PhasedAt
  <2> QED
    BY <2>2, <2>3
<1>10. ASSUME NEW r \in Runs, NEW w \in Callers, Cached(r, w) \/ Simulate(r, w)
       PROVE  PhasedAt(attempt'[q], phase'[q], call'[q])
  <2>1. PICK x \in {"think", "act"} : phase' = [phase EXCEPT ![r][w] = x]
    BY <1>10, Moved(r, w) \in {"think", "act"} DEF Cached, Simulate, Moved
  <2>2. /\ attempt[r] = "running" /\ phase[r][w] \in {"think", "act"}
        /\ attempt' = attempt /\ call' = call
        /\ call'[r][w] = NoCall
    BY <1>10 DEF Cached, Simulate, Refused, Asks
  <2> QED
    BY <1>7, <2>1, <2>2
<1>11. ASSUME NEW r \in Runs, NEW w \in Callers, Record(r, w)
       PROVE  PhasedAt(attempt'[q], phase'[q], call'[q])
  <2>1. PICK x \in {"think", "act"} : phase' = [phase EXCEPT ![r][w] = x]
    BY <1>11, Moved(r, w) \in {"think", "act"} DEF Record, Moved
  <2>2. call[r][w] # NoCall /\ attempt' = attempt
        /\ call' = [call EXCEPT ![r][w] = NoCall]
    BY <1>11 DEF Record
  <2>3. phase[r][w] \in {"think", "act"} /\ attempt[r] = "running"
    BY <2>2 DEF Phased
  <2>4. call'[r][w] = NoCall
    BY <2>2, <1>m
  <2> QED
    BY <1>7, <2>1, <2>2, <2>3, <2>4
<1>12. ASSUME Midnight PROVE PhasedAt(attempt'[q], phase'[q], call'[q])
  BY <1>12, <1>k DEF Midnight
<1>13. ASSUME UNCHANGED vars PROVE PhasedAt(attempt'[q], phase'[q], call'[q])
  BY <1>13, <1>k DEF vars
<1> QED
  BY <1>1, <1>2, <1>3, <1>4, <1>5, <1>6, <1>8, <1>9, <1>10, <1>11, <1>12, <1>13 DEF Next

-----------------------------------------------------------------------------
LEMMA BaselinedStep == TypeOK /\ Baselined /\ [Next]_vars => Baselined'
<1> SUFFICES ASSUME TypeOK, Baselined, [Next]_vars, NEW q \in Runs, NEW k \in {1, 2}
             PROVE  base'[q][k] <= start'[q][k] /\ start'[q][k] <= ledger'[q][k]
  BY DEF Baselined
<1>p. base[q][k] <= start[q][k] /\ start[q][k] <= ledger[q][k]
  BY DEF Baselined
<1>m. /\ base[q][k] \in Nat /\ start[q][k] \in Nat
      /\ ledger[q][k] \in Nat /\ ledger[q][1] \in Nat /\ ledger[q][2] \in Nat
  BY DEF TypeOK
<1>1. ASSUME NEW r \in Runs, Begin(r)
      PROVE  base'[q][k] <= start'[q][k] /\ start'[q][k] <= ledger'[q][k]
  <2>1. PICK b \in Baselines(r) : base' = [base EXCEPT ![r] = b]
    BY <1>1 DEF Begin
  <2>2. ledger' = ledger /\ start' = [start EXCEPT ![r] = ledger[r]]
    BY <1>1 DEF Begin, spending
  <2>3. CASE q # r
    BY <2>1, <2>2, <2>3, <1>p DEF TypeOK
  <2>4. CASE q = r
    <3>1. base'[q] = b /\ start'[q] = ledger[q]
      BY <2>1, <2>2, <2>4 DEF TypeOK
    <3>2. b[k] <= ledger[q][k]
      BY <2>4, BaselinesType
    <3> QED
      BY <3>1, <3>2, <2>2, <1>m
  <2> QED
    BY <2>3, <2>4
<1>2. ASSUME NEW r \in Runs, NEW w \in Callers, Record(r, w)
      PROVE  base'[q][k] <= start'[q][k] /\ start'[q][k] <= ledger'[q][k]
  <2>1. PICK ch \in Recorded(r) :
          ledger' = [ledger EXCEPT ![r] = <<@[1] + ch[1], @[2] + ch[2]>>]
    BY <1>2 DEF Record
  <2>2. base' = base /\ start' = start
    BY <1>2 DEF Record, tracker
  <2>3. ch[1] \in Nat /\ ch[2] \in Nat
    BY RecordedType, BudgetAssumption
  <2>4. CASE q # r
    BY <2>1, <2>2, <2>4, <1>p DEF TypeOK
  <2>5. CASE q = r
    <3>1. ledger'[q] = <<ledger[q][1] + ch[1], ledger[q][2] + ch[2]>>
      BY <2>1, <2>5 DEF TypeOK
    <3>2. ledger[q][k] <= ledger'[q][k]
      BY <3>1, <2>3, <1>m
    <3> QED
      BY <3>1, <3>2, <2>2, <2>3, <1>m, <1>p
  <2> QED
    BY <2>4, <2>5
<1>3. ASSUME base' = base, start' = start, ledger' = ledger
      PROVE  base'[q][k] <= start'[q][k] /\ start'[q][k] <= ledger'[q][k]
  BY <1>3, <1>p
<1>4. ASSUME \/ UNCHANGED vars \/ Midnight
             \/ \E r \in Runs :
                  \/ StopRun(r) \/ FanOut(r) \/ Join(r) \/ Finish(r) \/ Abort(r) \/ Resume(r)
                  \/ \E h \in Helpers : FailHelper(r, h) \/ Leave(r, h)
                  \/ \E w \in Callers : Admit(r, w) \/ Cached(r, w) \/ Downgrade(r, w) \/ Simulate(r, w)
      PROVE  base' = base /\ start' = start /\ ledger' = ledger
  BY <1>4 DEF vars, Midnight, StopRun, FanOut, Join, Finish, Abort, Resume, FailHelper, Leave,
              Admit, Cached, Downgrade, Simulate, Send, tracker, spending
<1> QED
  BY <1>1, <1>2, <1>3, <1>4 DEF Next

-----------------------------------------------------------------------------
(***************************************************************************)
(* The calls in flight, before and after a step.                           *)
(***************************************************************************)
LEMMA FlightSmall ==
  ASSUME TypeOK, Phased, NEW r \in Runs
  PROVE  /\ IsFiniteSet(Flight(r))
         /\ Cardinality(Flight(r)) \in Nat
         /\ Cardinality(Flight(r)) <= Abreast
<1>1. Flight(r) \in SUBSET Callers
  BY DEF Flight
<1>2. Main \in Flight(r) => \A h \in Helpers : h \notin Flight(r)
  BY MainCalls DEF Flight, Phased
<1> QED
  BY <1>1, <1>2, FewAbreast

LEMMA FlightsSmall ==
  ASSUME TypeOK, Phased
  PROVE  /\ IsFiniteSet(Flights)
         /\ Cardinality(Flights) \in Nat
         /\ Cardinality(Flights) <= Cardinality(Runs) * Abreast
<1>1. Flights \in SUBSET (Runs \X Callers)
  BY DEF Flights
<1>2. ASSUME NEW r \in Runs, <<r, Main>> \in Flights, NEW h \in Helpers PROVE <<r, h>> \notin Flights
  <2>1. call[r][Main] # NoCall
    BY <1>2 DEF Flights
  <2>2. call[r][h] = NoCall
    BY <2>1, MainCalls DEF Phased
  <2> QED
    BY <2>2 DEF Flights
<1> QED
  BY <1>1, <1>2, FewInAll

LEMMA FlightSmallNext ==
  ASSUME TypeOK', Phased', NEW r \in Runs
  PROVE  /\ IsFiniteSet(Flight(r)')
         /\ Cardinality(Flight(r)') \in Nat
         /\ Cardinality(Flight(r)') <= Abreast
<1>1. Flight(r)' \in SUBSET Callers
  BY DEF Flight
<1>2. Main \in Flight(r)' => \A h \in Helpers : h \notin Flight(r)'
  BY MainCalls DEF Flight, Phased
<1> QED
  BY <1>1, <1>2, FewAbreast

LEMMA FlightsSmallNext ==
  ASSUME TypeOK', Phased'
  PROVE  /\ IsFiniteSet(Flights')
         /\ Cardinality(Flights') \in Nat
         /\ Cardinality(Flights') <= Cardinality(Runs) * Abreast
<1>1. Flights' \in SUBSET (Runs \X Callers)
  BY DEF Flights
<1>2. ASSUME NEW r \in Runs, <<r, Main>> \in Flights', NEW h \in Helpers PROVE <<r, h>> \notin Flights'
  <2>1. call'[r][Main] # NoCall
    BY <1>2 DEF Flights
  <2>2. call'[r][h] = NoCall
    BY <2>1, MainCalls DEF Phased
  <2> QED
    BY <2>2 DEF Flights
<1> QED
  BY <1>1, <1>2, FewInAll

LEMMA Numbers ==
  /\ {TaskTokens, RunTokens, TaskCost, RunCost, DayCost, MaxTokens, MaxCost} \subseteq Nat
  /\ Abreast \in Nat /\ Cardinality(Runs) * Abreast \in Nat
<1>1. Abreast \in Nat /\ Cardinality(Runs) \in Nat
  BY ConstantsFinite DEF Abreast
<1>2. Cardinality(Runs) * Abreast \in Nat
  BY <1>1
<1> QED
  BY <1>1, <1>2, BudgetAssumption

(***************************************************************************)
(* A step that starts no call and writes no row leaves room.               *)
(***************************************************************************)
LEMMA RoomsKept ==
  ASSUME TypeOK, TypeOK', Phased, Phased', Rooms,
         hardStop' = hardStop, ledger' = ledger, today' <= today,
         Flights' \subseteq Flights,
         \A r \in Runs : /\ Flight(r)' \subseteq Flight(r)
                         /\ start[r][1] <= start'[r][1] /\ start[r][2] <= start'[r][2]
  PROVE  Rooms'
<1> SUFFICES ASSUME hardStop
             PROVE  DayRoom' /\ \A r \in Runs : RunRooms(r)' /\ AttemptRooms(r)'
  BY DEF Rooms
<1> USE Numbers
<1>1. DayRoom'
  <2>1. /\ Cardinality(Flights) \in Nat /\ Cardinality(Flights') \in Nat
        /\ Cardinality(Flights') <= Cardinality(Flights)
    BY FlightsSmall, FlightsSmallNext, FS_Subset
  <2>2. today \in Int /\ today' \in Int
    BY DEF TypeOK
  <2>3. Roomy(DayCost, today, MaxCost, Cardinality(Flights), Cardinality(Runs) * Abreast)
    BY DEF Rooms, DayRoom
  <2>4. Roomy(DayCost, today', MaxCost, Cardinality(Flights'), Cardinality(Runs) * Abreast)
    BY <2>1, <2>2, <2>3, RoomKept
  <2> QED
    BY <2>4 DEF DayRoom
<1>2. ASSUME NEW r \in Runs PROVE RunRooms(r)' /\ AttemptRooms(r)'
  <2> DEFINE f == Cardinality(Flight(r))
             g == Cardinality(Flight(r)')
             a == ledger[r][1] - start[r][1]
             b == ledger[r][2] - start[r][2]
             c == ledger[r][1] - start'[r][1]
             d == ledger[r][2] - start'[r][2]
             x == ledger[r][1]
             y == ledger[r][2]
  <2>1. f \in Nat /\ g \in Nat /\ g <= f
    BY FlightSmall, FlightSmallNext, FS_Subset
  <2>2. /\ x \in Int /\ y \in Int
        /\ a \in Int /\ b \in Int /\ c \in Int /\ d \in Int
        /\ c <= a /\ d <= b
    <3>1. /\ ledger[r][1] \in Nat /\ ledger[r][2] \in Nat
          /\ start[r][1] \in Nat /\ start[r][2] \in Nat
          /\ start'[r][1] \in Nat /\ start'[r][2] \in Nat
      BY DEF TypeOK
    <3> QED
      BY <3>1
  <2>3. /\ Roomy(RunTokens, x, MaxTokens, f, Abreast)
        /\ Roomy(RunCost, y, MaxCost, f, Abreast)
        /\ Roomy(TaskTokens, a, MaxTokens, f, Abreast)
        /\ Roomy(TaskCost, b, MaxCost, f, Abreast)
    BY DEF Rooms, RunRooms, AttemptRooms, Tokens, Cost
  <2>4. /\ Roomy(RunTokens, x, MaxTokens, g, Abreast)
        /\ Roomy(RunCost, y, MaxCost, g, Abreast)
        /\ Roomy(TaskTokens, c, MaxTokens, g, Abreast)
        /\ Roomy(TaskCost, d, MaxCost, g, Abreast)
    <3> HIDE DEF a, b, c, d, x, y, f, g
    <3>1. Roomy(RunTokens, x, MaxTokens, g, Abreast)
      <4>1. /\ RunTokens \in Nat /\ MaxTokens \in Nat /\ Abreast \in Nat
            /\ x \in Int /\ x <= x
            /\ Roomy(RunTokens, x, MaxTokens, f, Abreast)
        BY <2>2, <2>3
      <4> QED
        BY ONLY <2>1, <4>1, RoomKept
    <3>2. Roomy(RunCost, y, MaxCost, g, Abreast)
      <4>1. /\ RunCost \in Nat /\ MaxCost \in Nat /\ Abreast \in Nat
            /\ y \in Int /\ y <= y
            /\ Roomy(RunCost, y, MaxCost, f, Abreast)
        BY <2>2, <2>3
      <4> QED
        BY ONLY <2>1, <4>1, RoomKept
    <3>3. Roomy(TaskTokens, c, MaxTokens, g, Abreast)
      <4>1. /\ TaskTokens \in Nat /\ MaxTokens \in Nat /\ Abreast \in Nat
            /\ a \in Int /\ c \in Int /\ c <= a
            /\ Roomy(TaskTokens, a, MaxTokens, f, Abreast)
        BY <2>2, <2>3
      <4> QED
        BY ONLY <2>1, <4>1, RoomKept
    <3>4. Roomy(TaskCost, d, MaxCost, g, Abreast)
      <4>1. /\ TaskCost \in Nat /\ MaxCost \in Nat /\ Abreast \in Nat
            /\ b \in Int /\ d \in Int /\ d <= b
            /\ Roomy(TaskCost, b, MaxCost, f, Abreast)
        BY <2>2, <2>3
      <4> QED
        BY ONLY <2>1, <4>1, RoomKept
    <3> QED
      BY <3>1, <3>2, <3>3, <3>4
  <2> QED
    BY <2>4 DEF RunRooms, AttemptRooms, Tokens, Cost
<1> QED
  BY <1>1, <1>2

(***************************************************************************)
(* A call that passes the gate: the ledger is below every cap, and no more *)
(* calls than there are places can be in flight.                           *)
(***************************************************************************)
LEMMA RoomsAdmitted ==
  ASSUME TypeOK, TypeOK', Phased, Phased', Baselined, Rooms,
         NEW r \in Runs, NEW w \in Callers, Admit(r, w)
  PROVE  Rooms'
<1> SUFFICES ASSUME hardStop
             PROVE  DayRoom' /\ \A q \in Runs : RunRooms(q)' /\ AttemptRooms(q)'
  BY DEF Rooms, Admit, Send
<1> USE Numbers
<1>1. PICK t \in Tiers : Send(r, w, t)
  BY DEF Admit
<1>2. /\ ledger' = ledger /\ start' = start /\ tracked' = tracked /\ today' = today
      /\ call' = [call EXCEPT ![r][w] = t]
  BY <1>1 DEF Send, tracker, spending
<1>3. ASSUME NEW q \in Runs, q # r \/ ~tracked[q] PROVE Flight(q)' = Flight(q)
  <2>1. CASE ~tracked[q]
    BY <2>1, <1>2 DEF Flight
  <2>2. CASE q # r
    <3>1. call'[q] = call[q]
      BY <1>2, <2>2 DEF TypeOK
    <3> QED
      BY <1>2, <3>1 DEF Flight
  <2> QED
    BY <1>3, <2>1, <2>2
<1>4. /\ \A q \in Runs : /\ ledger[q][1] \in Nat /\ ledger[q][2] \in Nat
                         /\ start[q][1] \in Nat /\ start[q][2] \in Nat
                         /\ base[q][1] \in Nat /\ base[q][2] \in Nat
                         /\ base[q][1] <= start[q][1] /\ base[q][2] <= start[q][2]
                         /\ start[q][1] <= ledger[q][1] /\ start[q][2] <= ledger[q][2]
      /\ today \in Nat
  BY DEF TypeOK, Baselined
<1>5. CASE ~tracked[r]
  <2>1. \A q \in Runs : Flight(q)' = Flight(q)
    BY <1>3, <1>5
  <2>2. Flights' \subseteq Flights
    <3>1. ASSUME NEW p \in Flights' PROVE p \in Flights
      <4>1. p \in Runs \X Callers /\ tracked[p[1]] /\ call'[p[1]][p[2]] # NoCall
        BY <3>1, <1>2 DEF Flights
      <4>2. p[1] # r
        BY <4>1, <1>5
      <4>3. call'[p[1]] = call[p[1]]
        BY <4>1, <4>2, <1>2 DEF TypeOK
      <4> QED
        BY <4>1, <4>3 DEF Flights
    <3> QED
      BY <3>1
  <2>3. Rooms'
    BY <1>2, <1>4, <2>1, <2>2, RoomsKept DEF Admit, Send
  <2> QED
    BY <2>3, <1>1 DEF Rooms, Send
<1>6. CASE tracked[r]
  <2>1. today < DayCost /\ ~RunCapped(r)
    BY <1>6 DEF Admit, WithinBudget
  <2>2. DayRoom'
    <3>1. Cardinality(Flights') \in Nat /\ Cardinality(Flights') <= Cardinality(Runs) * Abreast
      BY FlightsSmallNext
    <3>2. ~Over(DayCost, today)
      BY <2>1, <1>4 DEF Over
    <3>3. Roomy(DayCost, today, MaxCost, Cardinality(Flights'), Cardinality(Runs) * Abreast)
      BY <3>1, <3>2, <1>4, RoomToStart
    <3> QED
      BY <3>3, <1>2 DEF DayRoom
  <2>3. RunRooms(r)' /\ AttemptRooms(r)'
    <3>1. Cardinality(Flight(r)') \in Nat /\ Cardinality(Flight(r)') <= Abreast
      BY FlightSmallNext
    <3>2. ~Over(RunTokens, ledger[r][1]) /\ ~Over(RunCost, ledger[r][2])
      BY <2>1 DEF RunCapped, Tokens, Cost
    <3>3. ~Over(TaskTokens, ledger[r][1] - start[r][1])
      <4>1. ~Over(TaskTokens, Spent(r, 1))
        BY <2>1 DEF RunCapped
      <4> QED
        BY <4>1, <1>4 DEF Over, Spent
    <3>4. ~Over(TaskCost, ledger[r][2] - start[r][2])
      <4>1. ~Over(TaskCost, Spent(r, 2))
        BY <2>1 DEF RunCapped
      <4> QED
        BY <4>1, <1>4 DEF Over, Spent
    <3>5. /\ ledger[r][1] \in Int /\ ledger[r][2] \in Int
          /\ ledger[r][1] - start[r][1] \in Int /\ ledger[r][2] - start[r][2] \in Int
      BY <1>4
    <3>6. /\ Roomy(RunTokens, ledger[r][1], MaxTokens, Cardinality(Flight(r)'), Abreast)
          /\ Roomy(RunCost, ledger[r][2], MaxCost, Cardinality(Flight(r)'), Abreast)
      BY <3>1, <3>2, <3>5, RoomToStart
    <3>7. /\ Roomy(TaskTokens, ledger[r][1] - start[r][1], MaxTokens, Cardinality(Flight(r)'), Abreast)
          /\ Roomy(TaskCost, ledger[r][2] - start[r][2], MaxCost, Cardinality(Flight(r)'), Abreast)
      BY <3>1, <3>3, <3>4, <3>5, RoomToStart
    <3> QED
      BY <3>6, <3>7, <1>2 DEF RunRooms, AttemptRooms, Tokens, Cost
  <2>4. ASSUME NEW q \in Runs, q # r PROVE RunRooms(q)' /\ AttemptRooms(q)'
    <3>1. Flight(q)' = Flight(q)
      BY <1>3, <2>4
    <3>2. RunRooms(q) /\ AttemptRooms(q)
      BY DEF Rooms
    <3> QED
      BY <3>1, <3>2, <1>2 DEF RunRooms, AttemptRooms, Tokens, Cost
  <2> QED
    BY <2>2, <2>3, <2>4
<1> QED
  BY <1>5, <1>6

(***************************************************************************)
(* A call that is written gives back its place, in the run's ceilings and  *)
(* in the day's.                                                           *)
(***************************************************************************)
LEMMA RoomsPaid ==
  ASSUME TypeOK, TypeOK', Phased, Phased', Rooms,
         NEW r \in Runs, NEW w \in Callers, Record(r, w)
  PROVE  Rooms'
<1> SUFFICES ASSUME hardStop
             PROVE  DayRoom' /\ \A q \in Runs : RunRooms(q)' /\ AttemptRooms(q)'
  BY DEF Rooms, Record
<1> USE Numbers
<1>1. PICK ch \in Recorded(r) :
        /\ ledger' = [ledger EXCEPT ![r] = <<@[1] + ch[1], @[2] + ch[2]>>]
        /\ today' = today + ch[2]
  BY DEF Record
<1>2. /\ start' = start /\ tracked' = tracked
      /\ call' = [call EXCEPT ![r][w] = NoCall] /\ call[r][w] # NoCall
  BY DEF Record, tracker
<1>3. /\ ch[1] \in 0 .. MaxTokens /\ ch[2] \in 0 .. MaxCost
      /\ ch[1] \in Int /\ ch[2] \in Int
      /\ ~tracked[r] => ch = <<0, 0>>
  BY RecordedType
<1>4. /\ \A q \in Runs : /\ ledger[q][1] \in Nat /\ ledger[q][2] \in Nat
                         /\ start[q][1] \in Nat /\ start[q][2] \in Nat
      /\ today \in Nat
  BY DEF TypeOK
<1>5. /\ ledger'[r][1] = ledger[r][1] + ch[1]
      /\ ledger'[r][2] = ledger[r][2] + ch[2]
  <2>1. ledger'[r] = <<ledger[r][1] + ch[1], ledger[r][2] + ch[2]>>
    BY <1>1 DEF TypeOK
  <2> QED
    BY <2>1
<1>6. ASSUME NEW q \in Runs, q # r PROVE RunRooms(q)' /\ AttemptRooms(q)'
  <2>1. call'[q] = call[q] /\ ledger'[q] = ledger[q]
    BY <1>1, <1>2, <1>6 DEF TypeOK
  <2>2. Flight(q)' = Flight(q)
    BY <1>2, <2>1 DEF Flight
  <2>3. RunRooms(q) /\ AttemptRooms(q)
    BY DEF Rooms
  <2> QED
    BY <2>1, <2>2, <2>3, <1>2 DEF RunRooms, AttemptRooms, Tokens, Cost
<1>7. CASE ~tracked[r]
  <2>1. ch[1] = 0 /\ ch[2] = 0
    BY <1>3, <1>7
  <2>2. Flight(r)' = Flight(r)
    BY <1>2, <1>7 DEF Flight
  <2>3. RunRooms(r)' /\ AttemptRooms(r)'
    <3>1. ledger'[r][1] = ledger[r][1] /\ ledger'[r][2] = ledger[r][2]
      BY <1>5, <2>1, <1>4
    <3>2. RunRooms(r) /\ AttemptRooms(r)
      BY DEF Rooms
    <3> QED
      BY <3>1, <3>2, <2>2, <1>2 DEF RunRooms, AttemptRooms, Tokens, Cost
  <2>4. Flights' = Flights
    <3>1. ASSUME NEW p \in Runs \X Callers, tracked[p[1]] PROVE call'[p[1]][p[2]] = call[p[1]][p[2]]
      <4>1. p[1] # r /\ p[1] \in Runs
        BY <3>1, <1>7
      <4> QED
        BY <4>1, <1>2 DEF TypeOK
    <3> QED
      BY <3>1, <1>2 DEF Flights
  <2>5. DayRoom'
    BY <2>1, <2>4, <1>1, <1>4 DEF Rooms, DayRoom
  <2> QED
    BY <2>3, <2>5, <1>6
<1>8. CASE tracked[r]
  <2>1. /\ Cardinality(Flight(r)) \in Nat /\ Cardinality(Flight(r)) >= 1
        /\ Cardinality(Flight(r)') = Cardinality(Flight(r)) - 1
    <3>1. w \in Flight(r)
      BY <1>2, <1>8 DEF Flight
    <3>2. Flight(r)' = Flight(r) \ {w}
      <4>1. \A v \in Callers : call'[r][v] = IF v = w THEN NoCall ELSE call[r][v]
        BY <1>2 DEF TypeOK
      <4> QED
        BY <4>1, <1>2 DEF Flight
    <3>3. IsFiniteSet(Flight(r)) /\ Cardinality(Flight(r)) \in Nat
      BY FlightSmall
    <3>4. Cardinality(Flight(r) \ {w}) = Cardinality(Flight(r)) - 1
      BY <3>1, <3>3, FS_RemoveElement
    <3>5. Cardinality(Flight(r)) # 0
      BY <3>1, <3>3, FS_EmptySet
    <3> QED
      BY <3>2, <3>3, <3>4, <3>5
  <2>2. /\ Cardinality(Flights) \in Nat /\ Cardinality(Flights) >= 1
        /\ Cardinality(Flights') = Cardinality(Flights) - 1
    <3>1. <<r, w>> \in Flights
      BY <1>2, <1>8 DEF Flights
    <3>2. Flights' = Flights \ {<<r, w>>}
      <4>1. \A q \in Runs, v \in Callers :
              call'[q][v] = IF q = r /\ v = w THEN NoCall ELSE call[q][v]
        BY <1>2 DEF TypeOK
      <4>2. ASSUME NEW p \in Runs \X Callers
            PROVE  p \in Flights' <=> p \in Flights /\ p # <<r, w>>
        <5>1. p = <<p[1], p[2]>> /\ p[1] \in Runs /\ p[2] \in Callers
          OBVIOUS
        <5>2. p = <<r, w>> <=> p[1] = r /\ p[2] = w
          BY <5>1
        <5> QED
          BY <4>1, <5>1, <5>2, <1>2 DEF Flights
      <4>3. Flights' \subseteq Runs \X Callers /\ Flights \subseteq Runs \X Callers
        BY DEF Flights
      <4> QED
        BY <4>2, <4>3
    <3>3. IsFiniteSet(Flights) /\ Cardinality(Flights) \in Nat
      BY FlightsSmall
    <3>4. Cardinality(Flights \ {<<r, w>>}) = Cardinality(Flights) - 1
      BY <3>1, <3>3, FS_RemoveElement
    <3>5. Cardinality(Flights) # 0
      BY <3>1, <3>3, FS_EmptySet
    <3> QED
      BY <3>2, <3>3, <3>4, <3>5
  <2>3. DayRoom'
    <3>1. Roomy(DayCost, today, MaxCost, Cardinality(Flights), Cardinality(Runs) * Abreast)
      BY DEF Rooms, DayRoom
    <3>2. Roomy(DayCost, today + ch[2], MaxCost, Cardinality(Flights) - 1, Cardinality(Runs) * Abreast)
      <4> DEFINE f == Cardinality(Flights)
                 n == Cardinality(Runs) * Abreast
                 paid == ch[2]
      <4>1. f \in Nat /\ f >= 1 /\ n \in Nat /\ paid \in 0 .. MaxCost /\ today \in Int
            /\ Roomy(DayCost, today, MaxCost, f, n)
        BY <3>1, <2>2, <1>3, <1>4
      <4> HIDE DEF f, n, paid
      <4>2. Roomy(DayCost, today + paid, MaxCost, f - 1, n)
        BY <4>1, RoomPaid
      <4> QED
        BY <4>2 DEF f, n, paid
    <3> QED
      BY <3>2, <2>2, <1>1 DEF DayRoom
  <2>4. RunRooms(r)'
    <3>1. RunRooms(r)
      BY DEF Rooms
    <3>2. ledger[r][1] \in Int /\ ledger[r][2] \in Int
      BY <1>4
    <3>3. /\ Roomy(RunTokens, ledger[r][1] + ch[1], MaxTokens, Cardinality(Flight(r)) - 1, Abreast)
          /\ Roomy(RunCost, ledger[r][2] + ch[2], MaxCost, Cardinality(Flight(r)) - 1, Abreast)
      BY <3>1, <3>2, <2>1, <1>3, RoomPaid DEF RunRooms, Tokens, Cost
    <3> QED
      BY <3>3, <2>1, <1>5 DEF RunRooms, Tokens, Cost
  <2>5. AttemptRooms(r)'
    <3>1. AttemptRooms(r)
      BY DEF Rooms
    <3>2. ledger[r][1] - start[r][1] \in Int /\ ledger[r][2] - start[r][2] \in Int
      BY <1>4
    <3>3. /\ Roomy(TaskTokens, (ledger[r][1] - start[r][1]) + ch[1], MaxTokens, Cardinality(Flight(r)) - 1, Abreast)
          /\ Roomy(TaskCost, (ledger[r][2] - start[r][2]) + ch[2], MaxCost, Cardinality(Flight(r)) - 1, Abreast)
      BY <3>1, <3>2, <2>1, <1>3, RoomPaid DEF AttemptRooms, Tokens, Cost
    <3>4. /\ ledger'[r][1] - start[r][1] = (ledger[r][1] - start[r][1]) + ch[1]
          /\ ledger'[r][2] - start[r][2] = (ledger[r][2] - start[r][2]) + ch[2]
      BY <1>3, <1>4, <1>5
    <3> QED
      BY <3>3, <3>4, <2>1, <1>2 DEF AttemptRooms, Tokens, Cost
  <2> QED
    BY <2>3, <2>4, <2>5, <1>6
<1> QED
  BY <1>7, <1>8

-----------------------------------------------------------------------------
LEMMA InitInv == Init => BInv
<1> SUFFICES ASSUME Init PROVE BInv
  OBVIOUS
<1> USE Numbers
<1>1. TypeOK
  BY InitType
<1>2. Phased
  BY MainCalls DEF Init, Phased
<1>3. Baselined
  BY DEF Init, Baselined
<1>4. Rooms
  <2>1. ASSUME NEW r \in Runs PROVE Cardinality(Flight(r)) = 0
    BY FS_EmptySet DEF Init, Flight
  <2>2. Cardinality(Flights) = 0
    BY FS_EmptySet DEF Init, Flights
  <2>3. ASSUME NEW cap \in Nat, NEW c \in Nat, NEW n \in Nat PROVE Roomy(cap, 0, c, 0, n)
    <3>1. c * n \in Nat /\ c * 0 = 0
      OBVIOUS
    <3> QED
      BY <3>1 DEF Roomy
  <2>4. DayRoom
    BY <2>2, <2>3 DEF Init, DayRoom
  <2>5. ASSUME NEW r \in Runs PROVE RunRooms(r) /\ AttemptRooms(r)
    <3>1. /\ Tokens(r) = 0 /\ Cost(r) = 0
          /\ Tokens(r) - start[r][1] = 0 /\ Cost(r) - start[r][2] = 0
      BY DEF Init, Tokens, Cost
    <3> QED
      BY <2>1, <2>3, <3>1 DEF RunRooms, AttemptRooms
  <2> QED
    BY <2>4, <2>5 DEF Rooms
<1> QED
  BY <1>1, <1>2, <1>3, <1>4 DEF BInv

(***************************************************************************)
(* Every other step starts no call and writes no row.                      *)
(***************************************************************************)
Quiet ==
  \/ UNCHANGED vars \/ Midnight
  \/ \E r \in Runs :
       \/ StopRun(r) \/ FanOut(r) \/ Join(r) \/ Finish(r) \/ Resume(r)
       \/ \E h \in Helpers : FailHelper(r, h) \/ Leave(r, h)
       \/ \E w \in Callers : Cached(r, w) \/ Simulate(r, w)

LEMMA RoomsStep ==
  ASSUME BInv, [Next]_vars, TypeOK', Phased'
  PROVE  Rooms'
<1> USE DEF BInv
<1>1. ASSUME Quiet PROVE Rooms'
  <2>1. /\ hardStop' = hardStop /\ ledger' = ledger /\ start' = start /\ call' = call
        /\ tracked' = tracked
        /\ today' = today \/ today' = 0
    BY <1>1 DEF Quiet, vars, Midnight, StopRun, FanOut, Join, Finish, Resume, FailHelper, Leave,
                Cached, Simulate, tracker, spending
  <2>2. today' <= today
    BY <2>1 DEF TypeOK
  <2>3. Flights' \subseteq Flights
    BY <2>1 DEF Flights
  <2>4. \A r \in Runs : /\ Flight(r)' \subseteq Flight(r)
                        /\ start[r][1] <= start'[r][1] /\ start[r][2] <= start'[r][2]
    BY <2>1 DEF Flight, TypeOK
  <2> QED
    BY <2>1, <2>2, <2>3, <2>4, RoomsKept
<1>2. ASSUME NEW r \in Runs, Begin(r) PROVE Rooms'
  <2>1. /\ hardStop' = hardStop /\ ledger' = ledger /\ call' = call /\ today' = today
        /\ start' = [start EXCEPT ![r] = ledger[r]]
        /\ attempt[r] = "waiting"
    BY <1>2 DEF Begin, spending
  <2>2. PICK t \in BOOLEAN : tracked' = [tracked EXCEPT ![r] = t]
    BY <1>2 DEF Begin
  <2>3. \A w \in Callers : call[r][w] = NoCall
    BY <2>1 DEF Phased
  <2>4. \A q \in Runs : q # r => tracked'[q] = tracked[q]
    BY <2>2 DEF TypeOK
  <2>5. Flights' \subseteq Flights
    <3>1. ASSUME NEW p \in Flights' PROVE p \in Flights
      <4>1. /\ p \in Runs \X Callers /\ p[1] \in Runs /\ p[2] \in Callers
            /\ tracked'[p[1]] /\ call[p[1]][p[2]] # NoCall
        BY <3>1, <2>1 DEF Flights
      <4>2. p[1] # r
        BY <4>1, <2>3
      <4> QED
        BY <4>1, <4>2, <2>4 DEF Flights
    <3> QED
      BY <3>1
  <2>6. ASSUME NEW q \in Runs
        PROVE  /\ Flight(q)' \subseteq Flight(q)
               /\ start[q][1] <= start'[q][1] /\ start[q][2] <= start'[q][2]
    <3>1. Flight(q)' \subseteq Flight(q)
      <4>1. CASE q = r
        BY <4>1, <2>1, <2>3 DEF Flight
      <4>2. CASE q # r
        BY <4>2, <2>1, <2>4 DEF Flight
      <4> QED
        BY <4>1, <4>2
    <3>2. start'[q] = start[q] \/ start'[q] = ledger[q]
      BY <2>1 DEF TypeOK
    <3>3. /\ start[q][1] \in Nat /\ start[q][2] \in Nat
          /\ start[q][1] <= ledger[q][1] /\ start[q][2] <= ledger[q][2]
      BY DEF TypeOK, Baselined
    <3> QED
      BY <3>1, <3>2, <3>3
  <2>7. today' <= today
    BY <2>1 DEF TypeOK
  <2> QED
    BY <2>1, <2>5, <2>6, <2>7, RoomsKept
<1>3. ASSUME NEW r \in Runs, Abort(r) PROVE Rooms'
  <2>1. /\ hardStop' = hardStop /\ ledger' = ledger /\ today' = today /\ start' = start
        /\ tracked' = tracked
        /\ call' = [call EXCEPT ![r] = [w \in Callers |-> NoCall]]
    BY <1>3 DEF Abort, tracker, spending
  <2>2. \A q \in Runs, w \in Callers : call'[q][w] # NoCall => call[q][w] # NoCall
    BY <2>1 DEF TypeOK
  <2>3. Flights' \subseteq Flights
    <3>1. ASSUME NEW p \in Flights' PROVE p \in Flights
      <4>1. /\ p \in Runs \X Callers /\ p[1] \in Runs /\ p[2] \in Callers
            /\ tracked[p[1]] /\ call'[p[1]][p[2]] # NoCall
        BY <3>1, <2>1 DEF Flights
      <4> QED
        BY <4>1, <2>2 DEF Flights
    <3> QED
      BY <3>1
  <2>4. ASSUME NEW q \in Runs
        PROVE  /\ Flight(q)' \subseteq Flight(q)
               /\ start[q][1] <= start'[q][1] /\ start[q][2] <= start'[q][2]
    BY <2>1, <2>2 DEF Flight, TypeOK
  <2>5. today' <= today
    BY <2>1 DEF TypeOK
  <2> QED
    BY <2>1, <2>3, <2>4, <2>5, RoomsKept
<1>4. ASSUME NEW r \in Runs, NEW w \in Callers, Admit(r, w) PROVE Rooms'
  BY <1>4, RoomsAdmitted
<1>5. ASSUME NEW r \in Runs, NEW w \in Callers, Downgrade(r, w) PROVE Rooms'
  <2>1. ~hardStop /\ hardStop' = hardStop
    BY <1>5 DEF Downgrade, Send
  <2> QED
    BY <2>1 DEF Rooms
<1>6. ASSUME NEW r \in Runs, NEW w \in Callers, Record(r, w) PROVE Rooms'
  BY <1>6, RoomsPaid
<1> QED
  BY <1>1, <1>2, <1>3, <1>4, <1>5, <1>6 DEF Next, Quiet

LEMMA StepInv == BInv /\ [Next]_vars => BInv'
<1> SUFFICES ASSUME BInv, [Next]_vars PROVE BInv'
  OBVIOUS
<1>1. TypeOK' /\ Phased' /\ Baselined'
  BY TypeStep, PhasedStep, BaselinedStep DEF BInv
<1>2. Rooms'
  BY <1>1, RoomsStep
<1> QED
  BY <1>1, <1>2 DEF BInv

LEMMA SafeBInv == Spec => []BInv
<1>1. BInv /\ [Next]_vars => BInv'
  BY StepInv
<1> QED
  BY InitInv, <1>1, PTL DEF Spec

LEMMA RoomsCap == BInv => SpendCapped
<1> SUFFICES ASSUME BInv, hardStop
             PROVE  DayCeiling /\ \A r \in Runs : RunCeilings(r) /\ AttemptCeilings(r)
  BY DEF SpendCapped
<1> USE Numbers DEF BInv
<1>1. DayCeiling
  <2>1. Cardinality(Flights) \in Nat /\ today \in Int
    BY FlightsSmall DEF TypeOK
  <2>2. Roomy(DayCost, today, MaxCost, Cardinality(Flights), Cardinality(Runs) * Abreast)
    BY DEF Rooms, DayRoom
  <2>3. DayCost > 0 => today < DayCost + MaxCost * (Cardinality(Runs) * Abreast)
    <3> DEFINE f == Cardinality(Flights)
               n == Cardinality(Runs) * Abreast
    <3>1. f \in Nat /\ n \in Nat /\ Roomy(DayCost, today, MaxCost, f, n)
      BY <2>1, <2>2
    <3> HIDE DEF f, n
    <3>2. DayCost > 0 => today < DayCost + MaxCost * n
      BY <3>1, <2>1, RoomBounds
    <3> QED
      BY <3>2 DEF n
  <2>4. MaxCost * (Cardinality(Runs) * Abreast) = (MaxCost * Cardinality(Runs)) * Abreast
    BY ConstantsFinite DEF Abreast
  <2> QED
    BY <2>3, <2>4 DEF DayCeiling, Below, Overshoot, Abreast
<1>2. ASSUME NEW r \in Runs PROVE RunCeilings(r) /\ AttemptCeilings(r)
  <2> DEFINE f == Cardinality(Flight(r))
             x == Tokens(r)
             y == Cost(r)
             a == Tokens(r) - start[r][1]
             b == Cost(r) - start[r][2]
  <2>1. f \in Nat /\ x \in Int /\ y \in Int /\ a \in Int /\ b \in Int
    <3>1. /\ ledger[r][1] \in Nat /\ ledger[r][2] \in Nat
          /\ start[r][1] \in Nat /\ start[r][2] \in Nat
      BY DEF TypeOK
    <3> QED
      BY <3>1, FlightSmall DEF Tokens, Cost
  <2>2. /\ Roomy(RunTokens, x, MaxTokens, f, Abreast)
        /\ Roomy(RunCost, y, MaxCost, f, Abreast)
        /\ Roomy(TaskTokens, a, MaxTokens, f, Abreast)
        /\ Roomy(TaskCost, b, MaxCost, f, Abreast)
    BY DEF Rooms, RunRooms, AttemptRooms
  <2>3. /\ RunTokens > 0 => x < RunTokens + MaxTokens * Abreast
        /\ RunCost > 0 => y < RunCost + MaxCost * Abreast
        /\ TaskTokens > 0 => a < TaskTokens + MaxTokens * Abreast
        /\ TaskCost > 0 => b < TaskCost + MaxCost * Abreast
    <3> HIDE DEF f, x, y, a, b
    <3> QED
      BY <2>1, <2>2, RoomBounds
  <2> QED
    BY <2>3 DEF RunCeilings, AttemptCeilings, Below, Overshoot, Abreast
<1> QED
  BY <1>1, <1>2

-----------------------------------------------------------------------------
(***************************************************************************)
(* The state of the ledger, the trackers and the callers keeps its type.   *)
(***************************************************************************)
THEOREM BudgetTypeCorrect == Spec => []TypeOK
BY SafeBInv, PTL DEF BInv

(***************************************************************************)
(* With budget_hard_stop, no cap of check_budget is overshot by more than  *)
(* the calls that were in flight at once when it was reached: one per      *)
(* helper of a fan-out for the caps of a run and of an attempt, and that   *)
(* for every run for the day's pool -- for any number of runs, helpers,    *)
(* attempts and charges, whichever calls are lost.                         *)
(***************************************************************************)
THEOREM HardStopCapsSpend == Spec => []SpendCapped
BY SafeBInv, RoomsCap, PTL
=============================================================================
