---------------------------- MODULE AgentLoopProofs ----------------------------
(***************************************************************************)
(* AgentLoop proved for any answers, any outcomes of the tools and every   *)
(* bound: what needs an approval starts under one, a stop ends new work,   *)
(* budgets hold, what is shown as work is work, the history stays one a    *)
(* provider accepts, and results are told once and as they were settled.   *)
(* Then the two that hear the loop's events: Jarvis and the journal.       *)
(***************************************************************************)
EXTENDS AgentLoop, JarvisEngine, MissionJournal,
        WellFoundedInduction, FiniteSetTheorems, SequenceTheorems, TLAPS

-----------------------------------------------------------------------------
(* Induction for the folds.  The library's principles take an operator; these  *)
(* take sets and functions instead: a set of numbers has a least one, a        *)
(* recursion over the parts of 1..n has a solution, and what each step of such *)
(* a recursion keeps, its result has.                                          *)

\* A set of naturals that is not empty has a least member.
LEMMA LeastNumber ==
    ASSUME NEW S \in SUBSET Nat, S # {}
    PROVE  \E n \in S : \A m \in S : n <= m
<1> DEFINE R == OpToRel(<, Nat)
<1>1. IsWellFoundedOn(R, Nat)
  BY NatLessThanWellFounded
<1>2. \A m, n \in Nat : m < n => <<m, n>> \in R
  BY DEF OpToRel
<1> HIDE DEF R
<1>3. PICK n \in S : \A m \in S : <<m, n>> \notin R
  BY <1>1, WFMin
<1>4. \A m \in S : ~(m < n)
  BY <1>2, <1>3
<1>5. \A m \in S : n <= m
  BY <1>4
<1> QED
  BY <1>5

\* A set of numbers that has 0 and with each number the next has them all.
LEMMA AllNumbers ==
    ASSUME NEW S, 0 \in S, \A n \in Nat : n \in S => n + 1 \in S
    PROVE  \A n \in Nat : n \in S
<1> SUFFICES ASSUME NEW k \in Nat, k \notin S PROVE FALSE
  OBVIOUS
<1> DEFINE T == {n \in Nat : n \notin S}
<1>1. T \in SUBSET Nat /\ k \in T /\ T # {}
  OBVIOUS
<1> HIDE DEF T
<1>2. PICK n \in T : \A m \in T : n <= m
  BY <1>1, LeastNumber
<1> USE DEF T
<1>3. n \in Nat /\ n \notin S /\ n # 0
  BY <1>2
<1>4. n - 1 \in Nat /\ (n - 1) + 1 = n /\ ~(n <= n - 1)
  BY <1>3
<1>5. n - 1 \in S
  BY <1>2, <1>4
<1> QED
  BY <1>3, <1>4, <1>5

\* The largest number of a part of 1..n.
LEMMA MaxIsLargest ==
    ASSUME NEW n \in Nat, NEW s \in SUBSET (1..n), s # {}
    PROVE  Max(s) \in s /\ \A k \in s : k <= Max(s)
<1> DEFINE T == {n - k : k \in s}
<1>1. \A k \in s : n - k \in T /\ n - k \in Nat
  OBVIOUS
<1>2. T \in SUBSET Nat /\ T # {}
  BY <1>1
<1> HIDE DEF T
<1>3. PICK m \in T : \A j \in T : m <= j
  BY <1>2, LeastNumber
<1>4. PICK k \in s : m = n - k
  BY DEF T
<1>5. \A j \in s : k >= j
  <2> SUFFICES ASSUME NEW j \in s PROVE k >= j
    OBVIOUS
  <2>1. n - k <= n - j
    BY <1>1, <1>3, <1>4
  <2> QED
    BY <2>1
<1> QED
  BY <1>4, <1>5 DEF Max

\* The largest of the first numbers is the last of them.
LEMMA MaxOfTop ==
    ASSUME NEW n \in Nat, NEW s \in SUBSET (1..(n + 1)), n + 1 \in s
    PROVE  Max(s) = n + 1
<1>1. n + 1 \in Nat /\ s # {}
  OBVIOUS
<1> DEFINE m == Max(s)
<1>2. m \in s /\ \A k \in s : k <= m
  BY <1>1, MaxIsLargest
<1> HIDE DEF m
<1>3. m = n + 1
  BY <1>2
<1> QED
  BY <1>3 DEF m

\* A recursion over the parts of 1..n whose steps keep to V, and its solution.
StepsIn(V, n, H) == H \in [V \X (1..n) -> V]
Solution(V, n, b, H, g) ==
    /\ g \in [SUBSET (1..n) -> V]
    /\ \A s \in SUBSET (1..n) :
         g[s] = IF s = {} THEN b ELSE H[<<g[s \ {Max(s)}], Max(s)>>]

\* The function that a fold defines by recursion on a set exists.
LEMMA FoldExists ==
    ASSUME NEW V, NEW n \in Nat, NEW b \in V, NEW H, StepsIn(V, n, H)
    PROVE  \E g : Solution(V, n, b, H, g)
<1> USE DEF StepsIn
<1> DEFINE Solves(g, k) ==
             /\ g \in [SUBSET (1..k) -> V]
             /\ \A s \in SUBSET (1..k) :
                  g[s] = IF s = {} THEN b ELSE H[<<g[s \ {Max(s)}], Max(s)>>]
           Solved(k) == \E g : Solves(g, k)
           S == {k \in Nat : k <= n => Solved(k)}
<1>1. 0 \in S
  <2> DEFINE g == [s \in SUBSET (1..0) |-> b]
  <2>1. 1..0 = {}
    OBVIOUS
  <2>2. SUBSET (1..0) = {{}}
    BY <2>1
  <2>3. Solves(g, 0)
    BY <2>2
  <2> QED
    BY <2>3
<1>2. ASSUME NEW k \in Nat, k \in S PROVE k + 1 \in S
  <2> HIDE DEF Solved
  <2> SUFFICES ASSUME k + 1 <= n PROVE Solved(k + 1)
    OBVIOUS
  <2>0. Solved(k)
    BY <1>2
  <2> HIDE DEF Solves
  <2>1. PICK g : Solves(g, k)
    BY <2>0 DEF Solved
  <2> USE DEF Solves
  <2> DEFINE h == [s \in SUBSET (1..(k + 1)) |->
                     IF k + 1 \notin s THEN g[s] ELSE H[<<g[s \ {k + 1}], k + 1>>]]
  <2>2. ASSUME NEW s \in SUBSET (1..(k + 1))
        PROVE  /\ k + 1 \notin s => s \in SUBSET (1..k)
               /\ s \ {k + 1} \in SUBSET (1..k)
    OBVIOUS
  <2>3. h \in [SUBSET (1..(k + 1)) -> V]
    <3>1. ASSUME NEW s \in SUBSET (1..(k + 1)) PROVE h[s] \in V
      <4>1. CASE k + 1 \notin s
        BY <2>1, <2>2, <4>1
      <4>2. CASE k + 1 \in s
        <5>1. g[s \ {k + 1}] \in V /\ k + 1 \in 1..n
          BY <2>1, <2>2
        <5> QED
          BY <4>2, <5>1
      <4> QED
        BY <4>1, <4>2
    <3> QED
      BY <3>1
  <2>4. ASSUME NEW s \in SUBSET (1..(k + 1))
        PROVE  h[s] = IF s = {} THEN b ELSE H[<<h[s \ {Max(s)}], Max(s)>>]
    <3>1. CASE k + 1 \notin s
      <4>1. s \in SUBSET (1..k) /\ h[s] = g[s]
        BY <2>2, <3>1
      <4>2. s # {} => s \ {Max(s)} \in SUBSET (1..(k + 1)) /\ k + 1 \notin s \ {Max(s)}
        BY <3>1
      <4>3. s # {} => h[s \ {Max(s)}] = g[s \ {Max(s)}]
        BY <4>2
      <4> QED
        BY <2>1, <4>1, <4>3
    <3>2. CASE k + 1 \in s
      <4>1. Max(s) = k + 1
        BY <3>2, MaxOfTop
      <4>2. h[s \ {k + 1}] = g[s \ {k + 1}]
        BY <2>2
      <4> QED
        BY <3>2, <4>1, <4>2
    <3> QED
      BY <3>1, <3>2
  <2> HIDE DEF h
  <2>5. Solves(h, k + 1)
    BY <2>3, <2>4
  <2> HIDE DEF Solves
  <2> QED
    BY <2>5 DEF Solved
<1> HIDE DEF S, Solved
<1>3. n \in S
  BY <1>1, <1>2, AllNumbers
<1>4. Solved(n)
  BY <1>3 DEF S
<1> HIDE DEF Solves
<1>5. PICK g : Solves(g, n)
  BY <1>4 DEF Solved
<1> USE DEF Solves
<1> QED
  BY <1>5 DEF Solution

\* What holds at the start of a recursion and is kept by each of its steps holds
\* at its end.
LEMMA FoldStays ==
    ASSUME NEW V, NEW n \in Nat, NEW g, g[{}] \in V,
           \A k \in 1..n : g[1..(k - 1)] \in V => g[1..k] \in V
    PROVE  g[1..n] \in V
<1> DEFINE S == {k \in Nat : k <= n => g[1..k] \in V}
<1>1. 0 \in S
  <2>1. 1..0 = {}
    OBVIOUS
  <2> QED
    BY <2>1
<1>2. ASSUME NEW k \in Nat, k \in S PROVE k + 1 \in S
  <2>1. (k + 1) - 1 = k
    OBVIOUS
  <2> QED
    BY <1>2, <2>1
<1> HIDE DEF S
<1>3. n \in S
  BY <1>1, <1>2, AllNumbers
<1> QED
  BY <1>3 DEF S

\* The first numbers without the largest are those before it.
LEMMA WholeWithoutMax ==
    ASSUME NEW k \in Nat \ {0}
    PROVE  1..k # {} /\ Max(1..k) = k /\ (1..k) \ {k} = 1..(k - 1)
<1>1. k - 1 \in Nat /\ (k - 1) + 1 = k /\ k \in 1..k
  OBVIOUS
<1>2. Max(1..k) = k
  BY <1>1, MaxOfTop
<1> QED
  BY <1>1, <1>2

-----------------------------------------------------------------------------
(* The ledger of objectives *)

Partial(S) == UNION {[D -> S] : D \in SUBSET Nat}

Verdicts == {"TIMED_OUT", "CANCELLED", "FAILED", "BLOCKED", "COMPLETED_VERIFIED",
             "COMPLETED_PARTIAL", "COMPLETED_UNVERIFIED"}
EvidenceKinds == {"verified", "completed", "failed", "denied", "refused-budget", "refused-late"}
Objectives ==
    [task : Nat, status : {"ASSIGNED", "RUNNING"} \cup Verdicts, actions : Nat,
     recoveries : Nat, replans : Nat, denied : Nat, late : BOOLEAN, evidence : Seq(EvidenceKinds),
     failures : Nat, lost : BOOLEAN]
Ledgers == [objs : Partial(Objectives), current : Nat, made : Nat]

\* An objective within its budgets.  A failed action shows in its evidence, until
\* its verdict is drawn or evidence was dropped; no verdict overlooks one.
FailureShows(o) ==
    o.failures = 0 \/ o.lost \/ \E i \in DOMAIN o.evidence : o.evidence[i] = "failed"
ObjectiveGood(o) ==
    /\ o.actions <= MaxActions /\ o.recoveries <= MaxRecoveries /\ o.replans <= MaxReplans
    /\ ~Terminal(o) => FailureShows(o)
    /\ o.status = "COMPLETED_VERIFIED" => o.failures = 0 \/ o.lost
    /\ o.task = NoTask => ~Terminal(o)

\* A task has one objective, and the current one is not settled.
LedgerGood(l) ==
    /\ l \in Ledgers /\ l.current <= l.made /\ DOMAIN l.objs \subseteq 1..l.made
    /\ \A i, j \in DOMAIN l.objs :
         l.objs[i].task = l.objs[j].task /\ l.objs[i].task # NoTask => i = j
    /\ l.current \in DOMAIN l.objs => ~Terminal(l.objs[l.current])
    /\ \A id \in DOMAIN l.objs : ObjectiveGood(l.objs[id])

\* What a step may do to the ledger: objectives stay, with their tasks, and what
\* was settled stays as it is ...
GrowsTo(l, m) ==
    /\ l.made <= m.made
    /\ \A id \in DOMAIN l.objs :
         /\ id \in DOMAIN m.objs /\ m.objs[id].task = l.objs[id].task
         /\ Terminal(l.objs[id]) => m.objs[id] = l.objs[id]
    /\ \A id \in DOMAIN m.objs : id \in DOMAIN l.objs \/ id > l.made
\* ... and, but at the end of a run, nothing is settled.
RecordsTo(l, m) ==
    /\ GrowsTo(l, m)
    /\ \A id \in DOMAIN m.objs :
         id \in DOMAIN l.objs => Terminal(l.objs[id]) \/ ~Terminal(m.objs[id])

\* A partial function is a function on its domain.
LEMMA PartialIs ==
    ASSUME NEW S, NEW f
    PROVE  f \in Partial(S) <=> f \in [DOMAIN f -> S] /\ DOMAIN f \subseteq Nat
BY DEF Partial

\* A ledger that stays as it is grows, and records nothing.
LEMMA ReflexiveGrowth ==
    ASSUME NEW l, LedgerGood(l) PROVE GrowsTo(l, l) /\ RecordsTo(l, l)
BY PartialIs DEF LedgerGood, Ledgers, GrowsTo, RecordsTo

\* Two steps of the ledger are one.
LEMMA GrowthComposes ==
    ASSUME NEW l, NEW m, NEW n, LedgerGood(l), LedgerGood(m), LedgerGood(n), GrowsTo(m, n)
    PROVE  /\ GrowsTo(l, m) => GrowsTo(l, n)
           /\ RecordsTo(l, m) /\ RecordsTo(m, n) => RecordsTo(l, n)
<1>1. l.made \in Nat /\ m.made \in Nat /\ n.made \in Nat
  BY DEF LedgerGood, Ledgers
<1>2. \A id \in DOMAIN n.objs : id \in Nat
  BY PartialIs DEF LedgerGood, Ledgers
<1>3. GrowsTo(l, m) => GrowsTo(l, n)
  BY <1>1, <1>2 DEF GrowsTo
<1>4. RecordsTo(l, m) /\ RecordsTo(m, n) => RecordsTo(l, n)
  BY <1>3 DEF RecordsTo, GrowsTo
<1> QED
  BY <1>3, <1>4

\* One objective that is not settled changes, and is not settled by it.
LEMMA ChangeKeeps ==
    ASSUME NEW l, LedgerGood(l), NEW id \in DOMAIN l.objs, NEW o \in Objectives,
           ~Terminal(l.objs[id]), o.task = l.objs[id].task, ~Terminal(o), ObjectiveGood(o),
           NEW m, m = [l EXCEPT !.objs[id] = o]
    PROVE  LedgerGood(m) /\ RecordsTo(l, m) /\ DOMAIN m.objs = DOMAIN l.objs /\ m.current = l.current
<1>1. l \in Ledgers /\ l.objs \in [DOMAIN l.objs -> Objectives] /\ DOMAIN l.objs \subseteq Nat
  BY PartialIs DEF LedgerGood, Ledgers
<1>2. /\ m.objs = [l.objs EXCEPT ![id] = o] /\ m.current = l.current /\ m.made = l.made
      /\ DOMAIN m.objs = DOMAIN l.objs /\ m.objs \in [DOMAIN l.objs -> Objectives]
      /\ m.objs[id] = o /\ \A k \in DOMAIN l.objs : k # id => m.objs[k] = l.objs[k]
      /\ m = [objs |-> m.objs, current |-> m.current, made |-> m.made]
  BY <1>1 DEF Ledgers
<1>3. m.objs \in Partial(Objectives)
  BY <1>1, <1>2, PartialIs
<1>4. m \in Ledgers
  BY <1>1, <1>2, <1>3 DEF Ledgers
<1>5. LedgerGood(m)
  BY <1>2, <1>4 DEF LedgerGood
<1>6. RecordsTo(l, m)
  BY <1>1, <1>2 DEF RecordsTo, GrowsTo, LedgerGood, Ledgers
<1> QED
  BY <1>2, <1>5, <1>6

\* A task gets its objective, once, and the ledger stays good.
LEMMA AssignKeeps ==
    ASSUME NEW l, LedgerGood(l), NEW task \in Nat
    PROVE  LedgerGood(Assign(l, task)) /\ RecordsTo(l, Assign(l, task))
<1>0. /\ l \in Ledgers /\ l.objs \in [DOMAIN l.objs -> Objectives] /\ DOMAIN l.objs \subseteq Nat
      /\ l.made \in Nat /\ l.made + 1 \notin DOMAIN l.objs
  BY PartialIs DEF LedgerGood, Ledgers
<1>1. CASE HasObjective(l, Assigned(l, task))
  BY <1>1, ReflexiveGrowth DEF Assign
<1>2. CASE ~HasObjective(l, Assigned(l, task))
  <2> DEFINE m == Assign(l, task)
             o == NewObjective(task)
             x == l.made + 1
  <2>1. m = [objs |-> Put(l.objs, x, o), current |-> x, made |-> x] /\ x \in Nat
    BY <1>0, <1>2 DEF Assign
  <2>2. o \in Objectives /\ ~Terminal(o) /\ ObjectiveGood(o) /\ o.task = task
    BY BudgetsAssumption DEF NewObjective, Objectives, Terminal, ObjectiveGood, FailureShows
  <2>3. task # NoTask => \A i \in DOMAIN l.objs : l.objs[i].task # task
    <3> SUFFICES ASSUME task # NoTask, NEW i \in DOMAIN l.objs, l.objs[i].task = task PROVE FALSE
      OBVIOUS
    <3>1. ObjectivesOf(l, task) # {}
      BY DEF ObjectivesOf
    <3>2. Assigned(l, task) \in ObjectivesOf(l, task)
      BY <3>1 DEF Assigned
    <3> QED
      BY <1>2, <3>2 DEF HasObjective, ObjectivesOf
  <2> HIDE DEF o
  <2>4. /\ m.objs \in Partial(Objectives) /\ DOMAIN m.objs = DOMAIN l.objs \cup {x}
        /\ m.objs[x] = o /\ \A k \in DOMAIN l.objs : m.objs[k] = l.objs[k]
        /\ m.current = x /\ m.made = x
    <3>1. l.objs \in Partial(Objectives)
      BY <1>0, PartialIs
    <3>2. m.objs = Put(l.objs, x, o) /\ m.current = x /\ m.made = x /\ x \notin DOMAIN l.objs
      BY <1>0, <2>1
    <3>0. l.objs \in Partial(Objectives) /\ x \in Nat /\ o \in Objectives
      BY <2>1, <2>2, <3>1
    <3> HIDE DEF m, x
    <3>3. /\ DOMAIN m.objs = DOMAIN l.objs \cup {x} /\ m.objs[x] = o
          /\ \A k \in DOMAIN l.objs : m.objs[k] = l.objs[k]
          /\ m.objs \in [DOMAIN l.objs \cup {x} -> Objectives]
      BY <1>0, <3>0, <3>2 DEF Put
    <3> QED
      BY <1>0, <3>0, <3>2, <3>3, PartialIs
  <2>5. m \in Ledgers
    BY <2>1, <2>4 DEF Ledgers
  <2> HIDE DEF m
  <2>6. LedgerGood(m)
    <3>1. m.current <= m.made /\ DOMAIN m.objs \subseteq 1..m.made
      BY <1>0, <2>1, <2>4 DEF LedgerGood
    <3>2. ASSUME NEW i \in DOMAIN m.objs, NEW j \in DOMAIN m.objs,
                 m.objs[i].task = m.objs[j].task, m.objs[i].task # NoTask
          PROVE  i = j
      BY <2>2, <2>3, <2>4, <3>2 DEF LedgerGood
    <3>3. m.current \in DOMAIN m.objs => ~Terminal(m.objs[m.current])
      BY <2>2, <2>4
    <3>4. \A id \in DOMAIN m.objs : ObjectiveGood(m.objs[id])
      BY <2>2, <2>4 DEF LedgerGood
    <3> QED
      BY <2>5, <3>1, <3>2, <3>3, <3>4 DEF LedgerGood
  <2>7. RecordsTo(l, m)
    <3>1. l.made <= m.made /\ x > l.made
      BY <1>0, <2>4
    <3>2. \A id \in DOMAIN m.objs : id \in DOMAIN l.objs \/ id = x
      BY <2>4
    <3> QED
      BY <1>0, <2>4, <3>1, <3>2 DEF RecordsTo, GrowsTo
  <2> QED
    BY <2>6, <2>7 DEF m
<1> QED
  BY <1>1, <1>2

\* What is not settled yet may be written to.
Open(l, id) == id \in DOMAIN l.objs => ~Terminal(l.objs[id])

\* What is known of an objective that is not settled.
LEMMA OpenObjective ==
    ASSUME NEW l, LedgerGood(l), NEW id \in DOMAIN l.objs, Open(l, id)
    PROVE  /\ l.objs[id] \in Objectives /\ ~Terminal(l.objs[id]) /\ ObjectiveGood(l.objs[id])
           /\ l.objs[id].status \in {"ASSIGNED", "RUNNING"}
<1>1. l.objs[id] \in Objectives /\ ObjectiveGood(l.objs[id])
  BY PartialIs DEF LedgerGood, Ledgers
<1>2. ~Terminal(l.objs[id])
  BY DEF Open
<1> QED
  BY <1>1, <1>2 DEF Terminal

\* An objective with a field changed.
LEMMA ObjectiveChanges ==
    ASSUME NEW o \in Objectives, ~Terminal(o), ObjectiveGood(o)
    PROVE  LET running(p) == p \in Objectives /\ ~Terminal(p) /\ p.task = o.task /\ ObjectiveGood(p)
           IN  /\ o.actions < MaxActions =>
                    running([o EXCEPT !.actions = @ + 1,
                                      !.status = IF @ = "ASSIGNED" THEN "RUNNING" ELSE @])
               /\ o.recoveries < MaxRecoveries => running([o EXCEPT !.recoveries = @ + 1])
               /\ o.replans < MaxReplans => running([o EXCEPT !.replans = @ + 1])
               /\ running([o EXCEPT !.denied = @ + 1])
               /\ running([o EXCEPT !.late = TRUE])
<1>1. /\ o.actions \in Nat /\ o.recoveries \in Nat /\ o.replans \in Nat /\ o.denied \in Nat
      /\ o.status \in {"ASSIGNED", "RUNNING"} /\ FailureShows(o)
      /\ o.actions <= MaxActions /\ o.recoveries <= MaxRecoveries /\ o.replans <= MaxReplans
  BY DEF Objectives, Terminal, ObjectiveGood
<1>2. MaxActions \in Nat /\ MaxRecoveries \in Nat /\ MaxReplans \in Nat
  BY BudgetsAssumption
<1> DEFINE a == [o EXCEPT !.actions = @ + 1, !.status = IF @ = "ASSIGNED" THEN "RUNNING" ELSE @]
           b == [o EXCEPT !.recoveries = @ + 1]
           c == [o EXCEPT !.replans = @ + 1]
           d == [o EXCEPT !.denied = @ + 1]
           e == [o EXCEPT !.late = TRUE]
<1>3. \A p \in {a, b, c, d, e} : p \in Objectives
  <2>1. a \in Objectives
    <3>1. a = [[o EXCEPT !.actions = @ + 1] EXCEPT
                 !.status = IF o.status = "ASSIGNED" THEN "RUNNING" ELSE o.status]
      BY DEF Objectives
    <3>2. [o EXCEPT !.actions = @ + 1] \in Objectives
      BY <1>1 DEF Objectives
    <3>3. \A p \in Objectives : \A s \in {"ASSIGNED", "RUNNING"} : [p EXCEPT !.status = s] \in Objectives
      BY DEF Objectives
    <3> QED
      BY <1>1, <3>1, <3>2, <3>3
  <2>2. b \in Objectives /\ c \in Objectives
    BY <1>1 DEF Objectives
  <2>3. d \in Objectives
    BY <1>1 DEF Objectives
  <2>4. e \in Objectives
    BY DEF Objectives
  <2> QED
    BY <2>1, <2>2, <2>3, <2>4
<1>4. \A p \in {a, b, c, d, e} :
        /\ p.task = o.task /\ p.failures = o.failures /\ p.lost = o.lost /\ p.evidence = o.evidence
        /\ p.status \in {"ASSIGNED", "RUNNING"}
  BY <1>1 DEF Objectives
<1>5. /\ a.actions = o.actions + 1 /\ a.recoveries = o.recoveries /\ a.replans = o.replans
      /\ b.actions = o.actions /\ b.recoveries = o.recoveries + 1 /\ b.replans = o.replans
      /\ c.actions = o.actions /\ c.recoveries = o.recoveries /\ c.replans = o.replans + 1
      /\ d.actions = o.actions /\ d.recoveries = o.recoveries /\ d.replans = o.replans
      /\ e.actions = o.actions /\ e.recoveries = o.recoveries /\ e.replans = o.replans
  BY DEF Objectives
<1> HIDE DEF a, b, c, d, e
<1>6. \A p \in {a, b, c, d, e} : ~Terminal(p) /\ FailureShows(p) /\ p.status # "COMPLETED_VERIFIED"
  BY <1>1, <1>4 DEF Terminal, FailureShows
<1>7. /\ o.actions < MaxActions => ObjectiveGood(a)
      /\ o.recoveries < MaxRecoveries => ObjectiveGood(b)
      /\ o.replans < MaxReplans => ObjectiveGood(c)
      /\ ObjectiveGood(d) /\ ObjectiveGood(e)
  BY <1>1, <1>2, <1>5, <1>6 DEF ObjectiveGood
<1> QED
  BY <1>3, <1>4, <1>6, <1>7 DEF a, b, c, d, e

\* An action is counted where the budget has room for it.
LEMMA RecordActionKeeps ==
    ASSUME NEW l, LedgerGood(l), NEW id, Open(l, id),
           id \in DOMAIN l.objs => l.objs[id].actions < MaxActions
    PROVE  /\ LedgerGood(RecordAction(l, id)) /\ RecordsTo(l, RecordAction(l, id))
           /\ DOMAIN RecordAction(l, id).objs = DOMAIN l.objs /\ RecordAction(l, id).current = l.current
<1>1. CASE id \notin DOMAIN l.objs
  BY <1>1, ReflexiveGrowth DEF RecordAction, HasObjective
<1>2. CASE id \in DOMAIN l.objs
  <2> DEFINE o == l.objs[id]
             p == [o EXCEPT !.actions = @ + 1, !.status = IF @ = "ASSIGNED" THEN "RUNNING" ELSE @]
  <2>1. o \in Objectives /\ ~Terminal(o) /\ ObjectiveGood(o)
    BY <1>2, OpenObjective
  <2>2. p \in Objectives /\ ~Terminal(p) /\ p.task = o.task /\ ObjectiveGood(p)
    BY <1>2, <2>1, ObjectiveChanges
  <2>3. RecordAction(l, id) = [l EXCEPT !.objs[id] = p]
    BY <1>2, PartialIs DEF RecordAction, HasObjective, LedgerGood, Ledgers
  <2> HIDE DEF p
  <2> QED
    BY <1>2, <2>1, <2>2, <2>3, ChangeKeeps
<1> QED
  BY <1>1, <1>2

\* A recovery is counted where the budget has room for it.
LEMMA RecordRecoveryKeeps ==
    ASSUME NEW l, LedgerGood(l), NEW id, Open(l, id),
           id \in DOMAIN l.objs => l.objs[id].recoveries < MaxRecoveries
    PROVE  LedgerGood(RecordRecovery(l, id)) /\ RecordsTo(l, RecordRecovery(l, id))
<1>1. CASE id \notin DOMAIN l.objs
  BY <1>1, ReflexiveGrowth DEF RecordRecovery, HasObjective
<1>2. CASE id \in DOMAIN l.objs
  <2> DEFINE o == l.objs[id]
             p == [o EXCEPT !.recoveries = @ + 1]
  <2>1. o \in Objectives /\ ~Terminal(o) /\ ObjectiveGood(o)
    BY <1>2, OpenObjective
  <2>2. p \in Objectives /\ ~Terminal(p) /\ p.task = o.task /\ ObjectiveGood(p)
    BY <1>2, <2>1, ObjectiveChanges
  <2>3. RecordRecovery(l, id) = [l EXCEPT !.objs[id] = p]
    BY <1>2, PartialIs DEF RecordRecovery, HasObjective, LedgerGood, Ledgers
  <2> HIDE DEF p
  <2> QED
    BY <1>2, <2>1, <2>2, <2>3, ChangeKeeps
<1> QED
  BY <1>1, <1>2

\* A replan is counted where the budget has room for it.
LEMMA RecordReplanKeeps ==
    ASSUME NEW l, LedgerGood(l), NEW id, Open(l, id),
           id \in DOMAIN l.objs => l.objs[id].replans < MaxReplans
    PROVE  LedgerGood(RecordReplan(l, id)) /\ RecordsTo(l, RecordReplan(l, id))
<1>1. CASE id \notin DOMAIN l.objs
  BY <1>1, ReflexiveGrowth DEF RecordReplan, HasObjective
<1>2. CASE id \in DOMAIN l.objs
  <2> DEFINE o == l.objs[id]
             p == [o EXCEPT !.replans = @ + 1]
  <2>1. o \in Objectives /\ ~Terminal(o) /\ ObjectiveGood(o)
    BY <1>2, OpenObjective
  <2>2. p \in Objectives /\ ~Terminal(p) /\ p.task = o.task /\ ObjectiveGood(p)
    BY <1>2, <2>1, ObjectiveChanges
  <2>3. RecordReplan(l, id) = [l EXCEPT !.objs[id] = p]
    BY <1>2, PartialIs DEF RecordReplan, HasObjective, LedgerGood, Ledgers
  <2> HIDE DEF p
  <2> QED
    BY <1>2, <2>1, <2>2, <2>3, ChangeKeeps
<1> QED
  BY <1>1, <1>2

\* A sequence with one more element.
LEMMA AppendFacts ==
    ASSUME NEW S, NEW q \in Seq(S), NEW x \in S
    PROVE  LET a == Append(q, x) IN
           /\ a \in Seq(S) /\ Len(a) = Len(q) + 1 /\ DOMAIN a = 1..(Len(q) + 1)
           /\ a[Len(q) + 1] = x /\ Len(q) + 1 \in DOMAIN a /\ a # << >>
           /\ DOMAIN q = 1..Len(q) /\ Len(q) \in Nat
           /\ \A i \in DOMAIN q : i \in DOMAIN a /\ a[i] = q[i]
<1>1. DOMAIN q = 1..Len(q) /\ Len(q) \in Nat
  OBVIOUS
<1>2. Append(q, x) \in Seq(S) /\ Len(Append(q, x)) = Len(q) + 1 /\ Append(q, x)[Len(q) + 1] = x
  OBVIOUS
<1>3. DOMAIN Append(q, x) = 1..(Len(q) + 1)
  BY <1>2
<1>4. \A i \in 1..Len(q) : Append(q, x)[i] = q[i] /\ i \in 1..(Len(q) + 1)
  BY <1>1
<1>5. Len(q) + 1 \in 1..(Len(q) + 1)
  BY <1>1
<1>6. Append(q, x) # << >>
  BY <1>3, <1>5
<1> QED
  BY <1>1, <1>2, <1>3, <1>4, <1>5, <1>6

\* Evidence, the oldest of it dropped at the limit, keeps the failures in sight.
LEMMA RecordEvidenceKeeps ==
    ASSUME NEW l, LedgerGood(l), NEW id, Open(l, id), NEW outcome \in EvidenceKinds
    PROVE  /\ LedgerGood(RecordEvidence(l, id, outcome))
           /\ RecordsTo(l, RecordEvidence(l, id, outcome))
           /\ DOMAIN RecordEvidence(l, id, outcome).objs = DOMAIN l.objs
           /\ RecordEvidence(l, id, outcome).current = l.current
<1>1. CASE id \notin DOMAIN l.objs
  BY <1>1, ReflexiveGrowth DEF RecordEvidence, HasObjective
<1>2. CASE id \in DOMAIN l.objs
  <2> DEFINE o == l.objs[id]
             fails == IF outcome = "failed" THEN o.failures + 1 ELSE o.failures
             gone == o.lost \/ Len(o.evidence) >= MaxEvidence
             shown == IF Len(o.evidence) < MaxEvidence THEN Append(o.evidence, outcome)
                      ELSE Append(Tail(o.evidence), outcome)
             p == [o EXCEPT !.failures = fails, !.lost = gone, !.evidence = shown]
  <2>1. o \in Objectives /\ ~Terminal(o) /\ ObjectiveGood(o)
    BY <1>2, OpenObjective
  <2>2. /\ o.evidence \in Seq(EvidenceKinds) /\ o.failures \in Nat /\ o.lost \in BOOLEAN
        /\ MaxEvidence \in Nat \ {0} /\ FailureShows(o)
    BY <2>1, BudgetsAssumption DEF Objectives, ObjectiveGood
  <2>3. RecordEvidence(l, id, outcome) = [l EXCEPT !.objs[id] = p]
    BY <1>2 DEF RecordEvidence, HasObjective
  <2>4. /\ fails \in Nat /\ gone \in BOOLEAN /\ shown \in Seq(EvidenceKinds)
        /\ outcome = "failed" => \E i \in DOMAIN shown : shown[i] = "failed"
        /\ gone \/ \A i \in DOMAIN o.evidence : i \in DOMAIN shown /\ shown[i] = o.evidence[i]
        /\ fails = 0 => o.failures = 0
        /\ outcome = "failed" \/ fails = o.failures
        /\ o.lost => gone
    <3>1. fails \in Nat /\ gone \in BOOLEAN /\ (fails = 0 => o.failures = 0)
          /\ (outcome = "failed" \/ fails = o.failures) /\ (o.lost => gone)
      BY <2>2
    <3>2. CASE Len(o.evidence) < MaxEvidence
      <4>1. shown = Append(o.evidence, outcome)
        BY <3>2
      <4> DEFINE e == o.evidence
      <4>2. e \in Seq(EvidenceKinds)
        BY <2>2
      <4> HIDE DEF shown, fails, gone, e
      <4>3. /\ Append(e, outcome) \in Seq(EvidenceKinds)
            /\ Len(e) + 1 \in DOMAIN Append(e, outcome) /\ Append(e, outcome)[Len(e) + 1] = outcome
            /\ \A i \in DOMAIN e : i \in DOMAIN Append(e, outcome) /\ Append(e, outcome)[i] = e[i]
        BY <4>2, AppendFacts
      <4> QED
        BY <3>1, <4>1, <4>3 DEF e
    <3>3. CASE ~(Len(o.evidence) < MaxEvidence)
      <4>1. o.evidence # << >> /\ Len(o.evidence) >= MaxEvidence /\ gone
        BY <2>2, <3>3
      <4>2. shown = Append(Tail(o.evidence), outcome)
        BY <3>3
      <4>4. Tail(o.evidence) \in Seq(EvidenceKinds)
        <5> DEFINE e == o.evidence
        <5>1. e \in Seq(EvidenceKinds) /\ e # << >>
          BY <2>2, <4>1
        <5> HIDE DEF e
        <5>2. Tail(e) \in Seq(EvidenceKinds)
          BY <5>1
        <5> QED
          BY <5>2 DEF e
      <4> DEFINE t == Tail(o.evidence)
      <4> HIDE DEF t, shown, gone, fails
      <4>5. shown = Append(t, outcome) /\ t \in Seq(EvidenceKinds)
        BY <4>2, <4>4 DEF t
      <4>3. /\ shown \in Seq(EvidenceKinds)
            /\ shown[Len(shown)] = outcome /\ Len(shown) \in DOMAIN shown
        BY <4>5, AppendFacts
      <4> HIDE DEF shown, fails, gone
      <4> QED
        BY <3>1, <4>1, <4>3
    <3> QED
      BY <3>2, <3>3
  <2> HIDE DEF fails, gone, shown
  <2>5. /\ p \in Objectives /\ p.task = o.task /\ p.status = o.status
        /\ p.actions = o.actions /\ p.recoveries = o.recoveries /\ p.replans = o.replans
        /\ p.failures = fails /\ p.lost = gone /\ p.evidence = shown
    <3> DEFINE p1 == [o EXCEPT !.failures = fails]
               p2 == [p1 EXCEPT !.lost = gone]
    <3>1. /\ p1 \in Objectives /\ p1.failures = fails /\ p1.task = o.task /\ p1.status = o.status
          /\ p1.actions = o.actions /\ p1.recoveries = o.recoveries /\ p1.replans = o.replans
      BY <2>1, <2>4 DEF Objectives
    <3> HIDE DEF p1
    <3>2. /\ p2 \in Objectives /\ p2.failures = fails /\ p2.task = o.task /\ p2.status = o.status
          /\ p2.actions = o.actions /\ p2.recoveries = o.recoveries /\ p2.replans = o.replans
          /\ p2.lost = gone
      BY <2>4, <3>1 DEF Objectives
    <3> HIDE DEF p2
    <3>3. p = [p2 EXCEPT !.evidence = shown]
      BY DEF p2, p1
    <3> HIDE DEF p
    <3> QED
      BY <2>4, <3>2, <3>3 DEF Objectives
  <2> HIDE DEF p
  <2>6. ~Terminal(p) /\ p.status \in {"ASSIGNED", "RUNNING"}
    BY <2>1, <2>5 DEF Terminal
  <2>7. FailureShows(p)
    BY <2>2, <2>4, <2>5 DEF FailureShows
  <2>8. ObjectiveGood(p)
    BY <2>1, <2>5, <2>6, <2>7 DEF ObjectiveGood
  <2> QED
    BY <1>2, <2>1, <2>3, <2>5, <2>6, <2>8, ChangeKeeps
<1> QED
  BY <1>1, <1>2

\* A refusal of the user is recorded on an open objective.
LEMMA RecordDeniedKeeps ==
    ASSUME NEW l, LedgerGood(l), NEW id, Open(l, id)
    PROVE  LedgerGood(RecordDenied(l, id)) /\ RecordsTo(l, RecordDenied(l, id))
<1>1. CASE id \notin DOMAIN l.objs
  BY <1>1, ReflexiveGrowth DEF RecordDenied, HasObjective
<1>2. CASE id \in DOMAIN l.objs
  <2> DEFINE o == l.objs[id]
             p == [o EXCEPT !.denied = @ + 1]
             m == [l EXCEPT !.objs[id] = p]
             n == RecordEvidence(m, id, "denied")
             k == RecordEvidence(n, id, "denied")
  <2>1. o \in Objectives /\ ~Terminal(o) /\ ObjectiveGood(o)
    BY <1>2, OpenObjective
  <2>2. p \in Objectives /\ ~Terminal(p) /\ p.task = o.task /\ ObjectiveGood(p)
    BY <1>2, <2>1, ObjectiveChanges
  <2>3. RecordDenied(l, id) = k
    BY <1>2, PartialIs DEF RecordDenied, HasObjective, LedgerGood, Ledgers
  <2> HIDE DEF p
  <2>4. LedgerGood(m) /\ RecordsTo(l, m) /\ DOMAIN m.objs = DOMAIN l.objs
    BY <1>2, <2>1, <2>2, ChangeKeeps
  <2>5. Open(m, id) /\ "denied" \in EvidenceKinds
    BY <1>2, <2>1, <2>4 DEF Open, RecordsTo, EvidenceKinds
  <2> HIDE DEF m
  <2>6. LedgerGood(n) /\ RecordsTo(m, n) /\ DOMAIN n.objs = DOMAIN m.objs
    BY <2>4, <2>5, RecordEvidenceKeeps
  <2>7. Open(n, id)
    BY <1>2, <2>4, <2>5, <2>6 DEF Open, RecordsTo
  <2> HIDE DEF n
  <2>8. LedgerGood(k) /\ RecordsTo(n, k)
    BY <2>5, <2>6, <2>7, RecordEvidenceKeeps
  <2> HIDE DEF k
  <2>9. RecordsTo(l, n)
    BY <2>4, <2>6, GrowthComposes DEF RecordsTo
  <2>10. RecordsTo(l, k)
    BY <2>6, <2>8, <2>9, GrowthComposes DEF RecordsTo
  <2> QED
    BY <2>3, <2>8, <2>10
<1> QED
  BY <1>1, <1>2

\* A verdict is one of those there are, and no failure in the evidence is
\* overlooked by the best of them.
LEMMA VerdictIsHonest ==
    ASSUME NEW o \in Objectives, NEW stopped, NEW late
    PROVE  /\ Verdict(o, stopped, late) \in Verdicts
           /\ Verdict(o, stopped, late) = "COMPLETED_VERIFIED" /\ FailureShows(o)
                => o.failures = 0 \/ o.lost
<1>1. Verdict(o, stopped, late) \in Verdicts
  BY DEF Verdict, Verdicts
<1>2. ASSUME NEW i \in DOMAIN o.evidence, o.evidence[i] = "failed" PROVE Failed(o)
  <2> DEFINE S == {k \in DOMAIN o.evidence : o.evidence[k] = "failed"}
  <2>1. DOMAIN o.evidence = 1..Len(o.evidence) /\ Len(o.evidence) \in Nat
    BY DEF Objectives
  <2>2. IsFiniteSet(1..Len(o.evidence))
    BY <2>1, FS_Interval
  <2>3. S \subseteq 1..Len(o.evidence)
    BY <2>1
  <2>4. IsFiniteSet(S)
    BY <2>2, <2>3, FS_Subset
  <2>5. S # {}
    BY <1>2
  <2> HIDE DEF S
  <2>6. Cardinality(S) \in Nat /\ Cardinality(S) # 0
    BY <2>4, <2>5, FS_EmptySet, FS_CardinalityType
  <2> QED
    BY <2>6 DEF S, Failed, Shows
<1>3. Verdict(o, stopped, late) = "COMPLETED_VERIFIED" => ~Failed(o)
  BY DEF Verdict
<1> QED
  BY <1>1, <1>2, <1>3 DEF FailureShows

\* settleTask settles the objective of a task, and nothing else.
LEMMA SettleKeeps ==
    ASSUME NEW l, LedgerGood(l), NEW task \in Nat, NEW stopped, NEW late
    PROVE  LET m == SettleTask(l, task, stopped, late) IN
           /\ LedgerGood(m) /\ GrowsTo(l, m) /\ DOMAIN m.objs = DOMAIN l.objs
           /\ task # NoTask => \A id \in ObjectivesOf(m, task) : Terminal(m.objs[id])
           /\ ObjectivesOf(m, task) = ObjectivesOf(l, task)
<1> DEFINE m == SettleTask(l, task, stopped, late)
           id == CHOOSE i \in ObjectivesOf(l, task) : TRUE
<1>0. /\ l \in Ledgers /\ l.objs \in [DOMAIN l.objs -> Objectives] /\ DOMAIN l.objs \subseteq Nat
  BY PartialIs DEF LedgerGood, Ledgers
<1>1. CASE task = NoTask \/ ObjectivesOf(l, task) = {}
  BY <1>1, ReflexiveGrowth DEF SettleTask
<1>2. CASE task # NoTask /\ ObjectivesOf(l, task) # {}
  <2>1. id \in DOMAIN l.objs /\ l.objs[id].task = task
    BY <1>2 DEF ObjectivesOf
  <2>2. \A i \in ObjectivesOf(l, task) : i = id
    BY <1>2, <2>1 DEF ObjectivesOf, LedgerGood
  <2>3. CASE Terminal(l.objs[id])
    BY <1>2, <2>2, <2>3, ReflexiveGrowth DEF SettleTask
  <2>4. CASE ~Terminal(l.objs[id])
    <3> DEFINE o == l.objs[id]
               p == [NewObjective(task) EXCEPT
                       !.status = Verdict(o, stopped, late),
                       !.failures = IF o.failures = 0 THEN 0 ELSE 1,
                       !.lost = o.lost]
               c == IF l.current = id THEN NoObjective ELSE l.current
    <3>1. m = [l EXCEPT !.objs[id] = p, !.current = c]
      BY <1>2, <2>4 DEF SettleTask
    <3>2. o \in Objectives /\ ObjectiveGood(o) /\ FailureShows(o)
      BY <1>0, <2>1, <2>4 DEF LedgerGood, ObjectiveGood
    <3>3. /\ Verdict(o, stopped, late) \in Verdicts
          /\ Verdict(o, stopped, late) = "COMPLETED_VERIFIED" => o.failures = 0 \/ o.lost
      BY <3>2, VerdictIsHonest
    <3>4. /\ p \in Objectives /\ p.task = task /\ p.status \in Verdicts
          /\ p.actions = 0 /\ p.recoveries = 0 /\ p.replans = 0
          /\ p.status = "COMPLETED_VERIFIED" => p.failures = 0 \/ p.lost
      <4> HIDE DEF o
      <4> DEFINE v == Verdict(o, stopped, late)
                 f == IF o.failures = 0 THEN 0 ELSE 1
                 n == NewObjective(task)
                 p1 == [n EXCEPT !.status = v]
                 p2 == [p1 EXCEPT !.failures = f]
      <4>1. v \in Verdicts /\ f \in Nat /\ o.lost \in BOOLEAN /\ (f = 0 <=> o.failures = 0)
        BY <3>2, <3>3 DEF Objectives
      <4> HIDE DEF v, f
      <4>0. n \in Objectives /\ n.task = task /\ n.actions = 0 /\ n.recoveries = 0 /\ n.replans = 0
        BY DEF NewObjective, Objectives
      <4> HIDE DEF n
      <4>2. /\ p1 \in Objectives /\ p1.task = task /\ p1.status = v
            /\ p1.actions = 0 /\ p1.recoveries = 0 /\ p1.replans = 0
        BY <4>0, <4>1 DEF Objectives
      <4> HIDE DEF p1
      <4>3. /\ p2 \in Objectives /\ p2.task = task /\ p2.status = v /\ p2.failures = f
            /\ p2.actions = 0 /\ p2.recoveries = 0 /\ p2.replans = 0
        BY <4>1, <4>2 DEF Objectives
      <4>4. p = [p2 EXCEPT !.lost = o.lost]
        BY DEF p1, n, v, f
      <4> HIDE DEF p2, p
      <4>5. /\ p \in Objectives /\ p.task = task /\ p.status = v /\ p.failures = f
            /\ p.actions = 0 /\ p.recoveries = 0 /\ p.replans = 0 /\ p.lost = o.lost
        BY <4>1, <4>3, <4>4 DEF Objectives
      <4> QED
        BY <3>3, <4>1, <4>5 DEF v
    <3> HIDE DEF p
    <3>5. Terminal(p) /\ ObjectiveGood(p)
      BY <1>2, <3>4, BudgetsAssumption DEF Terminal, ObjectiveGood, Verdicts
    <3>6. /\ DOMAIN m.objs = DOMAIN l.objs /\ m.objs \in [DOMAIN l.objs -> Objectives]
          /\ m.objs[id] = p /\ \A k \in DOMAIN l.objs : k # id => m.objs[k] = l.objs[k]
          /\ m.current = c /\ m.made = l.made
          /\ m = [objs |-> m.objs, current |-> m.current, made |-> m.made]
          /\ \A k \in DOMAIN l.objs : m.objs[k].task = l.objs[k].task
      <4>1. /\ m.objs = [l.objs EXCEPT ![id] = p] /\ m.current = c /\ m.made = l.made
            /\ m = [objs |-> m.objs, current |-> m.current, made |-> m.made]
        <5> HIDE DEF id
        <5> DEFINE n == [l EXCEPT !.objs[id] = p]
        <5>1. /\ n.objs = [l.objs EXCEPT ![id] = p] /\ n.made = l.made
              /\ n = [objs |-> n.objs, current |-> n.current, made |-> n.made]
          BY <1>0 DEF Ledgers
        <5>2. m = [n EXCEPT !.current = c]
          BY <3>1
        <5> HIDE DEF n, m, c, id
        <5> QED
          BY <5>1, <5>2
      <4> HIDE DEF m, c, id
      <4> QED
        BY <1>0, <2>1, <3>4, <4>1
    <3>7. m \in Ledgers
      <4>1. m.objs \in Partial(Objectives) /\ m.current \in Nat /\ m.made \in Nat
        BY <1>0, <3>6, PartialIs DEF Ledgers, NoObjective
      <4> HIDE DEF m, c
      <4> QED
        BY <3>6, <4>1 DEF Ledgers
    <3> HIDE DEF m
    <3>8. LedgerGood(m)
      <4>1. m.current <= m.made /\ DOMAIN m.objs \subseteq 1..m.made
        BY <1>0, <3>6 DEF LedgerGood, Ledgers, NoObjective
      <4>2. ASSUME NEW i \in DOMAIN m.objs, NEW j \in DOMAIN m.objs,
                   m.objs[i].task = m.objs[j].task, m.objs[i].task # NoTask
            PROVE  i = j
        BY <2>1, <3>4, <3>6, <4>2 DEF LedgerGood
      <4>3. m.current \in DOMAIN m.objs => ~Terminal(m.objs[m.current])
        <5>1. m.current = NoObjective \/ (m.current = l.current /\ l.current # id)
          BY <3>6
        <5>2. NoObjective \notin DOMAIN m.objs
          BY <4>1 DEF NoObjective
        <5> QED
          BY <3>6, <5>1, <5>2 DEF LedgerGood
      <4>4. \A i \in DOMAIN m.objs : ObjectiveGood(m.objs[i])
        BY <3>5, <3>6 DEF LedgerGood
      <4> QED
        BY <3>7, <4>1, <4>2, <4>3, <4>4 DEF LedgerGood
    <3>9. GrowsTo(l, m)
      <4>1. l.made <= m.made
        BY <1>0, <3>6 DEF Ledgers
      <4> HIDE DEF id, c, o
      <4> QED
        BY <2>1, <2>4, <3>6, <4>1 DEF GrowsTo
    <3>10. ObjectivesOf(m, task) = ObjectivesOf(l, task)
      BY <2>1, <3>4, <3>6 DEF ObjectivesOf
    <3>11. \A i \in ObjectivesOf(m, task) : Terminal(m.objs[i])
      BY <2>2, <3>5, <3>6, <3>10
    <3> QED
      BY <3>6, <3>8, <3>9, <3>10, <3>11 DEF m
  <2> QED
    BY <2>3, <2>4
<1> QED
  BY <1>1, <1>2

\* A task that is detached, and the current objective of a good ledger.
LEMMA OthersKeep ==
    ASSUME NEW l, LedgerGood(l)
    PROVE  /\ LedgerGood(DetachCurrent(l)) /\ RecordsTo(l, DetachCurrent(l))
           /\ DetachCurrent(l).objs = l.objs
           /\ LedgerGood(Cleared(l)) /\ Cleared(l).objs = << >> /\ Cleared(l).made = l.made
           /\ l.current \in DOMAIN l.objs =>
                LET m == [l EXCEPT !.objs[l.current].late = TRUE] IN
                LedgerGood(m) /\ RecordsTo(l, m) /\ DOMAIN m.objs = DOMAIN l.objs
           /\ Open(l, CurrentIn(l)) /\ CurrentIn(l) \in Nat /\ CurrentIn(l) <= l.made
           /\ NoObjective \notin DOMAIN l.objs
<1>0. /\ l \in Ledgers /\ l.objs \in [DOMAIN l.objs -> Objectives] /\ DOMAIN l.objs \subseteq Nat
      /\ l.made \in Nat /\ l.current \in Nat /\ NoObjective \notin DOMAIN l.objs
  BY PartialIs DEF LedgerGood, Ledgers, NoObjective
<1>1. /\ LedgerGood(DetachCurrent(l)) /\ RecordsTo(l, DetachCurrent(l))
      /\ DetachCurrent(l).objs = l.objs
  <2> DEFINE m == DetachCurrent(l)
  <2>1. m \in Ledgers /\ m.objs = l.objs /\ m.made = l.made /\ m.current = NoObjective
    BY <1>0 DEF DetachCurrent, Ledgers, NoObjective
  <2> HIDE DEF m
  <2>2. LedgerGood(m)
    BY <1>0, <2>1 DEF LedgerGood, NoObjective
  <2>3. RecordsTo(l, m)
    BY <1>0, <2>1 DEF RecordsTo, GrowsTo
  <2> QED
    BY <2>1, <2>2, <2>3 DEF m
<1>2. LedgerGood(Cleared(l)) /\ Cleared(l).objs = << >> /\ Cleared(l).made = l.made
  <2> DEFINE m == Cleared(l)
  <2>1. m.objs = << >> /\ m.made = l.made /\ m.current = NoObjective
        /\ m = [objs |-> m.objs, current |-> m.current, made |-> m.made]
    BY DEF Cleared, EmptyLedger
  <2> HIDE DEF m
  <2>2. m.objs \in Partial(Objectives) /\ DOMAIN m.objs = {}
    <3>1. DOMAIN m.objs = {} /\ m.objs \in [{} -> Objectives]
      BY <2>1
    <3> QED
      BY <2>1, <3>1, PartialIs
  <2>3. LedgerGood(m)
    BY <1>0, <2>1, <2>2 DEF LedgerGood, Ledgers, NoObjective
  <2> QED
    BY <2>1, <2>3 DEF m
<1>3. ASSUME l.current \in DOMAIN l.objs
      PROVE  LET m == [l EXCEPT !.objs[l.current].late = TRUE] IN
             LedgerGood(m) /\ RecordsTo(l, m) /\ DOMAIN m.objs = DOMAIN l.objs
  <2> DEFINE id == l.current
             o == l.objs[id]
             p == [o EXCEPT !.late = TRUE]
             m == [l EXCEPT !.objs[id] = p]
  <2>1. o \in Objectives /\ ~Terminal(o) /\ ObjectiveGood(o) /\ id \in DOMAIN l.objs
    BY <1>0, <1>3 DEF LedgerGood
  <2>2. p \in Objectives /\ ~Terminal(p) /\ p.task = o.task /\ ObjectiveGood(p)
    BY <2>1, ObjectiveChanges
  <2>3. [l EXCEPT !.objs[l.current].late = TRUE] = m
    BY <1>0, <2>1 DEF Ledgers
  <2> HIDE DEF p, id
  <2>4. LedgerGood(m) /\ RecordsTo(l, m) /\ DOMAIN m.objs = DOMAIN l.objs
    BY <2>1, <2>2, ChangeKeeps
  <2> QED
    BY <2>3, <2>4
<1>4. Open(l, CurrentIn(l)) /\ CurrentIn(l) \in Nat /\ CurrentIn(l) <= l.made
  BY <1>0 DEF CurrentIn, HasObjective, Open, LedgerGood, NoObjective
<1> QED
  BY <1>0, <1>1, <1>2, <1>3, <1>4

-----------------------------------------------------------------------------
(* What the observers show *)

Marks ==
    [worker : {"none", "running", "retrying", "waiting", "cancelled", "completed", "failed", "skipped"},
     line : {"none", "RUNNING", "RECOVERED", "completed", "failed", "skipped"}, lines : Nat]
Boards == Partial(Marks)

Working(b, id) ==
    /\ id \in DOMAIN b
    /\ b[id].worker \in {"running", "retrying"} \/ b[id].line \in {"RUNNING", "RECOVERED"}
Waiting(b, id) == id \in DOMAIN b /\ b[id].worker = "waiting"

\* A board that shows no more work than another, but for one step.
LEMMA BoardPut ==
    ASSUME NEW b \in Boards, NEW id \in Nat, NEW r \in Marks
    PROVE  LET c == Put(b, id, r) IN
           /\ c \in Boards
           /\ \A k : k # id => (Working(c, k) <=> Working(b, k)) /\ (Waiting(c, k) <=> Waiting(b, k))
           /\ Working(c, id) <=> \/ r.worker \in {"running", "retrying"}
                                 \/ r.line \in {"RUNNING", "RECOVERED"}
           /\ Waiting(c, id) <=> r.worker = "waiting"
<1> DEFINE c == Put(b, id, r)
<1>0. b \in Partial(Marks)
  BY DEF Boards
<1>1. /\ c \in Partial(Marks) /\ DOMAIN c = DOMAIN b \cup {id} /\ c[id] = r
      /\ \A y \in DOMAIN b : y # id => c[y] = b[y]
  <2>1. /\ DOMAIN c = DOMAIN b \cup {id} /\ c[id] = r
        /\ \A y \in DOMAIN b : y # id => c[y] = b[y]
        /\ c \in [DOMAIN b \cup {id} -> Marks]
    BY <1>0, PartialIs DEF Put
  <2> HIDE DEF c
  <2> QED
    BY <1>0, <2>1, PartialIs
<1> HIDE DEF c
<1> QED
  BY <1>1 DEF Boards, Working, Waiting, c

\* A mark of the board, field by field.
LEMMA MarkIs ==
    ASSUME NEW b \in Boards, NEW id
    PROVE  /\ OnBoard(b, id) \in Marks
           /\ OnBoard(b, id).worker \in {"running", "retrying"}
                \/ OnBoard(b, id).line \in {"RUNNING", "RECOVERED"} => Working(b, id)
           /\ OnBoard(b, id).worker = "waiting" => Waiting(b, id)
<1>1. OffBoard \in Marks /\ OffBoard.worker = "none" /\ OffBoard.line = "none"
  BY DEF OffBoard, Marks
<1>2. b \in [DOMAIN b -> Marks]
  BY PartialIs DEF Boards
<1> QED
  BY <1>1, <1>2 DEF OnBoard, Working, Waiting

\* What an event does to the board: one mark changes, to what the event says.
LEMMA SeesMore ==
    ASSUME NEW b \in Boards, NEW id \in Nat, NEW classed \in BOOLEAN,
           NEW state \in {"completed", "failed", "skipped"}
    PROVE  /\ SeesStart(b, id) \in Boards /\ SeesGate(b, id) \in Boards
           /\ SeesRetry(b, id, classed) \in Boards /\ SeesEnd(b, id, state) \in Boards
           /\ \A k : /\ Working(SeesStart(b, id), k) => Working(b, k) \/ k = id
                     /\ Waiting(SeesStart(b, id), k) => Waiting(b, k) /\ k # id
                     /\ Working(SeesGate(b, id), k) => Working(b, k)
                     /\ Waiting(SeesGate(b, id), k) => Waiting(b, k) \/ k = id
                     /\ Working(SeesRetry(b, id, classed), k) => Working(b, k) \/ k = id
                     /\ Waiting(SeesRetry(b, id, classed), k) => Waiting(b, k)
                     /\ Working(SeesEnd(b, id, state), k) => Working(b, k) /\ k # id
                     /\ Waiting(SeesEnd(b, id, state), k) => Waiting(b, k) /\ k # id
<1> DEFINE r == OnBoard(b, id)
           start == [worker |-> "running", line |-> "RUNNING",
                     lines |-> IF r.line = "none" THEN r.lines + 1 ELSE r.lines]
           gate == [r EXCEPT !.worker = "waiting", !.lines = @ + 1]
           retry == [r EXCEPT !.worker = IF @ = "none" THEN @ ELSE "retrying",
                              !.line = IF classed \/ @ = "none" THEN @ ELSE "RECOVERED"]
           end == AtEnd(r, state)
<1>1. r \in Marks /\ r.lines \in Nat
  BY MarkIs DEF Marks
<1>2. /\ r.worker \in {"running", "retrying"} \/ r.line \in {"RUNNING", "RECOVERED"} => Working(b, id)
      /\ r.worker = "waiting" => Waiting(b, id)
  BY MarkIs
<1> HIDE DEF r
<1>3. /\ start \in Marks /\ start.worker = "running"
  BY <1>1 DEF Marks
<1>4. /\ gate \in Marks /\ gate.worker = "waiting" /\ gate.line = r.line
  <2>1. gate = [r EXCEPT !.worker = "waiting", !.lines = r.lines + 1]
    BY <1>1 DEF Marks
  <2>2. r.lines + 1 \in Nat
    BY <1>1
  <2> DEFINE n == r.lines + 1
  <2> HIDE DEF n, gate
  <2> QED
    BY <1>1, <2>1, <2>2 DEF Marks, n
<1>5. /\ retry \in Marks
      /\ retry.worker # "waiting"
  <2> DEFINE w == IF r.worker = "none" THEN r.worker ELSE "retrying"
             n == IF classed \/ r.line = "none" THEN r.line ELSE "RECOVERED"
  <2>1. retry = [r EXCEPT !.worker = w, !.line = n]
    BY <1>1 DEF Marks
  <2>2. w \in {"none", "retrying"} /\ n \in {"none", "RUNNING", "RECOVERED", "completed", "failed", "skipped"}
    BY <1>1 DEF Marks
  <2> HIDE DEF w, n, retry
  <2> QED
    BY <1>1, <2>1, <2>2 DEF Marks
<1>6. /\ end \in Marks /\ end.worker \in {"none", "completed", "failed", "skipped"}
      /\ end.line \in {"none", "completed", "failed", "skipped"}
  BY <1>1 DEF Marks, AtEnd
<1>7. /\ SeesStart(b, id) = Put(b, id, start) /\ SeesGate(b, id) = Put(b, id, gate)
      /\ SeesRetry(b, id, classed) = Put(b, id, retry) /\ SeesEnd(b, id, state) = Put(b, id, end)
  BY DEF SeesStart, SeesGate, SeesRetry, SeesEnd, r
<1> HIDE DEF start, gate, retry, end
<1>8. /\ SeesStart(b, id) \in Boards
      /\ \A k : /\ Working(SeesStart(b, id), k) => Working(b, k) \/ k = id
                /\ Waiting(SeesStart(b, id), k) => Waiting(b, k) /\ k # id
  BY <1>3, <1>7, BoardPut
<1>9. /\ SeesGate(b, id) \in Boards
      /\ \A k : /\ Working(SeesGate(b, id), k) => Working(b, k)
                /\ Waiting(SeesGate(b, id), k) => Waiting(b, k) \/ k = id
  BY <1>2, <1>4, <1>7, BoardPut
<1>10. /\ SeesRetry(b, id, classed) \in Boards
       /\ \A k : /\ Working(SeesRetry(b, id, classed), k) => Working(b, k) \/ k = id
                 /\ Waiting(SeesRetry(b, id, classed), k) => Waiting(b, k)
  BY <1>5, <1>7, BoardPut
<1>11. /\ SeesEnd(b, id, state) \in Boards
       /\ \A k : /\ Working(SeesEnd(b, id, state), k) => Working(b, k) /\ k # id
                 /\ Waiting(SeesEnd(b, id, state), k) => Waiting(b, k) /\ k # id
  BY <1>6, <1>7, BoardPut
<1> QED
  BY <1>8, <1>9, <1>10, <1>11

EndStates == {"completed", "failed", "skipped"}
\* A start and a gate on the board.
LEMMA SeesFacts ==
    ASSUME NEW b \in Boards, NEW id \in Nat
    PROVE  /\ SeesStart(b, id) \in Boards
           /\ \A k : /\ Working(SeesStart(b, id), k) => Working(b, k) \/ k = id
                     /\ Waiting(SeesStart(b, id), k) => Waiting(b, k) /\ k # id
           /\ SeesGate(b, id) \in Boards
           /\ \A k : /\ Working(SeesGate(b, id), k) => Working(b, k)
                     /\ Waiting(SeesGate(b, id), k) => Waiting(b, k) \/ k = id
<1>1. TRUE \in BOOLEAN /\ "skipped" \in {"completed", "failed", "skipped"}
  OBVIOUS
<1> QED
  BY <1>1, SeesMore

\* A retry on the board shows nothing at work that it does not name.
LEMMA SeesRetryFacts ==
    ASSUME NEW b \in Boards, NEW id \in Nat, NEW classed \in BOOLEAN
    PROVE  /\ SeesRetry(b, id, classed) \in Boards
           /\ \A k : /\ Working(SeesRetry(b, id, classed), k) => Working(b, k) \/ k = id
                     /\ Waiting(SeesRetry(b, id, classed), k) => Waiting(b, k)
<1>1. "skipped" \in {"completed", "failed", "skipped"}
  OBVIOUS
<1> QED
  BY <1>1, SeesMore

\* An end on the board: the step it names is not at work any more.
LEMMA SeesEndFacts ==
    ASSUME NEW b \in Boards, NEW id \in Nat, NEW state \in EndStates
    PROVE  /\ SeesEnd(b, id, state) \in Boards
           /\ \A k : /\ Working(SeesEnd(b, id, state), k) => Working(b, k) /\ k # id
                     /\ Waiting(SeesEnd(b, id, state), k) => Waiting(b, k) /\ k # id
<1>1. TRUE \in BOOLEAN /\ state \in {"completed", "failed", "skipped"}
  BY DEF EndStates
<1> QED
  BY <1>1, SeesMore

\* An idle agent on the board: no worker waits or runs, and no line is new.
LEMMA SeesIdleFacts ==
    ASSUME NEW b \in Boards
    PROVE  /\ SeesIdle(b) \in Boards /\ DOMAIN SeesIdle(b) = DOMAIN b
           /\ \A k : (Working(SeesIdle(b), k) => Working(b, k)) /\ ~Waiting(SeesIdle(b), k)
<1> DEFINE c == SeesIdle(b)
<1>1. b \in [DOMAIN b -> Marks] /\ DOMAIN b \subseteq Nat
  BY PartialIs DEF Boards
<1>2. /\ DOMAIN c = DOMAIN b
      /\ \A k \in DOMAIN b : c[k] = IF b[k].worker \in Active THEN [b[k] EXCEPT !.worker = "cancelled"] ELSE b[k]
      /\ c = [k \in DOMAIN b |-> c[k]]
  BY DEF SeesIdle
<1> HIDE DEF c
<1>3. \A r \in Marks : /\ [r EXCEPT !.worker = "cancelled"] \in Marks
                       /\ [r EXCEPT !.worker = "cancelled"].worker = "cancelled"
                       /\ [r EXCEPT !.worker = "cancelled"].line = r.line
  BY DEF Marks
<1>4. \A k \in DOMAIN b : c[k] \in Marks /\ c[k].line = b[k].line /\ c[k].worker \notin Active
  BY ZenonT(40), <1>1, <1>2, <1>3 DEF Active
<1>5. c \in Boards
  BY <1>1, <1>2, <1>4, PartialIs DEF Boards
<1> QED
  BY <1>2, <1>4, <1>5 DEF Working, Waiting, Active, c

-----------------------------------------------------------------------------
(* The calls that start *)

States == {"pending", "executing", "completed", "failed", "skipped"}
Steps == [tool : Tools, arg : Arguments \cup {0}, id : Nat, state : States]
Outs == {"running", "refused-late", "refused-budget", "verified", "plain"} \cup Errors
Bodies == [tries : Nat, obj : Nat, recovering : BOOLEAN, out : Outs]
Lives == Partial(Bodies)
Starting(n) == [batch : [1..n -> Steps], ledger : Ledgers, board : Boards, live : Lives]

\* What has become of the batch, the ledger, the board and the calls in flight
\* when the calls D have started.
StartedFrom(n, s, z, D) ==
    /\ z \in Starting(n) /\ LedgerGood(z.ledger)
    /\ \A i \in 1..n : /\ z.batch[i].tool = s.batch[i].tool /\ z.batch[i].id = s.batch[i].id
                       /\ z.batch[i] = s.batch[i] \/ (i \in D /\ z.batch[i].state = "executing")
    /\ DOMAIN z.live = DOMAIN s.live \cup D
    /\ \A i \in DOMAIN z.live : IF i \in D THEN z.live[i].obj = CurrentIn(s.ledger)
                                           ELSE z.live[i] = s.live[i]
    /\ RecordsTo(s.ledger, z.ledger) /\ DOMAIN z.ledger.objs = DOMAIN s.ledger.objs
    /\ z.ledger.current = s.ledger.current
    /\ \A k : /\ Working(z.board, k) => Working(s.board, k) \/ \E i \in D : s.batch[i].id = k
              /\ Waiting(z.board, k) => Waiting(s.board, k) /\ \A i \in D : s.batch[i].id # k

\* No call started: nothing has changed.
LEMMA NoneStarted ==
    ASSUME NEW n \in Nat, NEW s \in Starting(n), LedgerGood(s.ledger)
    PROVE  StartedFrom(n, s, s, {})
<1>1. RecordsTo(s.ledger, s.ledger)
  BY ReflexiveGrowth
<1> QED
  BY <1>1 DEF StartedFrom

\* One more call starts, or its budget refuses it.
LEMMA OneStarts ==
    ASSUME NEW n \in Nat, NEW s \in Starting(n), LedgerGood(s.ledger), NEW z, NEW D \in SUBSET (1..n),
           StartedFrom(n, s, z, D), NEW i \in 1..n
    PROVE  StartedFrom(n, s, Started(z, i), D \cup {i})
<1> DEFINE id == z.batch[i].id
           l == z.ledger
           obj == CurrentIn(l)
           b == SeesStart(z.board, id)
           y == Started(z, i)
<1>1. /\ z \in Starting(n) /\ LedgerGood(l) /\ z.board \in Boards /\ z.live \in Lives
      /\ z.batch \in [1..n -> Steps]
  BY DEF StartedFrom, Starting
<1>2. id \in Nat /\ id = s.batch[i].id
  BY <1>1 DEF StartedFrom, Steps
<1>3. /\ Open(l, obj) /\ obj \in Nat /\ obj = CurrentIn(s.ledger)
      /\ NoObjective \notin DOMAIN l.objs
  BY <1>1, OthersKeep DEF StartedFrom, CurrentIn, HasObjective
<1>4. z.live \in [DOMAIN z.live -> Bodies] /\ DOMAIN z.live \subseteq Nat
  BY <1>1, PartialIs DEF Lives
<1>5. /\ b \in Boards
      /\ \A k : /\ Working(b, k) => Working(z.board, k) \/ k = id
                /\ Waiting(b, k) => Waiting(z.board, k) /\ k # id
  BY <1>1, <1>2, SeesFacts
<1>6. ASSUME NEW out \in Outs, NEW c \in Boards, NEW m, LedgerGood(m), RecordsTo(l, m),
             DOMAIN m.objs = DOMAIN l.objs, m.current = l.current,
             \A k : /\ Working(c, k) => Working(z.board, k) \/ k = id
                    /\ Waiting(c, k) => Waiting(z.board, k) /\ k # id,
             NEW p \in [1..n -> Steps],
             \A j \in 1..n : /\ p[j].tool = z.batch[j].tool /\ p[j].id = z.batch[j].id
                             /\ p[j] = z.batch[j] \/ (j = i /\ p[j].state = "executing"),
             NEW x \in Starting(n), x.batch = p, x.ledger = m, x.board = c,
             x.live = Put(z.live, i, Body(obj, out))
      PROVE  StartedFrom(n, s, x, D \cup {i})
  <2>1. /\ DOMAIN x.live = DOMAIN s.live \cup (D \cup {i}) /\ x.live[i].obj = obj
        /\ \A j \in DOMAIN z.live : j # i => x.live[j] = z.live[j]
    BY <1>6 DEF Put, Body, StartedFrom
  <2>2. \A j \in DOMAIN x.live : IF j \in D \cup {i} THEN x.live[j].obj = CurrentIn(s.ledger)
                                                    ELSE x.live[j] = s.live[j]
    <3> TAKE j \in DOMAIN x.live
    <3>1. CASE j = i
      BY <1>3, <2>1, <3>1
    <3>2. CASE j # i
      <4>1. j \in DOMAIN z.live
        BY <2>1, <3>2 DEF StartedFrom
      <4> QED
        BY <2>1, <3>2, <4>1 DEF StartedFrom
    <3> QED
      BY <3>1, <3>2
  <2>3. \A j \in 1..n : /\ p[j].tool = s.batch[j].tool /\ p[j].id = s.batch[j].id
                        /\ p[j] = s.batch[j] \/ (j \in D \cup {i} /\ p[j].state = "executing")
    BY <1>6 DEF StartedFrom
  <2>4. RecordsTo(s.ledger, m) /\ DOMAIN m.objs = DOMAIN s.ledger.objs /\ m.current = s.ledger.current
    BY <1>1, <1>6, GrowthComposes DEF StartedFrom, RecordsTo
  <2>5. \A k : /\ Working(c, k) => Working(s.board, k) \/ \E j \in D \cup {i} : s.batch[j].id = k
               /\ Waiting(c, k) => Waiting(s.board, k) /\ \A j \in D \cup {i} : s.batch[j].id # k
    BY <1>2, <1>6 DEF StartedFrom
  <2> QED
    BY <1>6, <2>1, <2>2, <2>3, <2>4, <2>5 DEF StartedFrom
<1>7. ASSUME NEW out \in Outs PROVE Put(z.live, i, Body(obj, out)) \in Lives
  <2>1. Body(obj, out) \in Bodies
    BY <1>3 DEF Body, Bodies
  <2>2. Put(z.live, i, Body(obj, out)) \in [DOMAIN z.live \cup {i} -> Bodies]
    BY <1>4, <2>1 DEF Put
  <2>3. DOMAIN z.live \cup {i} \subseteq Nat
    BY <1>4
  <2> QED
    BY <2>2, <2>3 DEF Lives, Partial
<1>8. CASE obj # NoObjective /\ ~ActionAllowed(l, obj)
  <2> DEFINE why == IF l.objs[obj].actions >= MaxActions THEN "refused-budget" ELSE "refused-late"
             m == RecordEvidence(l, obj, why)
             c == SeesEnd(b, id, "skipped")
             lv == Put(z.live, i, Body(obj, why))
  <2>1. why \in EvidenceKinds /\ why \in Outs
    BY DEF EvidenceKinds, Outs
  <2>2. y = [z EXCEPT !.live = lv, !.ledger = m, !.board = c]
    BY <1>1, <1>8 DEF Started, Starting
  <2> HIDE DEF why
  <2>3. /\ LedgerGood(m) /\ RecordsTo(l, m) /\ DOMAIN m.objs = DOMAIN l.objs /\ m.current = l.current
        /\ m \in Ledgers
    BY <1>1, <1>3, <2>1, RecordEvidenceKeeps DEF LedgerGood
  <2>4. /\ c \in Boards
        /\ \A k : /\ Working(c, k) => Working(z.board, k) \/ k = id
                  /\ Waiting(c, k) => Waiting(z.board, k) /\ k # id
    <3>1. "skipped" \in EndStates
      BY DEF EndStates
    <3>2. /\ SeesEnd(b, id, "skipped") \in Boards
          /\ \A k : /\ Working(SeesEnd(b, id, "skipped"), k) => Working(b, k) /\ k # id
                    /\ Waiting(SeesEnd(b, id, "skipped"), k) => Waiting(b, k) /\ k # id
      BY <1>2, <1>5, <3>1, SeesEndFacts
    <3> QED
      BY <1>5, <3>2
  <2>5. lv \in Lives
    BY <1>7, <2>1
  <2> HIDE DEF m, c, lv, y
  <2>6. /\ y \in Starting(n) /\ y.batch = z.batch /\ y.ledger = m /\ y.board = c /\ y.live = lv
    BY <1>1, <2>2, <2>3, <2>4, <2>5 DEF Starting
  <2>7. /\ z.batch \in [1..n -> Steps]
        /\ \A j \in 1..n : /\ z.batch[j].tool = z.batch[j].tool /\ z.batch[j].id = z.batch[j].id
                           /\ z.batch[j] = z.batch[j] \/ (j = i /\ z.batch[j].state = "executing")
    BY <1>1
  <2> QED
    BY <1>6, <2>1, <2>3, <2>4, <2>6, <2>7 DEF lv, y
<1>9. CASE ~(obj # NoObjective /\ ~ActionAllowed(l, obj))
  <2> DEFINE m == RecordAction(l, obj)
             lv == Put(z.live, i, Body(obj, "running"))
             p == [z.batch EXCEPT ![i].state = "executing"]
  <2>1. y = [z EXCEPT !.batch = p, !.board = b, !.live = lv, !.ledger = m]
    BY <1>1, <1>9 DEF Started, Starting
  <2>2. obj \in DOMAIN l.objs => l.objs[obj].actions < MaxActions
    BY <1>3, <1>9 DEF ActionAllowed
  <2>3. /\ LedgerGood(m) /\ RecordsTo(l, m) /\ DOMAIN m.objs = DOMAIN l.objs /\ m.current = l.current
        /\ m \in Ledgers
    BY <1>1, <1>3, <2>2, RecordActionKeeps DEF LedgerGood
  <2>4. lv \in Lives /\ "running" \in Outs
    BY <1>7 DEF Outs
  <2>5. /\ p \in [1..n -> Steps]
        /\ \A j \in 1..n : /\ p[j].tool = z.batch[j].tool /\ p[j].id = z.batch[j].id
                           /\ p[j] = z.batch[j] \/ (j = i /\ p[j].state = "executing")
    <3>1. \A t \in Steps : /\ [t EXCEPT !.state = "executing"] \in Steps
                           /\ [t EXCEPT !.state = "executing"].tool = t.tool
                           /\ [t EXCEPT !.state = "executing"].id = t.id
                           /\ [t EXCEPT !.state = "executing"].state = "executing"
      BY DEF Steps, States
    <3>2. p = [z.batch EXCEPT ![i] = [z.batch[i] EXCEPT !.state = "executing"]]
      BY <1>1
    <3> HIDE DEF p
    <3> QED
      BY <1>1, <3>1, <3>2
  <2> HIDE DEF m, lv, p, y, b
  <2>6. /\ y \in Starting(n) /\ y.batch = p /\ y.ledger = m /\ y.board = b /\ y.live = lv
    BY <1>1, <1>5, <2>1, <2>3, <2>4, <2>5 DEF Starting
  <2> QED
    BY <1>5, <1>6, <2>3, <2>4, <2>5, <2>6 DEF lv, y
<1> QED
  BY <1>8, <1>9

\* The calls of a wave start one after the other.
LEMMA CallsStart ==
    ASSUME NEW n \in Nat, NEW s \in Starting(n), LedgerGood(s.ledger), NEW w \in Seq(1..n)
    PROVE  StartedFrom(n, s, FoldLeft(Started, s, w), {w[k] : k \in DOMAIN w})
<1> DEFINE N == Len(w)
           V == {z \in Starting(n) : LedgerGood(z.ledger)}
           H == [p \in V \X (1..N) |-> Started(p[1], w[p[2]])]
           Solves(g) == g = [c \in SUBSET (1..N) |->
                               IF c = {} THEN s ELSE Started(g[c \ {Max(c)}], w[Max(c)])]
           it == CHOOSE g : Solves(g)
<1>1. N \in Nat /\ DOMAIN w = 1..N /\ (\A k \in 1..N : w[k] \in 1..n) /\ s \in V
  OBVIOUS
<1>2. FoldLeft(Started, s, w) = it[1..N]
  BY <1>1 DEF FoldLeft, MapThenFoldSet
<1>3. H \in [V \X (1..N) -> V]
  <2>1. ASSUME NEW z \in V, NEW k \in 1..N PROVE Started(z, w[k]) \in V
    <3>1. z \in Starting(n) /\ LedgerGood(z.ledger) /\ {} \in SUBSET (1..n) /\ w[k] \in 1..n
      BY <1>1
    <3>2. StartedFrom(n, z, z, {})
      BY <3>1, NoneStarted
    <3>3. StartedFrom(n, z, Started(z, w[k]), {} \cup {w[k]})
      BY <3>1, <3>2, OneStarts
    <3> QED
      BY <3>3 DEF StartedFrom
  <2> HIDE DEF V, N
  <2> QED
    BY <2>1
<1>4. \E g : Solves(g)
  <2> HIDE DEF N, H, V
  <2>1. PICK g : Solution(V, N, s, H, g)
    <3>1. N \in Nat /\ s \in V /\ StepsIn(V, N, H)
      BY <1>1, <1>3 DEF StepsIn
    <3> QED
      BY <3>1, FoldExists
  <2>2. ASSUME NEW c \in SUBSET (1..N), c # {}
        PROVE  H[<<g[c \ {Max(c)}], Max(c)>>] = Started(g[c \ {Max(c)}], w[Max(c)])
    <3>1. Max(c) \in 1..N /\ g[c \ {Max(c)}] \in V
      BY <1>1, <2>1, <2>2, MaxIsLargest DEF Solution
    <3> QED
      BY <3>1 DEF H
  <2>3. g = [c \in SUBSET (1..N) |-> IF c = {} THEN s ELSE Started(g[c \ {Max(c)}], w[Max(c)])]
    BY <2>1, <2>2 DEF Solution
  <2> QED
    BY <2>3
<1>5. Solves(it)
  <2> HIDE DEF Solves
  <2> QED
    BY <1>4
<1> HIDE DEF it, N
<1>6. it[{}] = s /\ \A k \in 1..N : it[1..k] = Started(it[1..(k - 1)], w[k])
  <2>1. it[{}] = s
    BY <1>5
  <2>2. ASSUME NEW k \in 1..N PROVE it[1..k] = Started(it[1..(k - 1)], w[k])
    <3>1. k \in Nat \ {0} /\ 1..k \in SUBSET (1..N)
      BY <1>1
    <3>2. 1..k # {} /\ Max(1..k) = k /\ (1..k) \ {k} = 1..(k - 1)
      BY <3>1, WholeWithoutMax
    <3> QED
      BY <1>5, <3>1, <3>2
  <2> QED
    BY <2>1, <2>2
<1> DEFINE D(k) == {w[j] : j \in 1..k}
           P == {k \in Nat : k <= N => StartedFrom(n, s, it[1..k], D(k))}
<1>7. 0 \in P
  <2>1. 1..0 = {} /\ D(0) = {}
    OBVIOUS
  <2>2. StartedFrom(n, s, s, {})
    BY NoneStarted
  <2> QED
    BY <1>6, <2>1, <2>2
<1>8. ASSUME NEW k \in Nat, k \in P PROVE k + 1 \in P
  <2> SUFFICES ASSUME k + 1 <= N PROVE StartedFrom(n, s, it[1..(k + 1)], D(k + 1))
    OBVIOUS
  <2>1. k <= N /\ k + 1 \in 1..N /\ (k + 1) - 1 = k
    <3>1. N \in Nat
      BY <1>1
    <3> QED
      BY <3>1, SMTT(30)
  <2>2. StartedFrom(n, s, it[1..k], D(k)) /\ D(k) \in SUBSET (1..n) /\ w[k + 1] \in 1..n
    BY <1>1, <1>8, <2>1
  <2>3. it[1..(k + 1)] = Started(it[1..k], w[k + 1])
    BY <1>6, <2>1
  <2>4. D(k + 1) = D(k) \cup {w[k + 1]}
    <3>1. 1..(k + 1) = (1..k) \cup {k + 1}
      BY <2>1
    <3> QED
      BY <3>1
  <2> HIDE DEF D
  <2>5. StartedFrom(n, s, Started(it[1..k], w[k + 1]), D(k) \cup {w[k + 1]})
    BY <2>2, OneStarts
  <2> QED
    BY <2>3, <2>4, <2>5
<1> HIDE DEF P
<1>9. N \in P
  BY <1>1, <1>7, <1>8, AllNumbers
<1>10. StartedFrom(n, s, it[1..N], D(N))
  BY <1>1, <1>9 DEF P
<1> QED
  BY <1>1, <1>2, <1>10

-----------------------------------------------------------------------------
(* The invariant *)

Controls == {"idle", "start", "routing", "loop", "model", "backoff", "wave", "open",
             "gate", "denied", "tools", "settle"}
Between == {"idle", "start", "routing", "loop", "model", "backoff"}
Histories == [empty : BOOLEAN, open : SUBSET Nat, broken : BOOLEAN]

Ends == {"completed", "no-provider", "step-limit", "error", "denied", "stopped"}
Actions == {<< >>} \cup (Tools \X (Arguments \cup {0}))
Runs == [pc : Controls, task : Nat, direct : BOOLEAN, steps : Nat, errs : Nat, last : Actions,
         repeats : Nat, abort : {"no", "repeats", "deadline"}, stop : BOOLEAN, replans : Nat,
         outcome : Ends, mark : Histories, stopped : BOOLEAN, no : Nat, odd : BOOLEAN]

\* Waves of calls that are still to run: every call once, and only calls that
\* are not serial side by side.
WavesGood(waves, calls) ==
    /\ waves \in Seq(Seq(DOMAIN calls))
    /\ \A k \in DOMAIN waves :
         /\ waves[k] # << >>
         /\ \A i, j \in DOMAIN waves[k] : waves[k][i] = waves[k][j] => i = j
         /\ Len(waves[k]) >= 2 => \A i \in DOMAIN waves[k] : ~Serial(calls[waves[k][i]].tool)
         /\ \A i \in DOMAIN waves[k] : calls[waves[k][i]].state \in {"pending", "executing"}
    /\ \A k, m \in DOMAIN waves : \A i \in DOMAIN waves[k], j \in DOMAIN waves[m] :
         waves[k][i] = waves[m][j] => k = m

Flying == {Wave[k] : k \in DOMAIN Wave} \cup (IF plan = "first" THEN {} ELSE {Len(batch)})

\* The values are of their types, and at each control point there is of a batch
\* what can be there.
Types ==
    /\ run \in Runs /\ run.steps <= count.maxSteps /\ run.replans <= MaxReplans
    /\ batch \in Seq(Steps) /\ live \in Lives /\ plan \in {"first", "observe", "again", "failed"}
    /\ LedgerGood(ledger) /\ board \in Boards /\ hist \in Histories
    /\ count \in [task : Nat, call : Nat, waiting : Nat, sent : Nat, maxSteps : Nat]
    /\ run.task <= count.task
Shape ==
    /\ WavesGood(todo, batch)
    /\ \A i, j \in DOMAIN batch : batch[i].id = batch[j].id => i = j
    /\ \A i \in DOMAIN batch : batch[i].id <= count.call
    /\ run.pc \in Between => batch = << >> /\ todo = << >>
    /\ run.pc \notin {"tools", "settle"} => live = << >> /\ plan = "first"
    /\ run.pc \notin Between \cup {"wave"} => todo # << >>
    /\ run.pc \in {"open", "gate", "denied"} => Single
    /\ run.pc \in {"tools", "settle"} => DOMAIN live = Flying
    /\ plan # "first" => /\ Single /\ run.odd
                         /\ \A k \in DOMAIN todo : \A i \in DOMAIN todo[k] : todo[k][i] # Len(batch)
    /\ run.direct /\ run.pc \notin Between
         => todo = <<<<1>>>> /\ (plan = "first" => Len(batch) = 1)
    /\ run.pc \in {"loop", "model", "backoff", "wave"} => ~run.direct
    /\ run.pc \in {"open", "gate"} => ~run.stop
    /\ run.pc \in {"loop", "model", "backoff"} => run.abort = "no"
    /\ (run.pc = "model" /\ run.stop => run.odd) /\ (run.pc = "tools" => plan # "failed")
    /\ \A i \in DOMAIN live : live[i].obj <= ledger.made /\ Open(ledger, live[i].obj)
Basic == Types /\ Shape

\* An observation that is settled is not shown at work any more.
ShownInv ==
    /\ \A id : Waiting(board, id) => run.pc \in {"gate", "denied"} /\ Call.id = id
    /\ \A id : Working(board, id) =>
         \E i \in DOMAIN live : batch[i].id = id /\ (plan \in {"again", "failed"} => i # Len(batch))

\* What is remembered was given: for the session, or for the task that runs.
GrantsInv ==
    /\ grants \subseteq [tool : Tools, scope : {"task", "session"}, task : Nat]
    /\ \A g \in grants :
         /\ g.scope = "session" => g.task = NoTask
         /\ g.task <= count.task
         /\ g.task = NoTask => \E a \in given : a.tool = g.tool /\ a.for = <<"all">>
         /\ g.task # NoTask /\ g.task = run.task =>
              /\ ~Ended
              /\ \E a \in given : a.tool = g.tool /\ a.for \in {<<"run", run.no>>, <<"all">>}

\* The history is open for exactly the calls that have no result yet.
Unsettled(calls) == {calls[i].id : i \in {j \in DOMAIN calls : calls[j].state \in {"pending", "executing"}}}
HistoryInv ==
    ~run.odd => /\ ~hist.broken /\ hist.open = Unsettled(batch)
                /\ run.direct /\ run.pc \notin Between
                     => run.task # NoTask /\ ~run.mark.broken /\ run.mark.open = {}

\* What was told was settled, and once.
ResultsInv ==
    /\ told \in Seq([id : Nat, verdict : Verdicts])
    /\ \A i, j \in DOMAIN told : told[i].id = told[j].id => i = j
    /\ \A i \in DOMAIN told : LET id == told[i].id IN
         id \in DOMAIN ledger.objs /\ Terminal(ledger.objs[id]) /\ ledger.objs[id].status = told[i].verdict
    /\ Ended /\ run.task # NoTask => \A id \in ObjectivesOf(ledger, run.task) : Told(id)

-----------------------------------------------------------------------------
(* The waves of an answer *)

\* A sequence with its last element replaced.
LEMMA ReplaceLast ==
    ASSUME NEW S, NEW w \in Seq(S), w # << >>, NEW x \in S
    PROVE  LET u == Front(w) \o <<x>> IN
           /\ u \in Seq(S) /\ Len(u) = Len(w) /\ Len(w) \in Nat \ {0} /\ u[Len(w)] = x
           /\ DOMAIN u = 1..Len(w) /\ DOMAIN w = 1..Len(w)
           /\ \A k \in 1..Len(w) : k # Len(w) => u[k] = w[k]
<1>1. Len(w) \in Nat \ {0} /\ DOMAIN w = 1..Len(w) /\ Len(w) - 1 \in Nat
  OBVIOUS
<1> DEFINE f == SubSeq(w, 1, Len(w) - 1)
<1>2. f \in Seq(S) /\ Len(f) = Len(w) - 1 /\ \A k \in 1..(Len(w) - 1) : f[k] = w[k]
  BY <1>1
<1>3. Front(w) = f
  BY DEF Front
<1> HIDE DEF f
<1>4. /\ f \o <<x>> \in Seq(S) /\ Len(f \o <<x>>) = Len(w) /\ (f \o <<x>>)[Len(w)] = x
      /\ \A k \in 1..(Len(w) - 1) : (f \o <<x>>)[k] = w[k]
      /\ DOMAIN (f \o <<x>>) = 1..Len(w)
  <2> DEFINE y == <<x>>
  <2>1. y \in Seq(S) /\ Len(y) = 1 /\ y[1] = x
    OBVIOUS
  <2> HIDE DEF y
  <2>2. /\ f \o y \in Seq(S) /\ Len(f \o y) = Len(w)
        /\ \A k \in 1..Len(w) : (f \o y)[k] = IF k <= Len(f) THEN f[k] ELSE y[k - Len(f)]
    <3>1. Len(f) + Len(y) = Len(w)
      BY <1>1, <1>2, <2>1
    <3>2. /\ f \o y \in Seq(S) /\ Len(f \o y) = Len(f) + Len(y)
          /\ \A k \in 1..(Len(f) + Len(y)) :
               (f \o y)[k] = IF k <= Len(f) THEN f[k] ELSE y[k - Len(f)]
      BY <1>2, <2>1, ConcatProperties
    <3> QED
      BY <3>1, <3>2
  <2>3. DOMAIN (f \o y) = 1..Len(w)
    BY <2>2
  <2> DEFINE z == f \o y
  <2> HIDE DEF z
  <2>4. Len(w) - Len(f) = 1 /\ ~(Len(w) <= Len(f)) /\ Len(w) \in 1..Len(w)
    BY <1>1, <1>2
  <2>5. z[Len(w)] = x
    BY <2>1, <2>2, <2>4 DEF z
  <2>6. \A k \in 1..(Len(w) - 1) : k \in 1..Len(w) /\ k <= Len(f)
    BY <1>1, <1>2
  <2>7. \A k \in 1..(Len(w) - 1) : z[k] = w[k]
    BY <1>2, <2>2, <2>6 DEF z
  <2> QED
    BY <2>2, <2>3, <2>5, <2>7 DEF y, z
<1> DEFINE u == f \o <<x>>
<1>5. u = Front(w) \o <<x>>
  BY <1>3
<1>6. \A k \in 1..Len(w) : k # Len(w) => k \in 1..(Len(w) - 1)
  <2> DEFINE n == Len(w)
  <2>1. n \in Nat
    BY <1>1
  <2> HIDE DEF n
  <2>2. \A k \in 1..n : k # n => k \in 1..(n - 1)
    BY <2>1
  <2> QED
    BY <2>2 DEF n
<1> HIDE DEF u
<1>7. /\ u \in Seq(S) /\ Len(u) = Len(w) /\ u[Len(w)] = x /\ DOMAIN u = 1..Len(w)
      /\ \A k \in 1..Len(w) : k # Len(w) => u[k] = w[k]
  BY <1>4, <1>6 DEF u
<1> QED
  BY <1>1, <1>5, <1>7

\* Waves over the first k calls.
Planned(w, k, calls) ==
    /\ WavesGood(w, calls)
    /\ \A m \in DOMAIN w : \A j \in DOMAIN w[m] : w[m][j] <= k

\* One more call is added to the waves: to the last, or as a wave of its own.
LEMMA WaveAdded ==
    ASSUME NEW calls \in Seq(Steps), \A j \in DOMAIN calls : calls[j].state = "pending",
           NEW i \in DOMAIN calls, NEW w, Planned(w, i - 1, calls)
    PROVE  Planned(AddToWaves(w, i, calls), i, calls)
<1> DEFINE D == DOMAIN calls
           u == AddToWaves(w, i, calls)
<1>1. i \in Nat \ {0} /\ D \subseteq Nat /\ calls[i].state = "pending"
  OBVIOUS
<1>2. /\ w \in Seq(Seq(D))
      /\ \A m \in DOMAIN w : w[m] \in Seq(D) /\ w[m] # << >> /\ Len(w[m]) \in Nat /\ DOMAIN w[m] = 1..Len(w[m])
  BY DEF Planned, WavesGood
<1>3. \A m \in DOMAIN w : \A j \in DOMAIN w[m] : w[m][j] # i /\ w[m][j] \in D /\ w[m][j] <= i
  BY <1>1, <1>2 DEF Planned
<1>4. /\ <<i>> \in Seq(D) /\ <<i>> # << >> /\ Len(<<i>>) = 1 /\ DOMAIN <<i>> = {1} /\ <<i>>[1] = i
  OBVIOUS
<1>5. ASSUME u = Append(w, <<i>>) PROVE Planned(u, i, calls)
  <2> DEFINE x == <<i>>
             S == Seq(D)
  <2>0. w \in Seq(S) /\ x \in S /\ u = Append(w, x)
    BY <1>2, <1>4, <1>5
  <2> HIDE DEF x, S, u
  <2>1. /\ u \in Seq(S) /\ DOMAIN u = 1..(Len(w) + 1) /\ u[Len(w) + 1] = x /\ DOMAIN w = 1..Len(w)
        /\ Len(w) \in Nat /\ \A k \in DOMAIN w : u[k] = w[k]
    BY <2>0, AppendFacts
  <2>2. \A k \in DOMAIN u : (k \in DOMAIN w /\ u[k] = w[k]) \/ (k \notin DOMAIN w /\ k = Len(w) + 1 /\ u[k] = <<i>>)
    BY <2>1 DEF x
  <2>3. ASSUME NEW k \in DOMAIN u
        PROVE  /\ u[k] # << >>
               /\ \A a, b \in DOMAIN u[k] : u[k][a] = u[k][b] => a = b
               /\ Len(u[k]) >= 2 => \A a \in DOMAIN u[k] : ~Serial(calls[u[k][a]].tool)
               /\ \A a \in DOMAIN u[k] : calls[u[k][a]].state \in {"pending", "executing"} /\ u[k][a] <= i
    <3>1. CASE k \in DOMAIN w /\ u[k] = w[k]
      BY <1>3, <3>1 DEF Planned, WavesGood
    <3>2. CASE u[k] = <<i>>
      BY <1>1, <1>4, <3>2
    <3> QED
      BY <2>2, <3>1, <3>2
  <2>4. ASSUME NEW k \in DOMAIN u, NEW m \in DOMAIN u, NEW a \in DOMAIN u[k], NEW b \in DOMAIN u[m],
               u[k][a] = u[m][b]
        PROVE  k = m
    <3>1. CASE k \in DOMAIN w /\ m \in DOMAIN w
      <4>1. u[k] = w[k] /\ u[m] = w[m]
        BY <2>2, <3>1
      <4> QED
        BY <2>4, <3>1, <4>1 DEF Planned, WavesGood
    <3>2. CASE k \notin DOMAIN w /\ m \in DOMAIN w
      <4>1. u[k] = <<i>> /\ u[m] = w[m]
        BY <2>2, <3>2
      <4> QED
        BY <1>3, <1>4, <2>4, <3>2, <4>1
    <3>3. CASE k \in DOMAIN w /\ m \notin DOMAIN w
      <4>1. u[m] = <<i>> /\ u[k] = w[k]
        BY <2>2, <3>3
      <4> QED
        BY <1>3, <1>4, <2>4, <3>3, <4>1
    <3>4. CASE k \notin DOMAIN w /\ m \notin DOMAIN w
      BY <2>2, <3>4
    <3> QED
      BY <3>1, <3>2, <3>3, <3>4
  <2>5. u \in Seq(Seq(DOMAIN calls))
    BY <2>1 DEF S
  <2> QED
    BY <2>3, <2>4, <2>5 DEF Planned, WavesGood
<1>6. ASSUME u # Append(w, <<i>>) PROVE Planned(u, i, calls)
  <2> DEFINE n == Len(w)
             x == Append(w[n], i)
  <2>1. /\ u = Front(w) \o <<x>> /\ w # << >> /\ ~Serial(calls[i].tool)
        /\ ~Serial(calls[w[n][1]].tool)
    BY <1>6 DEF AddToWaves, Last
  <2>2. n \in DOMAIN w /\ w[n] \in Seq(D) /\ DOMAIN w = 1..n /\ n \in Nat
    BY <1>2, <2>1
  <2> DEFINE v == w[n]
  <2>3. /\ x \in Seq(D) /\ x # << >> /\ Len(x) = Len(v) + 1 /\ DOMAIN x = 1..(Len(v) + 1)
        /\ x[Len(v) + 1] = i /\ \A k \in DOMAIN v : x[k] = v[k]
        /\ DOMAIN v = 1..Len(v) /\ Len(v) \in Nat
    <3> HIDE DEF v, D
    <3>1. v \in Seq(D) /\ i \in D
      BY <2>2 DEF v, D
    <3>2. x = Append(v, i)
      BY DEF v
    <3> HIDE DEF x
    <3> QED
      BY <3>1, <3>2, AppendFacts
  <2>4. /\ u \in Seq(Seq(D)) /\ DOMAIN u = 1..n /\ u[n] = x /\ \A k \in 1..n : k # n => u[k] = w[k]
    <3> DEFINE S == Seq(D)
    <3>1. w \in Seq(S) /\ x \in S
      BY <1>2, <2>3
    <3> HIDE DEF S, x, u
    <3>2. u \in Seq(S) /\ DOMAIN u = 1..n /\ u[n] = x /\ \A k \in 1..n : k # n => u[k] = w[k]
      BY <2>1, <3>1, ReplaceLast
    <3> QED
      BY <3>2 DEF S
  <2>5. /\ v # << >> /\ \A a \in DOMAIN v : ~Serial(calls[v[a]].tool)
    <3>1. v # << >> /\ (Len(v) >= 2 => \A a \in DOMAIN v : ~Serial(calls[v[a]].tool))
      BY <2>2 DEF Planned, WavesGood
    <3>2. CASE Len(v) >= 2
      BY <3>1, <3>2
    <3>3. CASE ~(Len(v) >= 2)
      <4>1. DOMAIN v = {1}
        BY <2>3, <3>1, <3>3
      <4> QED
        BY <2>1, <3>1, <4>1
    <3> QED
      BY <3>2, <3>3
  <2>6. \A a \in DOMAIN x : (a \in DOMAIN v /\ x[a] = v[a]) \/ (a \notin DOMAIN v /\ a = Len(v) + 1 /\ x[a] = i)
    BY <2>3
  <2>7. \A a \in DOMAIN v : v[a] # i /\ v[a] \in D /\ v[a] <= i /\ calls[v[a]].state = "pending"
    BY <1>3, <2>2
  <2>8. \A a, b \in DOMAIN v : v[a] = v[b] => a = b
    BY <2>2 DEF Planned, WavesGood
  <2> HIDE DEF u, x, v
  <2>9. ASSUME NEW k \in DOMAIN u
        PROVE  /\ u[k] # << >>
               /\ \A a, b \in DOMAIN u[k] : u[k][a] = u[k][b] => a = b
               /\ Len(u[k]) >= 2 => \A a \in DOMAIN u[k] : ~Serial(calls[u[k][a]].tool)
               /\ \A a \in DOMAIN u[k] : calls[u[k][a]].state \in {"pending", "executing"} /\ u[k][a] <= i
    <3>1. CASE k # n
      <4>1. u[k] = w[k] /\ k \in DOMAIN w
        BY <2>2, <2>4, <3>1
      <4> QED
        BY <1>3, <4>1 DEF Planned, WavesGood
    <3>2. CASE k = n
      <4>1. \A a, b \in DOMAIN x : x[a] = x[b] => a = b
        BY <2>6, <2>7, <2>8
      <4>2. \A a \in DOMAIN x : /\ calls[x[a]].state \in {"pending", "executing"} /\ x[a] <= i
                                /\ ~Serial(calls[x[a]].tool)
        BY <1>1, <2>1, <2>5, <2>6, <2>7
      <4> QED
        BY <2>3, <2>4, <3>2, <4>1, <4>2
    <3> QED
      BY <3>1, <3>2
  <2>10. ASSUME NEW k \in DOMAIN u, NEW m \in DOMAIN u, NEW a \in DOMAIN u[k], NEW b \in DOMAIN u[m],
               u[k][a] = u[m][b]
        PROVE  k = m
    <3>1. \A j \in DOMAIN u : j # n => u[j] = w[j] /\ j \in DOMAIN w
      BY <2>2, <2>4
    <3>2. \A j \in DOMAIN w : j # n => \A c \in DOMAIN w[j] : \A d \in DOMAIN x : w[j][c] # x[d]
      <4> SUFFICES ASSUME NEW j \in DOMAIN w, j # n, NEW c \in DOMAIN w[j], NEW d \in DOMAIN x, w[j][c] = x[d]
                   PROVE  FALSE
        OBVIOUS
      <4>1. x[d] # i
        BY <1>3
      <4>2. d \in DOMAIN w[n] /\ x[d] = w[n][d]
        BY <2>6, <4>1 DEF v
      <4>3. \A p, q \in DOMAIN w : \A e \in DOMAIN w[p], h \in DOMAIN w[q] : w[p][e] = w[q][h] => p = q
        BY DEF Planned, WavesGood
      <4>4. n \in DOMAIN w /\ w[j][c] = w[n][d]
        BY <2>2, <4>2
      <4> HIDE DEF n
      <4> QED
        BY <4>2, <4>3, <4>4
    <3>3. CASE k = n \/ m = n
      BY <2>4, <2>10, <3>1, <3>2, <3>3
    <3>4. CASE k # n /\ m # n
      BY <2>10, <3>1, <3>4 DEF Planned, WavesGood
    <3> QED
      BY <3>3, <3>4
  <2>11. u \in Seq(Seq(DOMAIN calls))
    BY <2>4
  <2> QED
    BY <2>9, <2>10, <2>11 DEF Planned, WavesGood
<1> QED
  BY <1>5, <1>6

\* The waves stay sequences of the calls when one is added.
LEMMA WavesStaySequences ==
    ASSUME NEW D, NEW calls, NEW i \in D, NEW w \in Seq(Seq(D))
    PROVE  AddToWaves(w, i, calls) \in Seq(Seq(D))
<1> DEFINE S == Seq(D)
           n == Len(w)
<1>1. <<i>> \in S
  OBVIOUS
<1>2. CASE AddToWaves(w, i, calls) = Append(w, <<i>>)
  <2> DEFINE x == <<i>>
  <2>1. w \in Seq(S) /\ x \in S
    BY <1>1
  <2> HIDE DEF S, x
  <2>2. Append(w, x) \in Seq(S)
    BY <2>1, AppendFacts
  <2> QED
    BY <1>2, <2>2 DEF S, x
<1>3. CASE AddToWaves(w, i, calls) # Append(w, <<i>>)
  <2> DEFINE x == Append(w[n], i)
  <2>1. AddToWaves(w, i, calls) = Front(w) \o <<x>> /\ w # << >>
    BY <1>3 DEF AddToWaves, Last
  <2>2. n \in DOMAIN w
    BY <2>1
  <2>3. w[n] \in Seq(D)
    BY <2>2
  <2>4. x \in S /\ w \in Seq(S)
    <3> DEFINE v == w[n]
    <3> HIDE DEF v
    <3>1. v \in Seq(D)
      BY <2>3 DEF v
    <3>2. Append(v, i) \in Seq(D)
      BY <3>1, AppendFacts
    <3> QED
      BY <3>2 DEF v
  <2> HIDE DEF S, x
  <2> QED
    BY <2>1, <2>4, ReplaceLast DEF S
<1> QED
  BY <1>2, <1>3

\* The plan of an answer: every call in one wave, the serial ones alone.
LEMMA WavesPlanned ==
    ASSUME NEW calls \in Seq(Steps), \A j \in DOMAIN calls : calls[j].state = "pending"
    PROVE  WavesGood(PlanWaves(calls), calls) /\ (calls = << >> => PlanWaves(calls) = << >>)
<1> DEFINE N == Len(calls)
           w == [i \in DOMAIN calls |-> i]
           V == Seq(Seq(DOMAIN calls))
           H == [p \in V \X (1..N) |-> AddToWaves(p[1], w[p[2]], calls)]
           Solves(g) == g = [c \in SUBSET (1..N) |->
                               IF c = {} THEN << >> ELSE AddToWaves(g[c \ {Max(c)}], w[Max(c)], calls)]
           it == CHOOSE g : Solves(g)
<1>1. /\ N \in Nat /\ DOMAIN calls = 1..N /\ DOMAIN w = 1..N
      /\ (\A k \in 1..N : w[k] = k /\ w[k] \in DOMAIN calls) /\ << >> \in V
  OBVIOUS
<1>2. PlanWaves(calls) = it[1..N]
  BY <1>1 DEF PlanWaves, FoldLeft, MapThenFoldSet
<1>3. H \in [V \X (1..N) -> V]
  <2>1. ASSUME NEW z \in V, NEW k \in 1..N PROVE AddToWaves(z, w[k], calls) \in V
    BY <1>1, WavesStaySequences
  <2> HIDE DEF V, N
  <2> QED
    BY <2>1
<1> HIDE DEF w
<1>4. \E g : Solves(g)
  <2> HIDE DEF N, H, V
  <2>1. PICK g : Solution(V, N, << >>, H, g)
    <3>1. N \in Nat /\ << >> \in V /\ StepsIn(V, N, H)
      BY <1>1, <1>3 DEF StepsIn
    <3> QED
      BY <3>1, FoldExists
  <2>2. ASSUME NEW c \in SUBSET (1..N), c # {}
        PROVE  H[<<g[c \ {Max(c)}], Max(c)>>] = AddToWaves(g[c \ {Max(c)}], w[Max(c)], calls)
    <3>1. Max(c) \in 1..N /\ g[c \ {Max(c)}] \in V
      BY <1>1, <2>1, <2>2, MaxIsLargest DEF Solution
    <3> QED
      BY <3>1 DEF H
  <2>3. g = [c \in SUBSET (1..N) |->
               IF c = {} THEN << >> ELSE AddToWaves(g[c \ {Max(c)}], w[Max(c)], calls)]
    BY <2>1, <2>2 DEF Solution
  <2> QED
    BY <2>3
<1>5. Solves(it)
  <2> HIDE DEF Solves
  <2> QED
    BY <1>4
<1> HIDE DEF it, N
<1>6. it[{}] = << >> /\ \A k \in 1..N : it[1..k] = AddToWaves(it[1..(k - 1)], k, calls)
  <2>1. it[{}] = << >>
    BY <1>5
  <2>2. ASSUME NEW k \in 1..N PROVE it[1..k] = AddToWaves(it[1..(k - 1)], k, calls)
    <3>1. k \in Nat \ {0} /\ 1..k \in SUBSET (1..N)
      BY <1>1
    <3>2. 1..k # {} /\ Max(1..k) = k /\ (1..k) \ {k} = 1..(k - 1) /\ w[k] = k
      BY <1>1, <3>1, WholeWithoutMax
    <3>3. it[1..k] = AddToWaves(it[(1..k) \ {Max(1..k)}], w[Max(1..k)], calls)
      BY <1>5, <3>1, <3>2
    <3> QED
      BY <3>2, <3>3
  <2> QED
    BY <2>1, <2>2
<1> DEFINE P == {k \in Nat : k <= N => Planned(it[1..k], k, calls)}
<1>7. 0 \in P
  <2>1. 1..0 = {}
    OBVIOUS
  <2>2. Planned(<< >>, 0, calls)
    BY DEF Planned, WavesGood
  <2> QED
    BY <1>6, <2>1, <2>2
<1>8. ASSUME NEW k \in Nat, k \in P PROVE k + 1 \in P
  <2> SUFFICES ASSUME k + 1 <= N PROVE Planned(it[1..(k + 1)], k + 1, calls)
    OBVIOUS
  <2>1. k <= N /\ k + 1 \in 1..N /\ (k + 1) - 1 = k /\ k + 1 \in DOMAIN calls
    BY <1>1
  <2>2. Planned(it[1..k], (k + 1) - 1, calls)
    BY <1>8, <2>1
  <2>3. it[1..(k + 1)] = AddToWaves(it[1..k], k + 1, calls)
    BY <1>6, <2>1
  <2>4. Planned(AddToWaves(it[1..k], k + 1, calls), k + 1, calls)
    BY <2>1, <2>2, WaveAdded
  <2> QED
    BY <2>3, <2>4
<1> HIDE DEF P
<1>9. N \in P
  BY <1>1, <1>7, <1>8, AllNumbers
<1>10. Planned(it[1..N], N, calls)
  BY <1>1, <1>9 DEF P
<1>11. calls = << >> => it[1..N] = << >>
  <2> SUFFICES ASSUME calls = << >> PROVE it[1..N] = << >>
    OBVIOUS
  <2>1. 1..N = {}
    BY <1>1
  <2> QED
    BY <1>6, <2>1
<1> QED
  BY <1>2, <1>10, <1>11 DEF Planned

-----------------------------------------------------------------------------
(* The results of a wave *)

Settling(n) == [batch : [1..n -> Steps], board : Boards, hist : Histories, run : Runs]

\* What has become of the batch, the board, the history and the run when the
\* calls D are settled.
SettledFrom(n, s, z, D) ==
    /\ z \in Settling(n)
    /\ \A i \in 1..n : /\ z.batch[i].tool = s.batch[i].tool /\ z.batch[i].id = s.batch[i].id
                       /\ i \notin D => z.batch[i] = s.batch[i]
                       /\ i \in D => z.batch[i].state \in {"completed", "failed"}
    /\ z.hist.open = s.hist.open \ {s.batch[i].id : i \in D}
    /\ ~s.hist.broken /\ (\A i \in D : s.batch[i].id \in s.hist.open) => ~z.hist.broken
    /\ \A k : /\ Working(z.board, k) => Working(s.board, k) /\ \A i \in D : s.batch[i].id # k
              /\ Waiting(z.board, k) => Waiting(s.board, k)
    /\ z.run.pc = s.run.pc /\ z.run.stop = s.run.stop /\ z.run.task = s.run.task
    /\ z.run.direct = s.run.direct /\ z.run.steps = s.run.steps /\ z.run.replans = s.run.replans
    /\ z.run.odd = s.run.odd /\ z.run.no = s.run.no /\ z.run.mark = s.run.mark
    /\ z.run.abort \in {s.run.abort, "repeats"}

\* One call is settled: its state, its result, and the board without it.
LEMMA SettledStays ==
    ASSUME NEW n \in Nat, NEW z \in Settling(n), NEW i \in 1..n
    PROVE  LET y == Settled(z, i)
               id == z.batch[i].id IN
           /\ y \in Settling(n)
           /\ \A j \in 1..n : /\ y.batch[j].tool = z.batch[j].tool /\ y.batch[j].id = z.batch[j].id
                              /\ j # i => y.batch[j] = z.batch[j]
                              /\ j = i => y.batch[j].state \in {"completed", "failed"}
           /\ y.hist.open = z.hist.open \ {id}
           /\ y.hist.broken <=> z.hist.broken \/ id \notin z.hist.open
           /\ \A k : /\ Working(y.board, k) => Working(z.board, k) /\ k # id
                     /\ Waiting(y.board, k) => Waiting(z.board, k)
           /\ y.run.pc = z.run.pc /\ y.run.stop = z.run.stop /\ y.run.task = z.run.task
           /\ y.run.direct = z.run.direct /\ y.run.steps = z.run.steps /\ y.run.replans = z.run.replans
           /\ y.run.odd = z.run.odd /\ y.run.no = z.run.no /\ y.run.mark = z.run.mark
           /\ y.run.abort \in {z.run.abort, "repeats"}
<1> DEFINE y == Settled(z, i)
           c == z.batch[i]
           id == c.id
           ok == ~Fails(Out(i))
           state == IF ok THEN "completed" ELSE "failed"
           rep == IF ~ok THEN 0 ELSE IF z.run.last = <<c.tool, c.arg>> THEN z.run.repeats + 1 ELSE 1
           errs == IF ok THEN 0 ELSE z.run.errs + 1
           last == IF ok THEN <<c.tool, c.arg>> ELSE << >>
           abort == IF ok /\ rep >= MaxRepeats THEN "repeats" ELSE z.run.abort
           b == [z.batch EXCEPT ![i].state = state]
           r == [z.run EXCEPT !.errs = errs, !.repeats = rep, !.last = last, !.abort = abort]
           h == Replied(z.hist, {id})
           e == SeesEnd(z.board, id, state)
<1>1. /\ z.batch \in [1..n -> Steps] /\ z.board \in Boards /\ z.hist \in Histories /\ z.run \in Runs
      /\ c \in Steps /\ id \in Nat /\ c.tool \in Tools /\ c.arg \in Arguments \cup {0}
      /\ z.run.errs \in Nat /\ z.run.repeats \in Nat /\ z.run.abort \in {"no", "repeats", "deadline"}
  BY DEF Settling, Steps, Runs
<1>2. y = [batch |-> b, board |-> e, hist |-> h, run |-> r]
  BY <1>1 DEF Settled, Runs
<1>3. state \in {"completed", "failed"} /\ state \in EndStates /\ state \in States
  BY DEF EndStates, States
<1>4. rep \in Nat /\ errs \in Nat
  BY <1>1
<1>5. last \in Actions /\ abort \in {"no", "repeats", "deadline"} /\ abort \in {z.run.abort, "repeats"}
  BY <1>1 DEF Actions
<1> HIDE DEF rep, errs, last, abort, state
<1>6. /\ b \in [1..n -> Steps]
      /\ \A j \in 1..n : /\ b[j].tool = z.batch[j].tool /\ b[j].id = z.batch[j].id
                         /\ j # i => b[j] = z.batch[j]
                         /\ j = i => b[j].state = state
  <2>1. \A t \in Steps : /\ [t EXCEPT !.state = state] \in Steps
                         /\ [t EXCEPT !.state = state].tool = t.tool
                         /\ [t EXCEPT !.state = state].id = t.id
                         /\ [t EXCEPT !.state = state].state = state
    BY <1>3 DEF Steps
  <2>2. b = [z.batch EXCEPT ![i] = [z.batch[i] EXCEPT !.state = state]]
    BY <1>1
  <2> HIDE DEF b
  <2> QED
    BY <1>1, <2>1, <2>2
<1>7. /\ r \in Runs
      /\ r.pc = z.run.pc /\ r.stop = z.run.stop /\ r.task = z.run.task
      /\ r.direct = z.run.direct /\ r.steps = z.run.steps /\ r.replans = z.run.replans
      /\ r.odd = z.run.odd /\ r.no = z.run.no /\ r.mark = z.run.mark /\ r.abort = abort
  <2>1. r \in Runs
    BY <1>1, <1>4, <1>5 DEF Runs
  <2> QED
    BY <1>1, <2>1 DEF Runs
<1>8. /\ h \in Histories /\ h.open = z.hist.open \ {id}
      /\ h.broken <=> z.hist.broken \/ id \notin z.hist.open
  BY <1>1 DEF Replied, Histories
<1>9. /\ e \in Boards
      /\ \A k : /\ Working(e, k) => Working(z.board, k) /\ k # id
                /\ Waiting(e, k) => Waiting(z.board, k)
  BY <1>1, <1>3, SeesEndFacts
<1> HIDE DEF b, r, h, e, y
<1>10. y \in Settling(n) /\ y.batch = b /\ y.board = e /\ y.hist = h /\ y.run = r
  BY <1>2, <1>6, <1>7, <1>8, <1>9 DEF Settling
<1> QED
  BY <1>3, <1>5, <1>6, <1>7, <1>8, <1>9, <1>10 DEF y

\* The board after a call is settled.
LEMMA SettledBoard ==
    ASSUME NEW n \in Nat, NEW z \in Settling(n), NEW i \in 1..n, NEW k
    PROVE  /\ Working(Settled(z, i).board, k) => Working(z.board, k) /\ k # z.batch[i].id
           /\ Waiting(Settled(z, i).board, k) => Waiting(z.board, k)
<1> DEFINE y == Settled(z, i)
           id == z.batch[i].id
<1>1. \A j : /\ Working(y.board, j) => Working(z.board, j) /\ j # id
             /\ Waiting(y.board, j) => Waiting(z.board, j)
  BY SettledStays
<1> QED
  BY <1>1

\* One more call of a wave is settled.
LEMMA OneSettles ==
    ASSUME NEW n \in Nat, NEW s \in Settling(n), NEW z, NEW D \in SUBSET (1..n),
           SettledFrom(n, s, z, D), NEW i \in 1..n, i \notin D,
           \A j, k \in 1..n : s.batch[j].id = s.batch[k].id => j = k
    PROVE  SettledFrom(n, s, Settled(z, i), D \cup {i})
<1> DEFINE y == Settled(z, i)
           id == z.batch[i].id
<1>1. z \in Settling(n) /\ id = s.batch[i].id
  BY DEF SettledFrom
<1>2. /\ y \in Settling(n)
      /\ \A j \in 1..n : /\ y.batch[j].tool = z.batch[j].tool /\ y.batch[j].id = z.batch[j].id
                         /\ j # i => y.batch[j] = z.batch[j]
                         /\ j = i => y.batch[j].state \in {"completed", "failed"}
      /\ y.hist.open = z.hist.open \ {id}
      /\ y.hist.broken <=> z.hist.broken \/ id \notin z.hist.open
      /\ \A k : /\ Working(y.board, k) => Working(z.board, k) /\ k # id
                /\ Waiting(y.board, k) => Waiting(z.board, k)
      /\ y.run.pc = z.run.pc /\ y.run.stop = z.run.stop /\ y.run.task = z.run.task
      /\ y.run.direct = z.run.direct /\ y.run.steps = z.run.steps /\ y.run.replans = z.run.replans
      /\ y.run.odd = z.run.odd /\ y.run.no = z.run.no /\ y.run.mark = z.run.mark
      /\ y.run.abort \in {z.run.abort, "repeats"}
  BY <1>1, SettledStays
<1> HIDE DEF y, id
<1>3. \A j \in 1..n : /\ y.batch[j].tool = s.batch[j].tool /\ y.batch[j].id = s.batch[j].id
                      /\ j \notin D \cup {i} => y.batch[j] = s.batch[j]
                      /\ j \in D \cup {i} => y.batch[j].state \in {"completed", "failed"}
  BY <1>1, <1>2 DEF SettledFrom
<1>4. y.hist.open = s.hist.open \ {s.batch[j].id : j \in D \cup {i}}
  <2>1. {s.batch[j].id : j \in D \cup {i}} = {s.batch[j].id : j \in D} \cup {s.batch[i].id}
    OBVIOUS
  <2> QED
    BY <1>1, <1>2, <2>1 DEF SettledFrom
<1>5. ~s.hist.broken /\ (\A j \in D \cup {i} : s.batch[j].id \in s.hist.open) => ~y.hist.broken
  <2> SUFFICES ASSUME ~s.hist.broken, \A j \in D \cup {i} : s.batch[j].id \in s.hist.open
               PROVE  ~y.hist.broken
    OBVIOUS
  <2>1. ~z.hist.broken /\ z.hist.open = s.hist.open \ {s.batch[j].id : j \in D}
    BY DEF SettledFrom
  <2>2. s.batch[i].id \notin {s.batch[j].id : j \in D}
    OBVIOUS
  <2> QED
    BY <1>1, <1>2, <2>1, <2>2
<1>6. \A k : /\ Working(y.board, k) => Working(s.board, k) /\ \A j \in D \cup {i} : s.batch[j].id # k
             /\ Waiting(y.board, k) => Waiting(s.board, k)
  BY <1>1, <1>2 DEF SettledFrom
<1>7. /\ y.run.pc = s.run.pc /\ y.run.stop = s.run.stop /\ y.run.task = s.run.task
      /\ y.run.direct = s.run.direct /\ y.run.steps = s.run.steps /\ y.run.replans = s.run.replans
      /\ y.run.odd = s.run.odd /\ y.run.no = s.run.no /\ y.run.mark = s.run.mark
      /\ y.run.abort \in {s.run.abort, "repeats"}
  BY <1>1, <1>2 DEF SettledFrom
<1>8. SettledFrom(n, s, y, D \cup {i})
  BY <1>2, <1>3, <1>4, <1>5, <1>6, <1>7 DEF SettledFrom
<1> QED
  BY <1>8 DEF y

\* The calls of a wave are settled in their order.
LEMMA WaveSettles ==
    ASSUME NEW n \in Nat, NEW s \in Settling(n), NEW w \in Seq(1..n),
           \A j, k \in 1..n : s.batch[j].id = s.batch[k].id => j = k,
           \A j, k \in DOMAIN w : w[j] = w[k] => j = k
    PROVE  SettledFrom(n, s, FoldLeft(Settled, s, w), {w[k] : k \in DOMAIN w})
<1> DEFINE N == Len(w)
           V == Settling(n)
           H == [p \in V \X (1..N) |-> Settled(p[1], w[p[2]])]
           Solves(g) == g = [c \in SUBSET (1..N) |->
                               IF c = {} THEN s ELSE Settled(g[c \ {Max(c)}], w[Max(c)])]
           it == CHOOSE g : Solves(g)
<1>1. N \in Nat /\ DOMAIN w = 1..N /\ (\A k \in 1..N : w[k] \in 1..n) /\ s \in V
  OBVIOUS
<1>2. FoldLeft(Settled, s, w) = it[1..N]
  BY <1>1 DEF FoldLeft, MapThenFoldSet
<1>3. H \in [V \X (1..N) -> V]
  <2>1. ASSUME NEW z \in V, NEW k \in 1..N PROVE Settled(z, w[k]) \in V
    BY <1>1, SettledStays
  <2> HIDE DEF V, N
  <2> QED
    BY <2>1
<1>4. \E g : Solves(g)
  <2> HIDE DEF N, H, V
  <2>1. PICK g : Solution(V, N, s, H, g)
    <3>1. N \in Nat /\ s \in V /\ StepsIn(V, N, H)
      BY <1>1, <1>3 DEF StepsIn
    <3> QED
      BY <3>1, FoldExists
  <2>2. ASSUME NEW c \in SUBSET (1..N), c # {}
        PROVE  H[<<g[c \ {Max(c)}], Max(c)>>] = Settled(g[c \ {Max(c)}], w[Max(c)])
    <3>1. Max(c) \in 1..N /\ g[c \ {Max(c)}] \in V
      BY <1>1, <2>1, <2>2, MaxIsLargest DEF Solution
    <3> QED
      BY <3>1 DEF H
  <2>3. g = [c \in SUBSET (1..N) |-> IF c = {} THEN s ELSE Settled(g[c \ {Max(c)}], w[Max(c)])]
    BY ZenonT(40), <2>1, <2>2 DEF Solution
  <2> QED
    BY <2>3
<1>5. Solves(it)
  <2> HIDE DEF Solves
  <2> QED
    BY <1>4
<1> HIDE DEF it, N
<1>6. it[{}] = s /\ \A k \in 1..N : it[1..k] = Settled(it[1..(k - 1)], w[k])
  <2>1. it[{}] = s
    BY <1>5
  <2>2. ASSUME NEW k \in 1..N PROVE it[1..k] = Settled(it[1..(k - 1)], w[k])
    <3>1. k \in Nat \ {0} /\ 1..k \in SUBSET (1..N)
      BY <1>1
    <3>2. 1..k # {} /\ Max(1..k) = k /\ (1..k) \ {k} = 1..(k - 1)
      BY <3>1, WholeWithoutMax
    <3> QED
      BY <1>5, <3>1, <3>2
  <2> QED
    BY <2>1, <2>2
<1> DEFINE D(k) == {w[j] : j \in 1..k}
           P == {k \in Nat : k <= N => SettledFrom(n, s, it[1..k], D(k))}
<1>7. 0 \in P
  <2>1. 1..0 = {} /\ D(0) = {}
    OBVIOUS
  <2>2. SettledFrom(n, s, s, {})
    BY DEF SettledFrom, Settling
  <2> QED
    BY <1>6, <2>1, <2>2
<1>8. ASSUME NEW k \in Nat, k \in P PROVE k + 1 \in P
  <2> SUFFICES ASSUME k + 1 <= N PROVE SettledFrom(n, s, it[1..(k + 1)], D(k + 1))
    OBVIOUS
  <2>1. k <= N /\ k + 1 \in 1..N /\ (k + 1) - 1 = k
    <3>1. N \in Nat
      BY <1>1
    <3> QED
      BY <3>1, SMTT(30)
  <2>2. SettledFrom(n, s, it[1..k], D(k)) /\ D(k) \in SUBSET (1..n) /\ w[k + 1] \in 1..n
    BY <1>1, <1>8, <2>1
  <2>3. it[1..(k + 1)] = Settled(it[1..k], w[k + 1])
    BY <1>6, <2>1
  <2>4. D(k + 1) = D(k) \cup {w[k + 1]}
    <3>1. 1..(k + 1) = (1..k) \cup {k + 1}
      BY <2>1
    <3> QED
      BY <3>1
  <2>5. w[k + 1] \notin D(k)
    <3>1. \A j \in 1..k : j \in DOMAIN w /\ k + 1 \in DOMAIN w /\ j # k + 1
      BY <1>1, <2>1
    <3> QED
      BY <3>1
  <2> HIDE DEF D
  <2>6. SettledFrom(n, s, Settled(it[1..k], w[k + 1]), D(k) \cup {w[k + 1]})
    BY <2>2, <2>5, OneSettles
  <2> QED
    BY <2>3, <2>4, <2>6
<1> HIDE DEF P
<1>9. N \in P
  BY <1>1, <1>7, <1>8, AllNumbers
<1>10. SettledFrom(n, s, it[1..N], D(N))
  BY <1>1, <1>9 DEF P
<1> QED
  BY <1>1, <1>2, <1>10

-----------------------------------------------------------------------------
(* What the actions have in common *)

\* Between batches there is nothing to be wrong with one.
LEMMA BetweenShape ==
    ASSUME Types', run'.pc \in Between, batch' = << >>, todo' = << >>, live' = << >>, plan' = "first",
           run'.pc \in {"loop", "model", "backoff"} => ~run'.direct /\ run'.abort = "no",
           run'.pc = "model" /\ run'.stop => run'.odd
    PROVE  Shape'
<1>1. WavesGood(todo', batch')
  BY DEF WavesGood
<1>2. run'.pc \notin {"tools", "settle", "open", "gate", "denied", "wave"}
  BY DEF Between
<1>3. /\ \A i, j \in DOMAIN batch' : batch'[i].id = batch'[j].id => i = j
      /\ \A i \in DOMAIN batch' : batch'[i].id <= count'.call
      /\ \A i \in DOMAIN live' : live'[i].obj <= ledger'.made /\ Open(ledger', live'[i].obj)
      /\ run'.pc \notin {"open", "gate"}
  BY <1>2
<1> QED
  BY <1>1, <1>2, <1>3 DEF Shape

\* finishRunTask, but for what it tells.
LEMMA RunFinishes ==
    ASSUME Types, NEW r \in Runs, r.steps <= count.maxSteps, r.replans <= MaxReplans, r.task <= count.task,
           NEW l, LedgerGood(l), NEW b \in Boards, NEW h \in Histories, FinishRunTask(r, l, b, h)
    PROVE  /\ Basic'
           /\ Ended' /\ run'.task = r.task /\ run'.odd = r.odd /\ run'.no \in {r.no, r.no + 1}
           /\ hist' = h /\ board' = b /\ batch' = << >> /\ live' = << >> /\ ~run'.stop
           /\ ledger' = SettleTask(l, r.task, r.outcome = "stopped", r.abort = "deadline")
           /\ LedgerGood(ledger') /\ GrowsTo(l, ledger') /\ count'.task = count.task
           /\ r.task # NoTask => \A id \in ObjectivesOf(ledger', r.task) : Terminal(ledger'.objs[id])
<1>1. /\ ledger' = SettleTask(l, r.task, r.outcome = "stopped", r.abort = "deadline")
      /\ hist' = h /\ board' = b /\ batch' = << >> /\ todo' = << >> /\ live' = << >> /\ plan' = "first"
      /\ run' = IF count.waiting > 0 THEN StartRun(r)
                ELSE [NoRun EXCEPT !.task = r.task, !.no = r.no, !.odd = r.odd]
      /\ count' = [count EXCEPT !.call = 0, !.waiting = IF @ > 0 THEN @ - 1 ELSE 0]
  BY DEF FinishRunTask
<1>2. r.task \in Nat /\ r.no \in Nat /\ r.odd \in BOOLEAN /\ r.steps \in Nat
  BY DEF Runs
<1>3. /\ LedgerGood(ledger') /\ GrowsTo(l, ledger')
      /\ r.task # NoTask => \A id \in ObjectivesOf(ledger', r.task) : Terminal(ledger'.objs[id])
  BY <1>1, <1>2, SettleKeeps
<1>4. /\ count \in [task : Nat, call : Nat, waiting : Nat, sent : Nat, maxSteps : Nat]
      /\ count.waiting \in Nat /\ count.maxSteps \in Nat
  BY DEF Types
<1>5. /\ count' \in [task : Nat, call : Nat, waiting : Nat, sent : Nat, maxSteps : Nat]
      /\ count'.task = count.task /\ count'.maxSteps = count.maxSteps
  <2> DEFINE w == IF count.waiting > 0 THEN count.waiting - 1 ELSE 0
  <2>1. w \in Nat /\ count' = [count EXCEPT !.call = 0, !.waiting = w]
    BY <1>1, <1>4
  <2> HIDE DEF w
  <2> QED
    BY <1>4, <2>1
<1>6. /\ NoRun \in Runs /\ NoRun.pc = "idle" /\ NoRun.replans = 0 /\ NoRun.steps = 0 /\ ~NoRun.direct
      /\ ~NoRun.stop
  BY DEF NoRun, Runs, Controls, Ends, Actions, Histories, NoHistory, NoTask
<1>7. /\ run' \in Runs /\ Ended' /\ run'.task = r.task /\ run'.odd = r.odd
      /\ run'.no \in {r.no, r.no + 1} /\ run'.steps <= count.maxSteps /\ run'.replans <= MaxReplans
      /\ ~run'.stop
  <2>1. CASE count.waiting > 0
    <3> DEFINE n == r.no + 1
    <3>1. n \in Nat /\ run' = [r EXCEPT !.pc = "start", !.outcome = "completed", !.direct = FALSE,
                                        !.stop = FALSE, !.stopped = FALSE, !.no = n]
      BY <1>1, <1>2, <2>1 DEF StartRun
    <3> HIDE DEF n
    <3>2. run' \in Runs
      BY <3>1 DEF Runs, Controls, Ends
    <3>3. /\ run'.pc = "start" /\ run'.task = r.task /\ run'.odd = r.odd /\ run'.no = n
          /\ run'.steps = r.steps /\ run'.replans = r.replans /\ ~run'.stop
      BY <3>1 DEF Runs
    <3> QED
      BY <3>2, <3>3 DEF Ended, n
  <2>2. CASE ~(count.waiting > 0)
    <3> DEFINE q == NoRun
    <3>1. run' = [q EXCEPT !.task = r.task, !.no = r.no, !.odd = r.odd]
      BY <1>1, <2>2
    <3> HIDE DEF q
    <3>2. run' \in Runs
      BY <1>2, <1>6, <3>1 DEF Runs, q
    <3>3. /\ run'.pc = "idle" /\ run'.task = r.task /\ run'.odd = r.odd /\ run'.no = r.no
          /\ run'.steps = 0 /\ run'.replans = 0 /\ ~run'.stop
      BY <1>6, <3>1 DEF Runs, q
    <3> QED
      BY <1>4, <3>2, <3>3, BudgetsAssumption DEF Ended
  <2> QED
    BY <2>1, <2>2
<1>8. live' \in Lives
  <2>1. live' \in [{} -> Bodies] /\ {} \in SUBSET Nat
    BY <1>1
  <2> QED
    BY <2>1 DEF Lives, Partial
<1>9. Types'
  BY <1>1, <1>3, <1>5, <1>7, <1>8 DEF Types
<1>10. Basic'
  BY <1>1, <1>7, <1>9, BetweenShape DEF Basic, Ended, Between
<1> QED
  BY <1>1, <1>3, <1>5, <1>7, <1>10

\* What a step does that starts the calls D of the batch, and none other.
Begins(D) ==
    /\ batch' \in Seq(Steps) /\ DOMAIN batch' = DOMAIN batch /\ Len(batch') = Len(batch)
    /\ \A i \in DOMAIN batch :
         /\ batch'[i].tool = batch[i].tool /\ batch'[i].id = batch[i].id
         /\ batch'[i] = batch[i] \/ (i \in D /\ batch'[i].state = "executing")
    /\ live' \in Lives /\ DOMAIN live' = D
    /\ \A i \in D : live'[i].obj <= ledger'.made /\ Open(ledger', live'[i].obj)
    /\ LedgerGood(ledger') /\ RecordsTo(ledger, ledger') /\ board' \in Boards
    /\ \A k : /\ Working(board', k) => Working(board, k) \/ \E i \in D : batch[i].id = k
              /\ Waiting(board', k) => Waiting(board, k) /\ \A i \in D : batch[i].id # k
    /\ run' \in Runs /\ run'.pc \in {"tools", "settle"} /\ run'.task = run.task /\ run'.no = run.no
    /\ run'.direct = run.direct /\ run'.steps = run.steps /\ run'.replans = run.replans
    /\ run'.stop = run.stop /\ run'.odd = run.odd /\ run'.abort = run.abort /\ run'.mark = run.mark

\* A wave that starts: what has become of the calls, the ledger, the board, the run.
LEMMA WaveBegins ==
    ASSUME Basic, todo # << >>, StartCalls(Wave, batch, ledger, board)
    PROVE  Begins({Wave[k] : k \in DOMAIN Wave})
<1> DEFINE n == Len(batch)
           s == [batch |-> batch, ledger |-> ledger, board |-> board, live |-> << >>]
           z == FoldLeft(Started, s, Wave)
           D == {Wave[k] : k \in DOMAIN Wave}
           pc == IF \E i \in DOMAIN z.live : z.live[i].out = "running" THEN "tools" ELSE "settle"
<1>1. /\ batch \in Seq(Steps) /\ n \in Nat /\ DOMAIN batch = 1..n /\ batch \in [1..n -> Steps]
      /\ LedgerGood(ledger) /\ ledger \in Ledgers /\ board \in Boards /\ run \in Runs
  BY DEF Basic, Types, LedgerGood
<1>2. Wave \in Seq(1..n)
  <2>1. todo \in Seq(Seq(DOMAIN batch))
    BY DEF Basic, Shape, WavesGood
  <2> QED
    BY <1>1, <2>1 DEF Wave
<1>3. << >> \in Lives
  <2>1. << >> \in [{} -> Bodies] /\ {} \in SUBSET Nat
    OBVIOUS
  <2> QED
    BY <2>1 DEF Lives, Partial
<1>4. s \in Starting(n) /\ LedgerGood(s.ledger)
  BY <1>1, <1>3 DEF Starting
<1>5. /\ batch' = z.batch /\ ledger' = z.ledger /\ board' = z.board /\ live' = z.live
      /\ run' = [run EXCEPT !.pc = pc]
  BY DEF StartCalls
<1> HIDE DEF z
<1>6. StartedFrom(n, s, z, D)
  <2> HIDE DEF s, n
  <2> QED
    BY <1>1, <1>2, <1>4, CallsStart DEF z
<1>7. /\ run' \in Runs /\ run'.pc \in {"tools", "settle"} /\ run'.task = run.task /\ run'.no = run.no
      /\ run'.direct = run.direct /\ run'.steps = run.steps /\ run'.replans = run.replans
      /\ run'.stop = run.stop /\ run'.odd = run.odd /\ run'.abort = run.abort /\ run'.mark = run.mark
  <2>1. pc \in {"tools", "settle"}
    OBVIOUS
  <2> HIDE DEF pc
  <2>2. run' \in Runs
    BY <1>1, <1>5, <2>1 DEF Runs, Controls
  <2> QED
    BY <1>1, <1>5, <2>1, <2>2 DEF Runs
<1>8. batch' \in [1..n -> Steps] /\ live' \in Lives /\ board' \in Boards /\ LedgerGood(ledger')
  BY <1>5, <1>6 DEF StartedFrom, Starting
<1>9. batch' \in Seq(Steps) /\ DOMAIN batch' = DOMAIN batch /\ Len(batch') = Len(batch)
  BY <1>1, <1>8
<1>10. /\ CurrentIn(ledger) <= ledger.made /\ CurrentIn(ledger) \in Nat
       /\ Open(ledger, CurrentIn(ledger)) /\ ledger.made \in Nat /\ ledger'.made \in Nat
  BY <1>1, <1>8, OthersKeep DEF LedgerGood, Ledgers
<1>11. /\ DOMAIN live' = D /\ \A i \in D : live'[i].obj = CurrentIn(ledger)
       /\ RecordsTo(ledger, ledger') /\ DOMAIN ledger'.objs = DOMAIN ledger.objs
  BY <1>5, <1>6 DEF StartedFrom
<1>12. \A i \in D : live'[i].obj <= ledger'.made /\ Open(ledger', live'[i].obj)
  BY <1>10, <1>11 DEF Open, RecordsTo, GrowsTo
<1>13. \A i \in DOMAIN batch :
         /\ batch'[i].tool = batch[i].tool /\ batch'[i].id = batch[i].id
         /\ batch'[i] = batch[i] \/ (i \in D /\ batch'[i].state = "executing")
  BY <1>1, <1>5, <1>6 DEF StartedFrom
<1>14. \A k : /\ Working(board', k) => Working(board, k) \/ \E i \in D : batch[i].id = k
              /\ Waiting(board', k) => Waiting(board, k) /\ \A i \in D : batch[i].id # k
  BY <1>5, <1>6 DEF StartedFrom
<1> QED
  BY <1>7, <1>8, <1>9, <1>11, <1>12, <1>13, <1>14 DEF Begins

-----------------------------------------------------------------------------
(* The ends of a run *)

\* A run closes with nothing shown at work and, if nothing odd happened to it,
\* with a history that is complete.
ClosesWith(r, l, b, h) ==
    /\ FinishRunTask(r, l, b, h)
    /\ r \in Runs /\ r.steps <= count.maxSteps /\ r.replans <= MaxReplans
    /\ r.task = run.task /\ r.odd = run.odd /\ r.no = run.no
    /\ b \in Boards /\ h \in Histories /\ LedgerGood(l) /\ RecordsTo(ledger, l)
    /\ ShownInv => \A id : ~Working(b, id) /\ ~Waiting(b, id)
    /\ HistoryInv /\ ~run.odd => ~h.broken /\ h.open = {}
Closes == \E r, l, b, h : ClosesWith(r, l, b, h)

\* A run with its outcome is a run like it.
LEMMA RunEndsAs ==
    ASSUME NEW r \in Runs, NEW outcome \in Ends
    PROVE  /\ \A q \in {[r EXCEPT !.outcome = outcome], [r EXCEPT !.errs = 0]} :
                /\ q \in Runs /\ q.steps = r.steps /\ q.replans = r.replans
                /\ q.task = r.task /\ q.odd = r.odd /\ q.no = r.no
<1>1. [r EXCEPT !.outcome = outcome] \in Runs
  BY DEF Runs
<1>2. [r EXCEPT !.errs = 0] \in Runs
  BY DEF Runs
<1>4. \A q \in {[r EXCEPT !.outcome = outcome], [r EXCEPT !.errs = 0]} :
        /\ q.steps = r.steps /\ q.replans = r.replans
        /\ q.task = r.task /\ q.odd = r.odd /\ q.no = r.no
  BY DEF Runs
<1> QED
  BY <1>1, <1>2, <1>4

\* An answer without calls leaves nothing open in the history.
LEMMA SaidFacts ==
    ASSUME NEW h \in Histories
    PROVE  /\ Said(h) \in Histories /\ Said(h).open = {}
           /\ ~h.broken /\ h.open = {} => ~Said(h).broken
BY DEF Histories, Said

\* Answers and results in the history.
LEMMA HistoryFacts ==
    ASSUME NEW h \in Histories, NEW ids \in SUBSET Nat
    PROVE  /\ Said(h) \in Histories /\ Said(h).open = {}
           /\ ~h.broken /\ h.open = {} => ~Said(h).broken
           /\ Asked(h, ids) \in Histories /\ Asked(h, ids).open = ids
           /\ ~h.broken /\ h.open = {} => ~Asked(h, ids).broken
           /\ Replied(h, ids) \in Histories /\ Replied(h, ids).open = h.open \ ids
           /\ ~h.broken /\ ids \subseteq h.open => ~Replied(h, ids).broken
BY DEF Histories, Said, Asked, Replied

\* Between batches nothing is in flight, and the history has nothing open.
LEMMA BetweenFacts ==
    ASSUME Basic, run.pc \in Between
    PROVE  /\ batch = << >> /\ todo = << >> /\ live = << >> /\ plan = "first" /\ Unsettled(batch) = {}
           /\ ShownInv => \A id : ~Working(board, id) /\ ~Waiting(board, id)
           /\ HistoryInv /\ ~run.odd => ~hist.broken /\ hist.open = {}
           /\ HistoryInv /\ ~run.odd => ~Said(hist).broken /\ Said(hist).open = {}
<1>1. batch = << >> /\ todo = << >> /\ live = << >> /\ plan = "first" /\ run.pc \notin {"gate", "denied"}
  BY DEF Basic, Shape, Between
<1>2. Unsettled(batch) = {}
  BY <1>1 DEF Unsettled
<1>3. hist \in Histories
  BY DEF Basic, Types
<1>4. HistoryInv /\ ~run.odd => ~hist.broken /\ hist.open = {}
  BY <1>2 DEF HistoryInv
<1>5. HistoryInv /\ ~run.odd => ~Said(hist).broken /\ Said(hist).open = {}
  BY <1>3, <1>4, SaidFacts
<1> QED
  BY <1>1, <1>2, <1>4, <1>5 DEF ShownInv

\* A run that ends between batches closes.
LEMMA ClosesBetween ==
    ASSUME Basic, run.pc \in Between, NEW r \in Runs, NEW h \in {hist, Said(hist)},
           r.steps = run.steps /\ r.replans = run.replans /\ r.task = run.task /\ r.odd = run.odd /\ r.no = run.no,
           FinishRunTask(r, ledger, board, h)
    PROVE  Closes
<1>1. /\ LedgerGood(ledger) /\ hist \in Histories /\ board \in Boards /\ {} \in SUBSET Nat
      /\ run.steps <= count.maxSteps /\ run.replans <= MaxReplans
  BY DEF Basic, Types
<1>2. RecordsTo(ledger, ledger)
  BY <1>1, ReflexiveGrowth
<1>3. /\ ShownInv => \A id : ~Working(board, id) /\ ~Waiting(board, id)
      /\ HistoryInv /\ ~run.odd => ~h.broken /\ h.open = {}
  BY BetweenFacts
<1>4. h \in Histories
  BY <1>1, SaidFacts
<1>5. ClosesWith(r, ledger, board, h)
  BY <1>1, <1>2, <1>3, <1>4 DEF ClosesWith
<1> QED
  BY <1>5 DEF Closes

\* A run without a provider closes.
LEMMA RouteBlockedCloses == ASSUME Basic, RouteBlocked PROVE Closes
<1> DEFINE r == [run EXCEPT !.outcome = "no-provider"]
<1>1. run \in Runs /\ "no-provider" \in Ends
  BY DEF Basic, Types, Ends, Runs
<1>2. r \in Runs /\ r.steps = run.steps /\ r.replans = run.replans /\ r.task = run.task /\ r.odd = run.odd
      /\ r.no = run.no
  BY <1>1, RunEndsAs
<1>3. run.pc \in Between /\ FinishRunTask(r, ledger, board, hist)
  BY DEF RouteBlocked, Between
<1> QED
  BY <1>2, <1>3, ClosesBetween

\* A run at its step limit, its deadline or a stop closes.
LEMMA LoopStepCloses == ASSUME Basic, LoopStep, ~MayGoOn PROVE Closes
<1> DEFINE abort == IF run.abort = "no" /\ DeadlinePassed THEN "deadline" ELSE run.abort
           r == [run EXCEPT !.abort = abort, !.outcome = "step-limit"]
<1>1. run \in Runs /\ "step-limit" \in Ends /\ abort \in {"no", "repeats", "deadline"}
  BY DEF Basic, Types, Ends, Runs
<1>2. run.pc \in Between /\ FinishRunTask(r, ledger, board, Said(hist))
  BY DEF LoopStep, Between
<1> HIDE DEF abort
<1>4. r \in Runs
  BY <1>1 DEF Runs
<1>3. r \in Runs /\ r.steps = run.steps /\ r.replans = run.replans /\ r.task = run.task /\ r.odd = run.odd
      /\ r.no = run.no
  BY <1>1, <1>4 DEF Runs
<1> QED
  BY <1>2, <1>3, ClosesBetween

\* A run closes with the answer of the model.
LEMMA ModelAnswersCloses == ASSUME Basic, ModelAnswers PROVE Closes
<1> DEFINE r == [run EXCEPT !.errs = 0]
<1>1. run \in Runs /\ "error" \in Ends
  BY DEF Basic, Types, Ends, Runs
<1>2. r \in Runs /\ r.steps = run.steps /\ r.replans = run.replans /\ r.task = run.task /\ r.odd = run.odd
      /\ r.no = run.no
  BY <1>1, RunEndsAs
<1>3. run.pc \in Between /\ FinishRunTask(r, ledger, board, Said(hist))
  BY DEF ModelAnswers, Between
<1> QED
  BY <1>2, <1>3, ClosesBetween

\* A run that a provider's errors end closes.
LEMMA ModelFailsCloses ==
    ASSUME Basic, NEW transient \in BOOLEAN, ModelFails(transient), ~(transient /\ run.errs + 1 < MaxErrors)
    PROVE  Closes
<1> DEFINE r == [run EXCEPT !.outcome = "error"]
<1>1. run \in Runs /\ "error" \in Ends
  BY DEF Basic, Types, Ends, Runs
<1>2. r \in Runs /\ r.steps = run.steps /\ r.replans = run.replans /\ r.task = run.task /\ r.odd = run.odd
      /\ r.no = run.no
  BY <1>1, RunEndsAs
<1>3. run.pc \in Between /\ FinishRunTask(r, ledger, board, hist)
  BY DEF ModelFails, Between
<1> QED
  BY <1>2, <1>3, ClosesBetween

\* The first of the waves.
LEMMA WaveFacts ==
    ASSUME Basic, todo # << >>
    PROVE  /\ Wave \in Seq(DOMAIN batch) /\ Wave # << >> /\ DOMAIN Wave = 1..Len(Wave) /\ Len(Wave) \in Nat \ {0}
           /\ 1 \in DOMAIN Wave /\ Wave[1] \in DOMAIN batch /\ DOMAIN batch = 1..Len(batch) /\ Len(batch) \in Nat
           /\ batch \in [1..Len(batch) -> Steps]
           /\ Call \in Steps /\ Call.id \in Nat /\ Call.tool \in Tools /\ Call.state \in {"pending", "executing"}
           /\ \A j, k \in DOMAIN Wave : Wave[j] = Wave[k] => j = k
           /\ \A k \in DOMAIN Wave : /\ Wave[k] \in DOMAIN batch
                                     /\ batch[Wave[k]].state \in {"pending", "executing"}
           /\ ~Single => \A k \in DOMAIN Wave : ~Serial(batch[Wave[k]].tool)
           /\ Single => DOMAIN Wave = {1}
<1>1. /\ batch \in Seq(Steps) /\ todo \in Seq(Seq(DOMAIN batch)) /\ 1 \in DOMAIN todo /\ Wave = todo[1]
  BY DEF Basic, Types, Shape, WavesGood, Wave
<1>2. /\ Wave \in Seq(DOMAIN batch) /\ Wave # << >>
      /\ \A j, k \in DOMAIN Wave : Wave[j] = Wave[k] => j = k
      /\ \A k \in DOMAIN Wave : batch[Wave[k]].state \in {"pending", "executing"}
      /\ Len(Wave) >= 2 => \A k \in DOMAIN Wave : ~Serial(batch[Wave[k]].tool)
  BY <1>1 DEF Basic, Shape, WavesGood
<1>3. /\ DOMAIN Wave = 1..Len(Wave) /\ Len(Wave) \in Nat \ {0} /\ 1 \in DOMAIN Wave
      /\ \A k \in DOMAIN Wave : Wave[k] \in DOMAIN batch
  BY <1>2
<1>4. DOMAIN batch = 1..Len(batch) /\ Len(batch) \in Nat /\ batch \in [1..Len(batch) -> Steps]
  BY <1>1
<1>5. /\ Call \in Steps /\ Call.id \in Nat /\ Call.tool \in Tools /\ Call.state \in {"pending", "executing"}
  BY <1>2, <1>3, <1>4 DEF Call, Steps
<1>6. (Single => DOMAIN Wave = {1}) /\ (~Single => Len(Wave) >= 2)
  BY <1>3 DEF Single
<1> QED
  BY <1>2, <1>3, <1>4, <1>5, <1>6

\* The calls without a result; a direct task has one.
LEMMA UnsettledFacts ==
    ASSUME Basic
    PROVE  /\ Unsettled(batch) \in SUBSET Nat
           /\ \A i \in DOMAIN batch : batch[i].state \in {"pending", "executing"} => batch[i].id \in Unsettled(batch)
           /\ run.direct /\ run.pc \notin Between /\ plan = "first" => Unsettled(batch) = {batch[1].id}
<1>1. batch \in Seq(Steps)
  BY DEF Basic, Types
<1>2. \A i \in DOMAIN batch : batch[i].id \in Nat
  <2>1. \A i \in DOMAIN batch : batch[i] \in Steps
    BY <1>1
  <2> QED
    BY <2>1 DEF Steps
<1>3. ASSUME run.direct, run.pc \notin Between, plan = "first" PROVE Unsettled(batch) = {batch[1].id}
  <2>1. todo = <<<<1>>>> /\ Len(batch) = 1
    BY <1>3 DEF Basic, Shape
  <2>2. todo # << >> /\ Wave[1] = 1
    BY <2>1 DEF Wave
  <2>3. DOMAIN batch = {1} /\ batch[1].state \in {"pending", "executing"}
    BY <2>1, <2>2, WaveFacts DEF Call
  <2> QED
    BY <2>3 DEF Unsettled
<1> QED
  BY <1>2, <1>3 DEF Unsettled

\* A direct task that is denied closes.
LEMMA DeniedCloses ==
    ASSUME Basic, run.pc \in {"gate", "denied"}, run.direct, Denied(ledger, board)
    PROVE  Closes
<1> DEFINE h == Replied(hist, {Call.id})
           d == RecordDenied(ledger, ObjectiveId)
           a == SeesEnd(board, Call.id, "skipped")
           r == [run EXCEPT !.outcome = "denied"]
<1>1. FinishRunTask(r, d, a, Said(h))
  BY DEF Denied
<1>2. /\ run.pc \notin Between /\ todo = <<<<1>>>> /\ plan = "first" /\ live = << >> /\ todo # << >> /\ Wave[1] = 1
  BY DEF Basic, Shape, Between, Wave
<1>3. Call.id \in Nat /\ Call.id = batch[1].id
  BY <1>2, WaveFacts DEF Call
<1>4. /\ run \in Runs /\ "denied" \in Ends /\ LedgerGood(ledger) /\ hist \in Histories /\ board \in Boards
      /\ run.steps <= count.maxSteps /\ run.replans <= MaxReplans
  BY DEF Basic, Types, Ends
<1>5. LedgerGood(d) /\ RecordsTo(ledger, d)
  BY <1>4, OthersKeep, RecordDeniedKeeps DEF ObjectiveId
<1>6. r \in Runs /\ r.steps = run.steps /\ r.replans = run.replans /\ r.task = run.task /\ r.odd = run.odd
      /\ r.no = run.no
  BY <1>4, RunEndsAs
<1>7. /\ a \in Boards
      /\ \A k : /\ Working(a, k) => Working(board, k) /\ k # Call.id
                /\ Waiting(a, k) => Waiting(board, k) /\ k # Call.id
  BY <1>3, <1>4, SeesEndFacts DEF EndStates
<1>8. {Call.id} \in SUBSET Nat
  BY <1>3
<1>9. h \in Histories /\ h.open = hist.open \ {Call.id} /\ (~hist.broken /\ {Call.id} \subseteq hist.open => ~h.broken)
  BY <1>4, <1>8, HistoryFacts
<1> HIDE DEF h, d, a, r
<1>10. Said(h) \in Histories /\ Said(h).open = {} /\ (~h.broken /\ h.open = {} => ~Said(h).broken)
  BY <1>9, SaidFacts
<1>11. HistoryInv /\ ~run.odd => ~Said(h).broken /\ Said(h).open = {}
  <2> SUFFICES ASSUME HistoryInv, ~run.odd PROVE ~Said(h).broken
    BY <1>10
  <2>1. ~hist.broken /\ hist.open = {Call.id}
    BY <1>2, <1>3, UnsettledFacts DEF HistoryInv
  <2> QED
    BY <1>9, <1>10, <2>1
<1>12. ShownInv => \A id : ~Working(a, id) /\ ~Waiting(a, id)
  BY <1>2, <1>7 DEF ShownInv
<1>13. ClosesWith(r, d, a, Said(h))
  BY <1>1, <1>4, <1>5, <1>6, <1>7, <1>10, <1>11, <1>12 DEF ClosesWith
<1> QED
  BY <1>13 DEF Closes

\* A direct task that is done closes.
LEMMA SettleDirectCloses ==
    ASSUME Basic, SettleDirect, ~Fails(Out(1))
    PROVE  Closes
<1> DEFINE n == Len(batch)
           z == Here
           s == Settled(z, 1)
           r == [s.run EXCEPT !.outcome = "completed"]
<1>1. FinishRunTask(r, ledger, s.board, Said(s.hist)) /\ run.pc = "settle" /\ run.direct /\ plan # "observe"
  BY DEF SettleDirect
<1>2. /\ run.pc \notin Between /\ todo = <<<<1>>>> /\ todo # << >> /\ Wave = <<1>> /\ Wave[1] = 1
      /\ DOMAIN live = Flying
  BY <1>1 DEF Basic, Shape, Between, Wave
<1>3. n \in Nat /\ 1 \in 1..n /\ DOMAIN batch = 1..n /\ batch \in [1..n -> Steps] /\ batch[1].state \in {"pending", "executing"}
  BY <1>2, WaveFacts DEF Call
<1>4. /\ run \in Runs /\ "completed" \in Ends /\ LedgerGood(ledger) /\ hist \in Histories /\ board \in Boards
      /\ run.steps <= count.maxSteps /\ run.replans <= MaxReplans
  BY DEF Basic, Types, Ends
<1>5. z \in Settling(n) /\ z.batch = batch /\ z.board = board /\ z.hist = hist /\ z.run = run
  BY <1>3, <1>4 DEF Here, Settling
<1> HIDE DEF z
<1>6. /\ s \in Settling(n) /\ s.hist.open = hist.open \ {batch[1].id}
      /\ s.hist.broken <=> hist.broken \/ batch[1].id \notin hist.open
      /\ \A k : /\ Working(s.board, k) => Working(board, k) /\ k # batch[1].id
                /\ Waiting(s.board, k) => Waiting(board, k)
      /\ s.run.task = run.task /\ s.run.steps = run.steps /\ s.run.replans = run.replans
      /\ s.run.odd = run.odd /\ s.run.no = run.no
  <2> HIDE DEF n
  <2>1. /\ s \in Settling(n) /\ s.hist.open = z.hist.open \ {z.batch[1].id}
        /\ s.hist.broken <=> z.hist.broken \/ z.batch[1].id \notin z.hist.open
        /\ \A k : /\ Working(s.board, k) => Working(z.board, k) /\ k # z.batch[1].id
                  /\ Waiting(s.board, k) => Waiting(z.board, k)
        /\ s.run.task = z.run.task /\ s.run.steps = z.run.steps /\ s.run.replans = z.run.replans
        /\ s.run.odd = z.run.odd /\ s.run.no = z.run.no
    <3> DEFINE y == Settled(z, 1)
    <3>1. n \in Nat /\ z \in Settling(n) /\ 1 \in 1..n
      BY <1>3, <1>5
    <3>2. /\ y \in Settling(n) /\ y.hist.open = z.hist.open \ {z.batch[1].id}
          /\ y.hist.broken <=> z.hist.broken \/ z.batch[1].id \notin z.hist.open
          /\ y.run.task = z.run.task /\ y.run.steps = z.run.steps /\ y.run.replans = z.run.replans
          /\ y.run.odd = z.run.odd /\ y.run.no = z.run.no
      BY <3>1, SettledStays
    <3>3. \A k : /\ Working(y.board, k) => Working(z.board, k) /\ k # z.batch[1].id
                 /\ Waiting(y.board, k) => Waiting(z.board, k)
      <4> TAKE k
      <4>1. Working(y.board, k) => Working(z.board, k) /\ k # z.batch[1].id
        BY <3>1, SettledBoard
      <4>2. Waiting(y.board, k) => Waiting(z.board, k)
        BY <3>1, SettledBoard
      <4> QED
        BY <4>1, <4>2
    <3> HIDE DEF y
    <3> QED
      BY <3>2, <3>3 DEF s, y
  <2> QED
    BY <1>5, <2>1
<1> HIDE DEF s
<1>7. s.run \in Runs /\ s.hist \in Histories /\ s.board \in Boards
  BY <1>6 DEF Settling
<1>8. r \in Runs /\ r.steps = run.steps /\ r.replans = run.replans /\ r.task = run.task /\ r.odd = run.odd
      /\ r.no = run.no
  <2> DEFINE q == s.run
  <2>1. q \in Runs
    BY <1>7
  <2> HIDE DEF q
  <2>2. LET p == [q EXCEPT !.outcome = "completed"] IN
        p \in Runs /\ p.steps = q.steps /\ p.replans = q.replans /\ p.task = q.task /\ p.odd = q.odd /\ p.no = q.no
    BY <1>4, <2>1, RunEndsAs
  <2> QED
    BY <1>6, <2>2 DEF q
<1>9. Said(s.hist) \in Histories /\ Said(s.hist).open = {} /\ (~s.hist.broken /\ s.hist.open = {} => ~Said(s.hist).broken)
  BY <1>7, SaidFacts
<1>10. HistoryInv /\ ~run.odd => ~Said(s.hist).broken /\ Said(s.hist).open = {}
  <2> SUFFICES ASSUME HistoryInv, ~run.odd PROVE ~Said(s.hist).broken
    BY <1>9
  <2>1. plan = "first"
    BY DEF Basic, Shape
  <2>2. ~hist.broken /\ hist.open = {batch[1].id}
    BY <1>1, <1>2, <2>1, UnsettledFacts DEF HistoryInv
  <2> QED
    BY <1>6, <1>9, <2>2
<1>11. ShownInv => \A id : ~Working(s.board, id) /\ ~Waiting(s.board, id)
  <2> SUFFICES ASSUME ShownInv, NEW id PROVE ~Working(s.board, id) /\ ~Waiting(s.board, id)
    OBVIOUS
  <2>1. ~Waiting(s.board, id)
    BY <1>1, <1>6 DEF ShownInv
  <2>2. ASSUME Working(board, id) PROVE id = batch[1].id
    <3>1. PICK i \in DOMAIN live : batch[i].id = id /\ (plan \in {"again", "failed"} => i # Len(batch))
      BY <2>2 DEF ShownInv
    <3>2. plan \in {"first", "again", "failed"}
      BY <1>1 DEF Basic, Types
    <3>3. i \in {Wave[k] : k \in DOMAIN Wave}
      BY <1>2, <3>1, <3>2 DEF Flying
    <3> QED
      BY <1>2, <3>1, <3>3
  <2> QED
    BY <1>6, <2>1, <2>2
<1>12. RecordsTo(ledger, ledger)
  BY <1>4, ReflexiveGrowth
<1> HIDE DEF r
<1>13. ClosesWith(r, ledger, s.board, Said(s.hist))
  BY <1>1, <1>4, <1>7, <1>8, <1>9, <1>10, <1>11, <1>12 DEF ClosesWith, r
<1> QED
  BY <1>13 DEF Closes

\* The calls that never ran get their end.
LEMMA NeverRanEnds ==
    ASSUME Basic, run.pc = "wave"
    PROVE  LET ids == {batch[i].id : i \in Never}
               b == [id \in DOMAIN board \cup ids |->
                       IF id \in ids THEN AtEnd(OnBoard(board, id), "skipped") ELSE board[id]]
               h == Replied(hist, ids) IN
           /\ b \in Boards /\ h \in Histories
           /\ ShownInv => \A id : ~Working(b, id) /\ ~Waiting(b, id)
           /\ HistoryInv /\ ~run.odd => ~h.broken /\ h.open = {}
<1> DEFINE ids == {batch[i].id : i \in Never}
           b == [id \in DOMAIN board \cup ids |->
                   IF id \in ids THEN AtEnd(OnBoard(board, id), "skipped") ELSE board[id]]
           h == Replied(hist, ids)
<1>1. ids = Unsettled(batch) /\ ids \in SUBSET Nat
  <2>1. ids = Unsettled(batch)
    BY DEF Unsettled, Never
  <2> QED
    BY <2>1, UnsettledFacts
<1> HIDE DEF ids
<1>2. hist \in Histories /\ board \in Boards /\ live = << >>
  BY DEF Basic, Types, Shape
<1>3. h \in Histories /\ h.open = hist.open \ ids /\ (~hist.broken /\ ids \subseteq hist.open => ~h.broken)
  BY <1>1, <1>2, HistoryFacts
<1>4. HistoryInv /\ ~run.odd => ~h.broken /\ h.open = {}
  BY <1>1, <1>3 DEF HistoryInv
<1>5. \A id \in DOMAIN board : board[id] \in Marks /\ id \in Nat
  BY <1>2, PartialIs DEF Boards
<1>6. \A id : LET m == AtEnd(OnBoard(board, id), "skipped") IN
        /\ m \in Marks /\ m.worker \in {"none", "skipped"} /\ m.line \in {"none", "skipped"}
  <2> TAKE id
  <2>1. OnBoard(board, id) \in Marks
    BY <1>2, MarkIs
  <2> QED
    BY <2>1 DEF AtEnd, Marks
<1>7. /\ DOMAIN b = DOMAIN board \cup ids
      /\ \A id \in DOMAIN b : IF id \in ids THEN b[id] = AtEnd(OnBoard(board, id), "skipped")
                                            ELSE id \in DOMAIN board /\ b[id] = board[id]
      /\ b = [id \in DOMAIN b |-> b[id]]
  OBVIOUS
<1> HIDE DEF b, h
<1>8. b \in Boards
  <2>1. \A id \in DOMAIN b : b[id] \in Marks
    BY <1>5, <1>6, <1>7
  <2>2. b \in [DOMAIN b -> Marks] /\ DOMAIN b \subseteq Nat
    BY <1>1, <1>5, <1>7, <2>1
  <2> QED
    BY <2>2, PartialIs DEF Boards
<1>9. ShownInv => \A id : ~Working(b, id) /\ ~Waiting(b, id)
  <2> SUFFICES ASSUME ShownInv, NEW id PROVE ~Working(b, id) /\ ~Waiting(b, id)
    OBVIOUS
  <2>1. ~Working(board, id) /\ ~Waiting(board, id)
    BY <1>2 DEF ShownInv
  <2> QED
    BY <1>6, <1>7, <2>1 DEF Working, Waiting
<1> QED
  BY <1>3, <1>4, <1>8, <1>9 DEF b, h, ids

\* A run that was stopped or aborted closes with its batch.
LEMMA EndBatchCloses ==
    ASSUME Basic, EndBatch, run.stop \/ run.abort # "no"
    PROVE  Closes
<1> DEFINE ids == {batch[i].id : i \in Never}
           b == [id \in DOMAIN board \cup ids |->
                   IF id \in ids THEN AtEnd(OnBoard(board, id), "skipped") ELSE board[id]]
           h == Replied(hist, ids)
           r == [run EXCEPT !.outcome = "stopped"]
<1>1. run.pc = "wave"
  BY DEF EndBatch
<1>2. /\ b \in Boards /\ h \in Histories
      /\ ShownInv => \A id : ~Working(b, id) /\ ~Waiting(b, id)
      /\ HistoryInv /\ ~run.odd => ~h.broken /\ h.open = {}
  BY <1>1, NeverRanEnds
<1>3. FinishRunTask(r, ledger, b, Said(h)) \/ FinishRunTask(r, ledger, SeesIdle(b), h)
  BY DEF EndBatch
<1> HIDE DEF ids, b, h
<1>4. /\ run \in Runs /\ "stopped" \in Ends /\ LedgerGood(ledger)
      /\ run.steps <= count.maxSteps /\ run.replans <= MaxReplans
  BY DEF Basic, Types, Ends
<1>5. r \in Runs /\ r.steps = run.steps /\ r.replans = run.replans /\ r.task = run.task /\ r.odd = run.odd
      /\ r.no = run.no
  BY <1>4, RunEndsAs
<1> HIDE DEF r
<1>6. RecordsTo(ledger, ledger)
  BY <1>4, ReflexiveGrowth
<1>7. Said(h) \in Histories /\ Said(h).open = {} /\ (~h.broken /\ h.open = {} => ~Said(h).broken)
  BY <1>2, SaidFacts
<1>8. /\ SeesIdle(b) \in Boards
      /\ \A k : (Working(SeesIdle(b), k) => Working(b, k)) /\ ~Waiting(SeesIdle(b), k)
  BY <1>2, SeesIdleFacts
<1>9. CASE FinishRunTask(r, ledger, b, Said(h))
  <2>1. ClosesWith(r, ledger, b, Said(h))
    BY <1>2, <1>4, <1>5, <1>6, <1>7, <1>9 DEF ClosesWith
  <2> QED
    BY <2>1 DEF Closes
<1>10. CASE FinishRunTask(r, ledger, SeesIdle(b), h)
  <2>1. ClosesWith(r, ledger, SeesIdle(b), h)
    BY <1>2, <1>4, <1>5, <1>6, <1>8, <1>10 DEF ClosesWith
  <2> QED
    BY <2>1 DEF Closes
<1> QED
  BY <1>3, <1>9, <1>10

-----------------------------------------------------------------------------
(* What most steps leave as it is *)

\* The whole invariant.
Inv == Basic /\ ShownInv /\ GrantsInv /\ HistoryInv /\ ResultsInv

\* A run at another control point is a run like it.
LEMMA GoesTo ==
    ASSUME NEW r \in Runs, NEW pc \in Controls
    PROVE  LET q == [r EXCEPT !.pc = pc] IN
           /\ q \in Runs /\ q.pc = pc /\ q.task = r.task /\ q.direct = r.direct /\ q.steps = r.steps
           /\ q.errs = r.errs /\ q.abort = r.abort /\ q.stop = r.stop /\ q.replans = r.replans
           /\ q.mark = r.mark /\ q.no = r.no /\ q.odd = r.odd
<1> DEFINE q == [r EXCEPT !.pc = pc]
<1>1. q \in Runs
  BY DEF Runs
<1>2. /\ q.pc = pc /\ q.task = r.task /\ q.direct = r.direct /\ q.steps = r.steps
      /\ q.errs = r.errs /\ q.abort = r.abort /\ q.stop = r.stop /\ q.replans = r.replans
      /\ q.mark = r.mark /\ q.no = r.no /\ q.odd = r.odd
  BY DEF Runs
<1> QED
  BY <1>1, <1>2

\* Approvals are remembered, the task is the same or a new one.
LEMMA GrantsKept ==
    ASSUME GrantsInv, Types, grants' \subseteq grants, given \subseteq given',
           count'.task \in Nat, count.task <= count'.task,
           \/ run'.task = NoTask \/ run'.task > count.task
           \/ run'.task = run.task /\ (Ended \/ (run'.no = run.no /\ ~Ended'))
    PROVE  GrantsInv'
<1>1. count.task \in Nat
  BY DEF Types
<1>2. ASSUME NEW g \in grants'
      PROVE  /\ g \in [tool : Tools, scope : {"task", "session"}, task : Nat]
             /\ g.scope = "session" => g.task = NoTask
             /\ g.task <= count'.task /\ g.task <= count.task /\ g.task \in Nat
             /\ g.task = NoTask => \E a \in given' : a.tool = g.tool /\ a.for = <<"all">>
             /\ g.task # NoTask /\ g.task = run.task =>
                  ~Ended /\ \E a \in given' : a.tool = g.tool /\ a.for \in {<<"run", run.no>>, <<"all">>}
  <2>1. g \in grants /\ g \in [tool : Tools, scope : {"task", "session"}, task : Nat]
    BY DEF GrantsInv
  <2>2. /\ g.scope = "session" => g.task = NoTask
        /\ g.task <= count.task /\ g.task \in Nat
        /\ g.task = NoTask => \E a \in given : a.tool = g.tool /\ a.for = <<"all">>
        /\ g.task # NoTask /\ g.task = run.task =>
             ~Ended /\ \E a \in given : a.tool = g.tool /\ a.for \in {<<"run", run.no>>, <<"all">>}
    BY <2>1 DEF GrantsInv
  <2>3. g.task <= count'.task
    BY <1>1, <2>2
  <2> QED
    BY <2>1, <2>2, <2>3
<1>3. ASSUME NEW g \in grants', g.task # NoTask, g.task = run'.task
      PROVE  ~Ended' /\ \E a \in given' : a.tool = g.tool /\ a.for \in {<<"run", run'.no>>, <<"all">>}
  <2>1. ~(run'.task > count.task)
    BY <1>1, <1>2, <1>3
  <2> QED
    BY <1>2, <1>3, <2>1
<1> QED
  BY <1>2, <1>3 DEF GrantsInv

\* The results told stay as they were when nothing is told.
LEMMA ResultsKept ==
    ASSUME ResultsInv, told' = told, GrowsTo(ledger, ledger'),
           Ended' /\ run'.task # NoTask =>
             Ended /\ run'.task = run.task /\ DOMAIN ledger'.objs = DOMAIN ledger.objs
    PROVE  ResultsInv'
<1>1. ASSUME NEW i \in DOMAIN told'
      PROVE  LET id == told'[i].id IN
             /\ id \in DOMAIN ledger'.objs /\ Terminal(ledger'.objs[id])
             /\ ledger'.objs[id].status = told'[i].verdict
  BY DEF ResultsInv, GrowsTo
<1>2. ASSUME Ended', run'.task # NoTask
      PROVE  \A id \in ObjectivesOf(ledger', run'.task) : Told(id)'
  <2>1. ObjectivesOf(ledger', run'.task) = ObjectivesOf(ledger, run.task)
    BY <1>2 DEF ObjectivesOf, GrowsTo
  <2> QED
    BY <1>2, <2>1 DEF ResultsInv, Told
<1> QED
  BY <1>1, <1>2 DEF ResultsInv

\* The history stays complete while it, the calls and the run stay.
LEMMA HistoryKept ==
    ASSUME HistoryInv, hist' = hist, Unsettled(batch') = Unsettled(batch), run.odd => run'.odd,
           run'.direct /\ run'.pc \notin Between =>
             run.direct /\ run.pc \notin Between /\ run'.mark = run.mark /\ run'.task = run.task
    PROVE  HistoryInv'
BY DEF HistoryInv

\* A board that shows nothing at work is as it should be.
LEMMA NothingShown ==
    ASSUME \A id : ~Working(board', id) /\ ~Waiting(board', id)
    PROVE  ShownInv'
BY DEF ShownInv

\* What is at work is in flight as before.
LEMMA ShownKept ==
    ASSUME ShownInv, run.pc \notin {"gate", "denied"},
           \A id : (Working(board', id) => Working(board, id)) /\ (Waiting(board', id) => Waiting(board, id)),
           DOMAIN live \subseteq DOMAIN live',
           \A i \in DOMAIN live : batch'[i].id = batch[i].id,
           Len(batch') = Len(batch), plan' \in {"again", "failed"} => plan \in {"again", "failed"}
    PROVE  ShownInv'
<1>1. \A id : ~Waiting(board', id)
  BY DEF ShownInv
<1>2. ASSUME NEW id, Working(board', id)
      PROVE  \E i \in DOMAIN live' : batch'[i].id = id /\ (plan' \in {"again", "failed"} => i # Len(batch'))
  <2>1. PICK i \in DOMAIN live : batch[i].id = id /\ (plan \in {"again", "failed"} => i # Len(batch))
    BY <1>2 DEF ShownInv
  <2> QED
    BY <2>1
<1> QED
  BY <1>1, <1>2 DEF ShownInv

\* A step between batches that starts none.
LEMMA BetweenKeeps ==
    ASSUME Inv, Types', run.pc \in Between, run'.pc \in Between,
           batch' = batch, todo' = todo, live' = live, plan' = plan, told' = told, grants' = grants, given' = given,
           ledger' = ledger, board' \in {board, << >>},
           run'.odd = run.odd,
           \/ run'.task = run.task /\ (Ended \/ (run'.no = run.no /\ ~Ended')) /\ count'.task = count.task
           \/ run'.task > count.task /\ count'.task = run'.task /\ ~Ended',
           hist' \in {hist, Said(hist)},
           run'.pc \in {"loop", "model", "backoff"} => ~run'.direct /\ run'.abort = "no",
           Ended' => Ended, run'.pc = "model" /\ run'.stop => run'.odd
    PROVE  Inv'
<1>1. batch = << >> /\ todo = << >> /\ live = << >> /\ plan = "first" /\ Unsettled(batch) = {}
  BY BetweenFacts DEF Inv
<1>2. Shape'
  BY <1>1, BetweenShape
<1>3. LedgerGood(ledger) /\ count.task \in Nat /\ count'.task \in Nat /\ run'.task \in Nat
  BY DEF Inv, Basic, Types, Runs
<1>4. GrantsInv'
  <2>1. count.task <= count'.task /\ Types
    BY <1>3 DEF Inv, Basic
  <2> QED
    BY <1>3, <2>1, GrantsKept DEF Inv
<1>5. GrowsTo(ledger, ledger')
  BY <1>3, ReflexiveGrowth
<1>6. ResultsInv'
  BY <1>5, ResultsKept DEF Inv
<1>7. ShownInv'
  <2>1. \A id : ~Working(board, id) /\ ~Waiting(board, id)
    BY BetweenFacts DEF Inv
  <2>2. \A id : ~Working(<< >>, id) /\ ~Waiting(<< >>, id)
    BY DEF Working, Waiting
  <2> QED
    BY <2>1, <2>2, NothingShown
<1>8. HistoryInv'
  <2>1. ~run.odd => (~hist.broken /\ hist.open = {}) /\ (~Said(hist).broken /\ Said(hist).open = {})
    BY BetweenFacts DEF Inv
  <2> QED
    BY <1>1, <2>1 DEF HistoryInv
<1> QED
  BY <1>2, <1>4, <1>6, <1>7, <1>8 DEF Inv, Basic

-----------------------------------------------------------------------------
(* The steps between batches *)

\* The run of a new task.
LEMMA BegunFacts ==
    ASSUME Types, NEW pc \in Controls, NEW direct \in BOOLEAN
    PROVE  LET q == Begun(run, pc, direct) IN
           /\ q \in Runs /\ q.pc = pc /\ q.task = count.task + 1 /\ q.direct = direct /\ q.abort = "no"
           /\ ~q.stop /\ q.replans = 0 /\ q.steps <= count.maxSteps /\ q.mark = hist
           /\ q.no = run.no /\ q.odd = run.odd
<1> DEFINE t == count.task + 1
           n == IF direct THEN run.steps ELSE 0
           q == Begun(run, pc, direct)
<1>1. /\ run \in Runs /\ hist \in Histories /\ t \in Nat /\ n \in Nat /\ n <= count.maxSteps
  BY DEF Types, Runs
<1>2. q = [run EXCEPT !.pc = pc, !.task = t, !.direct = direct, !.errs = 0, !.repeats = 0,
             !.last = << >>, !.abort = "no", !.stop = FALSE, !.replans = 0, !.steps = n, !.mark = hist]
  BY <1>1 DEF Begun, Runs
<1> HIDE DEF t, n, q
<1>3. q \in Runs
  BY <1>1, <1>2 DEF Runs, Actions
<1>4. /\ q.pc = pc /\ q.task = t /\ q.direct = direct /\ q.abort = "no"
      /\ ~q.stop /\ q.replans = 0 /\ q.steps = n /\ q.mark = hist
      /\ q.no = run.no /\ q.odd = run.odd
  BY <1>1, <1>2 DEF Runs
<1> QED
  BY <1>1, <1>3, <1>4 DEF t, q

\* The counters are naturals, and one of them may change.
LEMMA CountFacts ==
    ASSUME Types
    PROVE  /\ count.task \in Nat /\ count.call \in Nat /\ count.waiting \in Nat /\ count.sent \in Nat
           /\ count.maxSteps \in Nat
           /\ \A n \in Nat :
                /\ LET c == [count EXCEPT !.task = n] IN
                   /\ c \in [task : Nat, call : Nat, waiting : Nat, sent : Nat, maxSteps : Nat]
                   /\ c.task = n /\ c.call = count.call /\ c.maxSteps = count.maxSteps
                /\ LET c == [count EXCEPT !.call = n] IN
                   /\ c \in [task : Nat, call : Nat, waiting : Nat, sent : Nat, maxSteps : Nat]
                   /\ c.call = n /\ c.task = count.task /\ c.maxSteps = count.maxSteps
                /\ LET c == [count EXCEPT !.sent = n] IN
                   /\ c \in [task : Nat, call : Nat, waiting : Nat, sent : Nat, maxSteps : Nat]
                   /\ c.call = count.call /\ c.task = count.task /\ c.maxSteps = count.maxSteps
                /\ \A m \in Nat : LET c == [count EXCEPT !.task = n, !.call = m] IN
                   /\ c \in [task : Nat, call : Nat, waiting : Nat, sent : Nat, maxSteps : Nat]
                   /\ c.task = n /\ c.call = m /\ c.maxSteps = count.maxSteps
                /\ \A m \in Nat : LET c == [count EXCEPT !.waiting = m, !.sent = n] IN
                   /\ c \in [task : Nat, call : Nat, waiting : Nat, sent : Nat, maxSteps : Nat]
                   /\ c.task = count.task /\ c.call = count.call /\ c.maxSteps = count.maxSteps
                /\ \A m \in Nat : LET c == [count EXCEPT !.sent = n, !.waiting = m] IN
                   /\ c \in [task : Nat, call : Nat, waiting : Nat, sent : Nat, maxSteps : Nat]
                   /\ c.task = count.task /\ c.call = count.call /\ c.maxSteps = count.maxSteps
BY DEF Types

\* A task without a direct action goes to the routing.
LEMMA BeginRoutingKeeps == ASSUME Inv, BeginRouting PROVE Inv'
<1>1. run.pc = "start" /\ run' = [run EXCEPT !.pc = "routing"] /\ board' = << >>
      /\ UNCHANGED <<batch, todo, live, plan, ledger, told, hist, grants, given, count>>
  BY DEF BeginRouting
<1>2. run \in Runs /\ "routing" \in Controls /\ Types
  BY DEF Inv, Basic, Types, Controls
<1>3. /\ run' \in Runs /\ run'.pc = "routing" /\ run'.task = run.task /\ run'.direct = run.direct
      /\ run'.steps = run.steps /\ run'.replans = run.replans /\ run'.no = run.no /\ run'.odd = run.odd
  BY <1>1, <1>2, GoesTo
<1>4. << >> \in Boards
  <2>1. << >> \in [{} -> Marks] /\ {} \in SUBSET Nat
    OBVIOUS
  <2> QED
    BY <2>1 DEF Boards, Partial
<1>5. Types'
  BY <1>1, <1>2, <1>3, <1>4 DEF Types
<1> QED
  BY <1>1, <1>3, <1>5, BetweenKeeps DEF Between, Ended

\* A task with a model goes to the loop.
LEMMA BeginLoopKeeps == ASSUME Inv, BeginLoop PROVE Inv'
<1> DEFINE t == count.task + 1
<1>1. run.pc = "routing" /\ run' = Begun(run, "loop", FALSE) /\ count' = [count EXCEPT !.task = t]
      /\ hist' = Said(hist)
      /\ UNCHANGED <<batch, todo, live, plan, ledger, told, grants, board, given>>
  BY DEF BeginLoop
<1>2. Types /\ "loop" \in Controls /\ hist \in Histories
  BY DEF Inv, Basic, Types, Controls
<1>3. /\ run' \in Runs /\ run'.pc = "loop" /\ run'.task = t /\ ~run'.direct /\ run'.abort = "no"
      /\ run'.replans = 0 /\ run'.steps <= count.maxSteps /\ run'.no = run.no /\ run'.odd = run.odd
  BY <1>1, <1>2, BegunFacts
<1>4. t \in Nat /\ t > count.task /\ t <= t
  <2>1. count.task \in Nat
    BY <1>2, CountFacts
  <2> QED
    BY <2>1
<1>5. /\ count' \in [task : Nat, call : Nat, waiting : Nat, sent : Nat, maxSteps : Nat]
      /\ count'.task = t /\ count'.maxSteps = count.maxSteps
  BY <1>1, <1>2, <1>4, CountFacts
<1> HIDE DEF t
<1>6. Said(hist) \in Histories
  BY <1>2, SaidFacts
<1>7. Types'
  <2>1. run'.replans <= MaxReplans /\ run'.task <= count'.task
    BY <1>3, <1>4, <1>5, BudgetsAssumption
  <2> QED
    BY <1>1, <1>2, <1>3, <1>5, <1>6, <2>1 DEF Types
<1> QED
  BY <1>1, <1>3, <1>4, <1>5, <1>7, BetweenKeeps DEF Between, Ended

\* The loop goes on, pauses after an error of the model, and goes on again.
LEMMA LoopKeeps ==
    ASSUME Inv,
           \/ LoopStep /\ MayGoOn
           \/ BackoffEnds
           \/ \E transient \in BOOLEAN : ModelFails(transient) /\ transient /\ run.errs + 1 < MaxErrors
    PROVE  Inv'
<1>1. /\ run.pc \in {"loop", "backoff", "model"}
      /\ UNCHANGED <<batch, todo, live, plan, ledger, told, hist, grants, board, given, count>>
      /\ \/ run' = [run EXCEPT !.pc = "model", !.steps = @ + 1] /\ run.steps < MaxSteps /\ ~run.stop
         \/ run' = [run EXCEPT !.pc = "loop"]
         \/ run' = [run EXCEPT !.pc = "backoff", !.errs = @ + 1]
  BY DEF LoopStep, MayGoOn, BackoffEnds, ModelFails
<1>2. run \in Runs /\ Types /\ run.steps \in Nat /\ run.errs \in Nat /\ count.maxSteps \in Nat
  BY DEF Inv, Basic, Types, Runs
<1>3. ~run.direct /\ run.abort = "no"
  BY <1>1 DEF Inv, Basic, Shape
<1>4. /\ run' \in Runs /\ run'.pc \in {"loop", "backoff", "model"} /\ run'.task = run.task
      /\ run'.steps <= count.maxSteps /\ run'.replans = run.replans /\ run'.no = run.no /\ run'.odd = run.odd
      /\ run'.direct = run.direct /\ run'.abort = run.abort /\ (run'.pc = "model" => ~run'.stop)
  <2>1. CASE run' = [run EXCEPT !.pc = "loop"]
    <3>1. "loop" \in Controls
      BY DEF Controls
    <3> QED
      BY <1>2, <2>1, <3>1, GoesTo DEF Types
  <2>2. CASE run' = [run EXCEPT !.pc = "model", !.steps = @ + 1] /\ run.steps < MaxSteps /\ ~run.stop
    <3> DEFINE n == run.steps + 1
    <3>1. run' = [run EXCEPT !.pc = "model", !.steps = n] /\ n \in Nat /\ n <= count.maxSteps
      BY <1>2, <2>2 DEF MaxSteps
    <3> HIDE DEF n
    <3>2. run' \in Runs
      BY <1>2, <3>1 DEF Runs, Controls
    <3>3. /\ run'.pc = "model" /\ run'.task = run.task /\ run'.steps = n /\ run'.stop = run.stop
          /\ run'.replans = run.replans /\ run'.no = run.no /\ run'.odd = run.odd
          /\ run'.direct = run.direct /\ run'.abort = run.abort
      BY <1>2, <3>1 DEF Runs
    <3> QED
      BY <2>2, <3>1, <3>2, <3>3
  <2>3. CASE run' = [run EXCEPT !.pc = "backoff", !.errs = @ + 1]
    <3> DEFINE n == run.errs + 1
    <3>1. run' = [run EXCEPT !.pc = "backoff", !.errs = n] /\ n \in Nat
      BY <1>2, <2>3
    <3> HIDE DEF n
    <3>2. run' \in Runs
      BY <1>2, <3>1 DEF Runs, Controls
    <3>3. /\ run'.pc = "backoff" /\ run'.task = run.task /\ run'.steps = run.steps
          /\ run'.replans = run.replans /\ run'.no = run.no /\ run'.odd = run.odd
          /\ run'.direct = run.direct /\ run'.abort = run.abort
      BY <1>2, <3>1 DEF Runs
    <3> QED
      BY <1>2, <3>2, <3>3 DEF Types
  <2> QED
    BY <1>1, <2>1, <2>2, <2>3
<1>5. Types'
  BY <1>1, <1>2, <1>4 DEF Types
<1> QED
  BY <1>1, <1>3, <1>4, <1>5, BetweenKeeps DEF Between, Ended

-----------------------------------------------------------------------------
(* A run closes *)

\* The sequence of a set with at most one member.
LEMMA OneToSeq ==
    ASSUME NEW x
    PROVE  SetToSeq({}) = << >> /\ SetToSeq({x}) = <<x>>
<1>1. Cardinality({}) = 0 /\ Cardinality({x}) = 1
  BY FS_EmptySet, FS_Singleton
<1>2. SetToSeq({}) = << >>
  <2> DEFINE F == {f \in [1..0 -> {}] : IsInjective(f)}
  <2>1. 1..0 = {} /\ << >> \in F
    BY DEF IsInjective
  <2>2. \A f \in F : f = << >>
    BY <2>1
  <2>3. SetToSeq({}) = CHOOSE f \in [1..0 -> {}] : IsInjective(f)
    BY <1>1 DEF SetToSeq
  <2> DEFINE c == CHOOSE f \in [1..0 -> {}] : IsInjective(f)
  <2>4. c \in F
    BY <2>1
  <2> QED
    BY <2>2, <2>3, <2>4
<1>3. SetToSeq({x}) = <<x>>
  <2> DEFINE F == {f \in [1..1 -> {x}] : IsInjective(f)}
  <2>1. 1..1 = {1} /\ <<x>> \in F
    BY DEF IsInjective
  <2>2. \A f \in F : f = <<x>>
    <3> TAKE f \in F
    <3>1. f \in [1..1 -> {x}] /\ f[1] = x
      OBVIOUS
    <3> QED
      BY <3>1
  <2>3. SetToSeq({x}) = CHOOSE f \in [1..1 -> {x}] : IsInjective(f)
    BY <1>1 DEF SetToSeq
  <2> DEFINE c == CHOOSE f \in [1..1 -> {x}] : IsInjective(f)
  <2>4. c \in F
    BY <2>1
  <2> QED
    BY <2>2, <2>3, <2>4
<1> QED
  BY <1>2, <1>3

\* The results of a task that were not told before.
NewsOf(l, task) ==
    {[id |-> id, verdict |-> l.objs[id].status] : id \in {i \in ResultOf(l, task) : ~Told(i)}}

\* The end of a run tells them, as its ledger has them.
LEMMA FinishSettles ==
    ASSUME NEW r, NEW l, NEW b, NEW h, FinishRunTask(r, l, b, h)
    PROVE  ledger' = SettleTask(l, r.task, r.outcome = "stopped", r.abort = "deadline")
  BY DEF FinishRunTask

LEMMA FinishTells ==
    ASSUME NEW r, NEW l, NEW b, NEW h, FinishRunTask(r, l, b, h)
    PROVE  told' = told \o SetToSeq(NewsOf(ledger', r.task))
<1>1. told' = told \o SetToSeq(NewsOf(SettleTask(l, r.task, r.outcome = "stopped", r.abort = "deadline"), r.task))
  BY DEF FinishRunTask, NewsOf
<1> QED
  BY <1>1, FinishSettles

LEMMA AppendOne == ASSUME NEW T, NEW s \in Seq(T), NEW x \in T PROVE s \o <<x>> = Append(s, x)
  OBVIOUS

\* The end of a run tells what is settled and was not told.
LEMMA ResultsTold ==
    ASSUME ResultsInv, NEW r \in Runs, NEW l, LedgerGood(l), RecordsTo(ledger, l), NEW b, NEW h,
           FinishRunTask(r, l, b, h), LedgerGood(ledger'), GrowsTo(l, ledger'), run'.task = r.task,
           ledger' = SettleTask(l, r.task, r.outcome = "stopped", r.abort = "deadline"),
           r.task # NoTask => \A id \in ObjectivesOf(ledger', r.task) : Terminal(ledger'.objs[id])
    PROVE  ResultsInv'
<1> DEFINE task == r.task
           news == {id \in ResultOf(ledger', task) : ~Told(id)}
           records == {[id |-> id, verdict |-> ledger'.objs[id].status] : id \in news}
           T == [id : Nat, verdict : Verdicts]
<1>1. told' = told \o SetToSeq(records) /\ told \in Seq(T)
  <2>1. told' = told \o SetToSeq(records)
    BY FinishTells DEF NewsOf
  <2> QED
    BY <2>1 DEF ResultsInv
<1>2. ASSUME NEW i \in DOMAIN told
      PROVE  LET id == told[i].id IN
             /\ id \in DOMAIN ledger'.objs /\ Terminal(ledger'.objs[id])
             /\ ledger'.objs[id].status = told[i].verdict
  <2> DEFINE id == told[i].id
  <2>1. id \in DOMAIN ledger.objs /\ Terminal(ledger.objs[id]) /\ ledger.objs[id].status = told[i].verdict
    BY DEF ResultsInv
  <2> HIDE DEF id
  <2>2. id \in DOMAIN l.objs /\ l.objs[id] = ledger.objs[id]
    BY <2>1 DEF RecordsTo, GrowsTo
  <2>3. id \in DOMAIN ledger'.objs /\ ledger'.objs[id] = l.objs[id]
    BY <2>1, <2>2 DEF GrowsTo
  <2> QED
    BY <2>1, <2>2, <2>3 DEF id
<1>3. \A id \in news : /\ id \in DOMAIN ledger'.objs /\ Terminal(ledger'.objs[id]) /\ ~Told(id)
                       /\ ledger'.objs[id].task = task /\ ledger'.objs[id].status \in Verdicts /\ id \in Nat
  <2> TAKE id \in news
  <2>1. /\ id \in DOMAIN ledger'.objs /\ Terminal(ledger'.objs[id]) /\ ~Told(id)
        /\ ledger'.objs[id].task = task
    BY DEF ResultOf, ObjectivesOf
  <2>2. ledger'.objs[id] \in Objectives /\ id \in Nat
    BY <2>1, PartialIs DEF LedgerGood, Ledgers
  <2>3. ledger'.objs[id].status \in Verdicts
    BY <2>1, <2>2 DEF Objectives, Terminal
  <2> QED
    BY <2>1, <2>2, <2>3
<1>4. \A id, k \in news : id = k
  <2> SUFFICES ASSUME NEW id \in news, NEW k \in news PROVE id = k
    OBVIOUS
  <2>1. task # NoTask
    BY <1>3 DEF LedgerGood, ObjectiveGood
  <2> QED
    BY <1>3, <2>1 DEF LedgerGood
<1>5. task # NoTask => \A id \in ObjectivesOf(ledger', task) : Told(id) \/ id \in news
  BY DEF ResultOf
<1> HIDE DEF news
<1>6. CASE news = {}
  <2>1. records = {}
    BY <1>6
  <2>2. told' = told
    <3>1. SetToSeq(records) = << >>
      BY <2>1, OneToSeq
    <3>2. told \o << >> = told
      BY <1>1, ConcatEmptySeq
    <3> QED
      BY <1>1, <3>1, <3>2
  <2>3. \A id : Told(id)' <=> Told(id)
    BY <2>2 DEF Told
  <2> QED
    BY <1>2, <1>5, <1>6, <2>2, <2>3 DEF ResultsInv
<1>7. CASE news # {}
  <2>1. PICK id : id \in news
    BY <1>7
  <2> DEFINE x == [id |-> id, verdict |-> ledger'.objs[id].status]
             n == Len(told) + 1
  <2>2. records = {x}
    <3>1. news = {id}
      BY <1>4, <2>1
    <3> QED
      BY <3>1
  <2>3. x \in T /\ x.id = id /\ x.verdict = ledger'.objs[id].status
    BY <1>3, <2>1
  <2> HIDE DEF x, T
  <2>4. told' = Append(told, x)
    <3>1. SetToSeq(records) = <<x>>
      BY <2>2, OneToSeq
    <3>2. told \o <<x>> = Append(told, x)
      BY <1>1, <2>3, AppendOne
    <3> QED
      BY <1>1, <3>1, <3>2
  <2>5. /\ told' \in Seq(T) /\ DOMAIN told' = 1..n /\ told'[n] = x /\ n \in DOMAIN told'
        /\ DOMAIN told = 1..Len(told) /\ Len(told) \in Nat
        /\ \A i \in DOMAIN told : i \in DOMAIN told' /\ told'[i] = told[i]
    <3> DEFINE a == Append(told, x)
    <3>1. told \in Seq(T) /\ x \in T
      BY <1>1, <2>3
    <3>2. /\ a \in Seq(T) /\ Len(a) = Len(told) + 1 /\ DOMAIN a = 1..(Len(told) + 1)
          /\ a[Len(told) + 1] = x /\ Len(told) + 1 \in DOMAIN a
          /\ DOMAIN told = 1..Len(told) /\ Len(told) \in Nat
          /\ \A i \in DOMAIN told : i \in DOMAIN a /\ a[i] = told[i]
      BY <3>1, AppendFacts
    <3>3. told' = a
      BY <2>4
    <3> HIDE DEF a
    <3> QED
      BY <3>2, <3>3
  <2> HIDE DEF n
  <2>6. \A i \in DOMAIN told' : i = n \/ i \in DOMAIN told
    BY <2>5 DEF n
  <2>7. \A i \in DOMAIN told : told[i].id # id
    BY <1>3, <2>1 DEF Told
  <2>8. \A i, j \in DOMAIN told' : told'[i].id = told'[j].id => i = j
    BY <2>3, <2>5, <2>6, <2>7 DEF ResultsInv
  <2>9. ASSUME NEW i \in DOMAIN told'
        PROVE  LET k == told'[i].id IN
               /\ k \in DOMAIN ledger'.objs /\ Terminal(ledger'.objs[k])
               /\ ledger'.objs[k].status = told'[i].verdict
    <3>1. CASE i = n
      BY <1>3, <2>1, <2>3, <2>5, <3>1
    <3>2. CASE i \in DOMAIN told
      BY <1>2, <2>5, <3>2
    <3> QED
      BY <2>6, <3>1, <3>2
  <2>10. \A k : Told(k) \/ k \in news => Told(k)'
    <3> TAKE k
    <3>1. Told(k) => Told(k)'
      BY <2>5 DEF Told
    <3>2. k \in news => Told(k)'
      BY <1>4, <2>1, <2>3, <2>5 DEF Told
    <3> QED
      BY <3>1, <3>2
  <2>11. run'.task # NoTask => \A k \in ObjectivesOf(ledger', run'.task) : Told(k)'
    BY <1>5, <2>10
  <2> QED
    BY <2>5, <2>8, <2>9, <2>11 DEF ResultsInv, T
<1> QED
  BY <1>6, <1>7

\* A run that closes leaves everything settled, and what it was given is taken back.
LEMMA CloseKeeps == ASSUME Inv, Closes PROVE Inv'
<1>1. PICK r, l, b, h : ClosesWith(r, l, b, h)
  BY DEF Closes
<1>2. /\ FinishRunTask(r, l, b, h)
      /\ r \in Runs /\ r.steps <= count.maxSteps /\ r.replans <= MaxReplans
      /\ r.task = run.task /\ r.odd = run.odd /\ r.no = run.no
      /\ b \in Boards /\ h \in Histories /\ LedgerGood(l) /\ RecordsTo(ledger, l)
      /\ \A id : ~Working(b, id) /\ ~Waiting(b, id)
      /\ ~run.odd => ~h.broken /\ h.open = {}
  BY <1>1 DEF ClosesWith, Inv
<1>3. Types /\ r.task <= count.task
  BY <1>2 DEF Inv, Basic, Types
<1>4. /\ Basic'
      /\ Ended' /\ run'.task = r.task /\ run'.odd = r.odd
      /\ hist' = h /\ board' = b /\ batch' = << >> /\ live' = << >>
      /\ ledger' = SettleTask(l, r.task, r.outcome = "stopped", r.abort = "deadline")
      /\ LedgerGood(ledger') /\ GrowsTo(l, ledger') /\ count'.task = count.task
      /\ r.task # NoTask => \A id \in ObjectivesOf(ledger', r.task) : Terminal(ledger'.objs[id])
  BY <1>2, <1>3, RunFinishes
<1>5. ShownInv'
  BY <1>2, <1>4, NothingShown
<1>6. GrantsInv'
  <2>1. /\ grants' = {g \in grants : g.scope = "session" \/ r.task = NoTask \/ g.task # r.task}
        /\ given' = {g \in given : g.for = <<"all">>}
    BY <1>2 DEF FinishRunTask
  <2>2. ASSUME NEW g \in grants'
        PROVE  /\ g \in [tool : Tools, scope : {"task", "session"}, task : Nat]
               /\ g.scope = "session" => g.task = NoTask
               /\ g.task <= count'.task
               /\ g.task = NoTask => \E a \in given' : a.tool = g.tool /\ a.for = <<"all">>
               /\ ~(g.task # NoTask /\ g.task = run'.task)
    <3>1. g \in grants /\ (g.scope = "session" \/ r.task = NoTask \/ g.task # r.task)
      BY <2>1
    <3>2. /\ g \in [tool : Tools, scope : {"task", "session"}, task : Nat]
          /\ g.scope = "session" => g.task = NoTask
          /\ g.task <= count.task
          /\ g.task = NoTask => \E a \in given : a.tool = g.tool /\ a.for = <<"all">>
      BY <3>1 DEF Inv, GrantsInv
    <3> QED
      BY <1>4, <2>1, <3>1, <3>2
  <2> QED
    BY <2>2 DEF GrantsInv
<1>7. HistoryInv'
  BY <1>2, <1>4 DEF HistoryInv, Ended, Between, Unsettled
<1>8. ResultsInv'
  BY <1>2, <1>4, ResultsTold DEF Inv
<1> QED
  BY <1>4, <1>5, <1>6, <1>7, <1>8 DEF Inv

-----------------------------------------------------------------------------
(* The steps inside a batch *)

\* A step that leaves the batch, its waves and its calls in flight as they are.
LEMMA StaysKeeps ==
    ASSUME Inv, Types', batch' = batch, todo' = todo, live' = live, plan' = plan, told' = told, hist' = hist,
           grants' = grants, given' = given, RecordsTo(ledger, ledger'), DOMAIN ledger'.objs = DOMAIN ledger.objs,
           count'.call = count.call, count'.task = count.task,
           run'.task = run.task, run'.no = run.no, run'.direct = run.direct, run'.mark = run.mark,
           run'.abort = run.abort, run.odd => run'.odd,
           \/ run'.pc = run.pc
           \/ run.pc = "gate" /\ run'.pc = "denied"
           \/ run.pc = "wave" /\ run'.pc = "open" /\ todo # << >> /\ Single
           \/ run.pc = "open" /\ run'.pc = "gate",
           run'.pc \in {"open", "gate"} => ~run'.stop,
           run'.pc = "model" /\ run'.stop => run'.odd,
           \A id : /\ Working(board', id) => Working(board, id)
                   /\ Waiting(board', id) => run'.pc \in {"gate", "denied"} /\ Call.id = id
    PROVE  Inv'
<1>1. Basic /\ ShownInv /\ GrantsInv /\ HistoryInv /\ ResultsInv /\ Types /\ Shape
  BY DEF Inv, Basic
<1>2. Wave' = Wave /\ (Single' <=> Single) /\ Call' = Call /\ Flying' = Flying
  BY DEF Wave, Single, Call, Flying
<1>3. ledger.made \in Nat /\ ledger'.made \in Nat /\ ledger.made <= ledger'.made
  BY <1>1 DEF Types, LedgerGood, Ledgers, RecordsTo, GrowsTo
<1>4. \A i \in DOMAIN live' : live'[i].obj <= ledger'.made /\ Open(ledger', live'[i].obj)
  <2> SUFFICES ASSUME NEW i \in DOMAIN live PROVE live[i].obj <= ledger'.made /\ Open(ledger', live[i].obj)
    OBVIOUS
  <2>1. live[i].obj <= ledger.made /\ Open(ledger, live[i].obj)
    BY <1>1 DEF Shape
  <2>2. live[i].obj \in Nat
    <3>1. live \in [DOMAIN live -> Bodies]
      BY <1>1, PartialIs DEF Types, Lives
    <3>2. live[i] \in Bodies
      BY <3>1
    <3> QED
      BY <3>2 DEF Bodies
  <2> QED
    BY <1>3, <2>1, <2>2 DEF Open, RecordsTo, GrowsTo
<1>5. /\ run'.pc \in Between <=> run.pc \in Between
      /\ run'.pc \in {"tools", "settle"} => run'.pc = run.pc
      /\ run'.pc \in {"loop", "model", "backoff", "wave"} => run'.pc = run.pc
      /\ run.pc \in {"tools", "settle"} => run'.pc = run.pc
  BY DEF Between
<1>6. Shape'
  <2>1. WavesGood(todo', batch')
    BY <1>1 DEF Shape
  <2>2. /\ \A i, j \in DOMAIN batch' : batch'[i].id = batch'[j].id => i = j
        /\ \A i \in DOMAIN batch' : batch'[i].id <= count'.call
    BY <1>1 DEF Shape
  <2>3. /\ run'.pc \in Between => batch' = << >> /\ todo' = << >>
        /\ run'.pc \notin {"tools", "settle"} => live' = << >> /\ plan' = "first"
        /\ run'.pc \in {"tools", "settle"} => DOMAIN live' = Flying'
        /\ plan' # "first" => /\ Single' /\ run'.odd
                              /\ \A k \in DOMAIN todo' : \A i \in DOMAIN todo'[k] : todo'[k][i] # Len(batch')
    BY <1>1, <1>2, <1>5 DEF Shape
  <2>4. /\ run'.direct /\ run'.pc \notin Between
             => todo' = <<<<1>>>> /\ (plan' = "first" => Len(batch') = 1)
        /\ run'.pc \in {"loop", "model", "backoff", "wave"} => ~run'.direct
        /\ run'.pc \in {"open", "gate"} => ~run'.stop
        /\ run'.pc \in {"loop", "model", "backoff"} => run'.abort = "no"
        /\ run'.pc = "model" /\ run'.stop => run'.odd
        /\ run'.pc = "tools" => plan' # "failed"
    BY <1>1, <1>5 DEF Shape
  <2>5. /\ run'.pc \notin Between \cup {"wave"} => todo' # << >>
        /\ run'.pc \in {"open", "gate", "denied"} => Single'
    BY <1>1, <1>2, <1>5 DEF Shape, Between
  <2> QED
    BY <1>4, <2>1, <2>2, <2>3, <2>4, <2>5 DEF Shape
<1>7. ShownInv'
  BY <1>1, <1>2 DEF ShownInv
<1>8. Ended' <=> Ended
  BY DEF Ended
<1>9. GrantsInv'
  <2>1. count'.task \in Nat /\ count.task <= count'.task
    <3>1. count.task \in Nat
      BY <1>1, CountFacts
    <3> QED
      BY <3>1
  <2> QED
    BY <1>1, <1>8, <2>1, GrantsKept
<1>10. HistoryInv'
  BY <1>1, <1>5, HistoryKept
<1>11. ResultsInv'
  BY <1>1, <1>8, ResultsKept DEF RecordsTo
<1> QED
  BY <1>6, <1>7, <1>9, <1>10, <1>11 DEF Inv, Basic

\* A deadline passes while the run awaits.
LEMMA DeadlinePassesKeeps == ASSUME Inv, DeadlinePasses PROVE Inv'
<1>1. /\ UNCHANGED <<run, batch, todo, live, plan, told, hist, grants, board, given, count>>
      /\ ledger.current \in DOMAIN ledger.objs
      /\ ledger' = [ledger EXCEPT !.objs[ledger.current].late = TRUE]
  BY DEF DeadlinePasses, HasObjective
<1>2. Basic /\ ShownInv /\ Types /\ Shape /\ LedgerGood(ledger)
  BY DEF Inv, Basic, Types
<1>3. LedgerGood(ledger') /\ RecordsTo(ledger, ledger') /\ DOMAIN ledger'.objs = DOMAIN ledger.objs
  BY <1>1, <1>2, OthersKeep
<1>4. Types'
  BY <1>1, <1>2, <1>3 DEF Types
<1>5. /\ run'.pc \in {"open", "gate"} => ~run'.stop
      /\ run'.pc = "model" /\ run'.stop => run'.odd
      /\ \A id : /\ Working(board', id) => Working(board, id)
                 /\ Waiting(board', id) => run'.pc \in {"gate", "denied"} /\ Call.id = id
  BY <1>1, <1>2 DEF Shape, ShownInv
<1> QED
  BY <1>1, <1>3, <1>4, <1>5, StaysKeeps

\* A message to a run that is under way waits.
LEMMA MessageWaits == ASSUME Inv, ProcessMessage, run.pc # "idle" PROVE Inv'
<1> DEFINE n == count.sent + 1
           w == count.waiting + 1
<1>1. /\ UNCHANGED <<run, batch, todo, live, plan, told, hist, grants, board, given, ledger>>
      /\ count' = [count EXCEPT !.sent = n, !.waiting = w]
  BY DEF ProcessMessage
<1>2. Basic /\ ShownInv /\ Types /\ Shape /\ LedgerGood(ledger)
  BY DEF Inv, Basic, Types
<1>3. n \in Nat /\ w \in Nat
  <2>1. count.sent \in Nat /\ count.waiting \in Nat
    BY <1>2, CountFacts
  <2> QED
    BY <2>1
<1> HIDE DEF n, w
<1>4. /\ count' \in [task : Nat, call : Nat, waiting : Nat, sent : Nat, maxSteps : Nat]
      /\ count'.task = count.task /\ count'.call = count.call /\ count'.maxSteps = count.maxSteps
  BY <1>1, <1>2, <1>3, CountFacts
<1>5. Types'
  BY <1>1, <1>2, <1>4 DEF Types
<1>6. RecordsTo(ledger, ledger')
  BY <1>1, <1>2, ReflexiveGrowth
<1>7. /\ run'.pc \in {"open", "gate"} => ~run'.stop
      /\ run'.pc = "model" /\ run'.stop => run'.odd
      /\ \A id : /\ Working(board', id) => Working(board, id)
                 /\ Waiting(board', id) => run'.pc \in {"gate", "denied"} /\ Call.id = id
  BY <1>1, <1>2 DEF Shape, ShownInv
<1> QED
  BY <1>1, <1>4, <1>5, <1>6, <1>7, StaysKeeps

\* A message to an agent that is idle starts a run.
LEMMA MessageStarts == ASSUME Inv, ProcessMessage, run.pc = "idle" PROVE Inv'
<1> DEFINE n == count.sent + 1
           k == run.no + 1
<1>1. /\ UNCHANGED <<batch, todo, live, plan, told, hist, grants, board, given, ledger>>
      /\ count' = [count EXCEPT !.sent = n]
      /\ run' = [run EXCEPT !.pc = "start", !.outcome = "completed", !.direct = FALSE,
                            !.stop = FALSE, !.stopped = FALSE, !.no = k]
  BY DEF ProcessMessage, StartRun, Inv, Basic, Types, Runs
<1>2. Basic /\ Types /\ run \in Runs
  BY DEF Inv, Basic, Types
<1>3. n \in Nat /\ k \in Nat
  <2>1. count.sent \in Nat /\ run.no \in Nat
    BY <1>2, CountFacts DEF Runs
  <2> QED
    BY <2>1
<1> HIDE DEF n, k
<1>4. /\ count' \in [task : Nat, call : Nat, waiting : Nat, sent : Nat, maxSteps : Nat]
      /\ count'.task = count.task /\ count'.call = count.call /\ count'.maxSteps = count.maxSteps
  BY <1>1, <1>2, <1>3, CountFacts
<1>5. run' \in Runs
  BY <1>1, <1>2, <1>3 DEF Runs, Controls, Ends
<1>6. /\ run'.pc = "start" /\ run'.task = run.task /\ run'.odd = run.odd
      /\ run'.steps = run.steps /\ run'.replans = run.replans
  BY <1>1, <1>2 DEF Runs
<1>7. Types'
  BY <1>1, <1>2, <1>4, <1>5, <1>6 DEF Types
<1>8. run.pc \in Between /\ run'.pc \in Between /\ Ended
  BY <1>6 DEF Between, Ended
<1> QED
  BY <1>1, <1>4, <1>6, <1>7, <1>8, BetweenKeeps

\* A stop: the flags and the board, and a call at the gate is denied.
LEMMA StopKeeps == ASSUME Inv, Stop PROVE Inv'
<1> DEFINE pc == IF run.pc = "gate" THEN "denied" ELSE run.pc
           odd == run.odd \/ run.pc = "model"
           outcome == IF run.outcome = "completed" THEN "stopped" ELSE run.outcome
           n == count.maxSteps
<1>0. Basic /\ Types /\ Shape /\ ShownInv /\ run \in Runs /\ LedgerGood(ledger) /\ board \in Boards
  BY DEF Inv, Basic, Types
<1>1. /\ UNCHANGED <<batch, todo, live, plan, ledger, told, hist, grants, given, count>>
      /\ run' = [run EXCEPT !.stop = TRUE, !.steps = n, !.stopped = TRUE, !.odd = odd, !.pc = pc,
                            !.outcome = outcome]
      /\ board' = SeesIdle(board) /\ run.pc # "open"
  BY <1>0 DEF Stop, Awaits, MaxSteps, Runs
<1>2. pc \in Controls /\ odd \in BOOLEAN /\ outcome \in Ends /\ n \in Nat
  BY <1>0, CountFacts DEF Runs, Controls, Ends
<1>3. /\ board' \in Boards
      /\ \A k : (Working(board', k) => Working(board, k)) /\ ~Waiting(board', k)
  BY <1>0, <1>1, SeesIdleFacts
<1> HIDE DEF pc, odd, outcome, n
<1>4. run' \in Runs
  BY <1>0, <1>1, <1>2 DEF Runs
<1>5. /\ run'.pc = pc /\ run'.odd = odd /\ run'.steps = n /\ run'.task = run.task /\ run'.no = run.no
      /\ run'.direct = run.direct /\ run'.mark = run.mark /\ run'.abort = run.abort
      /\ run'.replans = run.replans
  BY <1>0, <1>1 DEF Runs
<1>6. /\ run'.pc = run.pc \/ (run.pc = "gate" /\ run'.pc = "denied")
      /\ run'.pc \notin {"open", "gate"} /\ (run.odd => run'.odd) /\ (run'.pc = "model" => run'.odd)
  <2>1. /\ pc = run.pc \/ (run.pc = "gate" /\ pc = "denied")
        /\ pc \notin {"open", "gate"} /\ (pc = "model" => run.pc = "model")
    BY <1>1 DEF pc
  <2>2. (run.odd => odd) /\ (run.pc = "model" => odd)
    BY DEF odd
  <2> QED
    BY <1>5, <2>1, <2>2
<1>7. run'.steps <= count'.maxSteps
  BY <1>1, <1>2, <1>5 DEF n
<1>8. Types'
  BY <1>0, <1>1, <1>3, <1>4, <1>5, <1>7 DEF Types
<1>9. RecordsTo(ledger, ledger')
  BY <1>0, <1>1, ReflexiveGrowth
<1> QED
  BY <1>1, <1>3, <1>5, <1>6, <1>8, <1>9, StaysKeeps

\* A single call comes to its gate, and waits there.
LEMMA StartSingleKeeps == ASSUME Inv, StartSingle PROVE Inv'
<1>0. Basic /\ Types /\ Shape /\ ShownInv /\ run \in Runs /\ LedgerGood(ledger)
  BY DEF Inv, Basic, Types
<1>1. /\ UNCHANGED <<batch, todo, live, plan, ledger, told, hist, grants, board, given, count>>
      /\ run' = [run EXCEPT !.pc = "open"] /\ run.pc = "wave" /\ todo # << >> /\ Single /\ ~run.stop
      /\ "open" \in Controls
  BY DEF StartSingle, Controls
<1>2. /\ run' \in Runs /\ run'.pc = "open" /\ run'.task = run.task /\ run'.direct = run.direct
      /\ run'.steps = run.steps /\ run'.abort = run.abort /\ run'.stop = run.stop
      /\ run'.replans = run.replans /\ run'.mark = run.mark /\ run'.no = run.no /\ run'.odd = run.odd
  BY <1>0, <1>1, GoesTo
<1>3. Types'
  BY <1>0, <1>1, <1>2 DEF Types
<1>4. RecordsTo(ledger, ledger')
  BY <1>0, <1>1, ReflexiveGrowth
<1>5. \A id : (Working(board', id) => Working(board, id)) /\ ~Waiting(board', id)
  BY <1>0, <1>1 DEF ShownInv
<1> QED
  BY <1>1, <1>2, <1>3, <1>4, <1>5, StaysKeeps

\* A call that needs an approval waits at the gate.
LEMMA GateWaits ==
    ASSUME Inv, CheckGate, NeedsApproval(Call.tool) /\ ~Granted(Call.tool)
    PROVE  Inv'
<1>0. Basic /\ Types /\ Shape /\ ShownInv /\ run \in Runs /\ LedgerGood(ledger) /\ board \in Boards
  BY DEF Inv, Basic, Types
<1>1. /\ UNCHANGED <<batch, todo, live, plan, ledger, told, hist, grants, given, count>>
      /\ run' = [run EXCEPT !.pc = "gate"] /\ run.pc = "open" /\ board' = SeesGate(board, Call.id)
      /\ "gate" \in Controls
  BY DEF CheckGate, Controls
<1>2. /\ run' \in Runs /\ run'.pc = "gate" /\ run'.task = run.task /\ run'.direct = run.direct
      /\ run'.steps = run.steps /\ run'.abort = run.abort /\ run'.stop = run.stop
      /\ run'.replans = run.replans /\ run'.mark = run.mark /\ run'.no = run.no /\ run'.odd = run.odd
  BY <1>0, <1>1, GoesTo
<1>3. Call.id \in Nat
  <2>1. todo # << >>
    BY <1>0, <1>1 DEF Shape, Between
  <2> QED
    BY <1>0, <2>1, WaveFacts
<1>4. /\ board' \in Boards
      /\ \A k : /\ Working(board', k) => Working(board, k)
                /\ Waiting(board', k) => Waiting(board, k) \/ k = Call.id
  BY <1>0, <1>1, <1>3, SeesFacts
<1>5. \A k : /\ Working(board', k) => Working(board, k)
             /\ Waiting(board', k) => Call.id = k
  BY <1>0, <1>1, <1>4 DEF ShownInv
<1>6. Types'
  BY <1>0, <1>1, <1>2, <1>4 DEF Types
<1>7. RecordsTo(ledger, ledger') /\ ~run.stop
  BY <1>0, <1>1, ReflexiveGrowth DEF Shape
<1> QED
  BY <1>1, <1>2, <1>5, <1>6, <1>7, StaysKeeps

-----------------------------------------------------------------------------
(* The start of a wave *)

\* A wave that starts keeps the invariant.
LEMMA BeginsKeeps ==
    ASSUME Inv, todo # << >>, run.pc \in {"wave", "open", "gate"},
           Begins({Wave[k] : k \in DOMAIN Wave}), todo' = todo, plan' = plan, told' = told, hist' = hist,
           count' = count, GrantsInv'
    PROVE  Inv'
<1> DEFINE D == {Wave[k] : k \in DOMAIN Wave}
<1>0. Basic /\ Types /\ Shape /\ ShownInv /\ HistoryInv /\ ResultsInv /\ batch \in Seq(Steps)
  BY DEF Inv, Basic, Types
<1>1. /\ live = << >> /\ plan = "first" /\ run.pc \notin Between
  BY <1>0 DEF Shape, Between
<1>2. /\ Wave' = Wave /\ (Single' <=> Single) /\ DOMAIN batch' = DOMAIN batch /\ Len(batch') = Len(batch)
      /\ Flying' = D
  BY <1>1 DEF Wave, Single, Begins, Flying
<1>3. /\ run'.pc \in {"tools", "settle"} /\ run'.pc \notin Between /\ ~Ended'
      /\ run'.task = run.task /\ run'.no = run.no
      /\ run'.direct = run.direct /\ run'.steps = run.steps /\ run'.replans = run.replans
      /\ run'.stop = run.stop /\ run'.odd = run.odd /\ run'.abort = run.abort /\ run'.mark = run.mark
      /\ run' \in Runs /\ live' \in Lives /\ DOMAIN live' = D /\ LedgerGood(ledger')
      /\ RecordsTo(ledger, ledger') /\ board' \in Boards /\ batch' \in Seq(Steps)
  BY DEF Begins, Between, Ended
<1>4. \A i \in DOMAIN batch :
        /\ batch'[i].tool = batch[i].tool /\ batch'[i].id = batch[i].id
        /\ batch'[i] = batch[i] \/ (i \in D /\ batch'[i].state = "executing")
  BY DEF Begins
<1>5. \A i \in D : i \in DOMAIN batch /\ batch[i].state \in {"pending", "executing"}
  BY <1>0, WaveFacts
<1> HIDE DEF D
<1>6. \A i \in DOMAIN batch : batch'[i].state \in {"pending", "executing"} <=> batch[i].state \in {"pending", "executing"}
  BY <1>4, <1>5
<1>7. Types'
  BY <1>0, <1>3 DEF Types
<1>8. WavesGood(todo', batch')
  <2>1. \A k \in DOMAIN todo : \A i \in DOMAIN todo[k] : todo[k][i] \in DOMAIN batch
    <3>1. todo \in Seq(Seq(DOMAIN batch))
      BY <1>0 DEF Shape, WavesGood
    <3> QED
      BY <3>1
  <2> QED
    BY <1>0, <1>2, <1>4, <1>6, <2>1 DEF Shape, WavesGood
<1>9. Shape'
  <2>1. /\ \A i, j \in DOMAIN batch' : batch'[i].id = batch'[j].id => i = j
        /\ \A i \in DOMAIN batch' : batch'[i].id <= count'.call
    BY <1>0, <1>2, <1>4 DEF Shape
  <2>2. \A i \in DOMAIN live' : live'[i].obj <= ledger'.made /\ Open(ledger', live'[i].obj)
    BY DEF Begins
  <2>3. run'.direct => todo' = <<<<1>>>> /\ Len(batch') = 1
    BY <1>0, <1>1, <1>2, <1>3 DEF Shape
  <2> QED
    BY <1>1, <1>2, <1>3, <1>8, <2>1, <2>2, <2>3 DEF Shape, Between
<1>10. ShownInv'
  <2>1. \A k : /\ Working(board', k) => Working(board, k) \/ \E i \in D : batch[i].id = k
               /\ Waiting(board', k) => Waiting(board, k) /\ \A i \in D : batch[i].id # k
    BY DEF Begins, D
  <2>2. \A k : ~Waiting(board', k)
    <3>1. Wave[1] \in D
      BY <1>0, WaveFacts DEF D
    <3> QED
      BY <1>0, <2>1, <3>1 DEF ShownInv, Call
  <2>3. \A k : Working(board', k) => \E i \in DOMAIN live' : batch'[i].id = k
    BY <1>0, <1>1, <1>3, <1>4, <1>5, <2>1 DEF ShownInv
  <2> QED
    BY <1>1, <2>2, <2>3 DEF ShownInv
<1>11. HistoryInv'
  <2>1. Unsettled(batch') = Unsettled(batch)
    BY <1>2, <1>4, <1>6 DEF Unsettled
  <2> QED
    BY <1>0, <1>1, <1>3, <2>1, HistoryKept
<1>12. ResultsInv'
  BY <1>0, <1>3, ResultsKept DEF RecordsTo
<1> QED
  BY <1>7, <1>9, <1>10, <1>11, <1>12 DEF Inv, Basic

\* The wave of parallel calls, and the single call that passes its gate.
LEMMA WaveStarts ==
    ASSUME Inv, StartParallel \/ (CheckGate /\ ~(NeedsApproval(Call.tool) /\ ~Granted(Call.tool)))
    PROVE  Inv'
<1>0. Basic /\ Types /\ Shape /\ GrantsInv
  BY DEF Inv, Basic
<1>1. /\ run.pc \in {"wave", "open"} /\ StartCalls(Wave, batch, ledger, board)
      /\ UNCHANGED <<todo, plan, told, hist, grants, given, count>>
  BY DEF StartParallel, CheckGate
<1>2. todo # << >>
  BY <1>0, <1>1 DEF StartParallel, CheckGate, Shape, Between
<1>3. Begins({Wave[k] : k \in DOMAIN Wave})
  BY <1>0, <1>1, <1>2, WaveBegins
<1>4. GrantsInv'
  <2>1. run'.task = run.task /\ run'.no = run.no /\ ~Ended'
    BY <1>3 DEF Begins, Ended
  <2>2. count.task \in Nat
    BY <1>0, CountFacts
  <2>3. count'.task \in Nat /\ count.task <= count'.task
    BY <1>1, <2>2
  <2>4. grants' \subseteq grants /\ given \subseteq given'
    BY <1>1
  <2>5. run'.task = run.task /\ (Ended \/ (run'.no = run.no /\ ~Ended'))
    BY <2>1
  <2> QED
    BY <1>0, <2>3, <2>4, <2>5, GrantsKept
<1> QED
  BY <1>1, <1>2, <1>3, <1>4, BeginsKeeps

\* An approval is remembered as it was given, and the call starts.
LEMMA ApproveKeeps ==
    ASSUME Inv, NEW scope \in {"once", "task", "session"}, Approve(scope)
    PROVE  Inv'
<1> DEFINE tool == Call.tool
           task == IF scope = "task" THEN run.task ELSE NoTask
           for == IF scope = "once" THEN <<"call", Call.id>>
                  ELSE IF scope = "task" /\ run.task # NoTask THEN <<"run", run.no>>
                  ELSE <<"all">>
           new == [tool |-> tool, scope |-> scope, task |-> task]
<1>0. Basic /\ Types /\ Shape /\ GrantsInv /\ run \in Runs
  BY DEF Inv, Basic, Types
<1>1. /\ run.pc = "gate" /\ StartCalls(Wave, batch, ledger, board)
      /\ grants' = IF scope = "once" THEN grants ELSE {g \in grants : g.tool # tool} \cup {new}
      /\ given' = given \cup {[tool |-> tool, for |-> for]}
      /\ UNCHANGED <<todo, plan, told, hist, count>>
  BY DEF Approve, Remembered
<1>2. todo # << >>
  BY <1>0, <1>1 DEF Shape, Between
<1>3. Begins({Wave[k] : k \in DOMAIN Wave})
  BY <1>0, <1>1, <1>2, WaveBegins
<1>4. run'.task = run.task /\ run'.no = run.no /\ ~Ended' /\ ~Ended
  BY <1>1, <1>3 DEF Begins, Ended
<1>5. tool \in Tools /\ task \in Nat /\ task <= count.task
  <2>1. tool \in Tools
    BY <1>0, <1>2, WaveFacts
  <2>2. run.task \in Nat /\ run.task <= count.task /\ count.task \in Nat
    BY <1>0, CountFacts DEF Types, Runs
  <2> QED
    BY <2>1, <2>2 DEF NoTask
<1>6. \E a \in given' : a.tool = tool /\ a.for = for
  <2>1. [tool |-> tool, for |-> for] \in given'
    BY <1>1
  <2> HIDE DEF tool, for
  <2> QED
    BY <2>1
<1>7. ASSUME NEW g \in grants'
      PROVE  /\ g \in [tool : Tools, scope : {"task", "session"}, task : Nat]
             /\ g.scope = "session" => g.task = NoTask
             /\ g.task <= count'.task
             /\ g.task = NoTask => \E a \in given' : a.tool = g.tool /\ a.for = <<"all">>
             /\ g.task # NoTask /\ g.task = run'.task =>
                  /\ ~Ended'
                  /\ \E a \in given' : a.tool = g.tool /\ a.for \in {<<"run", run'.no>>, <<"all">>}
  <2>1. CASE g \in grants
    <3>1. /\ g \in [tool : Tools, scope : {"task", "session"}, task : Nat]
          /\ g.scope = "session" => g.task = NoTask
          /\ g.task <= count.task
          /\ g.task = NoTask => \E a \in given : a.tool = g.tool /\ a.for = <<"all">>
          /\ g.task # NoTask /\ g.task = run.task =>
               \E a \in given : a.tool = g.tool /\ a.for \in {<<"run", run.no>>, <<"all">>}
      BY <1>0, <2>1 DEF GrantsInv
    <3>2. \A a \in given : a \in given'
      BY <1>1
    <3> QED
      BY <1>1, <1>4, <3>1, <3>2
  <2>2. CASE g \notin grants
    <3>1. scope \in {"task", "session"} /\ g = new
      BY <1>1, <2>2
    <3>2. /\ g \in [tool : Tools, scope : {"task", "session"}, task : Nat] /\ g.tool = tool /\ g.task = task
          /\ g.scope = scope
      BY <1>5, <3>1
    <3>3. task = NoTask => for = <<"all">>
      BY <3>1
    <3>4. task # NoTask => for = <<"run", run.no>>
      BY <3>1
    <3>5. scope = "session" => task = NoTask
      OBVIOUS
    <3> HIDE DEF task, for, tool
    <3> QED
      BY <1>1, <1>4, <1>5, <1>6, <3>2, <3>3, <3>4, <3>5
  <2> QED
    BY <2>1, <2>2
<1>8. GrantsInv'
  BY <1>7 DEF GrantsInv
<1> QED
  BY <1>1, <1>2, <1>3, <1>8, BeginsKeeps

-----------------------------------------------------------------------------
(* The calls in flight *)

\* A step that keeps the batch and the calls in flight, but for how they stand.
LEMMA FlightKeeps ==
    ASSUME Inv, Types', run.pc = "tools", batch' = batch, todo' = todo, plan' = plan, told' = told, hist' = hist,
           grants' = grants, given' = given, count' = count, RecordsTo(ledger, ledger'),
           DOMAIN live' = DOMAIN live, \A i \in DOMAIN live : live'[i].obj = live[i].obj,
           run'.pc \in {"tools", "settle"}, run'.task = run.task, run'.no = run.no, run'.direct = run.direct,
           run'.mark = run.mark, run'.odd = run.odd,
           \A id : /\ Working(board', id) => \/ Working(board, id)
                                             \/ plan # "again" /\ \E i \in DOMAIN live : batch[i].id = id
                   /\ Waiting(board', id) => Waiting(board, id)
    PROVE  Inv'
<1>0. Basic /\ Types /\ Shape /\ ShownInv /\ GrantsInv /\ HistoryInv /\ ResultsInv
  BY DEF Inv, Basic
<1>1. Wave' = Wave /\ (Single' <=> Single) /\ Flying' = Flying
  BY DEF Wave, Single, Flying
<1>2. run'.pc \notin Between /\ run.pc \notin Between /\ ~Ended /\ ~Ended' /\ plan # "failed"
  BY <1>0 DEF Between, Ended, Shape
<1>3. ledger.made \in Nat /\ ledger'.made \in Nat /\ ledger.made <= ledger'.made
  BY <1>0 DEF Types, LedgerGood, Ledgers, RecordsTo, GrowsTo
<1>4. \A i \in DOMAIN live' : live'[i].obj <= ledger'.made /\ Open(ledger', live'[i].obj)
  <2> SUFFICES ASSUME NEW i \in DOMAIN live PROVE live[i].obj <= ledger'.made /\ Open(ledger', live[i].obj)
    OBVIOUS
  <2>1. live[i].obj <= ledger.made /\ Open(ledger, live[i].obj)
    BY <1>0 DEF Shape
  <2>2. live[i].obj \in Nat
    <3>1. live \in [DOMAIN live -> Bodies]
      BY <1>0, PartialIs DEF Types, Lives
    <3>2. live[i] \in Bodies
      BY <3>1
    <3> QED
      BY <3>2 DEF Bodies
  <2>3. live[i].obj \in DOMAIN ledger'.objs => live[i].obj \in DOMAIN ledger.objs
    BY <1>3, <2>1, <2>2 DEF RecordsTo, GrowsTo
  <2> QED
    BY <1>3, <2>1, <2>2, <2>3 DEF Open, RecordsTo
<1>5. Shape'
  BY <1>0, <1>1, <1>2, <1>4 DEF Shape
<1>6. ShownInv'
  BY <1>0, <1>2 DEF ShownInv
<1>7. GrantsInv'
  <2>1. count.task \in Nat
    BY <1>0, CountFacts
  <2>2. count'.task \in Nat /\ count.task <= count'.task
    BY <2>1
  <2> QED
    BY <1>0, <1>2, <2>2, GrantsKept
<1>8. HistoryInv'
  BY <1>0, <1>2, HistoryKept
<1>9. ResultsInv'
  BY <1>0, <1>2, ResultsKept DEF RecordsTo
<1> QED
  BY <1>5, <1>6, <1>7, <1>8, <1>9 DEF Inv, Basic

\* A call in flight that has an outcome, or is tried again.
LEMMA LiveChanges ==
    ASSUME NEW i \in DOMAIN live, live \in Lives, NEW out \in Outs
    PROVE  /\ \A f \in {[live EXCEPT ![i].out = out], [live EXCEPT ![i].tries = @ + 1],
                        [live EXCEPT ![i].tries = @ + 1, ![i].recovering = TRUE]} :
                /\ f \in Lives /\ DOMAIN f = DOMAIN live
                /\ \A j \in DOMAIN live : f[j].obj = live[j].obj
           /\ live[i].obj \in Nat /\ live[i].tries \in Nat
<1> DEFINE b == live[i]
           n == b.tries + 1
           x == [b EXCEPT !.out = out]
           y == [b EXCEPT !.tries = n]
           z == [y EXCEPT !.recovering = TRUE]
<1>1. live \in [DOMAIN live -> Bodies] /\ DOMAIN live \subseteq Nat
  BY PartialIs DEF Lives
<1>2. b \in Bodies /\ b.obj \in Nat /\ b.tries \in Nat /\ n \in Nat
  BY <1>1 DEF Bodies
<1>3. /\ [live EXCEPT ![i].out = out] = [live EXCEPT ![i] = x]
      /\ [live EXCEPT ![i].tries = @ + 1] = [live EXCEPT ![i] = y]
      /\ [live EXCEPT ![i].tries = @ + 1, ![i].recovering = TRUE] = [live EXCEPT ![i] = z]
  BY <1>1 DEF Bodies
<1> HIDE DEF n
<1>4. x \in Bodies /\ x.obj = b.obj
  BY <1>2 DEF Bodies
<1>5. y \in Bodies /\ y.obj = b.obj
  BY <1>2 DEF Bodies
<1>6. z \in Bodies /\ z.obj = b.obj
  <2> HIDE DEF y
  <2> QED
    BY <1>5 DEF Bodies
<1> HIDE DEF x, y, z
<1>7. \A t \in {x, y, z} :
        /\ [live EXCEPT ![i] = t] \in Lives /\ DOMAIN [live EXCEPT ![i] = t] = DOMAIN live
        /\ \A j \in DOMAIN live : [live EXCEPT ![i] = t][j].obj = live[j].obj
  <2> TAKE t \in {x, y, z}
  <2>1. t \in Bodies /\ t.obj = b.obj
    BY <1>4, <1>5, <1>6
  <2> DEFINE f == [live EXCEPT ![i] = t]
  <2>2. f \in [DOMAIN live -> Bodies] /\ DOMAIN f = DOMAIN live /\ \A j \in DOMAIN live : f[j].obj = live[j].obj
    BY <1>1, <2>1
  <2> HIDE DEF f
  <2>3. f \in Lives
    BY <1>1, <2>2, PartialIs DEF Lives
  <2> QED
    BY <2>2, <2>3 DEF f
<1> QED
  BY <1>2, <1>3, <1>7

\* The second try of a call returns.
LEMMA AgainReturnsKeeps == ASSUME Inv, NEW out, AgainReturns(out) PROVE Inv'
<1>0. Basic /\ Types /\ Shape /\ run \in Runs /\ live \in Lives /\ batch \in Seq(Steps) /\ LedgerGood(ledger)
  BY DEF Inv, Basic, Types
<1>1. /\ run.pc = "tools" /\ plan = "again" /\ out \in Outcomes[Call.tool]
      /\ live' = [live EXCEPT ![Wave[1]].out = out] /\ run' = [run EXCEPT !.pc = "settle"]
      /\ UNCHANGED <<batch, todo, plan, ledger, told, hist, grants, board, given, count>>
      /\ "settle" \in Controls
  BY DEF AgainReturns, Controls
<1>2. todo # << >>
  BY <1>0, <1>1 DEF Shape, Between
<1>3. out \in Outs
  <2>1. Call.tool \in Tools
    BY <1>0, <1>2, WaveFacts
  <2> QED
    BY <1>1, <2>1, OutcomesAssumption DEF Outs
<1>4. Wave[1] \in DOMAIN live
  <2>1. 1 \in DOMAIN Wave
    BY <1>0, <1>2, WaveFacts
  <2> QED
    BY <1>0, <1>1, <2>1 DEF Shape, Flying
<1>5. live' \in Lives /\ DOMAIN live' = DOMAIN live /\ \A j \in DOMAIN live : live'[j].obj = live[j].obj
  <2> DEFINE w == Wave[1]
             f == [live EXCEPT ![w].out = out]
  <2>1. w \in DOMAIN live /\ live \in Lives
    BY <1>0, <1>4
  <2>2. live' = f
    BY <1>1
  <2> HIDE DEF w
  <2>3. f \in Lives /\ DOMAIN f = DOMAIN live /\ \A j \in DOMAIN live : f[j].obj = live[j].obj
    BY ZenonT(40), <1>3, <2>1, LiveChanges
  <2> QED
    BY <2>2, <2>3
<1>6. /\ run' \in Runs /\ run'.pc = "settle" /\ run'.task = run.task /\ run'.direct = run.direct
      /\ run'.steps = run.steps /\ run'.replans = run.replans
      /\ run'.mark = run.mark /\ run'.no = run.no /\ run'.odd = run.odd
  BY <1>0, <1>1, GoesTo
<1>7. Types'
  BY <1>0, <1>1, <1>5, <1>6 DEF Types
<1>8. RecordsTo(ledger, ledger')
  BY <1>0, <1>1, ReflexiveGrowth
<1> QED
  BY <1>1, <1>5, <1>6, <1>7, <1>8, FlightKeeps

\* A tool returns: its call ends, is tried again, or recovers.
LEMMA ToolReturnsKeeps == ASSUME Inv, NEW i \in DOMAIN live, NEW out, ToolReturns(i, out) PROVE Inv'
<1> DEFINE b == live[i]
           id == batch[i].id
           kind == IF Fails(out) THEN "failed" ELSE IF out = "verified" THEN "verified" ELSE "completed"
<1>0. /\ Basic /\ Types /\ Shape /\ run \in Runs /\ live \in Lives /\ batch \in Seq(Steps) /\ LedgerGood(ledger)
      /\ board \in Boards
  BY DEF Inv, Basic, Types
<1>1. /\ run.pc = "tools" /\ plan # "again" /\ out \in Outcomes[batch[i].tool]
      /\ UNCHANGED <<batch, todo, plan, told, hist, grants, given, count>>
  BY DEF ToolReturns
<1>2. i \in DOMAIN batch /\ batch[i] \in Steps /\ id \in Nat /\ batch[i].tool \in Tools
  <2>1. todo # << >> /\ DOMAIN live = Flying
    BY <1>0, <1>1 DEF Shape, Between
  <2>2. i \in DOMAIN batch
    <3>1. /\ \A k \in DOMAIN Wave : Wave[k] \in DOMAIN batch
          /\ DOMAIN batch = 1..Len(batch) /\ Len(batch) \in Nat /\ Wave[1] \in DOMAIN batch
      BY <1>0, <2>1, WaveFacts
    <3>2. Len(batch) \in DOMAIN batch
      BY <3>1
    <3> QED
      BY <2>1, <3>1, <3>2 DEF Flying
  <2>3. batch[i] \in Steps
    BY <1>0, <2>2
  <2> QED
    BY <2>2, <2>3 DEF Steps
<1>3. out \in Outs
  BY <1>1, <1>2, OutcomesAssumption DEF Outs
<1>4. kind \in EvidenceKinds
  BY DEF EvidenceKinds
<1>5. b.obj \in Nat /\ Open(ledger, b.obj)
  BY <1>0, <1>3, LiveChanges DEF Shape
<1> DEFINE ended == [live EXCEPT ![i].out = out]
           again == [live EXCEPT ![i].tries = @ + 1]
           recover == [live EXCEPT ![i].tries = @ + 1, ![i].recovering = TRUE]
           evidence == RecordEvidence(ledger, b.obj, kind)
           done == [run EXCEPT !.pc = "settle"]
<1>6. \A f \in {ended, again, recover} :
         f \in Lives /\ DOMAIN f = DOMAIN live /\ \A j \in DOMAIN live : f[j].obj = live[j].obj
  <2>1. live \in Lives /\ i \in DOMAIN live /\ out \in Outs
    BY <1>0, <1>3
  <2>2. ended \in Lives /\ DOMAIN ended = DOMAIN live /\ \A j \in DOMAIN live : ended[j].obj = live[j].obj
    BY ZenonT(40), <2>1, LiveChanges
  <2>3. again \in Lives /\ DOMAIN again = DOMAIN live /\ \A j \in DOMAIN live : again[j].obj = live[j].obj
    BY <2>1, LiveChanges
  <2>4. recover \in Lives /\ DOMAIN recover = DOMAIN live /\ \A j \in DOMAIN live : recover[j].obj = live[j].obj
    BY <2>1, LiveChanges
  <2> HIDE DEF ended, again, recover
  <2> QED
    BY <2>2, <2>3, <2>4
<1>7. \A classed \in BOOLEAN :
        /\ SeesRetry(board, id, classed) \in Boards
        /\ \A k : /\ Working(SeesRetry(board, id, classed), k) => Working(board, k) \/ k = id
                  /\ Waiting(SeesRetry(board, id, classed), k) => Waiting(board, k)
  <2> TAKE classed \in BOOLEAN
  <2> HIDE DEF id
  <2> QED
    BY <1>0, <1>2, SeesRetryFacts
<1>8. LedgerGood(evidence) /\ RecordsTo(ledger, evidence)
  <2> HIDE DEF kind, b
  <2> QED
    BY <1>0, <1>4, <1>5, RecordEvidenceKeeps
<1>9. LedgerGood(ledger) /\ RecordsTo(ledger, ledger)
  BY <1>0, ReflexiveGrowth
<1>10. MayRecover(b) => LedgerGood(RecordRecovery(ledger, b.obj)) /\ RecordsTo(ledger, RecordRecovery(ledger, b.obj))
  <2> SUFFICES ASSUME MayRecover(b) PROVE LedgerGood(RecordRecovery(ledger, b.obj)) /\ RecordsTo(ledger, RecordRecovery(ledger, b.obj))
    OBVIOUS
  <2>1. b.obj \in DOMAIN ledger.objs => ledger.objs[b.obj].recoveries < MaxRecoveries
    BY <1>0, OthersKeep DEF MayRecover, RecoveryAllowed
  <2> HIDE DEF b
  <2> QED
    BY <1>0, <1>5, <2>1, RecordRecoveryKeeps
<1>11. \A q \in {run, done} :
         /\ q \in Runs /\ q.pc \in {"tools", "settle"} /\ q.task = run.task /\ q.direct = run.direct
         /\ q.steps = run.steps /\ q.replans = run.replans
         /\ q.mark = run.mark /\ q.no = run.no /\ q.odd = run.odd
  <2>1. "settle" \in Controls /\ run \in Runs
    BY <1>0 DEF Controls
  <2>2. /\ done \in Runs /\ done.pc = "settle" /\ done.task = run.task /\ done.direct = run.direct
        /\ done.steps = run.steps /\ done.replans = run.replans
        /\ done.mark = run.mark /\ done.no = run.no /\ done.odd = run.odd
    BY <2>1, GoesTo
  <2> HIDE DEF done
  <2> QED
    BY <1>0, <1>1, <2>2
<1>12. /\ live' \in {ended, again, recover} /\ run' \in {run, done}
       /\ board' \in {board, SeesRetry(board, id, TRUE), SeesRetry(board, id, FALSE)}
       /\ \/ ledger' \in {ledger, evidence}
          \/ MayRecover(b) /\ ledger' = RecordRecovery(ledger, b.obj)
  <2>1. CASE BodyEnds(i, out) /\ board' \in {board, SeesRetry(board, id, TRUE)}
    BY <2>1 DEF BodyEnds
  <2>2. CASE live' = again /\ board' = SeesRetry(board, id, FALSE) /\ UNCHANGED <<ledger, run>>
    BY <2>2
  <2>3. CASE /\ MayRecover(b) /\ live' = recover /\ ledger' = RecordRecovery(ledger, b.obj) /\ UNCHANGED run
             /\ board' = SeesRetry(board, id, TRUE)
    BY <2>3
  <2> HIDE DEF kind, evidence, ended, again, recover, done
  <2> QED
    BY <2>1, <2>2, <2>3 DEF ToolReturns, again, recover
<1> HIDE DEF kind, evidence, ended, again, recover, done
<1>13. /\ live' \in Lives /\ DOMAIN live' = DOMAIN live /\ \A j \in DOMAIN live : live'[j].obj = live[j].obj
  BY <1>6, <1>12
<1>14. LedgerGood(ledger') /\ RecordsTo(ledger, ledger')
  BY <1>8, <1>9, <1>10, <1>12
<1>15. /\ board' \in Boards
       /\ \A k : /\ Working(board', k) => Working(board, k) \/ k = id
                 /\ Waiting(board', k) => Waiting(board, k)
  BY <1>0, <1>7, <1>12
<1>16. /\ run' \in Runs /\ run'.pc \in {"tools", "settle"} /\ run'.task = run.task /\ run'.direct = run.direct
       /\ run'.steps = run.steps /\ run'.replans = run.replans
       /\ run'.mark = run.mark /\ run'.no = run.no /\ run'.odd = run.odd
  BY <1>11, <1>12
<1>17. Types'
  BY <1>0, <1>1, <1>13, <1>14, <1>15, <1>16 DEF Types
<1>18. \A k : /\ Working(board', k) => \/ Working(board, k)
                                       \/ plan # "again" /\ \E j \in DOMAIN live : batch[j].id = k
              /\ Waiting(board', k) => Waiting(board, k)
  BY <1>1, <1>15
<1> QED
  BY <1>1, <1>13, <1>14, <1>16, <1>17, <1>18, FlightKeeps

-----------------------------------------------------------------------------
(* The end of a wave *)

\* The waves without the first.
LEMMA TailFacts ==
    ASSUME NEW S, NEW q \in Seq(S), q # << >>
    PROVE  /\ Tail(q) \in Seq(S) /\ DOMAIN Tail(q) = 1..(Len(q) - 1) /\ DOMAIN q = 1..Len(q) /\ Len(q) \in Nat \ {0}
           /\ Head(q) = q[1] /\ 1 \in DOMAIN q
           /\ \A k \in DOMAIN Tail(q) : k \in Nat /\ k + 1 \in DOMAIN q /\ k + 1 # 1 /\ Tail(q)[k] = q[k + 1]
OBVIOUS

\* The first wave is done with, and the next one comes.
LEMMA WaveDone ==
    ASSUME Inv, Types', todo # << >>, ~run.direct, run.pc \notin Between, plan # "observe",
           todo' = Tail(todo), live' = << >>, plan' = "first", run'.pc = "wave",
           told' = told, grants' = grants, given' = given, count' = count,
           run'.task = run.task, run'.no = run.no, run'.direct = run.direct, run'.odd = run.odd,
           RecordsTo(ledger, ledger'),
           NEW D, D = {Wave[k] : k \in DOMAIN Wave},
           DOMAIN batch' = DOMAIN batch,
           \A i \in DOMAIN batch : /\ batch'[i].tool = batch[i].tool /\ batch'[i].id = batch[i].id
                                   /\ i \notin D => batch'[i] = batch[i]
                                   /\ i \in D => batch'[i].state \notin {"pending", "executing"},
           hist'.open = hist.open \ {batch[i].id : i \in D},
           ~hist.broken /\ (\A i \in D : batch[i].id \in hist.open) => ~hist'.broken,
           \A k : /\ Working(board', k) => Working(board, k) /\ \A i \in D : batch[i].id # k
                  /\ Waiting(board', k) => Waiting(board, k) /\ (run.pc \in {"gate", "denied"} => k # Call.id)
    PROVE  Inv'
<1>0. Basic /\ Types /\ Shape /\ ShownInv /\ GrantsInv /\ HistoryInv /\ ResultsInv
  BY DEF Inv, Basic
<1>1. \A i \in D : i \in DOMAIN batch /\ batch[i].state \in {"pending", "executing"}
  BY <1>0, WaveFacts
<1>2. ~Ended /\ ~Ended' /\ run'.pc \notin Between
  BY DEF Ended, Between
<1>3. /\ todo \in Seq(Seq(DOMAIN batch)) /\ Wave = todo[1] /\ 1 \in DOMAIN todo /\ todo' \in Seq(Seq(DOMAIN batch))
      /\ \A k \in DOMAIN todo' : k \in Nat /\ k + 1 \in DOMAIN todo /\ k + 1 # 1 /\ todo'[k] = todo[k + 1]
  <2>1. todo \in Seq(Seq(DOMAIN batch))
    BY <1>0 DEF Shape, WavesGood
  <2> QED
    BY <2>1, TailFacts DEF Wave
<1>4. ASSUME NEW k \in DOMAIN todo', NEW i \in DOMAIN todo'[k]
      PROVE  todo'[k][i] \in DOMAIN batch /\ todo'[k][i] \notin D /\ batch'[todo'[k][i]] = batch[todo'[k][i]]
  <2>1. k + 1 \in DOMAIN todo /\ k + 1 # 1 /\ todo'[k] = todo[k + 1] /\ i \in DOMAIN todo[k + 1]
    BY <1>3, <1>4
  <2>2. todo[k + 1][i] \in DOMAIN batch
    <3>1. todo[k + 1] \in Seq(DOMAIN batch)
      BY <1>3, <2>1
    <3> QED
      BY <2>1, <3>1
  <2>3. \A j \in DOMAIN todo[1] : todo[k + 1][i] # todo[1][j]
    BY <1>0, <1>3, <2>1 DEF Shape, WavesGood
  <2> QED
    BY <1>3, <2>1, <2>2, <2>3
<1>5. WavesGood(todo', batch')
  <2>1. ASSUME NEW k \in DOMAIN todo'
        PROVE  /\ todo'[k] # << >>
               /\ \A i, j \in DOMAIN todo'[k] : todo'[k][i] = todo'[k][j] => i = j
               /\ Len(todo'[k]) >= 2 => \A i \in DOMAIN todo'[k] : ~Serial(batch'[todo'[k][i]].tool)
               /\ \A i \in DOMAIN todo'[k] : batch'[todo'[k][i]].state \in {"pending", "executing"}
    <3> DEFINE m == k + 1
    <3>1. m \in DOMAIN todo /\ todo'[k] = todo[m]
      BY <1>3
    <3> HIDE DEF m
    <3>2. /\ todo[m] # << >>
          /\ \A i, j \in DOMAIN todo[m] : todo[m][i] = todo[m][j] => i = j
          /\ Len(todo[m]) >= 2 => \A i \in DOMAIN todo[m] : ~Serial(batch[todo[m][i]].tool)
          /\ \A i \in DOMAIN todo[m] : batch[todo[m][i]].state \in {"pending", "executing"}
      BY <1>0, <3>1 DEF Shape, WavesGood
    <3> QED
      BY <1>4, <3>1, <3>2
  <2>2. ASSUME NEW k \in DOMAIN todo', NEW m \in DOMAIN todo', NEW i \in DOMAIN todo'[k], NEW j \in DOMAIN todo'[m],
               todo'[k][i] = todo'[m][j]
        PROVE  k = m
    <3> DEFINE k1 == k + 1
               m1 == m + 1
    <3>1. k1 \in DOMAIN todo /\ todo'[k] = todo[k1] /\ m1 \in DOMAIN todo /\ todo'[m] = todo[m1] /\ k \in Nat /\ m \in Nat
      BY <1>3
    <3>2. k1 = m1 => k = m
      BY <3>1
    <3> HIDE DEF k1, m1
    <3> QED
      BY SMTT(30), <1>0, <2>2, <3>1, <3>2 DEF Shape, WavesGood
  <2> QED
    BY <1>3, <2>1, <2>2 DEF WavesGood
<1>6. Shape'
  <2>1. /\ \A i, j \in DOMAIN batch' : batch'[i].id = batch'[j].id => i = j
        /\ \A i \in DOMAIN batch' : batch'[i].id <= count'.call
    BY <1>0 DEF Shape
  <2> QED
    BY <1>2, <1>5, <2>1 DEF Shape
<1>7. ShownInv'
  <2>1. \A k : ~Waiting(board', k)
    BY <1>0 DEF ShownInv
  <2>2. \A k : ~Working(board', k)
    <3> SUFFICES ASSUME NEW k, Working(board', k) PROVE FALSE
      OBVIOUS
    <3>1. PICK i \in DOMAIN live : batch[i].id = k /\ (plan \in {"again", "failed"} => i # Len(batch))
      BY <1>0 DEF ShownInv
    <3>2. run.pc \in {"tools", "settle"} /\ DOMAIN live = Flying
      BY <1>0, <3>1 DEF Shape
    <3>3. plan \in {"first", "again", "failed"}
      BY <1>0 DEF Types
    <3>4. i \in D
      BY <3>1, <3>2, <3>3 DEF Flying
    <3> QED
      BY <3>1, <3>4
  <2> QED
    BY <2>1, <2>2, NothingShown
<1>8. GrantsInv'
  <2>1. count.task \in Nat
    BY <1>0, CountFacts
  <2>2. count'.task \in Nat /\ count.task <= count'.task
    BY <2>1
  <2> QED
    BY <1>0, <1>2, <2>2, GrantsKept
<1>9. HistoryInv'
  <2> SUFFICES ASSUME ~run.odd PROVE ~hist'.broken /\ hist'.open = Unsettled(batch')
    BY DEF HistoryInv
  <2>1. ~hist.broken /\ hist.open = Unsettled(batch)
    BY <1>0 DEF HistoryInv
  <2>2. \A i \in D : batch[i].id \in hist.open
    BY <1>1, <2>1 DEF Unsettled
  <2>3. Unsettled(batch') = Unsettled(batch) \ {batch[i].id : i \in D}
    <3>1. \A i, j \in DOMAIN batch : batch[i].id = batch[j].id => i = j
      BY <1>0 DEF Shape
    <3>2. \A x : x \in Unsettled(batch') <=> \E i \in DOMAIN batch : i \notin D /\ x = batch[i].id /\ batch[i].state \in {"pending", "executing"}
      BY DEF Unsettled
    <3>3. \A x : x \in Unsettled(batch) <=> \E i \in DOMAIN batch : x = batch[i].id /\ batch[i].state \in {"pending", "executing"}
      BY DEF Unsettled
    <3>4. \A x : x \in Unsettled(batch') <=> x \in Unsettled(batch) /\ x \notin {batch[i].id : i \in D}
      BY <1>1, <3>1, <3>2, <3>3
    <3> QED
      BY <3>4
  <2> QED
    BY <2>1, <2>2, <2>3
<1>10. ResultsInv'
  BY <1>0, <1>2, ResultsKept DEF RecordsTo
<1> QED
  BY <1>6, <1>7, <1>8, <1>9, <1>10 DEF Inv, Basic

\* A wave is settled.
LEMMA SettleWaveKeeps == ASSUME Inv, SettleWave PROVE Inv'
<1> DEFINE n == Len(batch)
           s == FoldLeft(Settled, Here, Wave)
           D == {Wave[k] : k \in DOMAIN Wave}
<1>0. /\ Basic /\ Types /\ Shape /\ run \in Runs /\ batch \in Seq(Steps) /\ LedgerGood(ledger)
      /\ board \in Boards /\ hist \in Histories
  BY DEF Inv, Basic, Types
<1>1. /\ run.pc = "settle" /\ ~run.direct /\ plan # "observe"
      /\ batch' = s.batch /\ board' = s.board /\ hist' = s.hist
      /\ run' = [s.run EXCEPT !.pc = "wave"] /\ todo' = Tail(todo) /\ live' = << >> /\ plan' = "first"
      /\ UNCHANGED <<ledger, told, grants, given, count>>
  BY DEF SettleWave
<1>2. run.pc \notin Between /\ todo # << >>
  BY <1>0, <1>1 DEF Shape, Between
<1>3. /\ n \in Nat /\ DOMAIN batch = 1..n /\ batch \in [1..n -> Steps] /\ Wave \in Seq(1..n)
      /\ \A j, k \in DOMAIN Wave : Wave[j] = Wave[k] => j = k
  BY <1>0, <1>2, WaveFacts
<1>4. /\ Here \in Settling(n) /\ Here.batch = batch /\ Here.board = board /\ Here.hist = hist /\ Here.run = run
  BY <1>0, <1>3 DEF Here, Settling
<1>5. \A j, k \in 1..n : Here.batch[j].id = Here.batch[k].id => j = k
  BY <1>0, <1>3, <1>4 DEF Shape
<1> HIDE DEF n
<1>6. SettledFrom(n, Here, s, D)
  BY <1>3, <1>4, <1>5, WaveSettles
<1> HIDE DEF s
<1>7. s \in Settling(n) /\ s.run \in Runs /\ s.batch \in [1..n -> Steps] /\ s.board \in Boards /\ s.hist \in Histories
  BY <1>6 DEF SettledFrom, Settling
<1>8. /\ s.run.task = run.task /\ s.run.direct = run.direct /\ s.run.steps = run.steps
      /\ s.run.replans = run.replans /\ s.run.odd = run.odd /\ s.run.no = run.no
  BY <1>4, <1>6 DEF SettledFrom
<1>9. /\ run' \in Runs /\ run'.pc = "wave" /\ run'.task = run.task /\ run'.direct = run.direct
      /\ run'.steps = run.steps /\ run'.replans = run.replans /\ run'.no = run.no /\ run'.odd = run.odd
  <2> DEFINE r == s.run
             q == [r EXCEPT !.pc = "wave"]
  <2>1. r \in Runs /\ "wave" \in Controls
    BY <1>7 DEF Controls
  <2> HIDE DEF r
  <2>2. /\ q \in Runs /\ q.pc = "wave" /\ q.task = r.task /\ q.direct = r.direct
        /\ q.steps = r.steps /\ q.replans = r.replans /\ q.no = r.no /\ q.odd = r.odd
    BY <2>1, GoesTo
  <2>3. run' = q
    BY <1>1 DEF r
  <2> HIDE DEF q
  <2> QED
    BY <1>8, <2>2, <2>3 DEF r
<1>10. batch' \in Seq(Steps) /\ DOMAIN batch' = DOMAIN batch
  <2>1. batch' \in [1..n -> Steps] /\ n \in Nat
    BY <1>1, <1>3, <1>7
  <2>2. DOMAIN batch' = 1..n /\ batch' \in Seq(Steps)
    BY <2>1
  <2> QED
    BY <1>3, <2>2
<1>11. \A i \in DOMAIN batch : /\ batch'[i].tool = batch[i].tool /\ batch'[i].id = batch[i].id
                               /\ i \notin D => batch'[i] = batch[i]
                               /\ i \in D => batch'[i].state \notin {"pending", "executing"}
  BY <1>1, <1>3, <1>4, <1>6 DEF SettledFrom
<1>12. /\ hist'.open = hist.open \ {batch[i].id : i \in D}
       /\ ~hist.broken /\ (\A i \in D : batch[i].id \in hist.open) => ~hist'.broken
       /\ \A k : /\ Working(board', k) => Working(board, k) /\ \A i \in D : batch[i].id # k
                 /\ Waiting(board', k) => Waiting(board, k)
  BY <1>1, <1>4, <1>6 DEF SettledFrom
<1>13. live' \in Lives
  <2>1. << >> \in [{} -> Bodies] /\ {} \in SUBSET Nat
    OBVIOUS
  <2> QED
    BY <1>1, <2>1 DEF Lives, Partial
<1>14. Types'
  BY <1>0, <1>1, <1>7, <1>9, <1>10, <1>13 DEF Types
<1>15. RecordsTo(ledger, ledger')
  BY <1>0, <1>1, ReflexiveGrowth
<1>16. run.pc \notin {"gate", "denied"}
  BY <1>1
<1> DEFINE E == D
<1>17. E = {Wave[k] : k \in DOMAIN Wave}
  OBVIOUS
<1> HIDE DEF D
<1> QED
  BY ZenonT(40), <1>1, <1>2, <1>9, <1>10, <1>11, <1>12, <1>14, <1>15, <1>16, <1>17, WaveDone

\* A denied call of a model's answer is settled, and the batch goes on.
LEMMA DeniedKeeps ==
    ASSUME Inv, run.pc \in {"gate", "denied"}, ~run.direct, Denied(ledger, board)
    PROVE  Inv'
<1> DEFINE h == Replied(hist, {Call.id})
           d == RecordDenied(ledger, ObjectiveId)
           a == SeesEnd(board, Call.id, "skipped")
           w == Wave[1]
           D == {Wave[k] : k \in DOMAIN Wave}
<1>0. /\ Basic /\ Types /\ Shape /\ run \in Runs /\ batch \in Seq(Steps) /\ LedgerGood(ledger)
      /\ board \in Boards /\ hist \in Histories
  BY DEF Inv, Basic, Types
<1>1. /\ run' = [run EXCEPT !.pc = "wave"] /\ ledger' = d /\ board' = a /\ hist' = h
      /\ batch' = [batch EXCEPT ![w].state = "skipped"] /\ todo' = Tail(todo)
      /\ UNCHANGED <<live, plan, told, grants, given, count>>
  BY DEF Denied
<1>2. run.pc \notin Between /\ todo # << >> /\ live = << >> /\ plan = "first" /\ Single
  BY <1>0 DEF Shape, Between
<1>3. /\ Call.id \in Nat /\ w \in DOMAIN batch /\ DOMAIN Wave = {1} /\ Call = batch[w]
      /\ DOMAIN batch = 1..Len(batch) /\ batch \in [1..Len(batch) -> Steps] /\ Len(batch) \in Nat
  BY <1>0, <1>2, WaveFacts DEF Call
<1>4. D = {w}
  BY <1>3
<1>5. LedgerGood(d) /\ RecordsTo(ledger, d)
  BY <1>0, OthersKeep, RecordDeniedKeeps DEF ObjectiveId
<1>6. /\ run' \in Runs /\ run'.pc = "wave" /\ run'.task = run.task /\ run'.direct = run.direct
      /\ run'.steps = run.steps /\ run'.replans = run.replans /\ run'.no = run.no /\ run'.odd = run.odd
  <2>1. "wave" \in Controls
    BY DEF Controls
  <2> QED
    BY <1>0, <1>1, <2>1, GoesTo
<1>7. /\ a \in Boards
      /\ \A k : /\ Working(a, k) => Working(board, k) /\ k # Call.id
                /\ Waiting(a, k) => Waiting(board, k) /\ k # Call.id
  <2>1. "skipped" \in EndStates
    BY DEF EndStates
  <2> QED
    BY <1>0, <1>3, <2>1, SeesEndFacts
<1>8. h \in Histories /\ h.open = hist.open \ {Call.id} /\ (~hist.broken /\ {Call.id} \subseteq hist.open => ~h.broken)
  <2>1. {Call.id} \in SUBSET Nat
    BY <1>3
  <2> QED
    BY <1>0, <2>1, HistoryFacts
<1> HIDE DEF h, d, a
<1>9. /\ batch' \in [1..Len(batch) -> Steps]
      /\ \A i \in DOMAIN batch : /\ batch'[i].tool = batch[i].tool /\ batch'[i].id = batch[i].id
                                 /\ i # w => batch'[i] = batch[i]
                                 /\ i = w => batch'[i].state = "skipped"
  <2>1. \A t \in Steps : /\ [t EXCEPT !.state = "skipped"] \in Steps
                         /\ [t EXCEPT !.state = "skipped"].tool = t.tool
                         /\ [t EXCEPT !.state = "skipped"].id = t.id
                         /\ [t EXCEPT !.state = "skipped"].state = "skipped"
    BY DEF Steps, States
  <2> HIDE DEF w
  <2>2. batch' = [batch EXCEPT ![w] = [batch[w] EXCEPT !.state = "skipped"]]
    BY <1>1, <1>3
  <2> QED
    BY <1>3, <2>1, <2>2
<1>10. batch' \in Seq(Steps) /\ DOMAIN batch' = DOMAIN batch
  BY <1>3, <1>9
<1>11. Types'
  BY <1>0, <1>1, <1>5, <1>6, <1>7, <1>8, <1>10 DEF Types
<1> HIDE DEF w, D
<1>12. /\ \A i \in DOMAIN batch : /\ batch'[i].tool = batch[i].tool /\ batch'[i].id = batch[i].id
                                  /\ i \notin D => batch'[i] = batch[i]
                                  /\ i \in D => batch'[i].state \notin {"pending", "executing"}
       /\ hist'.open = hist.open \ {batch[i].id : i \in D}
       /\ ~hist.broken /\ (\A i \in D : batch[i].id \in hist.open) => ~hist'.broken
       /\ \A k : /\ Working(board', k) => Working(board, k) /\ \A i \in D : batch[i].id # k
                 /\ Waiting(board', k) => Waiting(board, k) /\ k # Call.id
  <2>1. {batch[i].id : i \in D} = {Call.id}
    BY <1>3, <1>4
  <2> QED
    BY <1>1, <1>3, <1>4, <1>7, <1>8, <1>9, <2>1
<1>13. D = {Wave[k] : k \in DOMAIN Wave} /\ plan # "observe" /\ live' = << >> /\ plan' = "first"
  BY <1>1, <1>2 DEF D
<1>14. RecordsTo(ledger, ledger')
  BY <1>1, <1>5
<1>15. \A k : /\ Working(board', k) => Working(board, k) /\ \A i \in D : batch[i].id # k
              /\ Waiting(board', k) => Waiting(board, k) /\ (run.pc \in {"gate", "denied"} => k # Call.id)
  BY <1>12
<1>16. todo' = Tail(todo) /\ told' = told /\ grants' = grants /\ given' = given /\ count' = count
  BY <1>1
<1> QED
  BY ZenonT(40), <1>2, <1>6, <1>10, <1>11, <1>12, <1>13, <1>14, <1>15, <1>16, WaveDone

\* A direct action that failed is rolled back to the history it began with.
LEMMA DirectFails == ASSUME Inv, SettleDirect, Fails(Out(1)) PROVE Inv'
<1> DEFINE id == batch[1].id
<1>0. /\ Basic /\ Types /\ Shape /\ ShownInv /\ GrantsInv /\ HistoryInv /\ ResultsInv
      /\ run \in Runs /\ LedgerGood(ledger) /\ board \in Boards /\ hist \in Histories
  BY DEF Inv, Basic, Types
<1>1. /\ run.pc = "settle" /\ run.direct /\ plan # "observe"
      /\ hist' = (IF run.task # NoTask \/ run.mark.empty THEN run.mark ELSE hist)
      /\ board' = SeesEnd(board, id, "failed") /\ ledger' = DetachCurrent(ledger)
      /\ run' = [run EXCEPT !.pc = "routing", !.task = NoTask]
      /\ batch' = << >> /\ todo' = << >> /\ live' = << >> /\ plan' = "first"
      /\ UNCHANGED <<told, grants, given, count>>
  BY DEF SettleDirect
<1>2. /\ run.pc \notin Between /\ todo = <<<<1>>>> /\ todo # << >> /\ Wave = <<1>> /\ Wave[1] = 1
      /\ DOMAIN live = Flying
  BY <1>0, <1>1 DEF Shape, Between, Wave
<1>3. id \in Nat
  BY <1>0, <1>2, WaveFacts DEF Call
<1>4. /\ board' \in Boards
      /\ \A k : /\ Working(board', k) => Working(board, k) /\ k # id
                /\ Waiting(board', k) => Waiting(board, k)
  <2>1. "failed" \in EndStates
    BY DEF EndStates
  <2> HIDE DEF id
  <2> QED
    BY <1>0, <1>1, <1>3, <2>1, SeesEndFacts
<1>5. LedgerGood(ledger') /\ RecordsTo(ledger, ledger')
  BY <1>0, <1>1, OthersKeep
<1>6. /\ run' \in Runs
  BY <1>0, <1>1 DEF Runs, Controls, NoTask
<1>7. /\ run'.pc = "routing" /\ run'.task = NoTask /\ run'.direct = run.direct /\ run'.steps = run.steps
      /\ run'.replans = run.replans /\ run'.no = run.no /\ run'.odd = run.odd /\ run'.mark = run.mark
  BY <1>0, <1>1 DEF Runs
<1>8. hist' \in Histories
  BY <1>0, <1>1 DEF Runs
<1>9. live' \in Lives
  <2>1. << >> \in [{} -> Bodies] /\ {} \in SUBSET Nat
    OBVIOUS
  <2> QED
    BY <1>1, <2>1 DEF Lives, Partial
<1>10. Types'
  <2>1. run'.task <= count'.task
    <3>1. count.task \in Nat
      BY <1>0, CountFacts
    <3> QED
      BY <1>1, <1>7, <3>1 DEF NoTask
  <2>2. batch' \in Seq(Steps)
    BY <1>1
  <2> QED
    BY <1>0, <1>1, <1>4, <1>5, <1>6, <1>7, <1>8, <1>9, <2>1, <2>2 DEF Types
<1>11. Shape'
  <2>1. run'.pc \in Between /\ run'.pc \notin {"loop", "model", "backoff"}
    BY <1>7 DEF Between
  <2> QED
    BY <1>1, <1>10, <2>1, BetweenShape
<1>12. ShownInv'
  <2>1. \A k : ~Waiting(board', k)
    BY <1>0, <1>1, <1>4 DEF ShownInv
  <2>2. ASSUME NEW k, Working(board, k) PROVE k = id
    <3>1. PICK i \in DOMAIN live : batch[i].id = k /\ (plan \in {"again", "failed"} => i # Len(batch))
      BY <1>0, <2>2 DEF ShownInv
    <3>2. plan \in {"first", "again", "failed"}
      BY <1>0, <1>1 DEF Types
    <3>3. i \in {Wave[j] : j \in DOMAIN Wave}
      BY <1>2, <3>1, <3>2 DEF Flying
    <3> QED
      BY <1>2, <3>1, <3>3
  <2>3. \A k : ~Working(board', k)
    BY <1>4, <2>2
  <2> QED
    BY <2>1, <2>3, NothingShown
<1>13. GrantsInv'
  <2>1. count.task \in Nat
    BY <1>0, CountFacts
  <2>2. count'.task \in Nat /\ count.task <= count'.task
    BY <1>1, <2>1
  <2>3. grants' \subseteq grants /\ given \subseteq given'
    BY <1>1
  <2> QED
    BY <1>0, <1>7, <2>2, <2>3, GrantsKept
<1>14. HistoryInv'
  <2>1. Unsettled(batch') = {} /\ run'.pc \in Between
    BY <1>1, <1>7 DEF Unsettled, Between
  <2>2. ~run.odd => run.task # NoTask /\ ~run.mark.broken /\ run.mark.open = {}
    BY <1>0, <1>1, <1>2 DEF HistoryInv
  <2> QED
    BY <1>1, <1>7, <2>1, <2>2 DEF HistoryInv
<1>15. ResultsInv'
  <2>1. ~Ended'
    BY <1>7 DEF Ended
  <2> QED
    BY <1>0, <1>1, <1>5, <2>1, ResultsKept DEF RecordsTo
<1> QED
  BY <1>10, <1>11, <1>12, <1>13, <1>14, <1>15 DEF Inv, Basic

\* A batch is complete, and the loop goes on.
LEMMA BatchEnds ==
    ASSUME Inv, EndBatch, ~(run.stop \/ run.abort # "no")
    PROVE  Inv'
<1> DEFINE ids == {batch[i].id : i \in Never}
           b == [id \in DOMAIN board \cup ids |->
                   IF id \in ids THEN AtEnd(OnBoard(board, id), "skipped") ELSE board[id]]
           h == Replied(hist, ids)
<1>0. /\ Basic /\ Types /\ Shape /\ ShownInv /\ GrantsInv /\ HistoryInv /\ ResultsInv
      /\ run \in Runs /\ LedgerGood(ledger)
  BY DEF Inv, Basic, Types
<1>1. /\ run.pc = "wave" /\ todo = << >> /\ run' = [run EXCEPT !.pc = "loop"] /\ hist' = h /\ board' = b
      /\ batch' = << >> /\ UNCHANGED <<todo, live, plan, ledger, told, grants, given, count>>
  BY DEF EndBatch
<1>2. /\ b \in Boards /\ h \in Histories
      /\ \A id : ~Working(b, id) /\ ~Waiting(b, id)
      /\ ~run.odd => ~h.broken /\ h.open = {}
  BY <1>0, <1>1, NeverRanEnds
<1> HIDE DEF ids, b, h
<1>3. live = << >> /\ plan = "first" /\ ~run.direct /\ run.abort = "no"
  BY <1>0, <1>1 DEF Shape
<1>4. /\ run' \in Runs /\ run'.pc = "loop" /\ run'.task = run.task /\ run'.direct = run.direct
      /\ run'.steps = run.steps /\ run'.replans = run.replans /\ run'.no = run.no /\ run'.odd = run.odd
      /\ run'.abort = run.abort
  <2>1. "loop" \in Controls
    BY DEF Controls
  <2> QED
    BY <1>0, <1>1, <2>1, GoesTo
<1>5. Types'
  <2>1. batch' \in Seq(Steps)
    BY <1>1
  <2> QED
    BY <1>0, <1>1, <1>2, <1>4, <2>1 DEF Types
<1>6. Shape'
  <2>1. run'.pc \in Between
    BY <1>4 DEF Between
  <2> QED
    BY <1>1, <1>3, <1>4, <1>5, <2>1, BetweenShape
<1>7. ShownInv'
  BY <1>1, <1>2, NothingShown
<1>8. ~Ended /\ ~Ended'
  BY <1>1, <1>4 DEF Ended
<1>9. GrantsInv'
  <2>1. count.task \in Nat
    BY <1>0, CountFacts
  <2>2. count'.task \in Nat /\ count.task <= count'.task
    BY <1>1, <2>1
  <2>3. grants' \subseteq grants /\ given \subseteq given'
    BY <1>1
  <2> QED
    BY <1>0, <1>4, <1>8, <2>2, <2>3, GrantsKept
<1>10. HistoryInv'
  <2>1. Unsettled(batch') = {}
    BY <1>1 DEF Unsettled
  <2> QED
    BY <1>1, <1>2, <1>3, <1>4, <2>1 DEF HistoryInv
<1>11. ResultsInv'
  <2>1. GrowsTo(ledger, ledger')
    BY <1>0, <1>1, ReflexiveGrowth
  <2> QED
    BY <1>0, <1>1, <1>8, <2>1, ResultsKept
<1> QED
  BY <1>5, <1>6, <1>7, <1>9, <1>10, <1>11 DEF Inv, Basic

\* The history is cleared, with the ledger, the grants and what was told.
LEMMA ClearHistoryKeeps == ASSUME Inv, ClearHistory PROVE Inv'
<1> DEFINE odd == run.pc # "idle"
           n == count.sent + 1
<1>0. /\ Basic /\ Types /\ Shape /\ ShownInv
      /\ run \in Runs /\ LedgerGood(ledger) /\ board \in Boards
  BY DEF Inv, Basic, Types
<1>1. /\ run' = [run EXCEPT !.task = NoTask, !.steps = 0, !.errs = 0, !.repeats = 0, !.last = << >>,
                            !.abort = "no", !.odd = odd]
      /\ given' = {} /\ hist' = NoHistory /\ ledger' = Cleared(ledger) /\ told' = << >> /\ grants' = {}
      /\ board' = SeesIdle(board) /\ run.pc \notin {"wave", "open", "denied"}
      /\ count' = [count EXCEPT !.waiting = 0, !.sent = n]
      /\ UNCHANGED <<batch, todo, live, plan>>
  BY DEF ClearHistory, Awaits
<1>2. odd \in BOOLEAN /\ n \in Nat
  <2>1. count.sent \in Nat
    BY <1>0, CountFacts
  <2> QED
    BY <2>1
<1> HIDE DEF n
<1>3. /\ count' \in [task : Nat, call : Nat, waiting : Nat, sent : Nat, maxSteps : Nat]
      /\ count'.task = count.task /\ count'.call = count.call /\ count'.maxSteps = count.maxSteps
  BY <1>0, <1>1, <1>2, CountFacts
<1>4. /\ board' \in Boards
      /\ \A k : (Working(board', k) => Working(board, k)) /\ ~Waiting(board', k)
  BY <1>0, <1>1, SeesIdleFacts
<1>5. LedgerGood(ledger') /\ ledger'.objs = << >> /\ ledger'.made = ledger.made
  BY <1>0, <1>1, OthersKeep
<1> HIDE DEF odd
<1>6. run' \in Runs
  BY <1>0, <1>1, <1>2 DEF Runs, Actions, NoTask
<1>7. /\ run'.pc = run.pc /\ run'.task = NoTask /\ run'.steps = 0 /\ run'.direct = run.direct
      /\ run'.stop = run.stop /\ run'.replans = run.replans /\ run'.abort = "no" /\ run'.odd = odd
  BY <1>0, <1>1 DEF Runs
<1>8. NoHistory \in Histories /\ ~NoHistory.broken /\ NoHistory.open = {}
  BY DEF NoHistory, Histories
<1>9. Types'
  <2>1. count.task \in Nat /\ count.maxSteps \in Nat
    BY <1>0, CountFacts
  <2>2. run'.steps <= count'.maxSteps /\ run'.task <= count'.task
    BY <1>3, <1>7, <2>1 DEF NoTask
  <2> QED
    BY <1>0, <1>1, <1>3, <1>4, <1>5, <1>6, <1>7, <1>8, <2>2 DEF Types
<1>10. Wave' = Wave /\ (Single' <=> Single) /\ Flying' = Flying
  BY <1>1 DEF Wave, Single, Flying
<1>11. /\ run.pc = "model" => odd
       /\ plan # "first" => odd
  BY <1>0 DEF odd, Shape
<1>12. Shape'
  <2>1. \A i \in DOMAIN live' : live'[i].obj <= ledger'.made /\ Open(ledger', live'[i].obj)
    BY <1>0, <1>1, <1>5 DEF Shape, Open
  <2> QED
    BY <1>0, <1>1, <1>3, <1>7, <1>10, <1>11, <2>1 DEF Shape
<1>13. ShownInv'
  BY <1>0, <1>1, <1>4 DEF ShownInv
<1>14. GrantsInv'
  BY <1>1 DEF GrantsInv
<1>15. HistoryInv'
  <2> SUFFICES ASSUME ~odd PROVE HistoryInv'
    BY <1>7 DEF HistoryInv
  <2>1. run.pc = "idle" /\ run.pc \in Between
    BY DEF odd, Between
  <2>2. Unsettled(batch') = {}
    BY <1>0, <1>1, <2>1 DEF Shape, Unsettled
  <2> QED
    BY <1>1, <1>7, <1>8, <2>1, <2>2 DEF HistoryInv
<1>16. ResultsInv'
  BY <1>1, <1>7 DEF ResultsInv
<1> QED
  BY <1>9, <1>12, <1>13, <1>14, <1>15, <1>16 DEF Inv, Basic

-----------------------------------------------------------------------------
(* The calls of an answer, and the direct call *)

\* A call as it is prepared.
LEMMA PreparedFacts ==
    ASSUME NEW tool \in Tools, NEW arg \in Arguments \cup {0}, NEW id \in Nat
    PROVE  LET p == Prepared([tool |-> tool, arg |-> arg], id) IN
           p \in Steps /\ p.id = id /\ p.state = "pending" /\ p.tool = tool
BY DEF Prepared, Steps, States

\* The calls a model may make.
LEMMA CallFacts ==
    ASSUME NEW call \in Calls PROVE call.tool \in Tools /\ call.arg \in Arguments
<1>1. PICK a \in Answers : \E i \in DOMAIN a : call = a[i]
  BY DEF Calls
<1> DEFINE R == [tool : Tools, arg : Arguments]
<1>2. a \in Seq(R)
  BY AnswersAssumption
<1> HIDE DEF R
<1>3. call \in R
  <2>1. \A i \in DOMAIN a : a[i] \in R
    BY <1>2
  <2> QED
    BY <1>1, <2>1
<1> QED
  BY <1>3 DEF R

\* A direct task begins, with its one call.
LEMMA BeginDirectKeeps == ASSUME Inv, NEW call \in Calls, BeginDirect(call) PROVE Inv'
<1> DEFINE t == count.task + 1
           n == count.call + 1
           p == Prepared(call, n)
<1>0. /\ Basic /\ Types /\ Shape /\ GrantsInv /\ HistoryInv /\ ResultsInv /\ run \in Runs /\ LedgerGood(ledger)
      /\ hist \in Histories /\ count.task \in Nat /\ count.call \in Nat
  BY CountFacts DEF Inv, Basic, Types
<1>1. /\ run.pc = "start" /\ run' = Begun(run, "open", TRUE)
      /\ count' = [count EXCEPT !.task = t, !.call = n]
      /\ batch' = <<p>> /\ todo' = <<<<1>>>> /\ plan' = "first" /\ board' = << >>
      /\ ledger' = Assign(ledger, run'.task) /\ hist' = Asked(Said(hist), {n})
      /\ UNCHANGED <<live, told, grants, given>>
  BY DEF BeginDirect
<1>2. t \in Nat /\ n \in Nat /\ t > count.task
  BY <1>0
<1>3. p \in Steps /\ p.id = n /\ p.state = "pending"
  <2>1. call.tool \in Tools /\ call.arg \in Arguments \cup {0}
    BY CallFacts
  <2> QED
    BY <1>2, <2>1 DEF Prepared, Steps, States
<1>4. /\ run' \in Runs /\ run'.pc = "open" /\ run'.task = t /\ run'.direct /\ run'.abort = "no"
      /\ ~run'.stop /\ run'.replans = 0 /\ run'.steps <= count.maxSteps /\ run'.mark = hist
      /\ run'.no = run.no /\ run'.odd = run.odd
  <2>1. "open" \in Controls /\ TRUE \in BOOLEAN
    BY DEF Controls
  <2> QED
    BY <1>0, <1>1, <2>1, BegunFacts
<1>5. /\ count' \in [task : Nat, call : Nat, waiting : Nat, sent : Nat, maxSteps : Nat]
      /\ count'.task = t /\ count'.call = n /\ count'.maxSteps = count.maxSteps
  <2> HIDE DEF t, n
  <2> QED
    BY <1>0, <1>1, <1>2, CountFacts
<1>6. LedgerGood(ledger') /\ RecordsTo(ledger, ledger')
  BY <1>0, <1>1, <1>2, <1>4, AssignKeeps
<1>7. live = << >>
  BY <1>0, <1>1 DEF Shape
<1>8. << >> \in Boards
  <2>1. << >> \in [{} -> Marks] /\ {} \in SUBSET Nat
    OBVIOUS
  <2> QED
    BY <2>1 DEF Boards, Partial
<1>9. /\ hist' \in Histories /\ hist'.open = {n} /\ (~hist.broken /\ hist.open = {} => ~hist'.broken)
  <2>1. Said(hist) \in Histories /\ Said(hist).open = {} /\ (~hist.broken /\ hist.open = {} => ~Said(hist).broken)
    BY <1>0, SaidFacts
  <2> DEFINE g == Said(hist)
  <2> HIDE DEF g, n
  <2>2. {n} \in SUBSET Nat /\ g \in Histories
    BY <1>2, <2>1 DEF g
  <2>3. Asked(g, {n}) \in Histories /\ Asked(g, {n}).open = {n} /\ (~g.broken /\ g.open = {} => ~Asked(g, {n}).broken)
    BY <2>2, HistoryFacts
  <2> QED
    BY <1>1, <2>1, <2>3 DEF g
<1> HIDE DEF p, n, t
<1>10. batch' \in Seq(Steps) /\ DOMAIN batch' = {1} /\ Len(batch') = 1 /\ batch'[1] = p
  BY <1>1, <1>3
<1>11. Types'
  <2>1. run'.replans <= MaxReplans /\ run'.task <= count'.task
    BY <1>2, <1>4, <1>5, BudgetsAssumption
  <2>2. plan' \in {"first", "observe", "again", "failed"} /\ live' \in Lives /\ board' \in Boards
    BY <1>0, <1>1, <1>8 DEF Types
  <2> QED
    BY <1>4, <1>5, <1>6, <1>9, <1>10, <2>1, <2>2 DEF Types
<1>12. todo' \in Seq(Seq(DOMAIN batch')) /\ DOMAIN todo' = {1} /\ todo'[1] = <<1>> /\ Wave' = <<1>> /\ Single'
  BY <1>1, <1>10 DEF Wave, Single
<1>13. WavesGood(todo', batch')
  <2>1. DOMAIN todo'[1] = {1} /\ todo'[1][1] = 1 /\ Len(todo'[1]) = 1 /\ todo'[1] # << >>
    BY <1>12
  <2> DEFINE w == todo'
             x == todo'[1]
  <2>2. /\ w \in Seq(Seq(DOMAIN batch')) /\ DOMAIN w = {1} /\ w[1] = x
        /\ DOMAIN x = {1} /\ x[1] = 1 /\ ~(Len(x) >= 2) /\ x # << >> /\ batch'[1].state = "pending"
    BY <1>3, <1>10, <1>12, <2>1
  <2> HIDE DEF w, x
  <2>3. WavesGood(w, batch')
    BY <2>2 DEF WavesGood
  <2> QED
    BY <2>3 DEF w
<1>14. Shape'
  <2>1. /\ \A i, j \in DOMAIN batch' : batch'[i].id = batch'[j].id => i = j
        /\ \A i \in DOMAIN batch' : batch'[i].id <= count'.call
    BY <1>2, <1>3, <1>5, <1>10
  <2>2. todo' # << >>
    BY <1>12
  <2>3. /\ run'.pc \notin Between /\ run'.pc \notin Between \cup {"wave"}
        /\ run'.pc \notin {"tools", "settle"} /\ run'.pc \notin {"loop", "model", "backoff", "wave"}
        /\ run'.pc \notin {"loop", "model", "backoff"}
    BY <1>4 DEF Between
  <2>4. live' = << >> /\ plan' = "first" /\ todo' = <<<<1>>>>
    BY <1>1, <1>7
  <2>5. \A i \in DOMAIN live' : live'[i].obj <= ledger'.made /\ Open(ledger', live'[i].obj)
    BY <2>4
  <2> QED
    BY <1>4, <1>10, <1>12, <1>13, <2>1, <2>2, <2>3, <2>4, <2>5 DEF Shape
<1>15. ShownInv'
  <2>1. \A k : ~Working(board', k) /\ ~Waiting(board', k)
    BY <1>1 DEF Working, Waiting
  <2> QED
    BY <2>1, NothingShown
<1>16. Ended /\ ~Ended'
  BY <1>1, <1>4 DEF Ended
<1>17. GrantsInv'
  <2>1. count'.task \in Nat /\ count.task <= count'.task
    BY <1>0, <1>2, <1>5
  <2>2. grants' \subseteq grants /\ given \subseteq given' /\ run'.task > count.task
    BY <1>1, <1>2, <1>4
  <2> QED
    BY <1>0, <2>1, <2>2, GrantsKept
<1>18. HistoryInv'
  <2> SUFFICES ASSUME ~run.odd
               PROVE  /\ ~hist'.broken /\ hist'.open = Unsettled(batch')
                      /\ run'.task # NoTask /\ ~run'.mark.broken /\ run'.mark.open = {}
    BY <1>4 DEF HistoryInv
  <2>1. ~hist.broken /\ hist.open = {}
    BY <1>0, <1>1, BetweenFacts DEF Between
  <2>2. Unsettled(batch') = {n}
    BY <1>3, <1>10 DEF Unsettled
  <2>3. t # NoTask
    BY <1>0 DEF t, NoTask
  <2> QED
    BY <1>4, <1>9, <2>1, <2>2, <2>3
<1>19. ResultsInv'
  BY <1>0, <1>1, <1>6, <1>16, ResultsKept DEF RecordsTo
<1> QED
  BY <1>11, <1>14, <1>15, <1>17, <1>18, <1>19 DEF Inv, Basic

\* The calls of an answer are prepared and planned; once stopped, none of them.
LEMMA ModelCallsKeeps == ASSUME Inv, NEW calls \in Answers, ModelCalls(calls) PROVE Inv'
<1> DEFINE N == Len(calls)
           ids == [i \in DOMAIN calls |-> count.call + i]
           idset == {ids[i] : i \in DOMAIN ids}
           pcs == IF run.stop \/ run.abort # "no" THEN << >>
                  ELSE [i \in DOMAIN calls |-> Prepared(calls[i], ids[i])]
           c == count.call + N
<1>0. /\ Basic /\ Types /\ Shape /\ ShownInv /\ GrantsInv /\ HistoryInv /\ ResultsInv /\ run \in Runs
      /\ LedgerGood(ledger) /\ hist \in Histories /\ count.task \in Nat /\ count.call \in Nat
  BY CountFacts DEF Inv, Basic, Types
<1>1. /\ run.pc = "model" /\ run' = [run EXCEPT !.pc = "wave", !.errs = 0]
      /\ hist' = Asked(hist, idset) /\ batch' = pcs /\ todo' = PlanWaves(pcs) /\ plan' = "first"
      /\ ledger' = IF pcs = << >> THEN ledger ELSE Assign(ledger, run.task)
      /\ count' = [count EXCEPT !.call = c]
      /\ UNCHANGED <<live, told, grants, board, given>>
  BY DEF ModelCalls
<1>3. N \in Nat /\ DOMAIN calls = 1..N /\ \A i \in 1..N : calls[i] \in [tool : Tools, arg : Arguments]
  <2> DEFINE R == [tool : Tools, arg : Arguments]
  <2>1. calls \in Seq(R)
    BY AnswersAssumption
  <2> HIDE DEF R
  <2>2. N \in Nat /\ DOMAIN calls = 1..N /\ \A i \in 1..N : calls[i] \in R
    BY <2>1
  <2> QED
    BY <2>2 DEF R
<1>4. \A i \in 1..N : ids[i] = count.call + i /\ ids[i] \in Nat /\ ids[i] <= c /\ c \in Nat
  BY <1>0, <1>3
<1>5. \A i, j \in 1..N : ids[i] = ids[j] => i = j
  BY <1>0, <1>4
<1>6. \A i \in 1..N : LET p == Prepared(calls[i], ids[i]) IN
        p \in Steps /\ p.id = ids[i] /\ p.state = "pending"
  <2> TAKE i \in 1..N
  <2>1. calls[i].tool \in Tools /\ calls[i].arg \in Arguments \cup {0} /\ ids[i] \in Nat
    BY <1>3, <1>4
  <2> HIDE DEF ids
  <2> QED
    BY <2>1 DEF Prepared, Steps, States
<1>7. idset = {ids[i] : i \in 1..N} /\ idset \in SUBSET Nat
  BY <1>3, <1>4
<1>8. c \in Nat
  BY <1>0, <1>3
<1> HIDE DEF ids, c
<1>9. /\ pcs \in Seq(Steps) /\ \A i \in DOMAIN pcs : /\ i \in 1..N /\ pcs[i].id = ids[i]
                                                     /\ pcs[i].state = "pending" /\ pcs[i].id <= c
  <2>1. CASE run.stop \/ run.abort # "no"
    BY <2>1
  <2>2. CASE ~(run.stop \/ run.abort # "no")
    <3>1. pcs = [i \in 1..N |-> Prepared(calls[i], ids[i])]
      BY <1>3, <2>2
    <3> HIDE DEF pcs
    <3>2. pcs \in [1..N -> Steps] /\ DOMAIN pcs = 1..N
      BY <1>6, <3>1
    <3>3. pcs \in Seq(Steps)
      BY <1>3, <3>2
    <3>4. \A i \in 1..N : pcs[i] = Prepared(calls[i], ids[i])
      BY <3>1
    <3> QED
      BY <1>4, <1>6, <3>2, <3>3, <3>4
  <2> QED
    BY <2>1, <2>2
<1>10. ~run.stop /\ run.abort = "no" => {pcs[i].id : i \in DOMAIN pcs} = idset
  <2> SUFFICES ASSUME ~run.stop /\ run.abort = "no" PROVE {pcs[i].id : i \in DOMAIN pcs} = idset
    OBVIOUS
  <2>1. DOMAIN pcs = 1..N
    BY <1>3
  <2> HIDE DEF pcs
  <2> QED
    BY ZenonT(40), <1>7, <1>9, <2>1
<1> HIDE DEF pcs, idset, N
<1>11. WavesGood(todo', batch')
  BY <1>1, <1>9, WavesPlanned
<1>12. run' \in Runs
  BY <1>0, <1>1 DEF Runs, Controls
<1>13. /\ run'.pc = "wave" /\ run'.task = run.task /\ run'.direct = run.direct /\ run'.steps = run.steps
       /\ run'.replans = run.replans /\ run'.no = run.no /\ run'.odd = run.odd /\ run'.stop = run.stop
  BY <1>0, <1>1 DEF Runs
<1>14. /\ count' \in [task : Nat, call : Nat, waiting : Nat, sent : Nat, maxSteps : Nat]
       /\ count'.task = count.task /\ count'.call = c /\ count'.maxSteps = count.maxSteps
  BY <1>0, <1>1, <1>8, CountFacts
<1>15. LedgerGood(ledger') /\ RecordsTo(ledger, ledger')
  <2>1. run.task \in Nat
    BY <1>0 DEF Runs
  <2> QED
    BY <1>0, <1>1, <2>1, AssignKeeps, ReflexiveGrowth
<1>16. hist' \in Histories /\ hist'.open = idset /\ (~hist.broken /\ hist.open = {} => ~hist'.broken)
  BY <1>0, <1>1, <1>7, HistoryFacts
<1>17. live = << >> /\ ~run.direct /\ run.abort = "no" /\ (run.stop => run.odd)
  BY <1>0, <1>1 DEF Shape
<1>18. Types'
  BY <1>0, <1>1, <1>9, <1>12, <1>13, <1>14, <1>15, <1>16 DEF Types
<1>19. Shape'
  <2>1. /\ \A i, j \in DOMAIN batch' : batch'[i].id = batch'[j].id => i = j
        /\ \A i \in DOMAIN batch' : batch'[i].id <= count'.call
    BY <1>1, <1>5, <1>9, <1>14
  <2> QED
    BY <1>1, <1>11, <1>13, <1>17, <2>1 DEF Shape, Between
<1>20. ShownInv'
  <2>1. \A k : ~Working(board', k) /\ ~Waiting(board', k)
    BY <1>0, <1>1, BetweenFacts DEF Between
  <2> QED
    BY <2>1, NothingShown
<1>21. ~Ended /\ ~Ended'
  BY <1>1, <1>13 DEF Ended
<1>22. GrantsInv'
  <2>1. count'.task \in Nat /\ count.task <= count'.task
    BY <1>0, <1>14
  <2>2. grants' \subseteq grants /\ given \subseteq given'
    BY <1>1
  <2> QED
    BY <1>0, <1>13, <1>21, <2>1, <2>2, GrantsKept
<1>23. HistoryInv'
  <2> SUFFICES ASSUME ~run.odd PROVE ~hist'.broken /\ hist'.open = Unsettled(batch')
    BY <1>13, <1>17 DEF HistoryInv
  <2>1. ~hist.broken /\ hist.open = {}
    BY <1>0, <1>1, BetweenFacts DEF Between
  <2>2. Unsettled(batch') = {pcs[i].id : i \in DOMAIN pcs}
    BY <1>1, <1>9 DEF Unsettled
  <2> QED
    BY <1>10, <1>16, <1>17, <2>1, <2>2
<1>24. ResultsInv'
  BY <1>0, <1>1, <1>15, <1>21, ResultsKept DEF RecordsTo
<1> QED
  BY <1>18, <1>19, <1>20, <1>22, <1>23, <1>24 DEF Inv, Basic

-----------------------------------------------------------------------------
(* Plan B *)

\* An observation is a call of a tool.
LEMMA PlanBTools == ASSUME NEW tool PROVE PlanBTool(tool) \in Tools
BY DEF PlanBTool, Tools

\* Sequences of sequences over a set are so over a larger one.
LEMMA LongerSequences ==
    ASSUME NEW S, NEW T, S \subseteq T, NEW q \in Seq(Seq(S)) PROVE q \in Seq(Seq(T))
<1>1. \A w \in Seq(S) : w \in Seq(T)
  OBVIOUS
<1> DEFINE A == Seq(S)
           B == Seq(T)
<1>2. A \subseteq B /\ q \in Seq(A)
  BY <1>1
<1> HIDE DEF A, B
<1>3. q \in Seq(B)
  BY <1>2
<1> QED
  BY <1>3 DEF B

\* A failed call is replanned: its observation starts, or its budget refuses it.
LEMMA PlanBKeeps == ASSUME Inv, PlanB PROVE Inv'
<1> DEFINE N == Len(batch)
           c == count.call + 1
           step == Prepared([tool |-> PlanBTool(Call.tool), arg |-> 0], c)
           n == N + 1
           a == Append(batch, step)
           l0 == RecordReplan(ledger, ObjectiveId)
           l == Assign(l0, run.task)
           b == SeesRetry(board, Call.id, TRUE)
           s0 == [batch |-> a, ledger |-> l, live |-> live, board |-> b]
           s == Started(s0, n)
           pc == IF s.live[n].out = "running" THEN "tools" ELSE "settle"
           k == run.replans + 1
<1>0. /\ Basic /\ Types /\ Shape /\ ShownInv /\ GrantsInv /\ HistoryInv /\ ResultsInv /\ run \in Runs
      /\ LedgerGood(ledger) /\ hist \in Histories /\ board \in Boards /\ live \in Lives /\ batch \in Seq(Steps)
      /\ count.task \in Nat /\ count.call \in Nat /\ run.replans \in Nat /\ run.task \in Nat
  BY CountFacts DEF Inv, Basic, Types, Runs
<1>1. /\ run.pc = "settle" /\ Single /\ plan = "first" /\ run.replans < MaxReplans
      /\ (ObjectiveId = NoObjective \/ ReplanAllowed(ledger, ObjectiveId))
      /\ plan' = "observe" /\ count' = [count EXCEPT !.call = c]
      /\ batch' = s.batch /\ ledger' = s.ledger /\ board' = s.board /\ live' = s.live
      /\ run' = [run EXCEPT !.replans = k, !.odd = TRUE, !.pc = pc]
      /\ UNCHANGED <<todo, told, hist, grants, given>>
  BY <1>0 DEF PlanB, Replans, Runs
<1>2. todo # << >> /\ run.pc \notin Between /\ DOMAIN live = Flying
  BY <1>0, <1>1 DEF Shape, Between
<1>3. /\ N \in Nat /\ DOMAIN batch = 1..N /\ Call.id \in Nat /\ Wave[1] \in DOMAIN batch /\ Call = batch[Wave[1]]
      /\ 1 \in DOMAIN Wave /\ \A j \in DOMAIN Wave : Wave[j] \in DOMAIN batch
  BY <1>0, <1>2, WaveFacts DEF Call
<1>4. n \in Nat /\ n \in 1..n /\ N # n /\ DOMAIN batch \subseteq 1..n /\ n \notin DOMAIN batch /\ c \in Nat
      /\ 1..n = (1..N) \cup {n}
  <2>1. DOMAIN batch = 1..N /\ N \in Nat /\ count.call \in Nat
    BY <1>0, <1>3
  <2>2. c \in Nat
    BY <2>1
  <2> HIDE DEF N, c
  <2>3. n \in Nat /\ n \in 1..n /\ N # n
    BY <2>1
  <2>4. 1..N \subseteq 1..n /\ n \notin 1..N /\ 1..n = (1..N) \cup {n}
    BY <2>1
  <2> HIDE DEF n
  <2> QED
    BY <2>1, <2>2, <2>3, <2>4
<1>5. step \in Steps /\ step.id = c
  <2>1. PlanBTool(Call.tool) \in Tools /\ 0 \in Arguments \cup {0}
    BY PlanBTools
  <2> QED
    BY <1>4, <2>1 DEF Prepared, Steps, States
<1>6. /\ a \in [1..n -> Steps] /\ a[n] = step /\ \A i \in DOMAIN batch : a[i] = batch[i]
  <2> HIDE DEF step
  <2>1. /\ a \in Seq(Steps) /\ DOMAIN a = 1..(Len(batch) + 1) /\ a[Len(batch) + 1] = step
        /\ \A i \in DOMAIN batch : i \in DOMAIN a /\ a[i] = batch[i]
    BY <1>0, <1>5, AppendFacts
  <2> HIDE DEF a
  <2>2. a \in [DOMAIN a -> Steps]
    BY <2>1
  <2> QED
    BY <2>1, <2>2
<1>7. LedgerGood(l0) /\ RecordsTo(ledger, l0)
  <2>1. Open(ledger, ObjectiveId) /\ NoObjective \notin DOMAIN ledger.objs
    BY <1>0, OthersKeep DEF ObjectiveId
  <2>2. ObjectiveId \in DOMAIN ledger.objs => ledger.objs[ObjectiveId].replans < MaxReplans
    BY <1>1, <2>1 DEF ReplanAllowed
  <2> QED
    BY <1>0, <2>1, <2>2, RecordReplanKeeps
<1> HIDE DEF l0
<1>8. LedgerGood(l) /\ RecordsTo(ledger, l)
  <2>1. LedgerGood(l) /\ RecordsTo(l0, l)
    BY <1>0, <1>7, AssignKeeps
  <2> HIDE DEF l
  <2> QED
    BY <1>0, <1>7, <2>1, GrowthComposes DEF RecordsTo
<1>9. /\ b \in Boards
      /\ \A id : /\ Working(b, id) => Working(board, id) \/ id = Call.id
                 /\ Waiting(b, id) => Waiting(board, id)
  <2>1. TRUE \in BOOLEAN
    OBVIOUS
  <2> QED
    BY <1>0, <1>3, <2>1, SeesRetryFacts
<1> HIDE DEF a, l, b, step
<1>10. /\ s0 \in Starting(n) /\ s0.batch = a /\ s0.ledger = l /\ s0.live = live /\ s0.board = b
       /\ LedgerGood(s0.ledger)
  BY <1>0, <1>6, <1>8, <1>9 DEF Starting, LedgerGood
<1> HIDE DEF s0, n
<1>11. StartedFrom(n, s0, s, {} \cup {n})
  <2>1. StartedFrom(n, s0, s0, {})
    BY <1>4, <1>10, NoneStarted
  <2>2. {} \in SUBSET (1..n) /\ n \in Nat /\ s0 \in Starting(n) /\ LedgerGood(s0.ledger) /\ n \in 1..n
    BY <1>4, <1>10
  <2> QED
    BY <2>1, <2>2, OneStarts
<1>12. {} \cup {n} = {n}
  OBVIOUS
<1>13. StartedFrom(n, s0, s, {n})
  BY <1>11, <1>12
<1> HIDE DEF s
<1>14. /\ batch' \in [1..n -> Steps] /\ LedgerGood(ledger') /\ board' \in Boards /\ live' \in Lives
  BY <1>1, <1>13 DEF StartedFrom, Starting
<1>15. /\ \A i \in 1..n : batch'[i].id = a[i].id /\ (i # n => batch'[i] = a[i])
       /\ DOMAIN live' = DOMAIN live \cup {n}
       /\ \A i \in DOMAIN live' : IF i = n THEN live'[i].obj = CurrentIn(l) ELSE live'[i] = live[i]
       /\ RecordsTo(l, ledger') /\ DOMAIN ledger'.objs = DOMAIN l.objs
       /\ \A id : /\ Working(board', id) => Working(b, id) \/ a[n].id = id
                  /\ Waiting(board', id) => Waiting(b, id)
  BY <1>1, <1>10, <1>13 DEF StartedFrom
<1>16. /\ \A i \in DOMAIN batch : batch'[i] = batch[i]
       /\ batch'[n].id = c
       /\ DOMAIN batch' = 1..n /\ batch' \in Seq(Steps) /\ Len(batch') = n
  <2>1. \A i \in DOMAIN batch : i \in 1..n /\ i # n
    BY <1>4
  <2>2. DOMAIN batch' = 1..n /\ batch' \in Seq(Steps) /\ Len(batch') = n
    BY <1>4, <1>14
  <2> QED
    BY <1>4, <1>5, <1>6, <1>15, <2>1, <2>2
<1>17. /\ run' \in Runs
       /\ run'.pc \in {"tools", "settle"} /\ run'.task = run.task /\ run'.direct = run.direct
       /\ run'.steps = run.steps /\ run'.no = run.no /\ run'.odd
       /\ run'.replans = k /\ k <= MaxReplans
  <2>1. k \in Nat /\ k <= MaxReplans
    BY <1>0, <1>1, BudgetsAssumption
  <2>2. pc \in {"tools", "settle"}
    OBVIOUS
  <2> HIDE DEF pc, k
  <2>3. run' \in Runs
    BY <1>0, <1>1, <2>1, <2>2 DEF Runs, Controls
  <2> QED
    BY <1>0, <1>1, <2>1, <2>2, <2>3 DEF Runs
<1>18. /\ count' \in [task : Nat, call : Nat, waiting : Nat, sent : Nat, maxSteps : Nat]
       /\ count'.task = count.task /\ count'.call = c /\ count'.maxSteps = count.maxSteps
  <2> HIDE DEF c
  <2> QED
    BY <1>0, <1>1, <1>4, CountFacts
<1>19. Types'
  BY <1>0, <1>1, <1>14, <1>16, <1>17, <1>18 DEF Types
<1>20. LedgerGood(ledger') /\ RecordsTo(ledger, ledger')
  BY <1>0, <1>8, <1>14, <1>15, GrowthComposes DEF RecordsTo
<1>21. \A i \in DOMAIN live' : live'[i].obj <= ledger'.made /\ Open(ledger', live'[i].obj)
  <2>1. /\ CurrentIn(l) <= l.made /\ CurrentIn(l) \in Nat /\ Open(l, CurrentIn(l))
        /\ l.made \in Nat /\ ledger'.made \in Nat /\ l.made <= ledger'.made
        /\ ledger.made \in Nat /\ ledger.made <= ledger'.made
    BY <1>0, <1>8, <1>15, <1>20, OthersKeep DEF LedgerGood, Ledgers, RecordsTo, GrowsTo
  <2>2. CurrentIn(l) <= ledger'.made /\ Open(ledger', CurrentIn(l))
    BY <1>15, <2>1 DEF Open, RecordsTo, GrowsTo
  <2>3. ASSUME NEW i \in DOMAIN live PROVE live[i].obj <= ledger'.made /\ Open(ledger', live[i].obj)
    <3>1. live[i].obj <= ledger.made /\ Open(ledger, live[i].obj)
      BY <1>0 DEF Shape
    <3>2. live[i].obj \in Nat
      <4>1. live[i] \in Bodies
        BY <1>0, PartialIs DEF Lives
      <4> QED
        BY <4>1 DEF Bodies
    <3>3. live[i].obj \in DOMAIN ledger'.objs => live[i].obj \in DOMAIN ledger.objs
      BY <2>1, <3>1, <3>2, <1>20 DEF RecordsTo, GrowsTo
    <3> QED
      BY <1>20, <2>1, <3>1, <3>2, <3>3 DEF Open, RecordsTo
  <2> QED
    BY <1>15, <2>2, <2>3
<1>22. Wave' = Wave /\ (Single' <=> Single) /\ Flying' = Flying \cup {n}
  BY <1>1, <1>16 DEF Wave, Single, Flying
<1>23. \A m \in DOMAIN todo : \A i \in DOMAIN todo[m] : todo[m][i] \in DOMAIN batch
  <2>1. todo \in Seq(Seq(DOMAIN batch))
    BY <1>0 DEF Shape, WavesGood
  <2> QED
    BY <2>1
<1>24. WavesGood(todo', batch')
  <2>1. todo' \in Seq(Seq(DOMAIN batch'))
    <3>1. todo \in Seq(Seq(DOMAIN batch)) /\ DOMAIN batch \subseteq DOMAIN batch'
      BY <1>0, <1>4, <1>16 DEF Shape, WavesGood
    <3> QED
      BY <1>1, <3>1, LongerSequences
  <2>2. ASSUME NEW m \in DOMAIN todo
        PROVE  /\ todo[m] # << >>
               /\ \A i, j \in DOMAIN todo[m] : todo[m][i] = todo[m][j] => i = j
               /\ Len(todo[m]) >= 2 => \A i \in DOMAIN todo[m] : ~Serial(batch'[todo[m][i]].tool)
               /\ \A i \in DOMAIN todo[m] : batch'[todo[m][i]].state \in {"pending", "executing"}
    <3>1. /\ todo[m] # << >>
          /\ \A i, j \in DOMAIN todo[m] : todo[m][i] = todo[m][j] => i = j
          /\ Len(todo[m]) >= 2 => \A i \in DOMAIN todo[m] : ~Serial(batch[todo[m][i]].tool)
          /\ \A i \in DOMAIN todo[m] : batch[todo[m][i]].state \in {"pending", "executing"}
      BY <1>0 DEF Shape, WavesGood
    <3>2. \A i \in DOMAIN todo[m] : batch'[todo[m][i]] = batch[todo[m][i]]
      BY <1>16, <1>23
    <3> QED
      BY <3>1, <3>2
  <2>3. \A m, p \in DOMAIN todo : \A i \in DOMAIN todo[m], j \in DOMAIN todo[p] : todo[m][i] = todo[p][j] => m = p
    BY <1>0 DEF Shape, WavesGood
  <2> QED
    BY <1>1, <2>1, <2>2, <2>3 DEF WavesGood
<1>25. /\ \A i, j \in DOMAIN batch' : batch'[i].id = batch'[j].id => i = j
       /\ \A i \in DOMAIN batch' : batch'[i].id <= count'.call
  <2>1. \A i \in DOMAIN batch : batch[i].id <= count.call /\ batch[i].id \in Nat
    <3>1. \A i \in DOMAIN batch : batch[i] \in Steps
      BY <1>0
    <3> QED
      BY <1>0, <3>1 DEF Shape, Steps
  <2>2. \A i \in DOMAIN batch : batch[i].id # c /\ batch[i].id <= c
    BY <1>0, <2>1
  <2>3. \A i, j \in DOMAIN batch : batch[i].id = batch[j].id => i = j
    BY <1>0 DEF Shape
  <2>4. \A i \in DOMAIN batch' : i \in DOMAIN batch \/ i = n
    BY <1>3, <1>4, <1>16
  <2>5. c <= c
    BY <1>4
  <2> HIDE DEF c
  <2> QED
    BY <1>16, <1>18, <2>2, <2>3, <2>4, <2>5
<1>26. Shape'
  <2>1. run'.pc \notin Between /\ run'.pc \notin {"open", "gate", "denied", "loop", "model", "backoff", "wave"}
    BY <1>17 DEF Between
  <2>2. run'.direct => todo' = <<<<1>>>>
    BY <1>0, <1>1, <1>2, <1>17 DEF Shape
  <2>3. \A m \in DOMAIN todo' : \A i \in DOMAIN todo'[m] : todo'[m][i] # Len(batch')
    BY <1>1, <1>4, <1>16, <1>23
  <2>4. DOMAIN live' = Flying'
    BY <1>2, <1>15, <1>22
  <2>5. plan' # "first" /\ plan' # "failed" /\ todo' # << >> /\ Single'
    BY <1>1, <1>2, <1>22
  <2> QED
    BY <1>17, <1>21, <1>24, <1>25, <2>1, <2>2, <2>3, <2>4, <2>5 DEF Shape
<1>27. ShownInv'
  <2>1. \A id : ~Waiting(board', id)
    BY <1>0, <1>1, <1>9, <1>15 DEF ShownInv
  <2>2. plan' \notin {"again", "failed"}
    BY <1>1
  <2>3. ASSUME NEW id, Working(board', id) PROVE \E i \in DOMAIN live' : batch'[i].id = id
    <3>1. CASE id = c
      BY <1>15, <1>16, <3>1
    <3>2. CASE id = Call.id
      <4>1. Wave[1] \in DOMAIN live
        BY <1>2, <1>3 DEF Flying
      <4> QED
        BY <1>3, <1>15, <1>16, <3>2, <4>1
    <3>3. CASE Working(board, id)
      <4>1. PICK i \in DOMAIN live : batch[i].id = id
        BY <1>0, <3>3 DEF ShownInv
      <4>2. i \in DOMAIN batch
        BY <1>1, <1>2, <1>3, <4>1 DEF Flying
      <4> QED
        BY <1>15, <1>16, <4>1, <4>2
    <3>4. id = c \/ id = Call.id \/ Working(board, id)
      BY <1>5, <1>6, <1>9, <1>15, <2>3
    <3> QED
      BY <3>1, <3>2, <3>3, <3>4
  <2> QED
    BY <2>1, <2>2, <2>3 DEF ShownInv
<1>28. ~Ended /\ ~Ended'
  BY <1>1, <1>17 DEF Ended
<1>29. GrantsInv'
  <2>1. count'.task \in Nat /\ count.task <= count'.task
    BY <1>0, <1>18
  <2>2. grants' \subseteq grants /\ given \subseteq given'
    BY <1>1
  <2> QED
    BY <1>0, <1>17, <1>28, <2>1, <2>2, GrantsKept
<1>30. HistoryInv'
  BY <1>17 DEF HistoryInv
<1>31. ResultsInv'
  BY <1>0, <1>1, <1>20, <1>28, ResultsKept DEF RecordsTo
<1> QED
  BY <1>19, <1>26, <1>27, <1>29, <1>30, <1>31 DEF Inv, Basic

\* The observation of plan B settled: the call it was made for is tried again,
\* or has failed with it.
LEMMA ObserveSettlesKeeps == ASSUME Inv, ObserveSettles PROVE Inv'
<1> DEFINE n == Len(batch)
           w == Wave[1]
           s == Settled(Here, n)
           b == SeesRetry(s.board, Call.id, TRUE)
<1>0. /\ Basic /\ Types /\ Shape /\ ShownInv /\ GrantsInv /\ ResultsInv /\ run \in Runs /\ batch \in Seq(Steps)
      /\ LedgerGood(ledger) /\ board \in Boards /\ hist \in Histories /\ live \in Lives
  BY DEF Inv, Basic, Types
<1>1. /\ run.pc = "settle" /\ plan = "observe" /\ batch' = s.batch /\ hist' = s.hist
      /\ \/ plan' = "failed" /\ run' = s.run /\ live' = live /\ board' = b
         \/ /\ plan' = "again" /\ run' = [s.run EXCEPT !.pc = "tools"] /\ board' = s.board
            /\ live' = [live EXCEPT ![w].out = "running"]
      /\ todo' = todo /\ ledger' = ledger /\ told' = told /\ grants' = grants /\ given' = given /\ count' = count
  BY DEF ObserveSettles
<1>2. run.pc \notin Between /\ todo # << >> /\ Single /\ run.odd /\ DOMAIN live = Flying
  BY <1>0, <1>1 DEF Shape, Between
<1>3. /\ n \in Nat /\ DOMAIN batch = 1..n /\ batch \in [1..n -> Steps] /\ 1 \in DOMAIN Wave /\ w \in DOMAIN batch
      /\ Call.id \in Nat /\ Call = batch[w] /\ \A k \in DOMAIN Wave : Wave[k] \in DOMAIN batch
  BY <1>0, <1>2, WaveFacts DEF Call
<1>4. n \in 1..n
  BY <1>3
<1>5. w \in DOMAIN live /\ n \in DOMAIN live /\ w # n
  <2>1. \A k \in DOMAIN todo : \A i \in DOMAIN todo[k] : todo[k][i] # n
    BY <1>0, <1>1 DEF Shape
  <2>2. 1 \in DOMAIN todo /\ Wave = todo[1]
    BY <1>0, <1>2 DEF Wave, Shape, WavesGood
  <2> QED
    BY <1>1, <1>2, <1>3, <2>1, <2>2 DEF Flying
<1>6. /\ Here \in Settling(n) /\ Here.batch = batch /\ Here.board = board /\ Here.hist = hist /\ Here.run = run
  BY <1>0, <1>3 DEF Here, Settling
<1> HIDE DEF n, w
<1>7. /\ s \in Settling(n)
      /\ \A j \in 1..n : /\ s.batch[j].tool = batch[j].tool /\ s.batch[j].id = batch[j].id
                         /\ j # n => s.batch[j] = batch[j]
      /\ s.run.pc = run.pc /\ s.run.task = run.task /\ s.run.direct = run.direct
      /\ s.run.steps = run.steps /\ s.run.replans = run.replans /\ s.run.odd = run.odd /\ s.run.no = run.no
  <2> DEFINE z == Here
             y == Settled(z, n)
  <2>1. n \in Nat /\ z \in Settling(n) /\ n \in 1..n
    BY <1>3, <1>4, <1>6
  <2>2. z.batch = batch /\ z.run = run /\ s = y
    BY <1>6
  <2> HIDE DEF z
  <2>3. /\ y \in Settling(n)
        /\ \A j \in 1..n : /\ y.batch[j].tool = z.batch[j].tool /\ y.batch[j].id = z.batch[j].id
                           /\ j # n => y.batch[j] = z.batch[j]
        /\ y.run.pc = z.run.pc /\ y.run.task = z.run.task /\ y.run.direct = z.run.direct
        /\ y.run.steps = z.run.steps /\ y.run.replans = z.run.replans
        /\ y.run.odd = z.run.odd /\ y.run.no = z.run.no
    BY <2>1, SettledStays
  <2> HIDE DEF y, s
  <2> QED
    BY <2>2, <2>3
<1>8. \A k : /\ Working(s.board, k) => Working(board, k) /\ k # batch[n].id
             /\ Waiting(s.board, k) => Waiting(board, k)
  BY <1>3, <1>4, <1>6, SettledBoard
<1> HIDE DEF s
<1>9. s.run \in Runs /\ s.batch \in [1..n -> Steps] /\ s.board \in Boards /\ s.hist \in Histories
  BY <1>7 DEF Settling
<1>10. /\ b \in Boards
       /\ \A k : /\ Working(b, k) => Working(s.board, k) \/ k = Call.id
                 /\ Waiting(b, k) => Waiting(s.board, k)
  <2>1. TRUE \in BOOLEAN
    OBVIOUS
  <2> QED
    BY <1>3, <1>9, <2>1, SeesRetryFacts
<1> HIDE DEF b
<1>11. batch' \in Seq(Steps) /\ DOMAIN batch' = DOMAIN batch /\ Len(batch') = n
  <2>1. batch' \in [1..n -> Steps] /\ n \in Nat
    BY <1>1, <1>3, <1>9
  <2>2. DOMAIN batch' = 1..n /\ batch' \in Seq(Steps) /\ Len(batch') = n
    BY <2>1
  <2> QED
    BY <1>3, <2>2
<1>12. \A i \in DOMAIN batch : /\ batch'[i].tool = batch[i].tool /\ batch'[i].id = batch[i].id
                               /\ i # n => batch'[i] = batch[i]
  BY <1>1, <1>3, <1>7
<1>13. /\ run' \in Runs /\ run'.task = run.task /\ run'.direct = run.direct
       /\ run'.steps = run.steps /\ run'.replans = run.replans /\ run'.no = run.no /\ run'.odd
       /\ \/ run'.pc = "settle"
          \/ run'.pc = "tools" /\ plan' # "failed"
       /\ board' \in Boards /\ plan' \in {"again", "failed"}
       /\ \A k : /\ Working(board', k) => Working(s.board, k) \/ k = Call.id
                 /\ Waiting(board', k) => Waiting(board, k)
  <2>1. CASE plan' = "failed" /\ run' = s.run /\ board' = b
    BY <1>1, <1>2, <1>7, <1>8, <1>9, <1>10, <2>1
  <2>2. CASE plan' = "again" /\ run' = [s.run EXCEPT !.pc = "tools"] /\ board' = s.board
    <3> DEFINE r == s.run
               q == [r EXCEPT !.pc = "tools"]
    <3>1. r \in Runs /\ "tools" \in Controls
      BY <1>9 DEF Controls
    <3> HIDE DEF r
    <3>2. /\ q \in Runs /\ q.pc = "tools" /\ q.task = r.task /\ q.direct = r.direct
          /\ q.steps = r.steps /\ q.replans = r.replans /\ q.no = r.no /\ q.odd = r.odd
      BY <3>1, GoesTo
    <3>3. run' = q
      BY <2>2 DEF r
    <3> HIDE DEF q
    <3> QED
      BY <1>2, <1>7, <1>8, <1>9, <2>2, <3>2, <3>3 DEF r
  <2> QED
    BY <1>1, <2>1, <2>2
<1>14. live' \in Lives /\ DOMAIN live' = DOMAIN live /\ \A j \in DOMAIN live : live'[j].obj = live[j].obj
  <2>1. CASE live' = live
    BY <1>0, <2>1
  <2>2. CASE live' = [live EXCEPT ![w].out = "running"]
    <3> DEFINE f == [live EXCEPT ![w].out = "running"]
    <3>1. "running" \in Outs /\ w \in DOMAIN live /\ live \in Lives
      BY <1>0, <1>5 DEF Outs
    <3>2. f \in Lives /\ DOMAIN f = DOMAIN live /\ \A j \in DOMAIN live : f[j].obj = live[j].obj
      BY ZenonT(40), <3>1, LiveChanges
    <3> QED
      BY <2>2, <3>2
  <2> QED
    BY <1>1, <2>1, <2>2
<1>15. Types'
  BY <1>0, <1>1, <1>9, <1>11, <1>13, <1>14 DEF Types
<1>16. Wave' = Wave /\ (Single' <=> Single) /\ Flying' = Flying
  <2>1. Wave' = Wave
    BY <1>1 DEF Wave
  <2>2. Len(batch') = Len(batch) /\ plan # "first" /\ plan' # "first"
    BY <1>1, <1>11, <1>13 DEF n
  <2> QED
    BY <2>1, <2>2 DEF Single, Flying
<1>17. \A m \in DOMAIN todo : \A i \in DOMAIN todo[m] :
         todo[m][i] \in DOMAIN batch /\ todo[m][i] # n /\ batch'[todo[m][i]] = batch[todo[m][i]]
  <2>1. todo \in Seq(Seq(DOMAIN batch)) /\ \A k \in DOMAIN todo : \A i \in DOMAIN todo[k] : todo[k][i] # n
    BY <1>0, <1>1 DEF Shape, WavesGood, n
  <2>2. \A m \in DOMAIN todo : \A i \in DOMAIN todo[m] : todo[m][i] \in DOMAIN batch
    BY <2>1
  <2> QED
    BY <1>12, <2>1, <2>2
<1>18. WavesGood(todo', batch')
  <2>1. ASSUME NEW m \in DOMAIN todo
        PROVE  /\ todo[m] # << >>
               /\ \A i, j \in DOMAIN todo[m] : todo[m][i] = todo[m][j] => i = j
               /\ Len(todo[m]) >= 2 => \A i \in DOMAIN todo[m] : ~Serial(batch'[todo[m][i]].tool)
               /\ \A i \in DOMAIN todo[m] : batch'[todo[m][i]].state \in {"pending", "executing"}
    <3>1. /\ todo[m] # << >>
          /\ \A i, j \in DOMAIN todo[m] : todo[m][i] = todo[m][j] => i = j
          /\ Len(todo[m]) >= 2 => \A i \in DOMAIN todo[m] : ~Serial(batch[todo[m][i]].tool)
          /\ \A i \in DOMAIN todo[m] : batch[todo[m][i]].state \in {"pending", "executing"}
      BY <1>0 DEF Shape, WavesGood
    <3> QED
      BY <1>17, <3>1
  <2>2. /\ \A m, k \in DOMAIN todo : \A i \in DOMAIN todo[m], j \in DOMAIN todo[k] : todo[m][i] = todo[k][j] => m = k
        /\ todo \in Seq(Seq(DOMAIN batch))
    BY <1>0 DEF Shape, WavesGood
  <2> QED
    BY <1>1, <1>11, <2>1, <2>2 DEF WavesGood
<1>19. Shape'
  <2>1. run'.pc \notin Between /\ run'.pc \in {"tools", "settle"}
    BY <1>13 DEF Between
  <2>2. /\ \A i, j \in DOMAIN batch' : batch'[i].id = batch'[j].id => i = j
        /\ \A i \in DOMAIN batch' : batch'[i].id <= count'.call
    BY <1>0, <1>1, <1>11, <1>12 DEF Shape
  <2>3. \A m \in DOMAIN todo' : \A i \in DOMAIN todo'[m] : todo'[m][i] # Len(batch')
    BY <1>1, <1>11, <1>17
  <2>4. run'.direct => todo' = <<<<1>>>>
    BY <1>0, <1>1, <1>2, <1>13 DEF Shape
  <2>5. \A i \in DOMAIN live' : live'[i].obj <= ledger'.made /\ Open(ledger', live'[i].obj)
    BY <1>0, <1>1, <1>14 DEF Shape
  <2>6. plan' # "first" /\ todo' # << >> /\ Single' /\ DOMAIN live' = Flying' /\ (run'.pc = "tools" => plan' # "failed")
    BY <1>1, <1>2, <1>13, <1>14, <1>16
  <2> QED
    BY <1>13, <1>18, <2>1, <2>2, <2>3, <2>4, <2>5, <2>6 DEF Shape
<1>20. ShownInv'
  <2>1. \A id : ~Waiting(board', id)
    BY <1>0, <1>1, <1>13 DEF ShownInv
  <2>2. ASSUME NEW id, Working(board', id) PROVE \E i \in DOMAIN live' : batch'[i].id = id /\ i # Len(batch')
    <3>1. CASE id = Call.id
      BY <1>3, <1>5, <1>11, <1>12, <1>14, <3>1
    <3>2. CASE Working(s.board, id)
      <4>1. Working(board, id) /\ id # batch[n].id
        BY <1>8, <3>2
      <4>2. PICK i \in DOMAIN live : batch[i].id = id
        BY <1>0, <4>1 DEF ShownInv
      <4>3. i \in DOMAIN batch /\ i # n
        <5>1. i \in {Wave[k] : k \in DOMAIN Wave} \cup {n}
          BY <1>1, <1>2, <4>2 DEF Flying, n
        <5> QED
          BY <1>3, <1>4, <4>1, <4>2, <5>1
      <4> QED
        BY <1>11, <1>12, <1>14, <4>2, <4>3
    <3> QED
      BY <1>13, <2>2, <3>1, <3>2
  <2> QED
    BY <2>1, <2>2 DEF ShownInv
<1>21. ~Ended /\ ~Ended'
  BY <1>1, <1>13 DEF Ended
<1>22. GrantsInv'
  <2>1. count.task \in Nat
    BY <1>0, CountFacts
  <2>2. count'.task \in Nat /\ count.task <= count'.task
    BY <1>1, <2>1
  <2>3. grants' \subseteq grants /\ given \subseteq given'
    BY <1>1
  <2> QED
    BY <1>0, <1>13, <1>21, <2>2, <2>3, GrantsKept
<1>23. HistoryInv'
  BY <1>13 DEF HistoryInv
<1>24. ResultsInv'
  <2>1. RecordsTo(ledger, ledger')
    BY <1>0, <1>1, ReflexiveGrowth
  <2> QED
    BY <1>0, <1>1, <1>21, <2>1, ResultsKept DEF RecordsTo
<1> QED
  BY <1>15, <1>19, <1>20, <1>22, <1>23, <1>24 DEF Inv, Basic

\* The invariant holds at the start.
LEMMA InitInv == AgentInit => Inv
<1> SUFFICES ASSUME AgentInit PROVE Inv
  OBVIOUS
<1>1. /\ run = NoRun /\ batch = << >> /\ todo = << >> /\ live = << >> /\ plan = "first"
      /\ ledger = EmptyLedger /\ told = << >> /\ hist = NoHistory /\ grants = {} /\ board = << >> /\ given = {}
      /\ \E n \in StepLimits : count = [task |-> 0, call |-> 0, waiting |-> 0, sent |-> 0, maxSteps |-> n]
  BY DEF AgentInit
<1>2. /\ count \in [task : Nat, call : Nat, waiting : Nat, sent : Nat, maxSteps : Nat]
      /\ count.task = 0 /\ count.call = 0 /\ count.maxSteps \in Nat
  <2>1. PICK n \in StepLimits : count = [task |-> 0, call |-> 0, waiting |-> 0, sent |-> 0, maxSteps |-> n]
    BY <1>1
  <2>2. n \in Nat
    BY LimitsAssumption
  <2> QED
    BY <2>1, <2>2
<1>3. hist \in Histories /\ NoHistory \in Histories
  BY <1>1 DEF Histories, NoHistory
<1>4. /\ run \in Runs /\ run.pc = "idle" /\ run.task = NoTask /\ run.steps = 0 /\ run.replans = 0 /\ ~run.direct
      /\ run.abort = "no" /\ ~run.stop /\ ~run.odd
  <2>1. << >> \in Actions
    BY DEF Actions
  <2> QED
    BY <1>1, <1>3, <2>1 DEF Runs, NoRun, Controls, NoTask, Ends
<1>5. LedgerGood(ledger)
  <2>1. ledger.objs \in Partial(Objectives)
    <3>1. ledger.objs = << >> /\ << >> \in [{} -> Objectives] /\ {} \in SUBSET Nat
      BY <1>1 DEF EmptyLedger
    <3> QED
      BY <3>1 DEF Partial
  <2>2. DOMAIN ledger.objs = {} /\ ledger.current = 0 /\ ledger.made = 0
    BY <1>1 DEF EmptyLedger, NoObjective
  <2>3. ledger \in Ledgers
    BY <1>1, <2>1, <2>2 DEF EmptyLedger, Ledgers
  <2> QED
    BY <2>2, <2>3 DEF LedgerGood
<1>6. board \in Boards /\ \A id : ~Working(board, id) /\ ~Waiting(board, id)
  <2>1. << >> \in [{} -> Marks] /\ {} \in SUBSET Nat /\ DOMAIN board = {}
    BY <1>1
  <2> QED
    BY <1>1, <2>1 DEF Boards, Partial, Working, Waiting
<1>7. live \in Lives
  <2>1. << >> \in [{} -> Bodies] /\ {} \in SUBSET Nat
    OBVIOUS
  <2> QED
    BY <1>1, <2>1 DEF Lives, Partial
<1>8. batch \in Seq(Steps) /\ DOMAIN batch = {} /\ told \in Seq([id : Nat, verdict : Verdicts]) /\ DOMAIN told = {}
  BY <1>1
<1>9. Types
  <2>1. run.steps <= count.maxSteps /\ run.replans <= MaxReplans /\ run.task <= count.task
    BY <1>2, <1>4, BudgetsAssumption DEF NoTask
  <2> QED
    BY <1>1, <1>2, <1>3, <1>4, <1>5, <1>6, <1>7, <1>8, <2>1 DEF Types
<1>10. todo \in Seq(Seq(DOMAIN batch)) /\ DOMAIN todo = {} /\ DOMAIN live = {}
  BY <1>1
<1>11. Shape
  BY <1>1, <1>4, <1>8, <1>10 DEF Shape, WavesGood, Between
<1>12. ShownInv
  BY <1>6 DEF ShownInv
<1>13. GrantsInv
  BY <1>1 DEF GrantsInv
<1>14. HistoryInv
  BY <1>1, <1>4, <1>8 DEF HistoryInv, Unsettled, NoHistory, Between
<1>15. ResultsInv
  BY <1>4, <1>8 DEF ResultsInv
<1> QED
  BY <1>9, <1>11, <1>12, <1>13, <1>14, <1>15 DEF Inv, Basic

\* Every step keeps the invariant.
LEMMA RunStepKeeps == ASSUME Inv, RunStep PROVE Inv'
<1>0. Basic
  BY DEF Inv
<1>1. ASSUME NEW c \in Calls, BeginDirect(c) PROVE Inv'
  BY <1>1, BeginDirectKeeps
<1>2. CASE BeginRouting
  BY <1>2, BeginRoutingKeeps
<1>3. CASE BeginLoop
  BY <1>3, BeginLoopKeeps
<1>4. CASE RouteBlocked
  BY <1>0, <1>4, RouteBlockedCloses, CloseKeeps
<1>5. CASE LoopStep
  <2>1. CASE MayGoOn
    BY <1>5, <2>1, LoopKeeps
  <2>2. CASE ~MayGoOn
    BY <1>0, <1>5, <2>2, LoopStepCloses, CloseKeeps
  <2> QED
    BY <2>1, <2>2
<1>6. ASSUME NEW calls \in Answers, ModelCalls(calls) PROVE Inv'
  BY <1>6, ModelCallsKeeps
<1>7. CASE ModelAnswers
  BY <1>0, <1>7, ModelAnswersCloses, CloseKeeps
<1>8. ASSUME NEW transient \in BOOLEAN, ModelFails(transient) PROVE Inv'
  <2>1. CASE transient /\ run.errs + 1 < MaxErrors
    BY <1>8, <2>1, LoopKeeps
  <2>2. CASE ~(transient /\ run.errs + 1 < MaxErrors)
    BY <1>0, <1>8, <2>2, ModelFailsCloses, CloseKeeps
  <2> QED
    BY <2>1, <2>2
<1>9. CASE BackoffEnds
  BY <1>9, LoopKeeps
<1>10. CASE StartParallel
  BY <1>10, WaveStarts
<1>11. CASE StartSingle
  BY <1>11, StartSingleKeeps
<1>12. CASE CheckGate
  <2>1. CASE NeedsApproval(Call.tool) /\ ~Granted(Call.tool)
    BY <1>12, <2>1, GateWaits
  <2>2. CASE ~(NeedsApproval(Call.tool) /\ ~Granted(Call.tool))
    BY <1>12, <2>2, WaveStarts
  <2> QED
    BY <2>1, <2>2
<1>13. CASE DenyOrTimeout \/ Refused
  <2>1. run.pc \in {"gate", "denied"} /\ Denied(ledger, board)
    BY <1>13 DEF DenyOrTimeout, Refused
  <2>2. CASE run.direct
    BY <1>0, <2>1, <2>2, DeniedCloses, CloseKeeps
  <2>3. CASE ~run.direct
    BY <2>1, <2>3, DeniedKeeps
  <2> QED
    BY <2>2, <2>3
<1>14. ASSUME NEW out \in AllOutcomes, AgainReturns(out) PROVE Inv'
  BY <1>14, AgainReturnsKeeps
<1>15. ASSUME NEW out \in AllOutcomes, NEW i \in DOMAIN live, ToolReturns(i, out) PROVE Inv'
  BY <1>15, ToolReturnsKeeps
<1>16. CASE PlanB
  BY <1>16, PlanBKeeps
<1>17. CASE ObserveSettles
  BY <1>17, ObserveSettlesKeeps
<1>18. CASE SettleWave
  BY <1>18, SettleWaveKeeps
<1>19. CASE SettleDirect
  <2>1. CASE Fails(Out(1))
    BY <1>19, <2>1, DirectFails
  <2>2. CASE ~Fails(Out(1))
    BY <1>0, <1>19, <2>2, SettleDirectCloses, CloseKeeps
  <2> QED
    BY <2>1, <2>2
<1>20. CASE EndBatch
  <2>1. CASE run.stop \/ run.abort # "no"
    BY <1>0, <1>20, <2>1, EndBatchCloses, CloseKeeps
  <2>2. CASE ~(run.stop \/ run.abort # "no")
    BY <1>20, <2>2, BatchEnds
  <2> QED
    BY <2>1, <2>2
<1> QED
  BY <1>1, <1>2, <1>3, <1>4, <1>5, <1>6, <1>7, <1>8, <1>9, <1>10, <1>11, <1>12, <1>13, <1>14, <1>15, <1>16,
     <1>17, <1>18, <1>19, <1>20 DEF RunStep

\* Every step of the agent keeps the invariant.
LEMMA StepInv == ASSUME Inv, [AgentNext]_agentVars PROVE Inv'
<1>1. CASE RunStep
  BY <1>1, RunStepKeeps
<1>2. CASE ProcessMessage
  BY <1>2, MessageWaits, MessageStarts
<1>3. CASE Stop
  BY <1>3, StopKeeps
<1>4. CASE ClearHistory
  BY <1>4, ClearHistoryKeeps
<1>5. CASE DeadlinePasses
  BY <1>5, DeadlinePassesKeeps
<1>6. ASSUME NEW scope \in {"once", "task", "session"}, Approve(scope) PROVE Inv'
  BY <1>6, ApproveKeeps
<1>7. CASE UNCHANGED agentVars
  <2>1. /\ run' = run /\ batch' = batch /\ todo' = todo /\ live' = live /\ plan' = plan /\ ledger' = ledger
        /\ told' = told /\ hist' = hist /\ grants' = grants /\ board' = board /\ given' = given /\ count' = count
    BY <1>7 DEF agentVars
  <2>2. Wave' = Wave /\ Call' = Call /\ (Single' <=> Single) /\ Flying' = Flying
    BY <2>1 DEF Wave, Call, Single, Flying
  <2>3. (Ended' <=> Ended) /\ \A id : Told(id)' <=> Told(id)
    BY <2>1 DEF Ended, Told
  <2>4. Types'
    BY <2>1 DEF Inv, Basic, Types
  <2>5. Shape'
    BY <2>1, <2>2 DEF Inv, Basic, Shape
  <2>6. ShownInv' /\ HistoryInv'
    BY <2>1, <2>2 DEF Inv, ShownInv, HistoryInv
  <2>7. GrantsInv'
    BY <2>1, <2>3 DEF Inv, GrantsInv
  <2>8. ResultsInv'
    BY <2>1, <2>3 DEF Inv, ResultsInv
  <2> QED
    BY <2>4, <2>5, <2>6, <2>7, <2>8 DEF Inv, Basic
<1> QED
  BY <1>1, <1>2, <1>3, <1>4, <1>5, <1>6, <1>7 DEF AgentNext

\* The invariant holds throughout.
THEOREM Always == AgentSpec => []Inv
<1>1. AgentInit => Inv
  BY InitInv
<1>2. Inv /\ [AgentNext]_agentVars => Inv'
  BY StepInv
<1> QED
  BY <1>1, <1>2, PTL DEF AgentSpec

\* Steps, replans, actions and recoveries stay within their limits.
THEOREM Bounded == AgentSpec => []LoopIsBounded
<1>1. Inv => LoopIsBounded
  <2> SUFFICES ASSUME Inv PROVE AgentTypeOK /\ BudgetsHold
    BY DEF LoopIsBounded
  <2>0. Basic /\ Types /\ Shape /\ run \in Runs /\ batch \in Seq(Steps) /\ LedgerGood(ledger) /\ ledger \in Ledgers
    BY DEF Inv, Basic, Types, LedgerGood
  <2>1. BudgetsHold
    BY <2>0 DEF BudgetsHold, LedgerGood, ObjectiveGood
  <2>2. /\ run.pc \in Controls /\ run.steps \in Nat /\ run.replans \in Nat /\ run.abort \in {"no", "repeats", "deadline"}
        /\ run.steps <= count.maxSteps /\ run.replans <= MaxReplans /\ count.maxSteps \in Nat
        /\ plan \in {"first", "observe", "again", "failed"}
    BY <2>0, CountFacts DEF Types, Runs
  <2>3. run.steps \in 0..MaxSteps /\ run.replans \in 0..MaxReplans
    BY <2>2, BudgetsAssumption DEF MaxSteps
  <2>4. \A i \in DOMAIN batch : batch[i].state \in {"pending", "executing", "completed", "failed", "skipped"}
    <3>1. \A i \in DOMAIN batch : batch[i] \in Steps
      BY <2>0
    <3> QED
      BY <3>1 DEF Steps, States
  <2>5. DOMAIN live \subseteq DOMAIN batch
    <3>1. CASE run.pc \in {"tools", "settle"}
      <4>1. todo # << >> /\ DOMAIN live = Flying
        BY <2>0, <3>1 DEF Shape, Between
      <4>2. /\ \A k \in DOMAIN Wave : Wave[k] \in DOMAIN batch
            /\ 1 \in DOMAIN Wave /\ DOMAIN batch = 1..Len(batch) /\ Len(batch) \in Nat
        BY <2>0, <4>1, WaveFacts
      <4>3. Len(batch) \in DOMAIN batch
        BY <4>2
      <4> QED
        BY <4>1, <4>2, <4>3 DEF Flying
    <3>2. CASE run.pc \notin {"tools", "settle"}
      BY <2>0, <3>2 DEF Shape
    <3> QED
      BY <3>1, <3>2
  <2>6. ledger.current \in 0..ledger.made
    BY <2>0 DEF LedgerGood, Ledgers
  <2> QED
    BY <2>1, <2>2, <2>3, <2>4, <2>5, <2>6 DEF AgentTypeOK, Controls
<1> QED
  BY <1>1, Always, PTL

\* What the agency and the journal show at work is at work.
THEOREM ShownAlwaysReal == AgentSpec => []ShownIsReal
<1>1. Inv => ShownIsReal
  <2> SUFFICES ASSUME Inv PROVE ShownIsReal
    OBVIOUS
  <2>1. ASSUME NEW id \in DOMAIN board, board[id].worker = "waiting"
        PROVE  run.pc \in {"gate", "denied"} /\ Call.id = id
    BY <2>1 DEF Inv, ShownInv, Waiting
  <2>2. ASSUME NEW id \in DOMAIN board,
               board[id].worker \in {"running", "retrying"} \/ board[id].line \in {"RUNNING", "RECOVERED"}
        PROVE  id \in InFlight
    <3>1. Working(board, id)
      BY <2>2 DEF Working
    <3> QED
      BY <3>1 DEF Inv, ShownInv, InFlight
  <2> QED
    BY <2>1, <2>2 DEF ShownIsReal
<1> QED
  BY <1>1, Always, PTL

\* A request carries every call with its result, but for the histories that a
\* stop, a plan B or a clear has cut.
THEOREM Replays == AgentSpec => []ReplayMostlyIntact
<1>1. Inv => ReplayMostlyIntact
  <2> SUFFICES ASSUME Inv, ~run.odd, run.pc = "model" PROVE hist.open = {} /\ ~hist.broken
    BY DEF ReplayMostlyIntact, ReplayIntact
  <2>1. batch = << >>
    BY DEF Inv, Basic, Shape, Between
  <2> QED
    BY <2>1 DEF Inv, HistoryInv, Unsettled
<1> QED
  BY <1>1, Always, PTL

\* A result is told once, as it was settled, and by the end of the run.
THEOREM Honest == AgentSpec => []ResultsAreHonest
<1>1. Inv => ResultsAreHonest
  <2> SUFFICES ASSUME Inv PROVE ResultsAreHonest
    OBVIOUS
  <2>1. LedgerGood(ledger) /\ ResultsInv
    BY DEF Inv, Basic, Types
  <2>2. ASSUME NEW i \in DOMAIN told
        PROVE  LET o == ledger.objs[told[i].id] IN
               o.status = told[i].verdict /\ (o.status = "COMPLETED_VERIFIED" => o.failures = 0 \/ o.lost)
    BY <2>1 DEF ResultsInv, LedgerGood, ObjectiveGood
  <2> QED
    BY <2>1, <2>2 DEF ResultsAreHonest, ResultsInv
<1> QED
  BY <1>1, Always, PTL

-----------------------------------------------------------------------------
(* What starts *)

\* A call that starts does so in a run that is not stopped, and under an approval
\* if it needs one.
StartsWell(i) ==
    Starts(i) => /\ ~run.stop
                 /\ NeedsApproval(batch'[i].tool) => \E g \in given' : Covers(g, batch'[i])
StartWell == \A i \in DOMAIN batch' : StartsWell(i)

\* A step in which no call becomes an executing one.
LEMMA NothingStarts ==
    ASSUME \A i \in DOMAIN batch' : \/ batch'[i].state # "executing"
                                    \/ i \in DOMAIN batch /\ batch'[i] = batch[i]
    PROVE  StartWell
BY DEF StartWell, StartsWell, Starts

\* A wave that starts, its calls covered.
LEMMA WaveStartsWell ==
    ASSUME Inv, todo # << >>, StartCalls(Wave, batch, ledger, board), ~run.stop,
           \A k \in DOMAIN Wave : NeedsApproval(batch[Wave[k]].tool) =>
             \E g \in given' : Covers(g, batch[Wave[k]])
    PROVE  StartWell
<1> DEFINE D == {Wave[k] : k \in DOMAIN Wave}
<1>1. Basic
  BY DEF Inv
<1>2. Begins(D)
  BY <1>1, WaveBegins
<1>3. /\ DOMAIN batch' = DOMAIN batch
      /\ \A i \in DOMAIN batch : /\ batch'[i].tool = batch[i].tool /\ batch'[i].id = batch[i].id
                                 /\ batch'[i] = batch[i] \/ (i \in D /\ batch'[i].state = "executing")
  BY <1>2 DEF Begins
<1>4. ASSUME NEW i \in DOMAIN batch', Starts(i) PROVE StartsWell(i)
  <2>1. i \in DOMAIN batch /\ i \in D
    BY <1>3, <1>4 DEF Starts
  <2>2. PICK k \in DOMAIN Wave : i = Wave[k]
    BY <2>1
  <2>3. NeedsApproval(batch[i].tool) => \E g \in given' : Covers(g, batch[i])
    BY <2>2
  <2>4. batch'[i].tool = batch[i].tool /\ batch'[i].id = batch[i].id
    BY <1>3, <2>1
  <2>5. \A g : Covers(g, batch[i]) => Covers(g, batch'[i])
    BY <2>4 DEF Covers
  <2> QED
    BY <2>3, <2>4, <2>5 DEF StartsWell
<1> QED
  BY <1>4 DEF StartWell, StartsWell

\* A parallel wave has no call that needs an approval, and no stop before it.
LEMMA ParallelStartsWell == ASSUME Inv, StartParallel PROVE StartWell
<1>1. todo # << >> /\ ~Single /\ ~run.stop /\ StartCalls(Wave, batch, ledger, board)
  BY DEF StartParallel
<1>2. \A k \in DOMAIN Wave : ~Serial(batch[Wave[k]].tool)
  BY <1>1, WaveFacts DEF Inv
<1>3. \A k \in DOMAIN Wave : ~NeedsApproval(batch[Wave[k]].tool)
  BY <1>2 DEF Serial, NeedsApproval
<1> QED
  BY <1>1, <1>3, WaveStartsWell

\* A call that passes the gate has an approval that covers it.
LEMMA GateStartsWell == ASSUME Inv, CheckGate PROVE StartWell
<1>0. Basic /\ Shape /\ GrantsInv
  BY DEF Inv, Basic
<1>1. run.pc = "open" /\ given' = given
  BY DEF CheckGate
<1>2. todo # << >> /\ Single /\ ~run.stop
  BY <1>0, <1>1 DEF Shape, Between
<1>3. DOMAIN Wave = {1} /\ Call = batch[Wave[1]]
  BY <1>0, <1>2, WaveFacts DEF Call
<1>4. CASE NeedsApproval(Call.tool) /\ ~Granted(Call.tool)
  <2>1. batch' = batch
    BY <1>4 DEF CheckGate
  <2> QED
    BY <2>1, NothingStarts
<1>5. CASE ~(NeedsApproval(Call.tool) /\ ~Granted(Call.tool))
  <2>1. StartCalls(Wave, batch, ledger, board)
    BY <1>5 DEF CheckGate
  <2>2. ASSUME NeedsApproval(Call.tool) PROVE \E g \in given' : Covers(g, Call)
    <3>1. PICK g \in grants : g.tool = Call.tool /\ (g.scope = "session" \/ g.task = run.task)
      BY <1>5, <2>2 DEF Granted
    <3>2. CASE g.task = NoTask
      <4>1. PICK a \in given : a.tool = g.tool /\ a.for = <<"all">>
        BY <1>0, <3>2 DEF GrantsInv
      <4> QED
        BY <1>1, <3>1, <4>1 DEF Covers
    <3>3. CASE g.task # NoTask
      <4>1. g.task = run.task
        BY <1>0, <3>1, <3>3 DEF GrantsInv
      <4>2. PICK a \in given : a.tool = g.tool /\ a.for \in {<<"run", run.no>>, <<"all">>}
        BY <1>0, <3>3, <4>1 DEF GrantsInv
      <4> QED
        BY <1>1, <3>1, <4>2 DEF Covers
    <3> QED
      BY <3>2, <3>3
  <2>3. \A k \in DOMAIN Wave : NeedsApproval(batch[Wave[k]].tool) => \E g \in given' : Covers(g, batch[Wave[k]])
    BY <1>3, <2>2
  <2> QED
    BY <1>2, <2>1, <2>3, WaveStartsWell
<1> QED
  BY <1>4, <1>5

\* A call starts under the approval it has just been given.
LEMMA ApprovedStartsWell ==
    ASSUME Inv, NEW scope \in {"once", "task", "session"}, Approve(scope)
    PROVE  StartWell
<1> DEFINE for == IF scope = "once" THEN <<"call", Call.id>>
                  ELSE IF scope = "task" /\ run.task # NoTask THEN <<"run", run.no>>
                  ELSE <<"all">>
           a == [tool |-> Call.tool, for |-> for]
<1>0. Basic /\ Shape
  BY DEF Inv, Basic
<1>1. run.pc = "gate" /\ StartCalls(Wave, batch, ledger, board) /\ a \in given'
  BY DEF Approve
<1>2. todo # << >> /\ Single /\ ~run.stop
  BY <1>0, <1>1 DEF Shape, Between
<1>3. DOMAIN Wave = {1} /\ Call = batch[Wave[1]]
  BY <1>0, <1>2, WaveFacts DEF Call
<1>4. for \in {<<"call", Call.id>>, <<"run", run.no>>, <<"all">>}
  OBVIOUS
<1>5. Covers(a, Call)
  <2>1. a.tool = Call.tool /\ a.for = for
    OBVIOUS
  <2> HIDE DEF a, for
  <2> QED
    BY <1>4, <2>1 DEF Covers
<1>6. \A k \in DOMAIN Wave : NeedsApproval(batch[Wave[k]].tool) => \E g \in given' : Covers(g, batch[Wave[k]])
  <2> HIDE DEF a
  <2> QED
    BY <1>1, <1>3, <1>5
<1> QED
  BY <1>1, <1>2, <1>6, WaveStartsWell

\* An observation needs no approval, and no stop has come before it.
LEMMA PlanBStartsWell == ASSUME Inv, PlanB PROVE StartWell
<1> DEFINE N == Len(batch)
           c == count.call + 1
           step == Prepared([tool |-> PlanBTool(Call.tool), arg |-> 0], c)
           n == N + 1
           a == Append(batch, step)
           l == Assign(RecordReplan(ledger, ObjectiveId), run.task)
           b == SeesRetry(board, Call.id, TRUE)
           s0 == [batch |-> a, ledger |-> l, live |-> live, board |-> b]
           s == Started(s0, n)
<1>1. ~run.stop /\ batch' = s.batch
  BY DEF PlanB, Replans
<1>2. batch \in Seq(Steps)
  BY DEF Inv, Basic, Types
<1>3. /\ step.tool = PlanBTool(Call.tool)
      /\ [step EXCEPT !.state = "executing"].tool = step.tool
  BY DEF Prepared
<1> HIDE DEF l, b, step
<1>4. /\ DOMAIN a = (DOMAIN batch) \cup {n} /\ n \notin DOMAIN batch /\ a[n] = step
      /\ \A i \in DOMAIN batch : a[i] = batch[i]
  BY <1>2
<1> HIDE DEF a, n
<1>5. batch' = a \/ batch' = [a EXCEPT ![n].state = "executing"]
  <2>1. s0.batch = a
    OBVIOUS
  <2>2. s.batch = s0.batch \/ s.batch = [s0.batch EXCEPT ![n].state = "executing"]
    BY DEF Started
  <2> HIDE DEF s, s0
  <2> QED
    BY <1>1, <2>1, <2>2
<1>6. ASSUME NEW i \in DOMAIN batch', Starts(i) PROVE i = n /\ batch'[n].tool = PlanBTool(Call.tool)
  <2>1. DOMAIN batch' = DOMAIN a /\ \A j \in DOMAIN a : j # n => batch'[j] = a[j]
    BY <1>5
  <2>2. i = n
    BY <1>4, <1>6, <2>1 DEF Starts
  <2>3. batch'[n].tool = step.tool
    <3>1. batch'[n] = step \/ batch'[n] = [step EXCEPT !.state = "executing"]
      BY <1>4, <1>5
    <3> QED
      BY <1>3, <3>1
  <2> QED
    BY <1>3, <2>2, <2>3
<1>7. ~NeedsApproval(PlanBTool(Call.tool))
  BY DEF NeedsApproval, PlanBTool
<1> QED
  BY <1>1, <1>6, <1>7 DEF StartWell, StartsWell

\* A run that ends leaves no batch.
LEMMA FinishEmpties ==
    ASSUME NEW r, NEW l, NEW b, NEW h, FinishRunTask(r, l, b, h) PROVE batch' = <<>>
  BY DEF FinishRunTask

\* A run step starts nothing, or starts it well.
LEMMA StepStartsWell == ASSUME Inv, [AgentNext]_agentVars PROVE StartWell
<1>0. Basic /\ Types /\ Shape /\ batch \in Seq(Steps) /\ DOMAIN batch = 1..Len(batch) /\ Len(batch) \in Nat
  BY DEF Inv, Basic, Types
<1>1. CASE batch' = batch
  BY <1>1, NothingStarts
<1>2. CASE batch' = << >>
  <2>1. DOMAIN batch' = {}
    BY <1>2
  <2> QED
    BY <2>1, NothingStarts
<1>3. CASE Closes
  <2>1. batch' = << >>
    BY <1>3, FinishEmpties DEF Closes, ClosesWith
  <2> QED
    BY <1>2, <2>1
<1>4. ASSUME NEW c \in Calls, BeginDirect(c) PROVE StartWell
  <2>1. batch' = <<Prepared(c, count.call + 1)>>
    BY <1>4 DEF BeginDirect
  <2>2. \A i \in DOMAIN batch' : batch'[i].state = "pending"
    BY <2>1 DEF Prepared
  <2> QED
    BY <2>2, NothingStarts
<1>5. ASSUME NEW calls \in Answers, ModelCalls(calls) PROVE StartWell
  <2> DEFINE ids == [i \in DOMAIN calls |-> count.call + i]
  <2>1. batch' = << >> \/ batch' = [i \in DOMAIN calls |-> Prepared(calls[i], ids[i])]
    BY <1>5 DEF ModelCalls
  <2> HIDE DEF ids
  <2>2. CASE batch' = [i \in DOMAIN calls |-> Prepared(calls[i], ids[i])]
    <3>1. \A i \in DOMAIN batch' : batch'[i].state = "pending"
      BY <2>2 DEF Prepared
    <3> QED
      BY <3>1, NothingStarts
  <2> QED
    BY <1>2, <2>1, <2>2
<1>6. CASE CheckGate
  BY <1>6, GateStartsWell
<1>7. CASE StartParallel
  BY <1>7, ParallelStartsWell
<1>8. CASE PlanB
  BY <1>8, PlanBStartsWell
<1>9. ASSUME NEW scope \in {"once", "task", "session"}, Approve(scope) PROVE StartWell
  BY <1>9, ApprovedStartsWell
<1>10. CASE ObserveSettles
  <2> DEFINE state == IF ~Fails(Out(Len(batch))) THEN "completed" ELSE "failed"
  <2>1. batch' = [batch EXCEPT ![Len(batch)].state = state]
    BY <1>10 DEF ObserveSettles, Settled, Here
  <2>2. state # "executing"
    OBVIOUS
  <2> HIDE DEF state
  <2>3. \A i \in DOMAIN batch : batch[i] \in Steps
    BY <1>0
  <2>4. \A i \in DOMAIN batch' : batch'[i].state # "executing" \/ (i \in DOMAIN batch /\ batch'[i] = batch[i])
    BY <2>1, <2>2, <2>3 DEF Steps
  <2> QED
    BY <2>4, NothingStarts
<1>11. CASE SettleWave
  <2> DEFINE n == Len(batch)
             z == FoldLeft(Settled, Here, Wave)
             D == {Wave[k] : k \in DOMAIN Wave}
  <2>1. todo # << >> /\ run.pc = "settle" /\ batch' = z.batch
    BY <1>0, <1>11 DEF SettleWave, Shape, Between
  <2>2. /\ n \in Nat /\ batch \in [1..n -> Steps] /\ Wave \in Seq(1..n)
        /\ \A j, k \in DOMAIN Wave : Wave[j] = Wave[k] => j = k
    BY <1>0, <2>1, WaveFacts
  <2>3. Here \in Settling(n) /\ Here.batch = batch
    BY <1>0, <2>2 DEF Here, Settling, Types
  <2>4. \A j, k \in 1..n : Here.batch[j].id = Here.batch[k].id => j = k
    BY <1>0, <2>3 DEF Shape
  <2> HIDE DEF n
  <2>5. SettledFrom(n, Here, z, D)
    BY SMTT(30), <2>2, <2>3, <2>4, WaveSettles
  <2> HIDE DEF z
  <2>6. batch' \in [1..n -> Steps] /\ DOMAIN batch = 1..n
    BY <2>1, <2>2, <2>5 DEF SettledFrom, Settling
  <2>7. \A i \in 1..n : batch'[i].state # "executing" \/ batch'[i] = batch[i]
    BY <2>1, <2>3, <2>5 DEF SettledFrom
  <2> QED
    BY <2>6, <2>7, NothingStarts
<1>12. CASE run.pc \in {"gate", "denied"} /\ Denied(ledger, board)
  <2>1. CASE run.direct
    BY <1>0, <1>3, <1>12, <2>1, DeniedCloses
  <2>2. CASE ~run.direct
    <3>1. batch' = [batch EXCEPT ![Wave[1]].state = "skipped"]
      BY <1>12, <2>2 DEF Denied
    <3>2. \A i \in DOMAIN batch : batch[i] \in Steps
      BY <1>0
    <3>3. \A i \in DOMAIN batch' : batch'[i].state # "executing" \/ (i \in DOMAIN batch /\ batch'[i] = batch[i])
      BY <3>1, <3>2 DEF Steps
    <3> QED
      BY <3>3, NothingStarts
  <2> QED
    BY <2>1, <2>2
<1>13. CASE RouteBlocked \/ ModelAnswers
  BY <1>0, <1>3, <1>13, RouteBlockedCloses, ModelAnswersCloses
<1>14. CASE LoopStep
  <2>1. MayGoOn => batch' = batch
    BY <1>14 DEF LoopStep
  <2> QED
    BY <1>0, <1>1, <1>3, <1>14, <2>1, LoopStepCloses
<1>15. ASSUME NEW transient \in BOOLEAN, ModelFails(transient) PROVE StartWell
  <2>1. transient /\ run.errs + 1 < MaxErrors => batch' = batch
    BY <1>15 DEF ModelFails
  <2> QED
    BY <1>0, <1>1, <1>3, <1>15, <2>1, ModelFailsCloses
<1>16. CASE SettleDirect
  <2>1. Fails(Out(1)) => batch' = << >>
    BY <1>16 DEF SettleDirect
  <2> QED
    BY <1>0, <1>2, <1>3, <1>16, <2>1, SettleDirectCloses
<1>17. CASE EndBatch
  <2>1. ~(run.stop \/ run.abort # "no") => batch' = << >>
    BY <1>17 DEF EndBatch
  <2> QED
    BY <1>0, <1>2, <1>3, <1>17, <2>1, EndBatchCloses
<1>18. CASE BeginRouting \/ BeginLoop \/ BackoffEnds \/ StartSingle
  <2>1. batch' = batch
    BY <1>18 DEF BeginRouting, BeginLoop, BackoffEnds, StartSingle
  <2> QED
    BY <1>1, <2>1
<1>19. CASE ProcessMessage \/ Stop \/ ClearHistory \/ DeadlinePasses \/ UNCHANGED agentVars
  <2>1. batch' = batch
    BY <1>19 DEF ProcessMessage, Stop, ClearHistory, DeadlinePasses, agentVars
  <2> QED
    BY <1>1, <2>1
<1>20. ASSUME NEW out \in AllOutcomes, AgainReturns(out) \/ \E i \in DOMAIN live : ToolReturns(i, out)
       PROVE  StartWell
  <2>1. batch' = batch
    BY <1>20 DEF AgainReturns, ToolReturns
  <2> QED
    BY <1>1, <2>1
<1>21. CASE RunStep
  <2>1. DenyOrTimeout \/ Refused => run.pc \in {"gate", "denied"} /\ Denied(ledger, board)
    BY DEF DenyOrTimeout, Refused
  <2> QED
    BY <1>4, <1>5, <1>6, <1>7, <1>8, <1>10, <1>11, <1>12, <1>13, <1>14, <1>15, <1>16, <1>17, <1>18, <1>20,
       <1>21, <2>1 DEF RunStep
<1> QED
  BY <1>9, <1>19, <1>21 DEF AgentNext

\* A stop the loop knows of is the end of new work.
THEOREM Stopped == AgentSpec => StopEndsWork
<1>1. Inv /\ [AgentNext]_agentVars => [run.stop /\ run'.stop => \A i \in DOMAIN batch' : ~Starts(i)]_agentVars
  BY StepStartsWell DEF StartWell, StartsWell
<1> QED
  BY <1>1, Always, PTL DEF AgentSpec, StopEndsWork

\* A tool that needs an approval runs under one the user gave.
THEOREM Approved == AgentSpec => ApprovedOnly
<1>1. Inv /\ [AgentNext]_agentVars
        => [\A i \in DOMAIN batch' : Starts(i) /\ NeedsApproval(batch'[i].tool)
              => \E g \in given' : Covers(g, batch'[i])]_agentVars
  BY StepStartsWell DEF StartWell, StartsWell
<1> QED
  BY <1>1, Always, PTL DEF AgentSpec, ApprovedOnly

-----------------------------------------------------------------------------
(* Jarvis *)

RunEnds == {"completed", "error", "idle"}
AgentTasks == [source : {"mission", "command", "panel"}, stage : {"queued", "running", "said", "over"},
               steps : SUBSET (Nat \X {"completed", "failed"}), real : {"none"} \cup RunEnds]

JarvisTypes ==
  /\ jvTasks \in Seq(AgentTasks)
  /\ jvDir \in [task : Nat, mission : BOOLEAN, mixed : BOOLEAN]
  /\ jvDir # NoDir => jvDir.task \in DOMAIN jvTasks
  /\ jvPending \in {"none"} \cup RunEnds
  /\ jvSpec.status \in {"none", "RUNNING", "COMPLETED", "FAILED"}

\* The task of an open directive that nothing mixed into is the only one that
\* goes on, all that was collected is of it and none of its steps is missing.
CollectsItsOwn ==
  jvDir # NoDir /\ jvDir.mixed = FALSE =>
    /\ \A t \in DOMAIN jvTasks : t # jvDir.task => ~LiveTask(t)
    /\ jvPending # "none" => jvTasks[jvDir.task].real = jvPending
    /\ \A e \in jvEvid : e[1] = jvDir.task
    /\ jvTasks[jvDir.task].steps \subseteq jvEvid

\* What a report says of a task is not changed by it any more.
ReportStands ==
  jvReport.mixed = FALSE =>
    /\ \A e \in jvReport.evid : e[1] = jvReport.task
    /\ jvReport.status = "SUCCESS" =>
         /\ jvReport.task \in DOMAIN jvTasks /\ ~LiveTask(jvReport.task)
         /\ jvTasks[jvReport.task].real = "completed"
         /\ \A e \in jvTasks[jvReport.task].steps : e[2] = "completed"

JarvisInv == JarvisTypes /\ CollectsItsOwn /\ ReportStands /\ PhaseHasDirective

\* What becomes of one task.
LEMMA TaskTurns ==
    ASSUME JarvisTypes, NEW t \in DOMAIN jvTasks, NEW d \in AgentTasks, jvTasks' = [jvTasks EXCEPT ![t] = d]
    PROVE  /\ jvTasks' \in Seq(AgentTasks) /\ DOMAIN jvTasks' = DOMAIN jvTasks
           /\ jvTasks'[t] = d /\ \A u \in DOMAIN jvTasks : u # t => jvTasks'[u] = jvTasks[u]
<1>1. DOMAIN jvTasks = 1 .. Len(jvTasks) /\ jvTasks \in Seq(AgentTasks)
  BY LenProperties DEF JarvisTypes
<1>2. /\ jvTasks' \in Seq(AgentTasks) /\ Len(jvTasks') = Len(jvTasks)
      /\ \A u \in 1 .. Len(jvTasks) : jvTasks'[u] = IF u = t THEN d ELSE jvTasks[u]
  BY <1>1, ExceptSeq
<1>3. DOMAIN jvTasks' = 1 .. Len(jvTasks')
  BY <1>2, LenProperties
<1> QED
  BY <1>1, <1>2, <1>3

\* A task comes to the others.
LEMMA TaskComes ==
    ASSUME JarvisTypes, NEW source \in {"mission", "command", "panel"}, jvTasks' = NewTask(source)
    PROVE  LET n == Len(jvTasks) + 1 IN
           /\ jvTasks' \in Seq(AgentTasks) /\ DOMAIN jvTasks' = DOMAIN jvTasks \cup {n} /\ n \notin DOMAIN jvTasks
           /\ n \in Nat /\ n # 0 /\ jvTasks'[n].steps = {} /\ jvTasks'[n].stage = "queued"
           /\ \A u \in DOMAIN jvTasks : jvTasks'[u] = jvTasks[u]
<1>1. PICK d \in AgentTasks : d = [source |-> source, stage |-> "queued", steps |-> {}, real |-> "none"]
  BY DEF AgentTasks
<1>2. d.steps = {} /\ d.stage = "queued"
  BY <1>1
<1>3. jvTasks' = Append(jvTasks, d)
  BY <1>1 DEF NewTask
<1>4. jvTasks \in Seq(AgentTasks) /\ DOMAIN jvTasks = 1 .. Len(jvTasks) /\ Len(jvTasks) \in Nat
  BY LenProperties DEF JarvisTypes
<1>5. /\ jvTasks' \in Seq(AgentTasks) /\ Len(jvTasks') = Len(jvTasks) + 1
      /\ jvTasks'[Len(jvTasks) + 1] = d /\ \A u \in 1 .. Len(jvTasks) : jvTasks'[u] = jvTasks[u]
  BY <1>3, <1>4, AppendProperties
<1>6. DOMAIN jvTasks' = 1 .. Len(jvTasks')
  BY <1>5, LenProperties
<1> QED
  BY <1>2, <1>4, <1>5, <1>6

\* A report stands as long as tasks that are over stay as they are.
LEMMA ReportStaysEarned ==
    ASSUME ReportStands, jvReport' = jvReport, DOMAIN jvTasks \subseteq DOMAIN jvTasks',
           \A u \in DOMAIN jvTasks : ~LiveTask(u) => jvTasks'[u] = jvTasks[u]
    PROVE  ReportStands'
  BY DEF ReportStands, LiveTask

\* A command, or a task of the panel, comes in.
LEMMA ComesIn ==
    ASSUME JarvisInv, PanelTask \/ \E c \in JvCommands : ReceiveCommand(c)
    PROVE  JarvisInv'
<1>1. PICK source \in {"mission", "command", "panel"} : jvTasks' = NewTask(source)
  BY DEF PanelTask, ReceiveCommand
<1>2. PICK n : n = Len(jvTasks) + 1
  OBVIOUS
<1>3. /\ jvTasks' \in Seq(AgentTasks) /\ DOMAIN jvTasks' = DOMAIN jvTasks \cup {n} /\ n \notin DOMAIN jvTasks
      /\ n \in Nat /\ n # 0 /\ jvTasks'[n].steps = {}
      /\ \A u \in DOMAIN jvTasks : jvTasks'[u] = jvTasks[u]
  BY <1>1, <1>2, TaskComes DEF JarvisInv
<1>4. jvReport' = jvReport
  BY DEF PanelTask, ReceiveCommand
<1>5. ReportStands'
  BY <1>3, <1>4, ReportStaysEarned DEF JarvisInv
<1>6. CASE PanelTask
  <2>1. PICK open \in BOOLEAN : open = (jvDir # NoDir)
    OBVIOUS
  <2>2. jvDir' = [jvDir EXCEPT !.mixed = open] /\ UNCHANGED <<jvPhase, jvEvid, jvPending, jvSpec, jvPoint, jvReport>>
    BY ONLY <1>6, <2>1, Zenon DEF PanelTask
  <2>3. /\ jvDir' \in [task : Nat, mission : BOOLEAN, mixed : BOOLEAN]
        /\ jvDir'.task = jvDir.task /\ jvDir'.mission = jvDir.mission /\ jvDir'.mixed = open
    BY <2>2 DEF JarvisInv, JarvisTypes
  <2>4. jvDir = NoDir => jvDir' = NoDir
    <3> SUFFICES ASSUME jvDir = NoDir PROVE jvDir' = NoDir
      OBVIOUS
    <3>1. open = FALSE
      BY <2>1
    <3> QED
      BY <2>2, <3>1 DEF NoDir
  <2>5. jvDir # NoDir => jvDir' # NoDir /\ jvDir'.mixed = TRUE
    BY <2>1, <2>3 DEF NoDir
  <2>6. JarvisTypes'
    BY <1>3, <2>2, <2>3, <2>4 DEF JarvisInv, JarvisTypes, NoDir
  <2>7. CollectsItsOwn' /\ PhaseHasDirective'
    BY <2>2, <2>4, <2>5 DEF JarvisInv, CollectsItsOwn, PhaseHasDirective, NoDir
  <2> QED
    BY <1>5, <2>6, <2>7 DEF JarvisInv
<1>7. ASSUME NEW c \in JvCommands, ReceiveCommand(c) PROVE JarvisInv'
  <2>1. PICK mission, mixed \in BOOLEAN : mission = (AssessIntent(c) = "mission") /\ mixed = (Busy # {})
    OBVIOUS
  <2>2. /\ jvDir' = [task |-> n, mission |-> mission, mixed |-> mixed]
        /\ jvEvid' = {} /\ jvPending' = "none" /\ jvSpec' = NoSpec /\ jvPhase' = "delegated"
    BY ONLY <1>2, <1>7, <2>1, Zenon DEF ReceiveCommand
  <2>3. jvDir' \in [task : Nat, mission : BOOLEAN, mixed : BOOLEAN] /\ jvDir'.task = n /\ jvDir'.mixed = mixed
    BY <1>3, <2>2
  <2>4. jvDir' # NoDir
    BY <1>3, <2>3 DEF NoDir, NoDirective
  <2>5. JarvisTypes'
    BY <1>3, <2>2, <2>3 DEF JarvisTypes, NoSpec
  <2>6. CollectsItsOwn'
    <3> SUFFICES ASSUME jvDir'.mixed = FALSE PROVE CollectsItsOwn'
      BY DEF CollectsItsOwn
    <3>1. Busy = {}
      BY <2>1, <2>3
    <3>2. \A t \in DOMAIN jvTasks : ~LiveTask(t)
      BY <3>1 DEF Busy
    <3>3. \A t \in DOMAIN jvTasks' : t # n => ~LiveTask(t)'
      BY <1>3, <3>2 DEF LiveTask
    <3> QED
      BY <1>3, <2>2, <2>3, <3>3 DEF CollectsItsOwn, LiveTask
  <2>7. PhaseHasDirective'
    BY <2>2, <2>4 DEF PhaseHasDirective, NoDir
  <2> QED
    BY <1>5, <2>5, <2>6, <2>7 DEF JarvisInv
<1> QED
  BY <1>6, <1>7

\* A run starts, shows or delegates; steps, evidence and verdicts stay.
LEMMA RunSteps ==
    ASSUME JarvisInv, NEW t \in DOMAIN jvTasks,
           \/ RunStarts(t) \/ RunShows(t) \/ RunDelegates(t)
           \/ \E s \in {"COMPLETED", "FAILED"}, v \in {"VERIFIED", "UNVERIFIED"} : RunVerifies(t, s, v)
    PROVE  JarvisInv'
<1>1. UNCHANGED <<jvDir, jvEvid, jvPending, jvReport>>
  BY DEF RunStarts, RunShows, RunDelegates, RunVerifies
<1>2. /\ jvTasks' \in Seq(AgentTasks) /\ DOMAIN jvTasks' = DOMAIN jvTasks
      /\ \A u \in DOMAIN jvTasks : ~LiveTask(u) => jvTasks'[u] = jvTasks[u]
      /\ \A u \in DOMAIN jvTasks : /\ jvTasks'[u].real = jvTasks[u].real
                                   /\ jvTasks'[u].steps = jvTasks[u].steps
  <2>1. CASE jvTasks' = jvTasks
    BY <2>1 DEF JarvisInv, JarvisTypes
  <2>2. CASE RunStarts(t)
    <3>1. jvTasks[t] \in AgentTasks
      BY ElementOfSeq, LenProperties DEF JarvisInv, JarvisTypes
    <3>2. PICK d \in AgentTasks : d = [jvTasks[t] EXCEPT !.stage = "running"]
      BY <3>1 DEF AgentTasks
    <3>3. d.real = jvTasks[t].real /\ d.steps = jvTasks[t].steps
      BY <3>1, <3>2 DEF AgentTasks
    <3>4. jvTasks' = [jvTasks EXCEPT ![t] = d] /\ LiveTask(t)
      BY <2>2, <3>2 DEF RunStarts, Stage, LiveTask
    <3>5. /\ jvTasks' \in Seq(AgentTasks) /\ DOMAIN jvTasks' = DOMAIN jvTasks
          /\ jvTasks'[t] = d /\ \A u \in DOMAIN jvTasks : u # t => jvTasks'[u] = jvTasks[u]
      BY <3>4, TaskTurns DEF JarvisInv
    <3> QED
      BY <3>3, <3>4, <3>5
  <2> QED
    BY <2>1, <2>2 DEF RunShows, RunDelegates, RunVerifies
<1>3. JarvisTypes'
  <2>1. jvSpec'.status \in {"none", "RUNNING", "COMPLETED", "FAILED"}
    <3>1. CASE jvSpec' = jvSpec
      BY <3>1 DEF JarvisInv, JarvisTypes
    <3>2. CASE jvSpec' = [status |-> "RUNNING", verification |-> "none"]
      BY <3>2
    <3>3. CASE \E s \in {"COMPLETED", "FAILED"}, v \in {"VERIFIED", "UNVERIFIED"} : jvSpec' = [status |-> s, verification |-> v]
      BY <3>3
    <3> QED
      BY <3>1, <3>2, <3>3 DEF RunStarts, RunShows, RunDelegates, RunVerifies
  <2> QED
    BY <1>1, <1>2, <2>1 DEF JarvisInv, JarvisTypes, NoDir
<1>4. PhaseHasDirective'
  <2>1. CASE jvPhase' = jvPhase
    BY <1>1, <2>1 DEF JarvisInv, PhaseHasDirective, NoDir
  <2>2. CASE \E p \in {"planning"} \cup JvPhases : Shown(p)
    BY <1>1, <2>2, JvPhasesAssumption DEF JarvisInv, PhaseHasDirective, NoDir, Shown
  <2> QED
    BY <2>1, <2>2 DEF RunStarts, RunShows, RunDelegates, RunVerifies
<1>5. ReportStands'
  BY <1>1, <1>2, ReportStaysEarned DEF JarvisInv
<1>6. CollectsItsOwn'
  <2>1. \A u \in DOMAIN jvTasks : ~LiveTask(u) => ~LiveTask(u)'
    BY <1>2 DEF LiveTask
  <2>2. jvDir # NoDir => jvDir.task \in DOMAIN jvTasks
    BY DEF JarvisInv, JarvisTypes
  <2> QED
    BY <1>1, <1>2, <2>1, <2>2 DEF JarvisInv, CollectsItsOwn, NoDir
<1> QED
  BY <1>3, <1>4, <1>5, <1>6 DEF JarvisInv

\* A step of a run ends, or the run says how it ended.
LEMMA RunTells ==
    ASSUME JarvisInv, NEW t \in DOMAIN jvTasks,
           (\E s \in {"completed", "failed"} : RunProgress(t, s)) \/ (\E s \in RunEnds : RunSays(t, s))
    PROVE  JarvisInv'
<1>1. UNCHANGED <<jvDir, jvPhase, jvSpec, jvReport>> /\ jvTasks[t].stage = "running"
  BY DEF RunProgress, RunSays
<1>2. jvTasks[t] \in AgentTasks /\ t \in Nat
  BY ElementOfSeq, LenProperties DEF JarvisInv, JarvisTypes
<1>3. PICK d \in AgentTasks : /\ jvTasks' = [jvTasks EXCEPT ![t] = d]
        /\ \/ \E s \in {"completed", "failed"} : /\ d.steps = {<<t, s>>} /\ d.real = jvTasks[t].real /\ jvPending' = jvPending
                                                 /\ jvEvid' = {e \in jvEvid : e[1] # t} \cup {<<t, s>>}
           \/ /\ d.steps = jvTasks[t].steps /\ jvPending' \in RunEnds /\ d.real = jvPending' /\ jvEvid' = jvEvid
  <2>1. ASSUME NEW s \in {"completed", "failed"}, RunProgress(t, s)
        PROVE  \E d \in AgentTasks : /\ jvTasks' = [jvTasks EXCEPT ![t] = d]
                  /\ d.steps = {<<t, s>>} /\ d.real = jvTasks[t].real /\ jvPending' = jvPending
                  /\ jvEvid' = {e \in jvEvid : e[1] # t} \cup {<<t, s>>}
    <3>1. {<<t, s>>} \in SUBSET (Nat \X {"completed", "failed"})
      BY <1>2
    <3>2. PICK st \in SUBSET (Nat \X {"completed", "failed"}) : st = {<<t, s>>}
      BY <3>1
    <3>3. PICK d \in AgentTasks : d = [jvTasks[t] EXCEPT !.steps = st]
      BY <1>2 DEF AgentTasks
    <3>4. d.steps = st /\ d.real = jvTasks[t].real
      BY <1>2, <3>3 DEF AgentTasks
    <3>5. jvTasks' = [jvTasks EXCEPT ![t] = d] /\ jvPending' = jvPending
          /\ jvEvid' = {e \in jvEvid : e[1] # t} \cup {<<t, s>>}
      BY <2>1, <3>2, <3>3 DEF RunProgress
    <3> QED
      BY <3>2, <3>4, <3>5
  <2>2. ASSUME NEW s \in RunEnds, RunSays(t, s)
        PROVE  \E d \in AgentTasks : /\ jvTasks' = [jvTasks EXCEPT ![t] = d]
                  /\ d.steps = jvTasks[t].steps /\ jvPending' \in RunEnds /\ d.real = jvPending' /\ jvEvid' = jvEvid
    <3>1. PICK d \in AgentTasks : d = [jvTasks[t] EXCEPT !.stage = "said", !.real = s]
      BY <1>2 DEF AgentTasks
    <3>2. d.steps = jvTasks[t].steps /\ d.real = s
      BY <1>2, <3>1 DEF AgentTasks
    <3>3. jvTasks' = [jvTasks EXCEPT ![t] = d] /\ jvPending' = s /\ jvEvid' = jvEvid
      BY <2>2, <3>1 DEF RunSays
    <3> QED
      BY <3>2, <3>3
  <2>3. CASE \E s \in {"completed", "failed"} : RunProgress(t, s)
    BY <2>1, <2>3
  <2>4. CASE \E s \in RunEnds : RunSays(t, s)
    BY <2>2, <2>4
  <2> QED
    BY <2>3, <2>4
<1>4. /\ jvTasks' \in Seq(AgentTasks) /\ DOMAIN jvTasks' = DOMAIN jvTasks
      /\ jvTasks'[t] = d /\ \A u \in DOMAIN jvTasks : u # t => jvTasks'[u] = jvTasks[u]
  BY <1>3, TaskTurns DEF JarvisInv
<1>5. LiveTask(t)
  BY <1>1 DEF LiveTask
<1>6. JarvisTypes'
  BY <1>1, <1>3, <1>4 DEF JarvisInv, JarvisTypes, NoDir
<1>7. ReportStands'
  BY <1>1, <1>4, <1>5, ReportStaysEarned DEF JarvisInv
<1>8. PhaseHasDirective'
  BY <1>1 DEF JarvisInv, PhaseHasDirective, NoDir
<1>9. CollectsItsOwn'
  <2> SUFFICES ASSUME jvDir # NoDir, jvDir.mixed = FALSE PROVE CollectsItsOwn'
    BY <1>1 DEF CollectsItsOwn, NoDir
  <2>1. /\ \A u \in DOMAIN jvTasks : u # jvDir.task => ~LiveTask(u)
        /\ jvPending # "none" => jvTasks[jvDir.task].real = jvPending
        /\ \A e \in jvEvid : e[1] = jvDir.task
        /\ jvTasks[jvDir.task].steps \subseteq jvEvid
    BY DEF JarvisInv, CollectsItsOwn
  <2>2. t = jvDir.task
    BY <1>5, <2>1
  <2>3. \A u \in DOMAIN jvTasks' : u # jvDir.task => ~LiveTask(u)'
    BY <1>4, <2>1, <2>2 DEF LiveTask
  <2>4. jvPending' # "none" => d.real = jvPending'
    BY <1>3, <2>1, <2>2
  <2>5. d.steps \subseteq jvEvid' /\ \A e \in jvEvid' : e[1] = t
    BY <1>3, <2>1, <2>2
  <2> QED
    BY <1>1, <1>4, <2>2, <2>3, <2>4, <2>5 DEF CollectsItsOwn, NoDir
<1> QED
  BY <1>6, <1>7, <1>8, <1>9 DEF JarvisInv

\* What a success says of the evidence and of the verdict it was composed from.
LEMMA SuccessSays ==
    ASSUME JarvisInv, NEW terminal, NEW evid, NEW point, NEW mission, Compose(terminal, evid, point, mission)
    PROVE  /\ jvReport'.task = jvDir.task /\ jvReport'.evid = evid /\ jvReport'.mixed = jvDir.mixed
           /\ jvReport'.status = "SUCCESS" =>
                /\ terminal \notin {"idle", "error"} /\ \A e \in evid : e[2] \notin {"failed", "skipped"}
                /\ jvSpec.verification # "UNVERIFIED" \/ jvSpec.status = "FAILED"
           /\ jvDir' = NoDir /\ jvPhase' = "idle" /\ jvPending' = "none" /\ jvSpec' = NoSpec
<1>1. PICK status : status = ReportStatus(terminal, evid, jvSpec, mission)
  OBVIOUS
<1>2. jvReport' = [task |-> jvDir.task, status |-> status, evid |-> evid, mixed |-> jvDir.mixed, point |-> point]
  BY <1>1 DEF Compose
<1>3. status = "SUCCESS" =>
        /\ terminal \notin {"idle", "error"} /\ \A e \in evid : e[2] \notin {"failed", "skipped"}
        /\ jvSpec.verification # "UNVERIFIED" \/ jvSpec.status \in {"FAILED", "TIMED_OUT", "CANCELLED"}
  BY <1>1 DEF ReportStatus
<1>4. jvSpec.status \in {"none", "RUNNING", "COMPLETED", "FAILED"}
  BY DEF JarvisInv, JarvisTypes
<1> QED
  BY <1>2, <1>3, <1>4 DEF Compose

\* A run is over, and so may be its directive.
LEMMA OverKeeps ==
    ASSUME JarvisInv, NEW t \in DOMAIN jvTasks, RunOver(t)
    PROVE  JarvisInv'
<1>1. jvTasks[t] \in AgentTasks /\ LiveTask(t)
  BY ElementOfSeq, LenProperties DEF JarvisInv, JarvisTypes, RunOver, RunningTask, LiveTask
<1>2. PICK d \in AgentTasks : d = [jvTasks[t] EXCEPT !.stage = "over"]
  BY <1>1 DEF AgentTasks
<1>3. d.stage = "over" /\ d.real = jvTasks[t].real /\ d.steps = jvTasks[t].steps
  BY <1>1, <1>2 DEF AgentTasks
<1>4. jvTasks' = [jvTasks EXCEPT ![t] = d]
  BY <1>2 DEF RunOver, Stage
<1>5. /\ jvTasks' \in Seq(AgentTasks) /\ DOMAIN jvTasks' = DOMAIN jvTasks
      /\ jvTasks'[t] = d /\ \A u \in DOMAIN jvTasks : u # t => jvTasks'[u] = jvTasks[u]
  BY <1>4, TaskTurns DEF JarvisInv
<1>6. \A u \in DOMAIN jvTasks : ~LiveTask(u) => jvTasks'[u] = jvTasks[u] /\ ~LiveTask(u)'
  BY <1>1, <1>5 DEF LiveTask
<1>7. CASE UNCHANGED <<jvDir, jvPhase, jvEvid, jvPending, jvSpec, jvPoint, jvReport>>
  <2>1. JarvisTypes'
    BY <1>5, <1>7 DEF JarvisInv, JarvisTypes, NoDir
  <2>2. ReportStands'
    BY <1>5, <1>6, <1>7, ReportStaysEarned DEF JarvisInv
  <2>3. PhaseHasDirective'
    BY <1>7 DEF JarvisInv, PhaseHasDirective, NoDir
  <2>4. jvDir # NoDir => jvDir.task \in DOMAIN jvTasks
    BY DEF JarvisInv, JarvisTypes
  <2>5. \A u \in DOMAIN jvTasks : jvTasks'[u].real = jvTasks[u].real /\ jvTasks'[u].steps = jvTasks[u].steps
    BY <1>3, <1>5
  <2>6. CollectsItsOwn'
    BY <1>5, <1>6, <1>7, <2>4, <2>5 DEF JarvisInv, CollectsItsOwn, NoDir
  <2> QED
    BY <2>1, <2>2, <2>3, <2>6 DEF JarvisInv
<1>8. CASE jvDir # NoDir /\ jvPending # "none" /\ Compose(jvPending, jvEvid, jvPoint, "none")
  <2>1. /\ jvReport'.task = jvDir.task /\ jvReport'.evid = jvEvid /\ jvReport'.mixed = jvDir.mixed
        /\ jvReport'.status = "SUCCESS" =>
             /\ jvPending \notin {"idle", "error"} /\ \A e \in jvEvid : e[2] \notin {"failed", "skipped"}
        /\ jvDir' = NoDir /\ jvPhase' = "idle" /\ jvPending' = "none" /\ jvSpec' = NoSpec
    BY <1>8, SuccessSays
  <2>2. JarvisTypes'
    BY <1>5, <2>1 DEF JarvisTypes, NoDir, NoSpec, NoDirective
  <2>3. PhaseHasDirective' /\ CollectsItsOwn'
    BY <2>1 DEF PhaseHasDirective, CollectsItsOwn, NoDir
  <2>4. ReportStands'
    <3> SUFFICES ASSUME jvDir.mixed = FALSE PROVE ReportStands'
      BY <2>1 DEF ReportStands
    <3>1. /\ \A u \in DOMAIN jvTasks : u # jvDir.task => ~LiveTask(u)
          /\ jvTasks[jvDir.task].real = jvPending
          /\ \A e \in jvEvid : e[1] = jvDir.task
          /\ jvTasks[jvDir.task].steps \subseteq jvEvid
      BY <1>8 DEF JarvisInv, CollectsItsOwn
    <3>2. t = jvDir.task
      BY <1>1, <3>1
    <3>3. ~LiveTask(t)' /\ t \in DOMAIN jvTasks'
      BY <1>3, <1>5 DEF LiveTask
    <3>4. ASSUME jvReport'.status = "SUCCESS"
          PROVE  d.real = "completed" /\ \A e \in d.steps : e[2] = "completed"
      <4>1. jvPending = "completed"
        BY <1>8, <2>1, <3>4 DEF JarvisInv, JarvisTypes, RunEnds
      <4>2. \A e \in d.steps : e[2] \in {"completed", "failed"}
        BY <1>2 DEF AgentTasks
      <4> QED
        BY <1>3, <2>1, <3>1, <3>2, <3>4, <4>1, <4>2
    <3> QED
      BY <1>5, <2>1, <3>1, <3>2, <3>3, <3>4 DEF ReportStands, LiveTask
  <2> QED
    BY <2>2, <2>3, <2>4 DEF JarvisInv
<1> QED
  BY <1>7, <1>8 DEF RunOver

\* A mission ends, with the directive it served.
LEMMA MissionKeeps ==
    ASSUME JarvisInv, NEW s \in {"completed", "failed", "cancelled"}, NEW v, MissionEnds(s, v)
    PROVE  JarvisInv'
<1>1. PICK terminal, evid : /\ terminal = (IF s = "completed" THEN "completed" ELSE "error")
                            /\ evid = jvEvid \cup {<<jvDir.task, s>>}
  OBVIOUS
<1>2. Compose(terminal, evid, jvDir.task, v) /\ jvTasks' = jvTasks /\ jvDir.mission
      /\ (s = "completed" => ~LiveTask(jvDir.task) /\ jvTasks[jvDir.task].real = "completed")
  BY <1>1 DEF MissionEnds
<1>3. /\ jvReport'.task = jvDir.task /\ jvReport'.evid = evid /\ jvReport'.mixed = jvDir.mixed
      /\ jvReport'.status = "SUCCESS" =>
           /\ terminal \notin {"idle", "error"} /\ \A e \in evid : e[2] \notin {"failed", "skipped"}
      /\ jvDir' = NoDir /\ jvPhase' = "idle" /\ jvPending' = "none" /\ jvSpec' = NoSpec
  BY <1>2, SuccessSays
<1>4. JarvisTypes' /\ PhaseHasDirective' /\ CollectsItsOwn'
  BY <1>2, <1>3 DEF JarvisInv, JarvisTypes, PhaseHasDirective, CollectsItsOwn, NoDir, NoSpec, NoDirective
<1>5. jvDir # NoDir
  BY <1>2 DEF NoDir
<1>6. ReportStands'
  <2> SUFFICES ASSUME jvDir.mixed = FALSE PROVE ReportStands'
    BY <1>3 DEF ReportStands
  <2>1. /\ \A e \in jvEvid : e[1] = jvDir.task
        /\ jvTasks[jvDir.task].steps \subseteq jvEvid /\ jvDir.task \in DOMAIN jvTasks
    BY <1>5 DEF JarvisInv, CollectsItsOwn, JarvisTypes
  <2>2. \A e \in jvTasks[jvDir.task].steps : e[2] \in {"completed", "failed"}
    <3>1. jvTasks[jvDir.task] \in AgentTasks
      BY <2>1, ElementOfSeq, LenProperties DEF JarvisInv, JarvisTypes
    <3> QED
      BY <3>1 DEF AgentTasks
  <2>3. \A e \in evid : e[1] = jvDir.task
    BY <1>1, <2>1
  <2>4. jvReport'.status = "SUCCESS" =>
          /\ s = "completed" /\ \A e \in jvTasks[jvDir.task].steps : e[2] = "completed"
    BY <1>1, <1>3, <2>1, <2>2
  <2> QED
    BY <1>2, <1>3, <2>1, <2>3, <2>4 DEF ReportStands, LiveTask
<1> QED
  BY <1>4, <1>6 DEF JarvisInv

\* Whatever the agent's runs show and whatever comes in between, a report is of
\* its own directive, says SUCCESS only of a run that ended well, with no step
\* that failed and no verdict short of verified, and a phase that is shown
\* belongs to an open directive (jarvis/engine.ts).
THEOREM ReportAlwaysEarned == JarvisSpec => ReportIsEarned
<1>1. JarvisInit => JarvisInv
  <2> SUFFICES ASSUME JarvisInit PROVE JarvisInv
    OBVIOUS
  <2>1. <<>> \in Seq(AgentTasks) /\ NoDir \in [task : Nat, mission : BOOLEAN, mixed : BOOLEAN]
    BY DEF NoDir, NoDirective
  <2> QED
    BY <2>1 DEF JarvisInit, JarvisInv, JarvisTypes, CollectsItsOwn, ReportStands, PhaseHasDirective, NoSpec, NoReport
<1>2. JarvisInv /\ [JarvisNext]_jvVars => JarvisInv'
  <2> SUFFICES ASSUME JarvisInv, [JarvisNext]_jvVars PROVE JarvisInv'
    OBVIOUS
  <2>1. CASE PanelTask \/ \E c \in JvCommands : ReceiveCommand(c)
    BY <2>1, ComesIn
  <2>2. CASE MissionPaused \/ UNCHANGED jvVars
    BY <2>2 DEF MissionPaused, jvVars, JarvisInv, JarvisTypes, CollectsItsOwn, ReportStands, PhaseHasDirective,
         NoDir, LiveTask
  <2>3. ASSUME NEW t \in DOMAIN jvTasks,
               \/ RunStarts(t) \/ RunShows(t) \/ RunDelegates(t)
               \/ RunVerifies(t, "COMPLETED", "VERIFIED") \/ RunVerifies(t, "COMPLETED", "UNVERIFIED")
               \/ RunVerifies(t, "FAILED", "UNVERIFIED")
        PROVE  JarvisInv'
    BY <2>3, RunSteps
  <2>4. ASSUME NEW t \in DOMAIN jvTasks, RunOver(t) PROVE JarvisInv'
    BY <2>4, OverKeeps
  <2>5. ASSUME NEW t \in DOMAIN jvTasks,
               (\E s \in {"completed", "failed"} : RunProgress(t, s)) \/ (\E s \in {"completed", "error", "idle"} : RunSays(t, s))
        PROVE  JarvisInv'
    BY <2>5, RunTells DEF RunEnds
  <2>6. ASSUME NEW s \in {"completed", "failed", "cancelled"}, NEW v \in {"VERIFIED", "UNVERIFIED"}, MissionEnds(s, v)
        PROVE  JarvisInv'
    BY <2>6, MissionKeeps
  <2> QED
    BY <2>1, <2>2, <2>3, <2>4, <2>5, <2>6 DEF JarvisNext
<1>3. JarvisInv => OwnEvidence /\ PhaseHasDirective
  BY DEF JarvisInv, ReportStands, OwnEvidence, SuccessIsGenuine
<1>4. JarvisInv /\ [JarvisNext]_jvVars =>
        [jvReport' # jvReport /\ jvReport'.status = "SUCCESS"
           => jvSpec.verification # "UNVERIFIED" \/ jvSpec.status = "FAILED"]_jvVars
  <2> SUFFICES ASSUME JarvisInv, JarvisNext, jvReport' # jvReport, jvReport'.status = "SUCCESS"
               PROVE  jvSpec.verification # "UNVERIFIED" \/ jvSpec.status = "FAILED"
    BY DEF jvVars
  <2>1. PICK terminal, evid, point, mission : Compose(terminal, evid, point, mission)
    BY DEF JarvisNext, ReceiveCommand, PanelTask, MissionPaused, RunStarts, RunShows, RunDelegates, RunOver, RunProgress,
         RunVerifies, RunSays, MissionEnds
  <2> QED
    BY <2>1, SuccessSays
<1> QED
  BY <1>1, <1>2, <1>3, <1>4, PTL DEF JarvisSpec, ReportIsEarned, UnverifiedIsNoSuccess

-----------------------------------------------------------------------------
(* The mission journal *)

GoingOn == {"RUNNING", "RECOVERED"}
LineStatuses == GoingOn \cup {"BLOCKED", "COMPLETED", "FAILED", "SKIPPED", "INFO"}
JLines == [kind : {"ACTION", "LOG"}, status : LineStatuses, action : JActions \cup {"-"}, seq : Nat, born : Nat]
Own(line, a, life) == line.kind = "ACTION" /\ line.action = a /\ line.born = life /\ line.status # "BLOCKED"

\* Lines in their order, at most n of them.
InOrder(l, life, n) ==
  /\ l \in Seq(JLines) /\ Len(l) <= n
  /\ \A i, k \in DOMAIN l : i < k => l[i].seq < l[k].seq
  /\ \A i \in DOMAIN l : l[i].born <= life

\* Lines, index and last number of a journal whose actions are at acts: what is
\* indexed is there, and what is not indexed is settled.
GoodJournal(l, x, s, acts, life, n) ==
  /\ InOrder(l, life, n) /\ s \in Nat /\ \A i \in DOMAIN l : l[i].seq <= s
  /\ DOMAIN x \subseteq JActions
  /\ \A b \in DOMAIN x : \E i \in DOMAIN l : l[i].seq = x[b] /\ Own(l[i], b, life)
  /\ \A b \in JActions, i \in DOMAIN l : Own(l[i], b, life) =>
       /\ (b \in DOMAIN x /\ x[b] = l[i].seq) \/ acts[b] = "settled"
       /\ l[i].status \in GoingOn => acts[b] = "running"
  /\ \A b \in JActions, i, k \in DOMAIN l : Own(l[i], b, life) /\ Own(l[k], b, life) => i = k

JournalInv ==
  /\ jLoaded \in BOOLEAN /\ jLife \in Nat /\ jActs \in [JActions -> {"new", "gate", "running", "settled"}]
  /\ GoodJournal(jLines, jIndex, jSeq, jActs, jLife, MaxLines)
  /\ InOrder(jFile.lines, jLife, MaxLines)
  /\ jLoaded = FALSE => jIndex = <<>> /\ \A i \in DOMAIN jFile.lines : jFile.lines[i].born < jLife
  /\ JournalDurable

\* A line is added at the end; its action may come into the index with it.
LEMMA LineComes ==
    ASSUME NEW l, NEW x, NEW s, NEW acts, NEW life \in Nat, GoodJournal(l, x, s, acts, life, MaxLines),
           NEW e \in JLines, e.seq = s + 1, e.born = life, NEW y, DOMAIN y \subseteq JActions,
           \A b \in DOMAIN x : b \in DOMAIN y /\ y[b] = x[b],
           \A b \in DOMAIN y : b \in DOMAIN x \/ (y[b] = s + 1 /\ Own(e, b, life)),
           \A b \in JActions : Own(e, b, life) =>
             /\ (b \in DOMAIN y /\ y[b] = s + 1) \/ acts[b] = "settled"
             /\ e.status \in GoingOn => acts[b] = "running"
             /\ \A i \in DOMAIN l : ~Own(l[i], b, life)
    PROVE  GoodJournal(Append(l, e), y, s + 1, acts, life, MaxLines + 1)
<1>1. PICK r : r = Append(l, e)
  OBVIOUS
<1>2. l \in Seq(JLines) /\ Len(l) \in Nat /\ DOMAIN l = 1 .. Len(l) /\ Len(l) <= MaxLines /\ s \in Nat
  BY LenProperties DEF GoodJournal, InOrder
<1>3. PICK n : n = Len(l) + 1
  OBVIOUS
<1>4. /\ r \in Seq(JLines) /\ Len(r) = n /\ r[n] = e /\ \A i \in 1 .. Len(l) : r[i] = l[i]
      /\ DOMAIN r = 1 .. n
  BY <1>1, <1>2, <1>3, AppendProperties, LenProperties
<1>5. DOMAIN r = DOMAIN l \cup {n} /\ n \notin DOMAIN l /\ n <= MaxLines + 1 /\ \A i \in DOMAIN l : i < n
  BY <1>2, <1>3, <1>4, MaxLinesAssumption
<1>6. r[n] = e /\ \A i \in DOMAIN l : r[i] = l[i] /\ l[i].seq \in Nat /\ l[i].seq <= s /\ l[i].seq < s + 1 /\ l[i].born <= life
  <2>1. \A i \in DOMAIN l : l[i].seq \in Nat
    <3>1. \A i \in DOMAIN l : l[i] \in JLines
      BY <1>2, ElementOfSeq
    <3> QED
      BY <3>1 DEF JLines
  <2>2. \A i \in DOMAIN l : l[i].seq <= s /\ l[i].born <= life
    BY DEF GoodJournal, InOrder
  <2>3. \A i \in DOMAIN l : l[i].seq < s + 1
    BY <1>2, <2>1, <2>2
  <2> QED
    BY <1>2, <1>4, <2>1, <2>2, <2>3
<1>7. InOrder(r, life, MaxLines + 1)
  <2>1. \A i, k \in DOMAIN r : i < k => r[i].seq < r[k].seq
    <3> SUFFICES ASSUME NEW i \in DOMAIN r, NEW k \in DOMAIN r, i < k PROVE r[i].seq < r[k].seq
      OBVIOUS
    <3>1. i \in DOMAIN l
      BY <1>2, <1>3, <1>4
    <3>2. CASE k \in DOMAIN l
      BY <1>6, <3>1, <3>2 DEF GoodJournal, InOrder
    <3>3. CASE k = n
      BY <1>6, <3>1, <3>3
    <3> QED
      BY <1>5, <3>2, <3>3
  <2>2. \A i \in DOMAIN r : r[i].born <= life
    <3>1. e.born <= life
      OBVIOUS
    <3> QED
      BY <1>5, <1>6, <3>1
  <2> QED
    BY <1>4, <1>5, <2>1, <2>2 DEF InOrder
<1>8. \A i \in DOMAIN r : r[i].seq <= s + 1
  <2>1. e.seq <= s + 1
    BY <1>2
  <2>2. \A i \in DOMAIN l : l[i].seq <= s + 1
    BY <1>2, <1>6
  <2> QED
    BY <1>5, <1>6, <2>1, <2>2
<1>g. /\ \A b \in DOMAIN x : \E i \in DOMAIN l : l[i].seq = x[b] /\ Own(l[i], b, life)
      /\ \A b \in JActions, i \in DOMAIN l : Own(l[i], b, life) =>
           /\ (b \in DOMAIN x /\ x[b] = l[i].seq) \/ acts[b] = "settled"
           /\ l[i].status \in GoingOn => acts[b] = "running"
      /\ \A b \in JActions, i, k \in DOMAIN l : Own(l[i], b, life) /\ Own(l[k], b, life) => i = k
  BY DEF GoodJournal
<1>9. \A b \in DOMAIN y : \E i \in DOMAIN r : r[i].seq = y[b] /\ Own(r[i], b, life)
  BY <1>g, <1>5, <1>6
<1>10. ASSUME NEW b \in JActions, NEW i \in DOMAIN r, Own(r[i], b, life)
       PROVE  /\ (b \in DOMAIN y /\ y[b] = r[i].seq) \/ acts[b] = "settled"
              /\ r[i].status \in GoingOn => acts[b] = "running"
  <2>1. CASE i = n
    BY <1>6, <1>10, <2>1
  <2>2. CASE i \in DOMAIN l
    BY <1>g, <1>6, <1>10, <2>2
  <2> QED
    BY <1>5, <2>1, <2>2
<1>11. ASSUME NEW b \in JActions, NEW i \in DOMAIN r, NEW k \in DOMAIN r, Own(r[i], b, life), Own(r[k], b, life)
       PROVE  i = k
  <2>1. CASE Own(e, b, life)
    BY <1>5, <1>6, <1>11, <2>1
  <2>2. CASE ~Own(e, b, life)
    <3>1. i \in DOMAIN l /\ k \in DOMAIN l
      BY <1>5, <1>6, <1>11, <2>2
    <3> QED
      BY <1>g, <1>6, <1>11, <3>1
  <2> QED
    BY <2>1, <2>2
<1>12. s + 1 \in Nat
  BY <1>2
<1>13. GoodJournal(r, y, s + 1, acts, life, MaxLines + 1)
  BY <1>7, <1>8, <1>9, <1>10, <1>11, <1>12 DEF GoodJournal
<1> QED
  BY <1>1, <1>13

\* The oldest line goes, and what points at it.
LEMMA OldestGoes ==
    ASSUME NEW l, NEW x, NEW s, NEW acts, NEW life \in Nat, GoodJournal(l, x, s, acts, life, MaxLines + 1),
           Len(l) > MaxLines, NEW y, y = [a \in {b \in DOMAIN x : x[b] # Head(l).seq} |-> x[a]]
    PROVE  GoodJournal(Tail(l), y, s, acts, life, MaxLines)
<1>1. PICK r : r = Tail(l)
  OBVIOUS
<1>2. l \in Seq(JLines) /\ Len(l) \in Nat /\ DOMAIN l = 1 .. Len(l) /\ Len(l) = MaxLines + 1 /\ l # <<>> /\ s \in Nat
  <2>1. l \in Seq(JLines) /\ Len(l) \in Nat /\ DOMAIN l = 1 .. Len(l) /\ Len(l) <= MaxLines + 1 /\ s \in Nat
    BY LenProperties DEF GoodJournal, InOrder
  <2>2. Len(l) = MaxLines + 1
    <3>1. PICK m : m = Len(l)
      OBVIOUS
    <3>2. m \in Nat /\ m <= MaxLines + 1 /\ m > MaxLines /\ MaxLines \in Nat
      BY <2>1, <3>1, MaxLinesAssumption
    <3>3. m = MaxLines + 1
      BY ONLY <3>2
    <3> QED
      BY <3>1, <3>3
  <2> QED
    BY <2>1, <2>2, MaxLinesAssumption, EmptySeq
<1>3. /\ r \in Seq(JLines) /\ Len(r) = MaxLines /\ \A i \in 1 .. MaxLines : r[i] = l[i + 1]
      /\ DOMAIN r = 1 .. MaxLines /\ Head(l) = l[1]
  <2>1. r \in Seq(JLines) /\ Len(r) = Len(l) - 1 /\ \A i \in 1 .. Len(r) : r[i] = l[i + 1]
    BY <1>1, <1>2, HeadTailProperties
  <2> QED
    BY <1>2, <2>1, LenProperties, MaxLinesAssumption
<1>4. \A i \in DOMAIN r : i + 1 \in DOMAIN l /\ r[i] = l[i + 1]
  BY <1>2, <1>3, MaxLinesAssumption
<1>5. \A k \in DOMAIN l : k # 1 => \E i \in DOMAIN r : k = i + 1
  <2> TAKE k \in DOMAIN l
  <2> HAVE k # 1
  <2>1. k - 1 \in DOMAIN r /\ k = (k - 1) + 1
    BY <1>2, <1>3, MaxLinesAssumption
  <2> QED
    BY <2>1
<1>6. \A i, k \in DOMAIN l : i < k => l[i].seq < l[k].seq
  BY DEF GoodJournal, InOrder
<1>7. \A i \in DOMAIN l : l[i].seq \in Nat
  <2>1. \A i \in DOMAIN l : l[i] \in JLines
    BY <1>2, ElementOfSeq
  <2> QED
    BY <2>1 DEF JLines
<1>8. 1 \in DOMAIN l /\ \A i \in DOMAIN l : i \in Nat /\ (i # 1 => 1 < i)
  BY <1>2, MaxLinesAssumption
<1>9. \A k \in DOMAIN l : k # 1 => l[k].seq # l[1].seq
  BY <1>6, <1>7, <1>8
<1>10. InOrder(r, life, MaxLines)
  <2>1. \A i, k \in DOMAIN r : i < k => i + 1 < k + 1
    BY <1>3
  <2>2. \A i, k \in DOMAIN r : i < k => r[i].seq < r[k].seq
    BY <1>4, <1>6, <2>1
  <2>3. \A i \in DOMAIN r : r[i].born <= life
    BY <1>4 DEF GoodJournal, InOrder
  <2> QED
    BY <1>3, <2>2, <2>3, MaxLinesAssumption DEF InOrder
<1>11. DOMAIN y = {b \in DOMAIN x : x[b] # l[1].seq} /\ \A b \in DOMAIN y : y[b] = x[b]
  BY <1>3
<1>12. \A b \in DOMAIN y : \E i \in DOMAIN r : r[i].seq = y[b] /\ Own(r[i], b, life)
  <2> TAKE b \in DOMAIN y
  <2>1. PICK k \in DOMAIN l : l[k].seq = x[b] /\ Own(l[k], b, life)
    BY <1>11 DEF GoodJournal
  <2>2. k # 1
    BY <1>11, <2>1
  <2> QED
    BY <1>4, <1>5, <1>11, <2>1, <2>2
<1>13. \A b \in JActions, i \in DOMAIN r : Own(r[i], b, life) =>
         /\ (b \in DOMAIN y /\ y[b] = r[i].seq) \/ acts[b] = "settled"
         /\ r[i].status \in GoingOn => acts[b] = "running"
  <2> SUFFICES ASSUME NEW b \in JActions, NEW i \in DOMAIN r, Own(r[i], b, life)
               PROVE  /\ (b \in DOMAIN y /\ y[b] = r[i].seq) \/ acts[b] = "settled"
                      /\ r[i].status \in GoingOn => acts[b] = "running"
    OBVIOUS
  <2>1. PICK k \in DOMAIN l : k # 1 /\ r[i] = l[k]
    <3>1. i + 1 # 1
      BY <1>3
    <3> QED
      BY <1>4, <3>1
  <2>2. /\ (b \in DOMAIN x /\ x[b] = l[k].seq) \/ acts[b] = "settled"
        /\ l[k].status \in GoingOn => acts[b] = "running"
    BY <2>1 DEF GoodJournal
  <2> QED
    BY <1>9, <1>11, <2>1, <2>2
<1>14. \A b \in JActions, i, k \in DOMAIN r : Own(r[i], b, life) /\ Own(r[k], b, life) => i = k
  <2>1. \A b \in JActions, i, k \in DOMAIN r : Own(r[i], b, life) /\ Own(r[k], b, life) => i + 1 = k + 1
    BY <1>4 DEF GoodJournal
  <2>2. \A i, k \in DOMAIN r : i + 1 = k + 1 => i = k
    BY <1>3
  <2> QED
    BY <2>1, <2>2
<1>15. \A i \in DOMAIN r : r[i].seq <= s
  BY <1>4 DEF GoodJournal
<1>16. DOMAIN y \subseteq JActions
  BY <1>11 DEF GoodJournal
<1>17. GoodJournal(r, y, s, acts, life, MaxLines)
  BY <1>2, <1>10, <1>12, <1>13, <1>14, <1>15, <1>16 DEF GoodJournal
<1> QED
  BY <1>1, <1>17

\* A journal that has been read.
Read(l, x, s) == [lines |-> l, index |-> x, seq |-> s, loaded |-> TRUE]

\* Its fields, with an opaque mark.
LEMMA ReadFields ==
    \E yes : \A l, x, s : Read(l, x, s) = [lines |-> l, index |-> x, seq |-> s, loaded |-> yes]
  BY Zenon DEF Read

\* What is read stays read.
LEMMA ReadIsRead == \A l, x, s : JournalLoaded(Read(l, x, s)) = Read(l, x, s)
  BY DEF JournalLoaded, Read

\* On its first use the journal is read from the file.
LEMMA FirstUse ==
    ASSUME JournalInv
    PROVE  \E l, s : /\ JournalLoaded(Journal) = Read(l, jIndex, s)
                     /\ GoodJournal(l, jIndex, s, jActs, jLife, MaxLines)
                     /\ jLoaded = TRUE => Journal = Read(jLines, jIndex, jSeq) /\ l = jLines /\ s = jSeq
                     /\ jLoaded = FALSE => l = jFile.lines
<1>1. CASE jLoaded = TRUE
  <2>1. Journal = Read(jLines, jIndex, jSeq)
    BY <1>1 DEF Journal, Read
  <2> QED
    BY <1>1, <2>1, ReadIsRead DEF JournalInv
<1>2. CASE jLoaded = FALSE
  <2>1. PICK l : l = jFile.lines
    OBVIOUS
  <2>2. PICK s : s = IF l = <<>> THEN 0 ELSE l[Len(l)].seq
    OBVIOUS
  <2>3. PICK j : j = Journal
    OBVIOUS
  <2>4. j = [lines |-> jLines, index |-> jIndex, seq |-> jSeq, loaded |-> FALSE]
    BY <1>2, <2>3 DEF Journal
  <2>5. JournalLoaded(j) = [j EXCEPT !.loaded = TRUE, !.lines = l, !.seq = s]
    <3>1. j.loaded = FALSE
      BY <2>4
    <3> QED
      BY <2>1, <2>2, <3>1 DEF JournalLoaded
  <2>6. JournalLoaded(j) = Read(l, jIndex, s)
    BY <2>4, <2>5 DEF Read
  <2>7. /\ l \in Seq(JLines) /\ DOMAIN l = 1 .. Len(l) /\ Len(l) \in Nat /\ InOrder(l, jLife, MaxLines)
        /\ \A i, k \in DOMAIN l : i < k => l[i].seq < l[k].seq
        /\ \A i \in DOMAIN l : l[i].born < jLife
        /\ jIndex = <<>> /\ jLife \in Nat
    BY <1>2, <2>1, LenProperties DEF JournalInv, InOrder
  <2>8. \A i \in DOMAIN l : l[i] \in JLines /\ l[i].seq \in Nat /\ l[i].born \in Nat
    <3>1. \A i \in DOMAIN l : l[i] \in JLines
      BY <2>7, ElementOfSeq
    <3> QED
      BY <3>1 DEF JLines
  <2>9. s \in Nat /\ \A i \in DOMAIN l : l[i].seq <= s
    <3>1. CASE l = <<>>
      BY <2>2, <3>1
    <3>2. CASE l # <<>>
      <4>1. Len(l) \in DOMAIN l
        BY <2>7, <3>2, EmptySeq
      <4>2. \A i \in DOMAIN l : i = Len(l) \/ i < Len(l)
        BY <2>7
      <4>3. s = l[Len(l)].seq
        BY <2>2, <3>2
      <4>4. s \in Nat
        BY <2>8, <4>1, <4>3
      <4>5. ASSUME NEW i \in DOMAIN l PROVE l[i].seq <= s
        <5>1. l[i].seq \in Nat /\ (l[i].seq = s \/ l[i].seq < s)
          BY <2>7, <2>8, <4>1, <4>2, <4>3
        <5> QED
          BY <4>4, <5>1
      <4> QED
        BY <4>4, <4>5
    <3> QED
      BY <3>1, <3>2
  <2>10. \A i \in DOMAIN l, b \in JActions : ~Own(l[i], b, jLife)
    BY <2>7, <2>8 DEF Own
  <2>11. DOMAIN jIndex = {}
    BY <2>7
  <2>12. GoodJournal(l, jIndex, s, jActs, jLife, MaxLines)
    BY <2>7, <2>9, <2>10, <2>11 DEF GoodJournal
  <2> QED
    BY <1>2, <2>1, <2>3, <2>6, <2>12
<1> QED
  BY <1>1, <1>2 DEF JournalInv

\* What a line is made of.
NewLine(kind, status, a, s) == [kind |-> kind, status |-> status, action |-> a, seq |-> s + 1, born |-> jLife]

\* The journal with one line more, before and after the cap.
LEMMA AppendedIs ==
    ASSUME NEW old, NEW l, NEW x, NEW s, JournalLoaded(old) = Read(l, x, s),
           NEW kind, NEW status, NEW a
    PROVE  /\ Appended(old, kind, status, a) = Trimmed(Read(Append(l, NewLine(kind, status, a, s)), x, s + 1))
<1>1. PICK j : j = Read(l, x, s)
  OBVIOUS
<1>2. PICK e : e = NewLine(kind, status, a, s)
  OBVIOUS
<1>3. j.seq = s /\ j.lines = l
  BY <1>1 DEF Read
<1>4. Appended(old, kind, status, a) = Trimmed([j EXCEPT !.seq = @ + 1, !.lines = Append(@, e)])
  BY <1>1, <1>2, <1>3 DEF Appended, NewLine
<1>5. [j EXCEPT !.seq = @ + 1, !.lines = Append(@, e)] = Read(Append(l, e), x, s + 1)
  <2>1. PICK p, n : p = Append(l, e) /\ n = s + 1
    OBVIOUS
  <2>2. [j EXCEPT !.seq = @ + 1, !.lines = Append(@, e)] = [j EXCEPT !.seq = n, !.lines = p]
    BY <1>3, <2>1
  <2>3. [j EXCEPT !.seq = n, !.lines = p] = Read(p, x, n)
    <3>1. PICK yes : \A h, y, z : Read(h, y, z) = [lines |-> h, index |-> y, seq |-> z, loaded |-> yes]
      BY ReadFields
    <3>2. j = [lines |-> l, index |-> x, seq |-> s, loaded |-> yes]
      BY <1>1, <3>1
    <3>3. PICK h : h = [lines |-> l, index |-> x, seq |-> n, loaded |-> yes]
      OBVIOUS
    <3>4. [j EXCEPT !.seq = n] = h
      BY ONLY <3>2, <3>3
    <3>5. [h EXCEPT !.lines = p] = [lines |-> p, index |-> x, seq |-> n, loaded |-> yes]
      BY ONLY <3>3
    <3>6. [j EXCEPT !.seq = n, !.lines = p] = [[j EXCEPT !.seq = n] EXCEPT !.lines = p]
      OBVIOUS
    <3> QED
      BY <3>1, <3>4, <3>5, <3>6
  <2> QED
    BY <2>1, <2>2, <2>3
<1> QED
  BY <1>2, <1>4, <1>5

\* What the cap makes of it.
LEMMA TrimmedIs ==
    ASSUME NEW l, NEW x, NEW s
    PROVE  /\ Len(l) <= MaxLines => Trimmed(Read(l, x, s)) = Read(l, x, s)
           /\ ~(Len(l) <= MaxLines) =>
                Trimmed(Read(l, x, s)) = Read(Tail(l), [b \in {c \in DOMAIN x : x[c] # Head(l).seq} |-> x[b]], s)
<1>1. PICK j : j = Read(l, x, s)
  OBVIOUS
<1>2. j.lines = l /\ j.index = x
  BY <1>1 DEF Read
<1>3. CASE Len(l) <= MaxLines
  BY <1>1, <1>2, <1>3 DEF Trimmed
<1>4. CASE ~(Len(l) <= MaxLines)
  <2>1. PICK y : y = [b \in {c \in DOMAIN x : x[c] # Head(l).seq} |-> x[b]]
    OBVIOUS
  <2>2. Trimmed(j) = [j EXCEPT !.lines = Tail(l), !.index = y]
    BY <1>2, <1>4, <2>1 DEF Trimmed
  <2>3. PICK t : t = Tail(l)
    OBVIOUS
  <2>4. [j EXCEPT !.lines = t, !.index = y] = Read(t, y, s)
    <3>1. PICK yes : \A h, z, n : Read(h, z, n) = [lines |-> h, index |-> z, seq |-> n, loaded |-> yes]
      BY ReadFields
    <3>2. j = [lines |-> l, index |-> x, seq |-> s, loaded |-> yes]
      BY <1>1, <3>1
    <3>3. PICK h : h = [lines |-> t, index |-> x, seq |-> s, loaded |-> yes]
      OBVIOUS
    <3>4. [j EXCEPT !.lines = t] = h
      BY ONLY <3>2, <3>3
    <3>5. [h EXCEPT !.index = y] = [lines |-> t, index |-> y, seq |-> s, loaded |-> yes]
      BY ONLY <3>3
    <3>6. [j EXCEPT !.lines = t, !.index = y] = [[j EXCEPT !.lines = t] EXCEPT !.index = y]
      OBVIOUS
    <3> QED
      BY <3>1, <3>4, <3>5, <3>6
  <2> QED
    BY <1>1, <1>4, <2>1, <2>2, <2>3, <2>4
<1> QED
  BY <1>3, <1>4

\* The cap keeps what is good of a journal with a line too many.
LEMMA CapKeeps ==
    ASSUME NEW l, NEW x, NEW s, NEW acts, NEW life \in Nat, GoodJournal(l, x, s, acts, life, MaxLines + 1)
    PROVE  \E m, y : Trimmed(Read(l, x, s)) = Read(m, y, s) /\ GoodJournal(m, y, s, acts, life, MaxLines)
<1>1. CASE Len(l) <= MaxLines
  <2>1. Trimmed(Read(l, x, s)) = Read(l, x, s)
    BY <1>1, TrimmedIs
  <2>2. GoodJournal(l, x, s, acts, life, MaxLines)
    BY <1>1 DEF GoodJournal, InOrder
  <2> QED
    BY <2>1, <2>2
<1>2. CASE ~(Len(l) <= MaxLines)
  <2>1. l \in Seq(JLines)
    BY DEF GoodJournal, InOrder
  <2>2. Len(l) > MaxLines
    BY <1>2, <2>1, LenProperties, MaxLinesAssumption
  <2>3. PICK y : y = [b \in {c \in DOMAIN x : x[c] # Head(l).seq} |-> x[b]]
    OBVIOUS
  <2>4. Trimmed(Read(l, x, s)) = Read(Tail(l), y, s)
    BY <1>2, <2>3, TrimmedIs
  <2>5. GoodJournal(Tail(l), y, s, acts, life, MaxLines)
    BY <2>2, <2>3, OldestGoes
  <2> QED
    BY <2>4, <2>5
<1> QED
  BY <1>1, <1>2

\* Lines that are of no action.
LEMMA LineOfNone ==
    ASSUME NEW old, NEW l, NEW x, NEW s, JournalLoaded(old) = Read(l, x, s), jLife \in Nat,
           NEW acts, GoodJournal(l, x, s, acts, jLife, MaxLines),
           NEW kind \in {"ACTION", "LOG"}, NEW status \in LineStatuses, NEW a \in JActions \cup {"-"},
           kind = "LOG" \/ status = "BLOCKED"
    PROVE  \E m, y, n : Appended(old, kind, status, a) = Read(m, y, n) /\ GoodJournal(m, y, n, acts, jLife, MaxLines)
<1>1. PICK e : e = NewLine(kind, status, a, s)
  OBVIOUS
<1>2. s \in Nat
  BY DEF GoodJournal
<1>3. e \in JLines /\ e.seq = s + 1 /\ e.born = jLife /\ e.kind = kind /\ e.status = status
  BY <1>1, <1>2 DEF NewLine, JLines
<1>4. \A b : ~Own(e, b, jLife)
  BY <1>3 DEF Own
<1>5. DOMAIN x \subseteq JActions
  BY DEF GoodJournal
<1>6. GoodJournal(Append(l, e), x, s + 1, acts, jLife, MaxLines + 1)
  BY <1>3, <1>4, <1>5, LineComes
<1>7. Appended(old, kind, status, a) = Trimmed(Read(Append(l, e), x, s + 1))
  BY <1>1, AppendedIs
<1> QED
  BY <1>6, <1>7, CapKeeps

\* So does the log, of as many as are asked for.
LEMMA LogKeeps ==
    ASSUME NEW old, NEW l, NEW x, NEW s, JournalLoaded(old) = Read(l, x, s), jLife \in Nat,
           NEW acts, GoodJournal(l, x, s, acts, jLife, MaxLines), NEW n \in {0, 1, 2}, n = 0 => old = Read(l, x, s)
    PROVE  \E m, y, k : Log(old, n) = Read(m, y, k) /\ GoodJournal(m, y, k, acts, jLife, MaxLines)
<1>1. "LOG" \in {"ACTION", "LOG"} /\ "INFO" \in LineStatuses /\ "-" \in JActions \cup {"-"}
  BY DEF LineStatuses
<1>2. PICK one : one = Appended(old, "LOG", "INFO", "-")
  OBVIOUS
<1>3. PICK m, y, k : one = Read(m, y, k) /\ GoodJournal(m, y, k, acts, jLife, MaxLines)
  BY <1>1, <1>2, LineOfNone
<1>4. JournalLoaded(one) = Read(m, y, k)
  BY <1>3, ReadIsRead
<1>5. \E r, z, q : Appended(one, "LOG", "INFO", "-") = Read(r, z, q) /\ GoodJournal(r, z, q, acts, jLife, MaxLines)
  BY <1>1, <1>3, <1>4, LineOfNone
<1>6. CASE n = 0
  BY <1>6 DEF Log
<1>7. CASE n = 1
  BY <1>2, <1>3, <1>7 DEF Log
<1>8. CASE n = 2
  BY <1>2, <1>5, <1>8 DEF Log
<1> QED
  BY <1>6, <1>7, <1>8

\* An action goes on: nothing of it that goes on may stay when it stops.
LEMMA ActionMoves ==
    ASSUME NEW l, NEW x, NEW s, NEW acts, NEW life, NEW n, GoodJournal(l, x, s, acts, life, n),
           NEW a \in JActions, NEW to, NEW moved, moved[a] = to, \A b \in JActions : b # a => moved[b] = acts[b],
           acts[a] = "settled" => to = "settled",
           to = "running" \/ \A i \in DOMAIN l : Own(l[i], a, life) => l[i].status \notin GoingOn
    PROVE  GoodJournal(l, x, s, moved, life, n)
<1>1. ASSUME NEW b \in JActions, NEW i \in DOMAIN l, Own(l[i], b, life)
      PROVE  /\ (b \in DOMAIN x /\ x[b] = l[i].seq) \/ moved[b] = "settled"
             /\ l[i].status \in GoingOn => moved[b] = "running"
  <2>1. /\ (b \in DOMAIN x /\ x[b] = l[i].seq) \/ acts[b] = "settled"
        /\ l[i].status \in GoingOn => acts[b] = "running"
    BY <1>1 DEF GoodJournal
  <2>2. CASE b = a
    BY <1>1, <2>1, <2>2
  <2>3. CASE b # a
    BY <2>1, <2>3
  <2> QED
    BY <2>2, <2>3
<1> QED
  BY <1>1 DEF GoodJournal

\* The line of an action takes another status.
LEMMA PatchKeeps ==
    ASSUME NEW l, NEW x, NEW s, NEW acts, NEW life, NEW n, GoodJournal(l, x, s, acts, life, n),
           NEW a \in DOMAIN x, NEW status \in LineStatuses \ {"BLOCKED"}, status \in GoingOn => acts[a] = "running"
    PROVE  LET m == [i \in DOMAIN l |-> IF l[i].seq = x[a] THEN [l[i] EXCEPT !.status = status] ELSE l[i]] IN
           /\ GoodJournal(m, x, s, acts, life, n)
           /\ \A i \in DOMAIN m : Own(m[i], a, life) /\ m[i].seq = x[a] => m[i].status = status
<1>1. PICK m : m = [i \in DOMAIN l |-> IF l[i].seq = x[a] THEN [l[i] EXCEPT !.status = status] ELSE l[i]]
  OBVIOUS
<1>2. l \in Seq(JLines) /\ DOMAIN l = 1 .. Len(l) /\ Len(l) \in Nat
  BY LenProperties DEF GoodJournal, InOrder
<1>3. PICK p \in DOMAIN l : l[p].seq = x[a] /\ Own(l[p], a, life)
  BY DEF GoodJournal
<1>4. \A i \in DOMAIN l : l[i] \in JLines /\ l[i].seq \in Nat
  <2>1. \A i \in DOMAIN l : l[i] \in JLines
    BY <1>2, ElementOfSeq
  <2> QED
    BY <2>1 DEF JLines
<1>5. \A i \in DOMAIN l : l[i].seq = x[a] => i = p
  <2>1. \A i, k \in DOMAIN l : i < k => l[i].seq < l[k].seq
    BY DEF GoodJournal, InOrder
  <2>2. \A i, k \in DOMAIN l : i = k \/ i < k \/ k < i
    BY <1>2
  <2> QED
    BY <1>3, <1>4, <2>1, <2>2
<1>6. PICK q \in JLines : q = [l[p] EXCEPT !.status = status]
  BY <1>4 DEF JLines
<1>7. q.status = status /\ q.kind = l[p].kind /\ q.action = l[p].action /\ q.born = l[p].born /\ q.seq = l[p].seq
  BY <1>4, <1>6 DEF JLines
<1>8. DOMAIN m = DOMAIN l /\ m[p] = q /\ \A i \in DOMAIN l : i # p => m[i] = l[i]
  BY <1>1, <1>3, <1>5, <1>6
<1>9. m \in Seq(JLines) /\ Len(m) = Len(l)
  <2>1. m \in [1 .. Len(l) -> JLines]
    <3>1. \A i \in DOMAIN l : m[i] \in JLines
      BY <1>4, <1>6, <1>8
    <3>2. m = [i \in DOMAIN m |-> m[i]]
      BY <1>1
    <3> QED
      BY <1>2, <1>8, <3>1, <3>2
  <2> QED
    BY <1>2, <2>1, SeqDef
<1>10. \A i \in DOMAIN l : m[i].seq = l[i].seq /\ m[i].born = l[i].born
  BY <1>7, <1>8
<1>11. \A i \in DOMAIN l : \A b : Own(m[i], b, life) <=> Own(l[i], b, life)
  <2>1. \A b : Own(q, b, life) <=> Own(l[p], b, life)
    BY <1>3, <1>7 DEF Own
  <2> QED
    BY <1>8, <2>1
<1>12. InOrder(m, life, n)
  BY <1>8, <1>9, <1>10 DEF GoodJournal, InOrder
<1>13. \A b \in JActions, i \in DOMAIN l : Own(l[i], b, life) /\ m[i].status \in GoingOn => acts[b] = "running"
  <2> SUFFICES ASSUME NEW b \in JActions, NEW i \in DOMAIN l, Own(l[i], b, life), m[i].status \in GoingOn
               PROVE  acts[b] = "running"
    OBVIOUS
  <2>1. CASE i = p
    <3>1. b = a
      BY <1>3, <2>1 DEF Own
    <3> QED
      BY <1>7, <1>8, <2>1, <3>1
  <2>2. CASE i # p
    BY <1>8, <2>2 DEF GoodJournal
  <2> QED
    BY <2>1, <2>2
<1>14. GoodJournal(m, x, s, acts, life, n)
  <2>1. s \in Nat /\ DOMAIN x \subseteq JActions /\ \A i \in DOMAIN m : m[i].seq <= s
    BY <1>8, <1>10 DEF GoodJournal
  <2>2. \A b \in DOMAIN x : \E i \in DOMAIN m : m[i].seq = x[b] /\ Own(m[i], b, life)
    BY <1>8, <1>10, <1>11 DEF GoodJournal
  <2>3. \A b \in JActions, i \in DOMAIN m : Own(m[i], b, life) =>
          /\ (b \in DOMAIN x /\ x[b] = m[i].seq) \/ acts[b] = "settled"
          /\ m[i].status \in GoingOn => acts[b] = "running"
    BY <1>8, <1>10, <1>11, <1>13 DEF GoodJournal
  <2>4. \A b \in JActions, i, k \in DOMAIN m : Own(m[i], b, life) /\ Own(m[k], b, life) => i = k
    BY <1>8, <1>11 DEF GoodJournal
  <2> QED
    BY <1>12, <2>1, <2>2, <2>3, <2>4 DEF GoodJournal
<1>15. \A i \in DOMAIN m : m[i].seq = x[a] => m[i].status = status
  BY <1>5, <1>7, <1>8, <1>10
<1> QED
  BY <1>1, <1>14, <1>15

\* The journal with a status of a line changed.
LEMMA PatchedIs ==
    ASSUME NEW l, NEW x, NEW s, NEW a, NEW status
    PROVE  Patched(Read(l, x, s), a, status) =
             Read([i \in DOMAIN l |-> IF l[i].seq = x[a] THEN [l[i] EXCEPT !.status = status] ELSE l[i]], x, s)
<1>1. PICK yes : \A h, z, n : Read(h, z, n) = [lines |-> h, index |-> z, seq |-> n, loaded |-> yes]
  BY ReadFields
<1>2. PICK j : j = Read(l, x, s)
  OBVIOUS
<1>3. j = [lines |-> l, index |-> x, seq |-> s, loaded |-> yes]
  BY <1>1, <1>2
<1>4. PICK m : m = [i \in DOMAIN l |-> IF l[i].seq = x[a] THEN [l[i] EXCEPT !.status = status] ELSE l[i]]
  OBVIOUS
<1>5. j.lines = l /\ j.index = x
  BY <1>3
<1>6. Patched(j, a, status) = [j EXCEPT !.lines = m]
  BY <1>4, <1>5 DEF Patched
<1>7. [j EXCEPT !.lines = m] = [lines |-> m, index |-> x, seq |-> s, loaded |-> yes]
  BY ONLY <1>3
<1> QED
  BY <1>1, <1>2, <1>4, <1>6, <1>7

\* An action that runs and has no line gets one, and is indexed.
LEMMA StartKeeps ==
    ASSUME NEW old, NEW l, NEW x, NEW s, JournalLoaded(old) = Read(l, x, s), jLife \in Nat,
           NEW acts, GoodJournal(l, x, s, acts, jLife, MaxLines), NEW a \in JActions, a \notin DOMAIN x, acts[a] = "running",
           NEW j, j = Appended(old, "ACTION", "RUNNING", a)
    PROVE  \E m, y, n : [j EXCEPT !.index = Indexed(@, a, j.seq)] = Read(m, y, n) /\ GoodJournal(m, y, n, acts, jLife, MaxLines)
<1>1. PICK e : e = NewLine("ACTION", "RUNNING", a, s)
  OBVIOUS
<1>2. s \in Nat /\ l \in Seq(JLines) /\ Len(l) \in Nat /\ Len(l) <= MaxLines
  BY LenProperties DEF GoodJournal, InOrder
<1>3. e \in JLines /\ e.seq = s + 1 /\ e.born = jLife /\ e.kind = "ACTION" /\ e.status = "RUNNING" /\ e.action = a
  BY <1>1, <1>2 DEF NewLine, JLines, LineStatuses, GoingOn
<1>4. \A b : Own(e, b, jLife) <=> b = a
  BY <1>3 DEF Own
<1>5. PICK z : z = Indexed(x, a, s + 1)
  OBVIOUS
<1>6. DOMAIN z = DOMAIN x \cup {a} /\ z[a] = s + 1 /\ \A b \in DOMAIN x : z[b] = x[b]
  BY <1>5 DEF Indexed
<1>7. DOMAIN x \subseteq JActions /\ DOMAIN z \subseteq JActions
  BY <1>6 DEF GoodJournal
<1>8. \A i \in DOMAIN l : ~Own(l[i], a, jLife)
  BY DEF GoodJournal
<1>9. GoodJournal(Append(l, e), z, s + 1, acts, jLife, MaxLines + 1)
  <2>1. \A b \in DOMAIN x : b \in DOMAIN z /\ z[b] = x[b]
    BY <1>6
  <2>2. \A b \in DOMAIN z : b \in DOMAIN x \/ (z[b] = s + 1 /\ Own(e, b, jLife))
    BY <1>4, <1>6
  <2>3. \A b \in JActions : Own(e, b, jLife) =>
          /\ (b \in DOMAIN z /\ z[b] = s + 1) \/ acts[b] = "settled"
          /\ e.status \in GoingOn => acts[b] = "running"
          /\ \A i \in DOMAIN l : ~Own(l[i], b, jLife)
    BY <1>4, <1>6, <1>8
  <2> QED
    BY <1>3, <1>7, <2>1, <2>2, <2>3, LineComes
<1>10. j = Trimmed(Read(Append(l, e), x, s + 1))
  BY <1>1, AppendedIs
<1>11. PICK r : r = Append(l, e)
  OBVIOUS
<1>12. r \in Seq(JLines) /\ Len(r) = Len(l) + 1 /\ Len(r) \in Nat
       /\ (l # <<>> => r[1] = l[1] /\ 1 \in DOMAIN l)
  <2>1. r \in Seq(JLines) /\ Len(r) = Len(l) + 1 /\ Len(r) \in Nat /\ \A i \in 1 .. Len(l) : r[i] = l[i]
    BY <1>2, <1>3, <1>11, AppendProperties
  <2>2. l # <<>> => 1 \in DOMAIN l /\ 1 \in 1 .. Len(l)
    BY <1>2, LenProperties, EmptySeq
  <2> QED
    BY <2>1, <2>2
<1>13. PICK yes : \A h, y, n : Read(h, y, n) = [lines |-> h, index |-> y, seq |-> n, loaded |-> yes]
  BY ReadFields
<1>14. ASSUME NEW m, NEW y, j = Read(m, y, s + 1)
       PROVE  [j EXCEPT !.index = Indexed(@, a, j.seq)] = Read(m, Indexed(y, a, s + 1), s + 1)
  <2>1. PICK n : n = s + 1
    OBVIOUS
  <2>2. j = [lines |-> m, index |-> y, seq |-> n, loaded |-> yes]
    BY <1>13, <1>14, <2>1
  <2>3. PICK w : w = Indexed(y, a, n)
    OBVIOUS
  <2>4. j.seq = n /\ j.index = y
    BY <2>2
  <2>5. [j EXCEPT !.index = Indexed(@, a, j.seq)] = [j EXCEPT !.index = w]
    BY <2>3, <2>4
  <2>6. [j EXCEPT !.index = w] = [lines |-> m, index |-> w, seq |-> n, loaded |-> yes]
    BY ONLY <2>2
  <2> QED
    BY <1>13, <2>1, <2>3, <2>5, <2>6
<1>15. CASE Len(r) <= MaxLines
  <2>1. j = Read(r, x, s + 1)
    BY <1>10, <1>11, <1>15, TrimmedIs
  <2>2. GoodJournal(r, z, s + 1, acts, jLife, MaxLines)
    BY <1>9, <1>11, <1>15 DEF GoodJournal, InOrder
  <2> QED
    BY <1>5, <1>14, <2>1, <2>2
<1>16. CASE ~(Len(r) <= MaxLines)
  <2>1. PICK y, w : /\ y = [b \in {c \in DOMAIN x : x[c] # Head(r).seq} |-> x[b]]
                    /\ w = [b \in {c \in DOMAIN z : z[c] # Head(r).seq} |-> z[b]]
    OBVIOUS
  <2>2. j = Read(Tail(r), y, s + 1)
    <3>1. Trimmed(Read(r, x, s + 1)) = Read(Tail(r), [b \in {c \in DOMAIN x : x[c] # Head(r).seq} |-> x[b]], s + 1)
      BY <1>16, TrimmedIs
    <3> QED
      BY <1>10, <1>11, <2>1, <3>1
  <2>3. Len(r) > MaxLines
    BY <1>12, <1>16, MaxLinesAssumption
  <2>4. GoodJournal(Tail(r), w, s + 1, acts, jLife, MaxLines)
    BY <1>9, <1>11, <2>1, <2>3, OldestGoes
  <2>5. Head(r).seq # s + 1
    <3>1. l # <<>>
      BY <1>2, <1>12, <2>3, MaxLinesAssumption, EmptySeq
    <3>2. Head(r) = l[1] /\ 1 \in DOMAIN l
      BY <1>12, <3>1
    <3>3. l[1].seq <= s /\ l[1] \in JLines
      BY <1>2, <3>2, ElementOfSeq, LenProperties DEF GoodJournal
    <3>4. l[1].seq \in Nat
      BY <3>3 DEF JLines
    <3> QED
      BY <1>2, <3>2, <3>3, <3>4
  <2>6. Indexed(y, a, s + 1) = w
    <3>1. PICK v : v = Indexed(y, a, s + 1)
      OBVIOUS
    <3>2. DOMAIN v = DOMAIN y \cup {a} /\ \A b \in DOMAIN v : v[b] = IF b = a THEN s + 1 ELSE y[b]
      BY <3>1 DEF Indexed
    <3>3. v = [b \in DOMAIN v |-> v[b]]
      BY <3>1 DEF Indexed
    <3>4. DOMAIN y = {c \in DOMAIN x : x[c] # Head(r).seq} /\ \A b \in DOMAIN y : y[b] = x[b]
      BY <2>1
    <3>5. DOMAIN w = {c \in DOMAIN z : z[c] # Head(r).seq} /\ \A b \in DOMAIN w : w[b] = z[b]
      BY <2>1
    <3>6. w = [b \in DOMAIN w |-> w[b]]
      BY <2>1
    <3>7. DOMAIN v = DOMAIN w
      BY <1>6, <2>5, <3>2, <3>4, <3>5
    <3>8. \A b \in DOMAIN v : v[b] = w[b]
      BY <1>6, <3>2, <3>4, <3>5, <3>7
    <3> QED
      BY <3>1, <3>3, <3>6, <3>7, <3>8
  <2> QED
    BY <1>14, <2>2, <2>4, <2>6
<1> QED
  BY <1>15, <1>16

Stages == {"new", "gate", "running", "settled"}

\* What is kept is good when the journal was.
LEMMA KeepGood ==
    ASSUME JournalInv, NEW j, NEW l, NEW x, NEW s, j = Read(l, x, s), Keep(j), jLife' = jLife,
           NEW acts, jActs' = acts, acts \in [JActions -> Stages], GoodJournal(l, x, s, acts, jLife, MaxLines)
    PROVE  JournalInv'
<1>1. j.lines = l /\ j.index = x /\ j.seq = s /\ j.loaded = TRUE
  BY DEF Read
<1>2. jLines' = l /\ jIndex' = x /\ jSeq' = s /\ jLoaded' = TRUE
  BY <1>1 DEF Keep
<1>3. /\ jSaved' \in BOOLEAN
      /\ (jSaved' /\ jFile' = [torn |-> FALSE, lines |-> l]) \/ (~jSaved' /\ jFile' = jFile)
  BY <1>1 DEF Keep
<1>4. GoodJournal(jLines', jIndex', jSeq', jActs', jLife', MaxLines)
  BY <1>2
<1>5. InOrder(jFile'.lines, jLife', MaxLines)
  <2>1. InOrder(l, jLife, MaxLines) /\ InOrder(jFile.lines, jLife, MaxLines)
    BY DEF GoodJournal, JournalInv
  <2> QED
    BY <1>3, <2>1
<1>6. JournalDurable'
  BY <1>2, <1>3 DEF JournalDurable
<1>7. jLife' \in Nat /\ jActs' \in [JActions -> {"new", "gate", "running", "settled"}]
  BY DEF JournalInv, Stages
<1> QED
  BY <1>2, <1>4, <1>5, <1>6, <1>7 DEF JournalInv

\* Lines that stand for an event keep the journal good.
LEMMA LogsAreGood ==
    ASSUME JournalInv, NEW n \in {1, 2}, Keep(Log(Journal, n)), jLife' = jLife, jActs' = jActs
    PROVE  JournalInv'
<1>1. PICK l, s : JournalLoaded(Journal) = Read(l, jIndex, s) /\ GoodJournal(l, jIndex, s, jActs, jLife, MaxLines)
  BY FirstUse
<1>2. PICK old, acts, x : old = Journal /\ acts = jActs /\ x = jIndex
  OBVIOUS
<1>3. jLife \in Nat /\ acts \in [JActions -> Stages]
  BY <1>2 DEF JournalInv, Stages
<1>4. n \in {0, 1, 2} /\ n # 0
  OBVIOUS
<1>5. PICK m, y, k : Log(old, n) = Read(m, y, k) /\ GoodJournal(m, y, k, acts, jLife, MaxLines)
  <2>1. JournalLoaded(old) = Read(l, x, s) /\ GoodJournal(l, x, s, acts, jLife, MaxLines)
    BY <1>1, <1>2
  <2> QED
    BY <1>3, <1>4, <2>1, LogKeeps
<1>6. Keep(Log(old, n)) /\ jActs' = acts
  BY <1>2
<1> QED
  BY <1>3, <1>5, <1>6, KeepGood

\* The gate of an action.
LEMMA GateIsGood ==
    ASSUME JournalInv, NEW a \in JActions, ConfirmationRequired(a)
    PROVE  JournalInv'
<1>1. PICK l, s : JournalLoaded(Journal) = Read(l, jIndex, s) /\ GoodJournal(l, jIndex, s, jActs, jLife, MaxLines)
  BY FirstUse
<1>2. PICK old, acts, x : old = Journal /\ acts = jActs /\ x = jIndex
  OBVIOUS
<1>3. jLife \in Nat /\ acts \in [JActions -> Stages]
  BY <1>2 DEF JournalInv, Stages
<1>4. PICK moved : moved = [acts EXCEPT ![a] = "gate"]
  OBVIOUS
<1>5. /\ moved \in [JActions -> Stages] /\ moved[a] = "gate" /\ \A b \in JActions : b # a => moved[b] = acts[b]
      /\ acts[a] = "new" /\ jActs' = moved /\ jLife' = jLife
  BY <1>2, <1>3, <1>4 DEF ConfirmationRequired, Event, Stages
<1>6. PICK m, y, k : Appended(old, "ACTION", "BLOCKED", a) = Read(m, y, k) /\ GoodJournal(m, y, k, acts, jLife, MaxLines)
  <2>1. JournalLoaded(old) = Read(l, x, s) /\ GoodJournal(l, x, s, acts, jLife, MaxLines)
    BY <1>1, <1>2
  <2>2. "ACTION" \in {"ACTION", "LOG"} /\ "BLOCKED" \in LineStatuses /\ a \in JActions \cup {"-"}
    BY DEF LineStatuses
  <2> QED
    BY <1>3, <2>1, <2>2, LineOfNone
<1>7. \A i \in DOMAIN m : Own(m[i], a, jLife) => m[i].status \notin GoingOn
  BY <1>5, <1>6 DEF GoodJournal
<1>8. GoodJournal(m, y, k, moved, jLife, MaxLines)
  <2>1. acts[a] = "settled" => "gate" = "settled"
    BY <1>5
  <2> QED
    BY <1>5, <1>6, <1>7, <2>1, ActionMoves
<1>9. Keep(Appended(old, "ACTION", "BLOCKED", a))
  BY <1>2 DEF ConfirmationRequired
<1> QED
  BY <1>5, <1>6, <1>8, <1>9, KeepGood

\* The index of a journal that nobody read is empty, so what it names is read.
LEMMA IndexedIsRead ==
    ASSUME JournalInv, NEW a \in DOMAIN jIndex
    PROVE  Journal = Read(jLines, jIndex, jSeq) /\ jLoaded = TRUE
<1>1. jLoaded = TRUE
  BY DEF JournalInv
<1> QED
  BY <1>1, FirstUse

\* An action that runs, for the first time or again.
LEMMA ExecutingIsGood ==
    ASSUME JournalInv, NEW a \in JActions, Executing(a)
    PROVE  JournalInv'
<1>1. PICK l, s : /\ JournalLoaded(Journal) = Read(l, jIndex, s) /\ GoodJournal(l, jIndex, s, jActs, jLife, MaxLines)
                  /\ jLoaded = TRUE => Journal = Read(jLines, jIndex, jSeq) /\ l = jLines /\ s = jSeq
  BY FirstUse
<1>2. PICK old, acts, x : old = Journal /\ acts = jActs /\ x = jIndex
  OBVIOUS
<1>3. jLife \in Nat /\ acts \in [JActions -> Stages]
  BY <1>2 DEF JournalInv, Stages
<1>4. PICK moved : moved = [acts EXCEPT ![a] = "running"]
  OBVIOUS
<1>5. /\ moved \in [JActions -> Stages] /\ moved[a] = "running" /\ \A b \in JActions : b # a => moved[b] = acts[b]
      /\ acts[a] # "settled" /\ jActs' = moved /\ jLife' = jLife
  BY <1>2, <1>3, <1>4 DEF Executing, Event, Stages
<1>6. JournalLoaded(old) = Read(l, x, s) /\ GoodJournal(l, x, s, moved, jLife, MaxLines)
  <2>1. GoodJournal(l, x, s, acts, jLife, MaxLines)
    BY <1>1, <1>2
  <2>2. acts[a] = "settled" => "running" = "settled"
    BY <1>5
  <2>3. "running" = "running" \/ \A i \in DOMAIN l : Own(l[i], a, jLife) => l[i].status \notin GoingOn
    OBVIOUS
  <2>4. GoodJournal(l, x, s, moved, jLife, MaxLines)
    BY <1>5, <2>1, <2>2, <2>3, ActionMoves
  <2> QED
    BY <1>1, <1>2, <2>4
<1>7. Keep(ActionStarted(a))
  BY DEF Executing
<1>8. CASE a \in DOMAIN x
  <2>1. old = Read(l, x, s)
    BY <1>1, <1>2, <1>8, IndexedIsRead
  <2>2. ActionStarted(a) = Patched(old, a, "RUNNING")
    BY <1>2, <1>8 DEF ActionStarted
  <2>3. PICK m : m = [i \in DOMAIN l |-> IF l[i].seq = x[a] THEN [l[i] EXCEPT !.status = "RUNNING"] ELSE l[i]]
    OBVIOUS
  <2>4. ActionStarted(a) = Read(m, x, s)
    BY <2>1, <2>2, <2>3, PatchedIs
  <2>5. "RUNNING" \in LineStatuses \ {"BLOCKED"} /\ ("RUNNING" \in GoingOn => moved[a] = "running")
    BY <1>5 DEF LineStatuses, GoingOn
  <2>6. GoodJournal(m, x, s, moved, jLife, MaxLines)
    BY <1>6, <1>8, <2>3, <2>5, PatchKeeps
  <2> QED
    BY <1>5, <1>7, <2>4, <2>6, KeepGood
<1>9. CASE a \notin DOMAIN x
  <2>1. PICK j : j = Appended(old, "ACTION", "RUNNING", a)
    OBVIOUS
  <2>2. ActionStarted(a) = [j EXCEPT !.index = Indexed(@, a, j.seq)]
    BY <1>2, <1>9, <2>1 DEF ActionStarted
  <2>3. \E m, y, n : [j EXCEPT !.index = Indexed(@, a, j.seq)] = Read(m, y, n) /\ GoodJournal(m, y, n, moved, jLife, MaxLines)
    BY <1>3, <1>5, <1>6, <1>9, <2>1, StartKeeps
  <2>4. PICK m, y, n : ActionStarted(a) = Read(m, y, n) /\ GoodJournal(m, y, n, moved, jLife, MaxLines)
    BY <2>2, <2>3
  <2> QED
    BY <1>5, <1>7, <2>4, KeepGood
<1> QED
  BY <1>8, <1>9

\* A retry says so on the action's line, and in one of its own.
LEMMA RetryingIsGood ==
    ASSUME JournalInv, NEW a \in JActions, Retrying(a)
    PROVE  JournalInv'
<1>1. CASE a \notin DOMAIN jIndex
  <2>1. Keep(Log(Journal, 1)) /\ jLife' = jLife /\ jActs' = jActs
    BY <1>1 DEF Retrying, Event
  <2> QED
    BY <2>1, LogsAreGood
<1>2. CASE a \in DOMAIN jIndex
  <2>1. Journal = Read(jLines, jIndex, jSeq)
    BY <1>2, IndexedIsRead
  <2>2. PICK l, x, s, acts : l = jLines /\ x = jIndex /\ s = jSeq /\ acts = jActs
    OBVIOUS
  <2>3. PICK m : m = [i \in DOMAIN l |-> IF l[i].seq = x[a] THEN [l[i] EXCEPT !.status = "RECOVERED"] ELSE l[i]]
    OBVIOUS
  <2>4. PICK j : j = Patched(Journal, a, "RECOVERED")
    OBVIOUS
  <2>5. j = Read(m, x, s)
    BY <2>1, <2>2, <2>3, <2>4, PatchedIs
  <2>6. /\ GoodJournal(l, x, s, acts, jLife, MaxLines) /\ a \in DOMAIN x
        /\ acts[a] = "running" /\ jLife \in Nat /\ acts \in [JActions -> Stages]
    BY <1>2, <2>2 DEF JournalInv, Retrying, Stages
  <2>7. "RECOVERED" \in LineStatuses \ {"BLOCKED"} /\ ("RECOVERED" \in GoingOn => acts[a] = "running")
    BY <2>6 DEF LineStatuses, GoingOn
  <2>8. GoodJournal(m, x, s, acts, jLife, MaxLines)
    BY <2>3, <2>6, <2>7, PatchKeeps
  <2>9. JournalLoaded(j) = Read(m, x, s)
    BY <2>5, ReadIsRead
  <2>10. 1 \in {0, 1, 2} /\ (1 = 0 => j = Read(m, x, s))
    OBVIOUS
  <2>11. PICK r, z, k : Log(j, 1) = Read(r, z, k) /\ GoodJournal(r, z, k, acts, jLife, MaxLines)
    BY <2>6, <2>8, <2>9, <2>10, LogKeeps
  <2>12. Keep(Log(j, 1)) /\ jLife' = jLife /\ jActs' = acts
    BY <1>2, <2>2, <2>4 DEF Retrying, Event
  <2> QED
    BY <2>6, <2>11, <2>12, KeepGood
<1> QED
  BY <1>1, <1>2

\* An action that settles, whether it ran or not.
LEMMA SettlingIsGood ==
    ASSUME JournalInv, NEW a \in JActions, NEW status \in {"COMPLETED", "FAILED", "SKIPPED"}, NEW extra \in {0, 2},
           SettlesAction(a, status, extra)
    PROVE  JournalInv'
<1>1. PICK l, s : /\ JournalLoaded(Journal) = Read(l, jIndex, s) /\ GoodJournal(l, jIndex, s, jActs, jLife, MaxLines)
                  /\ jLoaded = TRUE => Journal = Read(jLines, jIndex, jSeq) /\ l = jLines /\ s = jSeq
  BY FirstUse
<1>2. PICK old, acts, x : old = Journal /\ acts = jActs /\ x = jIndex
  OBVIOUS
<1>3. jLife \in Nat /\ acts \in [JActions -> Stages]
  BY <1>2 DEF JournalInv, Stages
<1>4. PICK moved : moved = [acts EXCEPT ![a] = "settled"]
  OBVIOUS
<1>5. /\ moved \in [JActions -> Stages] /\ moved[a] = "settled" /\ \A b \in JActions : b # a => moved[b] = acts[b]
      /\ acts[a] # "settled" /\ jActs' = moved /\ jLife' = jLife
  BY <1>2, <1>3, <1>4 DEF SettlesAction, Event, Stages
<1>6. JournalLoaded(old) = Read(l, x, s) /\ GoodJournal(l, x, s, acts, jLife, MaxLines)
  BY <1>1, <1>2
<1>7. status \in LineStatuses \ {"BLOCKED"} /\ status \notin GoingOn
  BY DEF LineStatuses, GoingOn
<1>8. PICK j : j = IF a \in DOMAIN x THEN Patched(old, a, status) ELSE Appended(old, "ACTION", status, a)
  OBVIOUS
<1>9. Keep(Log(j, extra))
  BY <1>2, <1>8 DEF SettlesAction
<1>10. \E m, y, k : j = Read(m, y, k) /\ GoodJournal(m, y, k, moved, jLife, MaxLines)
  <2>1. CASE a \in DOMAIN x
    <3>1. old = Read(l, x, s)
      BY <1>1, <1>2, <2>1, IndexedIsRead
    <3>2. PICK m : m = [i \in DOMAIN l |-> IF l[i].seq = x[a] THEN [l[i] EXCEPT !.status = status] ELSE l[i]]
      OBVIOUS
    <3>3. j = Read(m, x, s)
      BY <1>8, <2>1, <3>1, <3>2, PatchedIs
    <3>4. /\ GoodJournal(m, x, s, acts, jLife, MaxLines)
          /\ \A i \in DOMAIN m : Own(m[i], a, jLife) /\ m[i].seq = x[a] => m[i].status = status
      <4>1. status \in GoingOn => acts[a] = "running"
        BY <1>7
      <4> QED
        BY <1>6, <1>7, <2>1, <3>2, <4>1, PatchKeeps
    <3>5. \A i \in DOMAIN m : Own(m[i], a, jLife) => m[i].status \notin GoingOn
      <4>1. \A i \in DOMAIN m : Own(m[i], a, jLife) => m[i].seq = x[a]
        BY <1>5, <3>4 DEF GoodJournal
      <4> QED
        BY <1>7, <3>4, <4>1
    <3>6. acts[a] = "settled" => "settled" = "settled"
      OBVIOUS
    <3>7. GoodJournal(m, x, s, moved, jLife, MaxLines)
      BY <1>5, <3>4, <3>5, <3>6, ActionMoves
    <3> QED
      BY <3>3, <3>7
  <2>2. CASE a \notin DOMAIN x
    <3>1. \A i \in DOMAIN l : ~Own(l[i], a, jLife)
      BY <1>5, <1>6, <2>2 DEF GoodJournal
    <3>2. GoodJournal(l, x, s, moved, jLife, MaxLines)
      <4>1. \A i \in DOMAIN l : Own(l[i], a, jLife) => l[i].status \notin GoingOn
        BY <3>1
      <4>2. acts[a] = "settled" => "settled" = "settled"
        OBVIOUS
      <4> QED
        BY <1>5, <1>6, <4>1, <4>2, ActionMoves
    <3>3. PICK e : e = NewLine("ACTION", status, a, s)
      OBVIOUS
    <3>4. s \in Nat /\ DOMAIN x \subseteq JActions
      BY <1>6 DEF GoodJournal
    <3>5. e \in JLines /\ e.seq = s + 1 /\ e.born = jLife /\ e.kind = "ACTION" /\ e.status = status /\ e.action = a
      BY <1>3, <1>7, <3>3, <3>4 DEF NewLine, JLines
    <3>6. \A b : Own(e, b, jLife) => b = a
      BY <3>5 DEF Own
    <3>7. \A b \in JActions : Own(e, b, jLife) =>
            /\ (b \in DOMAIN x /\ x[b] = s + 1) \/ moved[b] = "settled"
            /\ e.status \in GoingOn => moved[b] = "running"
            /\ \A i \in DOMAIN l : ~Own(l[i], b, jLife)
      BY <1>5, <1>7, <3>1, <3>5, <3>6
    <3>8. GoodJournal(Append(l, e), x, s + 1, moved, jLife, MaxLines + 1)
      BY <1>3, <3>2, <3>4, <3>5, <3>7, LineComes
    <3>9. j = Trimmed(Read(Append(l, e), x, s + 1))
      BY <1>6, <1>8, <2>2, <3>3, AppendedIs
    <3> QED
      BY <1>3, <3>8, <3>9, CapKeeps
  <2> QED
    BY <2>1, <2>2
<1>11. PICK m, y, k : j = Read(m, y, k) /\ GoodJournal(m, y, k, moved, jLife, MaxLines)
  BY <1>10
<1>12. JournalLoaded(j) = Read(m, y, k)
  BY <1>11, ReadIsRead
<1>13. extra \in {0, 1, 2} /\ (extra = 0 => j = Read(m, y, k))
  BY <1>11
<1>14. PICK r, z, q : Log(j, extra) = Read(r, z, q) /\ GoodJournal(r, z, q, moved, jLife, MaxLines)
  BY <1>3, <1>11, <1>12, <1>13, LogKeeps
<1> QED
  BY <1>3, <1>5, <1>9, <1>14, KeepGood

\* clear leaves the number, and nothing else.
LEMMA ClearIsGood ==
    ASSUME JournalInv, JournalClear
    PROVE  JournalInv'
<1>1. PICK l, s : JournalLoaded(Journal) = Read(l, jIndex, s) /\ GoodJournal(l, jIndex, s, jActs, jLife, MaxLines)
  BY FirstUse
<1>2. PICK acts, x : acts = jActs /\ x = jIndex
  OBVIOUS
<1>3. PICK j, none : j = JournalLoaded(Journal) /\ none = <<>>
  OBVIOUS
<1>4. Keep([j EXCEPT !.lines = none, !.index = none]) /\ jLife' = jLife /\ jActs' = acts
  BY <1>2, <1>3 DEF JournalClear, Event
<1>5. [j EXCEPT !.lines = none, !.index = none] = Read(none, none, s)
  <2>1. PICK yes : \A h, z, n : Read(h, z, n) = [lines |-> h, index |-> z, seq |-> n, loaded |-> yes]
    BY ReadFields
  <2>2. j = [lines |-> l, index |-> x, seq |-> s, loaded |-> yes]
    BY <1>1, <1>2, <1>3, <2>1
  <2>3. PICK h : h = [lines |-> none, index |-> x, seq |-> s, loaded |-> yes]
    OBVIOUS
  <2>4. [j EXCEPT !.lines = none] = h
    BY ONLY <2>2, <2>3
  <2>5. [h EXCEPT !.index = none] = [lines |-> none, index |-> none, seq |-> s, loaded |-> yes]
    BY ONLY <2>3
  <2>6. [j EXCEPT !.lines = none, !.index = none] = [[j EXCEPT !.lines = none] EXCEPT !.index = none]
    OBVIOUS
  <2> QED
    BY <2>1, <2>4, <2>5, <2>6
<1>6. GoodJournal(none, none, s, acts, jLife, MaxLines)
  <2>1. none \in Seq(JLines) /\ Len(none) = 0 /\ DOMAIN none = {}
    BY <1>3
  <2>2. s \in Nat
    BY <1>1 DEF GoodJournal
  <2> QED
    BY <2>1, <2>2, MaxLinesAssumption DEF GoodJournal, InOrder
<1>7. acts \in [JActions -> Stages] /\ jLife \in Nat
  BY <1>2 DEF JournalInv, Stages
<1> QED
  BY <1>4, <1>5, <1>6, <1>7, KeepGood

\* A new process has nothing but the file, whose lines are of those before it.
LEMMA RestartIsGood ==
    ASSUME JournalInv, JournalRestart
    PROVE  JournalInv'
<1>1. /\ jLines' = <<>> /\ jIndex' = <<>> /\ jSeq' = 0 /\ jLoaded' = FALSE /\ jLife' = jLife + 1 /\ jLife \in Nat
      /\ jActs' = [a \in JActions |-> "new"] /\ jFile' \in {jFile, TornFile}
  BY DEF JournalRestart, JournalInv
<1>2. jLife' \in Nat /\ jActs' \in [JActions -> {"new", "gate", "running", "settled"}]
  BY <1>1
<1>3. GoodJournal(jLines', jIndex', jSeq', jActs', jLife', MaxLines)
  <2>1. jLines' \in Seq(JLines) /\ Len(jLines') = 0 /\ DOMAIN jLines' = {} /\ DOMAIN jIndex' = {}
    BY <1>1
  <2> QED
    BY <1>1, <2>1, MaxLinesAssumption DEF GoodJournal, InOrder
<1>4. PICK l : l = jFile'.lines
  OBVIOUS
<1>5. InOrder(l, jLife', MaxLines) /\ \A i \in DOMAIN l : l[i].born < jLife'
  <2>1. CASE jFile' = jFile
    <3>1. InOrder(l, jLife, MaxLines)
      BY <1>4, <2>1 DEF JournalInv
    <3>2. \A i \in DOMAIN l : l[i].born <= jLife /\ l[i] \in JLines
      <4>1. l \in Seq(JLines) /\ DOMAIN l = 1 .. Len(l)
        BY <3>1, LenProperties DEF InOrder
      <4>2. \A i \in DOMAIN l : l[i] \in JLines
        BY <4>1, ElementOfSeq
      <4> QED
        BY <3>1, <4>2 DEF InOrder
    <3>3. \A i \in DOMAIN l : l[i].born \in Nat
      BY <3>2 DEF JLines
    <3>4. \A i \in DOMAIN l : l[i].born < jLife' /\ l[i].born <= jLife'
      BY <1>1, <3>2, <3>3
    <3> QED
      BY <3>1, <3>4 DEF InOrder
  <2>2. CASE jFile' = TornFile
    <3>1. l = <<>>
      BY <1>4, <2>2 DEF TornFile
    <3>2. l \in Seq(JLines) /\ Len(l) = 0 /\ DOMAIN l = {}
      BY <3>1
    <3> QED
      BY <3>2, MaxLinesAssumption DEF InOrder
  <2> QED
    BY <1>1, <2>1, <2>2
<1>6. JournalDurable'
  BY <1>1 DEF JournalDurable
<1> QED
  BY <1>1, <1>2, <1>3, <1>4, <1>5, <1>6 DEF JournalInv

\* Reading it takes up the file.
LEMMA ReadingIsGood ==
    ASSUME JournalInv, JournalRead
    PROVE  JournalInv'
<1>1. jLoaded = FALSE
  BY DEF JournalRead, JournalInv
<1>2. PICK l, s : /\ JournalLoaded(Journal) = Read(l, jIndex, s) /\ GoodJournal(l, jIndex, s, jActs, jLife, MaxLines)
                  /\ l = jFile.lines
  BY <1>1, FirstUse
<1>3. jLines' = l /\ jSeq' = s /\ jLoaded' = TRUE
  BY <1>2 DEF JournalRead, Read
<1>4. UNCHANGED <<jIndex, jFile, jSaved, jActs, jLife>>
  BY DEF JournalRead
<1>5. GoodJournal(jLines', jIndex', jSeq', jActs', jLife', MaxLines)
  BY <1>2, <1>3, <1>4
<1>6. JournalDurable'
  BY <1>2, <1>3, <1>4 DEF JournalDurable
<1>7. InOrder(jFile'.lines, jLife', MaxLines)
  BY <1>4 DEF JournalInv
<1>8. jLife' \in Nat /\ jActs' \in [JActions -> {"new", "gate", "running", "settled"}]
  BY <1>4 DEF JournalInv
<1> QED
  BY <1>3, <1>5, <1>6, <1>7, <1>8 DEF JournalInv

\* What is known of the journal says that it is exact.
LEMMA JournalGivesExact == JournalInv => JournalIsExact
<1> SUFFICES ASSUME JournalInv PROVE JournalIsExact
  OBVIOUS
<1>1. /\ GoodJournal(jLines, jIndex, jSeq, jActs, jLife, MaxLines) /\ InOrder(jLines, jLife, MaxLines)
      /\ jLines \in Seq(JLines) /\ DOMAIN jLines = 1 .. Len(jLines) /\ Len(jLines) \in Nat
  BY LenProperties DEF JournalInv, GoodJournal, InOrder
<1>2. JournalOrdered
  <2>1. ASSUME NEW i \in 1 .. (Len(jLines) - 1) PROVE jLines[i].seq < jLines[i + 1].seq
    <3>1. i \in DOMAIN jLines /\ i + 1 \in DOMAIN jLines /\ i < i + 1
      BY <1>1
    <3> QED
      BY <1>1, <3>1 DEF InOrder
  <2> QED
    BY <1>1, <2>1 DEF JournalOrdered, InOrder
<1>3. IndexExact
  BY <1>1 DEF GoodJournal, Own, IndexExact
<1>4. OneLinePerAction
  <2> SUFFICES ASSUME NEW a \in JActions
               PROVE  /\ Cardinality(OwnLines(a)) <= 1
                      /\ \A i \in OwnLines(a) : jLines[i].status \in {"RUNNING", "RECOVERED"} => jActs[a] = "running"
    BY DEF OneLinePerAction
  <2>1. \A i : i \in OwnLines(a) <=> i \in DOMAIN jLines /\ Own(jLines[i], a, jLife)
    BY DEF OwnLines, Own
  <2>2. \A i, k \in OwnLines(a) : i = k
    BY <1>1, <2>1 DEF GoodJournal
  <2>3. Cardinality(OwnLines(a)) <= 1
    <3>1. CASE OwnLines(a) = {}
      BY <3>1, FS_EmptySet
    <3>2. ASSUME NEW i \in OwnLines(a) PROVE Cardinality(OwnLines(a)) <= 1
      <4>1. OwnLines(a) = {i}
        BY <2>2, <3>2
      <4> QED
        BY <4>1, FS_Singleton
    <3> QED
      BY <3>1, <3>2
  <2>4. \A i \in OwnLines(a) : jLines[i].status \in {"RUNNING", "RECOVERED"} => jActs[a] = "running"
    BY <1>1, <2>1 DEF GoodJournal, GoingOn
  <2> QED
    BY <2>3, <2>4
<1>5. JournalDurable
  BY DEF JournalInv
<1> QED
  BY <1>2, <1>3, <1>4, <1>5 DEF JournalIsExact

\* However the agent's events come, and wherever the process dies, the journal
\* stays in order, its index names lines that are there, an action of this life
\* has one line that goes on only while the action runs, and the file is what
\* readers see unless the last save failed (mission-journal.ts).
THEOREM JournalAlwaysExact == JournalSpec => []JournalIsExact
<1>1. JournalInit => JournalInv
  <2> SUFFICES ASSUME JournalInit PROVE JournalInv
    OBVIOUS
  <2>1. /\ jLines = <<>> /\ jIndex = <<>> /\ jSeq = 0 /\ jLoaded = FALSE /\ jFile.lines = <<>> /\ jLife = 1
        /\ jActs = [a \in JActions |-> "new"]
    BY DEF JournalInit
  <2>2. /\ jLines \in Seq(JLines) /\ Len(jLines) = 0 /\ DOMAIN jLines = {} /\ DOMAIN jIndex = {}
        /\ jFile.lines = jLines /\ jActs \in [JActions -> {"new", "gate", "running", "settled"}]
    BY <2>1
  <2>3. GoodJournal(jLines, jIndex, jSeq, jActs, jLife, MaxLines)
    BY <2>1, <2>2, MaxLinesAssumption DEF GoodJournal, InOrder
  <2>4. InOrder(jFile.lines, jLife, MaxLines)
    BY <2>2, <2>3 DEF GoodJournal
  <2>5. JournalDurable
    BY <2>1 DEF JournalDurable
  <2> QED
    BY <2>1, <2>2, <2>3, <2>4, <2>5 DEF JournalInv
<1>2. JournalInv /\ [JournalNext]_journalVars => JournalInv'
  <2> SUFFICES ASSUME JournalInv, [JournalNext]_journalVars PROVE JournalInv'
    OBVIOUS
  <2>1. ASSUME NEW a \in JActions, TaskProgress(a) \/ Recovering(a) PROVE JournalInv'
    <3>1. 1 \in {1, 2} /\ Keep(Log(Journal, 1)) /\ jLife' = jLife /\ jActs' = jActs
      BY <2>1 DEF TaskProgress, Recovering, Event
    <3> QED
      BY <3>1, LogsAreGood
  <2>2. ASSUME NEW m, NEW status, MissionProgress(m, status) PROVE JournalInv'
    <3>1. 1 \in {1, 2} /\ Keep(Log(Journal, 1)) /\ jLife' = jLife /\ jActs' = jActs
      BY <2>2 DEF MissionProgress, Event
    <3> QED
      BY <3>1, LogsAreGood
  <2>3. CASE CommandSeen \/ EventSeen
    <3>1. \E n \in {1, 2} : Keep(Log(Journal, n)) /\ jLife' = jLife /\ jActs' = jActs
      BY <2>3 DEF CommandSeen, EventSeen, Event
    <3> QED
      BY <3>1, LogsAreGood
  <2>4. CASE UNCHANGED journalVars
    BY <2>4 DEF journalVars, JournalInv, JournalDurable
  <2>5. ASSUME NEW a \in JActions, ConfirmationRequired(a) \/ Executing(a) \/ Retrying(a) PROVE JournalInv'
    BY <2>5, GateIsGood, ExecutingIsGood, RetryingIsGood
  <2>6. ASSUME NEW a \in JActions, NEW s \in {"COMPLETED", "FAILED", "SKIPPED"}, NEW extra \in {0, 2},
               SettlesAction(a, s, extra)
        PROVE  JournalInv'
    BY <2>6, SettlingIsGood
  <2>7. CASE JournalClear \/ JournalRestart \/ JournalRead
    BY <2>7, ClearIsGood, RestartIsGood, ReadingIsGood
  <2> QED
    BY <2>1, <2>2, <2>3, <2>4, <2>5, <2>6, <2>7 DEF JournalNext
<1> QED
  BY <1>1, <1>2, JournalGivesExact, PTL DEF JournalSpec
=============================================================================
