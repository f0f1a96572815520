-------------------------- MODULE SchedulerProofs --------------------------
(* What is proved of the scheduler for every value of the constants: whose
   run ends (AttributionExact), that the queue tells the truth (QueueIsReal),
   that the progress of a mission stays (ProgressStays) and that evidence is
   of the step that was run (EvidenceIsOwn).

   One invariant carries all four, SchedulerInv below.  Its core is about the
   two stores together (StoreGood): the ids are unique, no two live tasks are
   of one step, and a live task of a mission that is there has its step
   running.  Bound says the same of the task whose run goes on: it may be
   live no more when its run ends, as a task that was cancelled is, and its
   step must still be its own.

   The operations change the stores in four ways, each with a lemma on what
   it keeps: tasks go or end (Thins), a task is added (Fits), missions go or
   go on (Kept), a mission is added.  pump's loop is a fold, a recursion over
   a set of numbers: that the function it recurs with exists is proved first
   (FoldExists), by induction over the naturals without the library's theorem,
   which takes an operator. *)
EXTENDS Scheduler, WellFoundedInduction, FiniteSetTheorems, SequenceTheorems, TLAPS

-----------------------------------------------------------------------------
(* Numbers and folds. *)

\* A set of naturals that is not empty has a least member.
LEMMA LeastNumber ==
    ASSUME NEW S \in SUBSET Nat, S # {}
    PROVE  \E n \in S : \A m \in S : n <= m
<1> DEFINE R == OpToRel(<, Nat)
<1>1. IsWellFoundedOn(R, Nat)
  BY NatLessThanWellFounded
<1>2. \A m, n \in Nat : m < n => <<m, n>> \in R
  BY DEF OpToRel
<1> HIDE DEF R
<1>3. PICK n \in S : \A m \in S : <<m, n>> \notin R
  BY <1>1, WFMin
<1>4. \A m \in S : ~(m < n)
  BY <1>2, <1>3
<1>5. \A m \in S : n <= m
  BY <1>4
<1> QED
  BY <1>5

\* A set of numbers that has 0 and with each number the next has them all.
LEMMA AllNumbers ==
    ASSUME NEW S, 0 \in S, \A n \in Nat : n \in S => n + 1 \in S
    PROVE  \A n \in Nat : n \in S
<1> SUFFICES ASSUME NEW k \in Nat, k \notin S PROVE FALSE
  OBVIOUS
<1> DEFINE T == {n \in Nat : n \notin S}
<1>1. T \in SUBSET Nat /\ k \in T /\ T # {}
  OBVIOUS
<1> HIDE DEF T
<1>2. PICK n \in T : \A m \in T : n <= m
  BY <1>1, LeastNumber
<1> USE DEF T
<1>3. n \in Nat /\ n \notin S /\ n # 0
  BY <1>2
<1>4. n - 1 \in Nat /\ (n - 1) + 1 = n /\ ~(n <= n - 1)
  BY <1>3
<1>5. n - 1 \in S
  BY <1>2, <1>4
<1> QED
  BY <1>3, <1>4, <1>5

\* The largest number of a part of 1..n.
LEMMA MaxIsLargest ==
    ASSUME NEW n \in Nat, NEW s \in SUBSET (1..n), s # {}
    PROVE  Max(s) \in s /\ \A k \in s : k <= Max(s)
<1> DEFINE T == {n - k : k \in s}
<1>1. \A k \in s : n - k \in T /\ n - k \in Nat
  OBVIOUS
<1>2. T \in SUBSET Nat /\ T # {}
  BY <1>1
<1> HIDE DEF T
<1>3. PICK m \in T : \A j \in T : m <= j
  BY <1>2, LeastNumber
<1>4. PICK k \in s : m = n - k
  BY DEF T
<1>5. \A j \in s : k >= j
  <2> SUFFICES ASSUME NEW j \in s PROVE k >= j
    OBVIOUS
  <2>1. n - k <= n - j
    BY <1>1, <1>3, <1>4
  <2> QED
    BY <2>1
<1> QED
  BY <1>4, <1>5 DEF Max

\* The largest of the first numbers is the last of them.
LEMMA MaxOfTop ==
    ASSUME NEW n \in Nat, NEW s \in SUBSET (1..(n + 1)), n + 1 \in s
    PROVE  Max(s) = n + 1
<1>1. n + 1 \in Nat /\ s # {}
  OBVIOUS
<1> DEFINE m == Max(s)
<1>2. m \in s /\ \A k \in s : k <= m
  BY <1>1, MaxIsLargest
<1> HIDE DEF m
<1>3. m = n + 1
  BY <1>2
<1> QED
  BY <1>3 DEF m

\* A recursion over the parts of 1..n whose steps keep to V, and its solution.
KeepsTo(V, n, H) == H \in [V \X (1..n) -> V]
Solution(V, n, b, H, g) ==
    /\ g \in [SUBSET (1..n) -> V]
    /\ \A s \in SUBSET (1..n) :
         g[s] = IF s = {} THEN b ELSE H[<<g[s \ {Max(s)}], Max(s)>>]

\* The function that a fold defines by recursion on a set exists.
LEMMA FoldExists ==
    ASSUME NEW V, NEW n \in Nat, NEW b \in V, NEW H, KeepsTo(V, n, H)
    PROVE  \E g : Solution(V, n, b, H, g)
<1> USE DEF KeepsTo
<1> DEFINE Solves(g, k) ==
             /\ g \in [SUBSET (1..k) -> V]
             /\ \A s \in SUBSET (1..k) :
                  g[s] = IF s = {} THEN b ELSE H[<<g[s \ {Max(s)}], Max(s)>>]
           Solved(k) == \E g : Solves(g, k)
           S == {k \in Nat : k <= n => Solved(k)}
<1>1. 0 \in S
  <2> DEFINE g == [s \in SUBSET (1..0) |-> b]
  <2>1. 1..0 = {}
    OBVIOUS
  <2>2. SUBSET (1..0) = {{}}
    BY <2>1
  <2>3. Solves(g, 0)
    BY <2>2
  <2> QED
    BY <2>3
<1>2. ASSUME NEW k \in Nat, k \in S PROVE k + 1 \in S
  <2> HIDE DEF Solved
  <2> SUFFICES ASSUME k + 1 <= n PROVE Solved(k + 1)
    OBVIOUS
  <2>0. Solved(k)
    BY <1>2
  <2> HIDE DEF Solves
  <2>1. PICK g : Solves(g, k)
    BY <2>0 DEF Solved
  <2> USE DEF Solves
  <2> DEFINE h == [s \in SUBSET (1..(k + 1)) |->
                     IF k + 1 \notin s THEN g[s] ELSE H[<<g[s \ {k + 1}], k + 1>>]]
  <2>2. ASSUME NEW s \in SUBSET (1..(k + 1))
        PROVE  /\ k + 1 \notin s => s \in SUBSET (1..k)
               /\ s \ {k + 1} \in SUBSET (1..k)
    OBVIOUS
  <2>3. h \in [SUBSET (1..(k + 1)) -> V]
    <3>1. ASSUME NEW s \in SUBSET (1..(k + 1)) PROVE h[s] \in V
      <4>1. CASE k + 1 \notin s
        BY <2>1, <2>2, <4>1
      <4>2. CASE k + 1 \in s
        <5>1. g[s \ {k + 1}] \in V /\ k + 1 \in 1..n
          BY <2>1, <2>2
        <5> QED
          BY <4>2, <5>1
      <4> QED
        BY <4>1, <4>2
    <3> QED
      BY <3>1
  <2>4. ASSUME NEW s \in SUBSET (1..(k + 1))
        PROVE  h[s] = IF s = {} THEN b ELSE H[<<h[s \ {Max(s)}], Max(s)>>]
    <3>1. CASE k + 1 \notin s
      <4>1. s \in SUBSET (1..k) /\ h[s] = g[s]
        BY <2>2, <3>1
      <4>2. s # {} => s \ {Max(s)} \in SUBSET (1..(k + 1)) /\ k + 1 \notin s \ {Max(s)}
        BY <3>1
      <4>3. s # {} => h[s \ {Max(s)}] = g[s \ {Max(s)}]
        BY <4>2
      <4> QED
        BY <2>1, <4>1, <4>3
    <3>2. CASE k + 1 \in s
      <4>1. Max(s) = k + 1
        BY <3>2, MaxOfTop
      <4>2. h[s \ {k + 1}] = g[s \ {k + 1}]
        BY <2>2
      <4> QED
        BY <3>2, <4>1, <4>2
    <3> QED
      BY <3>1, <3>2
  <2> HIDE DEF h
  <2>5. Solves(h, k + 1)
    BY <2>3, <2>4
  <2> HIDE DEF Solves
  <2> QED
    BY <2>5 DEF Solved
<1> HIDE DEF S, Solved
<1>3. n \in S
  BY <1>1, <1>2, AllNumbers
<1>4. Solved(n)
  BY <1>3 DEF S
<1> HIDE DEF Solves
<1>5. PICK g : Solves(g, n)
  BY <1>4 DEF Solved
<1> USE DEF Solves
<1> QED
  BY <1>5 DEF Solution

\* The first numbers without the largest are those before it.
LEMMA WholeWithoutMax ==
    ASSUME NEW k \in Nat \ {0}
    PROVE  1..k # {} /\ Max(1..k) = k /\ (1..k) \ {k} = 1..(k - 1)
<1>1. k - 1 \in Nat /\ (k - 1) + 1 = k /\ k \in 1..k
  OBVIOUS
<1>2. Max(1..k) = k
  BY <1>1, MaxOfTop
<1> QED
  BY <1>1, <1>2


StepLists == UNION {[1 .. n -> StepTypes] : n \in 1 .. MaxSteps}

MissionRecords ==
    [id : Nat, priority : 1 .. 5, status : MissionStatuses, steps : StepLists]

TaskRecords ==
    [id : Nat, priority : 1 .. 5, status : QueueStatuses,
     mission : {None} \cup Nat, step : 0 .. MaxSteps]

Live(t) == t.status \in LiveStatuses

\* Tasks with ids of their own, each of no mission or of a step of one.
TasksGood(q, n, mn) ==
    /\ q \in Seq(TaskRecords)
    /\ \A i \in DOMAIN q :
          /\ q[i].id \in 1 .. n - 1
          /\ q[i].mission = None => q[i].step = 0
          /\ q[i].mission # None => q[i].mission \in 1 .. mn - 1 /\ q[i].step # 0
    /\ \A i, j \in DOMAIN q : q[i].id = q[j].id => i = j

\* A mission that has not ended has a step left; a completed one has none but completed.
MissionGood(m) ==
    /\ m \in MissionRecords
    /\ m.status \notin MissionTerminal => StepsIn(m, "pending") \cup StepsIn(m, "running") # {}
    /\ m.status = "completed" => StepsIn(m, "completed") = DOMAIN m.steps

MissionsGood(ms, mn) ==
    /\ ms \in Seq(MissionRecords)
    /\ \A k \in DOMAIN ms : MissionGood(ms[k]) /\ ms[k].id \in 1 .. mn - 1
    /\ \A k, l \in DOMAIN ms : ms[k].id = ms[l].id => k = l

OneStep(t, u) == t.mission # None /\ t.mission = u.mission /\ t.step = u.step

Single(q) == \A i, j \in DOMAIN q : Live(q[i]) /\ Live(q[j]) /\ OneStep(q[i], q[j]) => i = j

Runs(m, k) == k \in DOMAIN m.steps /\ m.steps[k].status = "running"

Wanted(q, ms) ==
    \A i \in DOMAIN q, k \in DOMAIN ms :
        Live(q[i]) /\ q[i].mission = ms[k].id => Runs(ms[k], q[i].step)

StoreGood(q, ms, n, mn) ==
    TasksGood(q, n, mn) /\ MissionsGood(ms, mn) /\ Single(q) /\ Wanted(q, ms)

Bound(q, ms, id, step) ==
    \A i \in DOMAIN q : q[i].id = id =>
        /\ step = StepOf(q[i])
        /\ \A k \in DOMAIN ms : q[i].mission = ms[k].id => Runs(ms[k], q[i].step)
        /\ \A j \in DOMAIN q : Live(q[j]) /\ OneStep(q[i], q[j]) => i = j

OnlyRuns(q, id) == \A i \in DOMAIN q : q[i].status = "running" => q[i].id = id


\* What is left of a list when one member goes.
LEMMA RemoveAtFacts ==
    ASSUME NEW T, NEW q \in Seq(T), NEW p \in DOMAIN q
    PROVE  LET r == RemoveAt(q, p) IN
           /\ r \in Seq(T) /\ Len(r) = Len(q) - 1
           /\ \A j \in DOMAIN r : LET i == IF j < p THEN j ELSE j + 1 IN i \in DOMAIN q /\ r[j] = q[i]
<1> DEFINE a == SubSeq(q, 1, p - 1)
           c == SubSeq(q, p + 1, Len(q))
<1>1. Len(q) \in Nat /\ p \in 1..Len(q) /\ DOMAIN q = 1..Len(q)
  OBVIOUS
<1>2. a \in Seq(T) /\ Len(a) = p - 1 /\ \A j \in 1..(p - 1) : a[j] = q[j]
  BY <1>1
<1>3. c \in Seq(T) /\ Len(c) = Len(q) - p /\ \A j \in 1..(Len(q) - p) : c[j] = q[p + j]
  BY <1>1
<1> HIDE DEF a, c
<1>4. RemoveAt(q, p) = a \o c
  BY DEF RemoveAt, a, c
<1>5. /\ a \o c \in Seq(T) /\ Len(a \o c) = Len(q) - 1
      /\ \A j \in 1..(Len(q) - 1) : (a \o c)[j] = IF j <= p - 1 THEN a[j] ELSE c[j - (p - 1)]
  <2>1. Len(a) + Len(c) = Len(q) - 1
    BY <1>1, <1>2, <1>3
  <2>2. /\ a \o c \in Seq(T) /\ Len(a \o c) = Len(a) + Len(c)
        /\ \A j \in 1..(Len(a) + Len(c)) : (a \o c)[j] = IF j <= Len(a) THEN a[j] ELSE c[j - Len(a)]
    BY <1>2, <1>3, ConcatProperties
  <2> QED
    BY <1>2, <2>1, <2>2
<1>6. ASSUME NEW j \in DOMAIN (a \o c)
      PROVE  LET i == IF j < p THEN j ELSE j + 1 IN i \in DOMAIN q /\ (a \o c)[j] = q[i]
  <2>1. j \in 1..(Len(q) - 1)
    BY <1>1, <1>5
  <2>2. CASE j < p
    BY <1>1, <1>2, <1>5, <2>1, <2>2
  <2>3. CASE ~(j < p)
    <3>1. j - (p - 1) \in 1..(Len(q) - p) /\ p + (j - (p - 1)) = j + 1 /\ ~(j <= p - 1)
      BY <1>1, <2>1, <2>3
    <3>2. j + 1 \in DOMAIN q
      BY <1>1, <2>1
    <3>3. (a \o c)[j] = c[j - (p - 1)]
      BY <1>5, <2>1, <3>1
    <3> QED
      BY <1>3, <2>3, <3>1, <3>2, <3>3
  <2> QED
    BY <2>2, <2>3
<1>7. PICK r : r = a \o c
  OBVIOUS
<1>8. /\ r \in Seq(T) /\ Len(r) = Len(q) - 1
      /\ \A j \in DOMAIN r : LET i == IF j < p THEN j ELSE j + 1 IN i \in DOMAIN q /\ r[j] = q[i]
  BY <1>5, <1>6, <1>7
<1> QED
  BY <1>4, <1>7, <1>8

-----------------------------------------------------------------------------
(* What the operations do to the two lists. *)

\* A task that is of the same step as another, and live only if that is.
SameTask(t, u) ==
    t.id = u.id /\ t.mission = u.mission /\ t.step = u.step /\ (Live(t) => Live(u))

\* A list that has no task the other does not have.
Thins(e, q) ==
    /\ e \in Seq(TaskRecords)
    /\ \A i, j \in DOMAIN e : e[i].id = e[j].id => i = j
    /\ \A j \in DOMAIN e : \E i \in DOMAIN q : SameTask(e[j], q[i])

\* A list without tasks of its own keeps the stores good, and what is bound.
LEMMA ThinKeeps ==
    ASSUME NEW q, NEW ms, NEW n, NEW mn, StoreGood(q, ms, n, mn), NEW e, Thins(e, q)
    PROVE  /\ StoreGood(e, ms, n, mn)
           /\ \A id, step : Bound(q, ms, id, step) => Bound(e, ms, id, step)
<1>1. PICK f \in [DOMAIN e -> DOMAIN q] : \A j \in DOMAIN e : SameTask(e[j], q[f[j]])
  <2> DEFINE g == [j \in DOMAIN e |-> CHOOSE i \in DOMAIN q : SameTask(e[j], q[i])]
  <2>1. \A j \in DOMAIN e : g[j] \in DOMAIN q /\ SameTask(e[j], q[g[j]])
    BY DEF Thins
  <2> QED
    BY <2>1
<1>2. \A i, j \in DOMAIN e : f[i] = f[j] => i = j
  BY <1>1 DEF Thins, SameTask
<1>3. TasksGood(e, n, mn)
  <2>1. ASSUME NEW j \in DOMAIN e
        PROVE  /\ e[j].id \in 1 .. n - 1
               /\ e[j].mission = None => e[j].step = 0
               /\ e[j].mission # None => e[j].mission \in 1 .. mn - 1 /\ e[j].step # 0
    <3>1. PICK i \in DOMAIN q : SameTask(e[j], q[i])
      BY DEF Thins
    <3>2. /\ q[i].id \in 1 .. n - 1
          /\ q[i].mission = None => q[i].step = 0
          /\ q[i].mission # None => q[i].mission \in 1 .. mn - 1 /\ q[i].step # 0
      BY DEF StoreGood, TasksGood
    <3> QED
      BY <3>1, <3>2 DEF SameTask
  <2> QED
    BY <2>1 DEF Thins, TasksGood
<1>4. Single(e)
  <2> SUFFICES ASSUME NEW i \in DOMAIN e, NEW j \in DOMAIN e, Live(e[i]), Live(e[j]), OneStep(e[i], e[j])
               PROVE  i = j
    BY DEF Single
  <2>1. Live(q[f[i]]) /\ Live(q[f[j]]) /\ OneStep(q[f[i]], q[f[j]])
    BY <1>1 DEF SameTask, OneStep
  <2>2. f[i] = f[j]
    BY <1>1, <2>1 DEF StoreGood, Single
  <2> QED
    BY <1>2, <2>2
<1>5. Wanted(e, ms)
  BY <1>1 DEF StoreGood, Wanted, SameTask
<1>6. ASSUME NEW id, NEW step, Bound(q, ms, id, step) PROVE Bound(e, ms, id, step)
  <2> SUFFICES ASSUME NEW i \in DOMAIN e, e[i].id = id
               PROVE  /\ step = StepOf(e[i])
                      /\ \A k \in DOMAIN ms : e[i].mission = ms[k].id => Runs(ms[k], e[i].step)
                      /\ \A j \in DOMAIN e : Live(e[j]) /\ OneStep(e[i], e[j]) => i = j
    BY DEF Bound
  <2>1. f[i] \in DOMAIN q /\ q[f[i]].id = id /\ SameTask(e[i], q[f[i]])
    BY <1>1 DEF SameTask
  <2>2. /\ step = StepOf(q[f[i]])
        /\ \A k \in DOMAIN ms : q[f[i]].mission = ms[k].id => Runs(ms[k], q[f[i]].step)
        /\ \A j \in DOMAIN q : Live(q[j]) /\ OneStep(q[f[i]], q[j]) => f[i] = j
    BY <1>6, <2>1 DEF Bound
  <2>3. ASSUME NEW j \in DOMAIN e, Live(e[j]), OneStep(e[i], e[j]) PROVE i = j
    <3>1. f[j] \in DOMAIN q /\ Live(q[f[j]]) /\ OneStep(q[f[i]], q[f[j]])
      BY <1>1, <2>1, <2>3 DEF SameTask, OneStep
    <3>2. f[i] = f[j]
      BY <2>2, <3>1
    <3> QED
      BY <1>2, <3>2
  <2> QED
    BY <2>1, <2>2, <2>3 DEF SameTask, StepOf
<1> QED
  BY <1>3, <1>4, <1>5, <1>6 DEF StoreGood

\* A list whose tasks are changed, each in its place.
LEMMA MapThins ==
    ASSUME NEW q, NEW n, NEW mn, TasksGood(q, n, mn), NEW e, e = [i \in DOMAIN q |-> e[i]],
           \A i \in DOMAIN q : e[i] \in TaskRecords /\ SameTask(e[i], q[i])
    PROVE  Thins(e, q) /\ DOMAIN e = DOMAIN q
<1>1. Len(q) \in Nat /\ DOMAIN q = 1..Len(q)
  BY DEF TasksGood
<1>2. e \in [1..Len(q) -> TaskRecords] /\ DOMAIN e = DOMAIN q
  BY <1>1
<1>3. e \in Seq(TaskRecords)
  BY <1>1, <1>2
<1> QED
  BY <1>2, <1>3 DEF Thins, SameTask, TasksGood

\* A task moves to another status, to a live one only from a live one.
LEMMA MoveThins ==
    ASSUME NEW q, NEW n, NEW mn, TasksGood(q, n, mn), NEW id, NEW from, NEW to \in QueueStatuses,
           to \in LiveStatuses => \A i \in DOMAIN q : q[i].id = id => Live(q[i])
    PROVE  /\ Thins(Move(q, id, from, to), q)
           /\ \A r : OnlyRuns(q, r) /\ (to = "running" => r = id) => OnlyRuns(Move(q, id, from, to), r)
<1> DEFINE e == Move(q, id, from, to)
<1>1. ASSUME NEW i \in DOMAIN q
      PROVE  /\ e[i] \in TaskRecords /\ SameTask(e[i], q[i])
             /\ e[i].status = q[i].status \/ (q[i].id = id /\ e[i].status = to)
  <2>1. q[i] \in TaskRecords
    BY DEF TasksGood
  <2>2. CASE q[i].id = id /\ q[i].status \in from
    <3>1. e[i] = [q[i] EXCEPT !.status = to]
      BY <2>2 DEF Move
    <3>2. /\ e[i] \in TaskRecords /\ e[i].id = q[i].id /\ e[i].mission = q[i].mission
          /\ e[i].step = q[i].step /\ e[i].status = to
      BY <2>1, <3>1 DEF TaskRecords
    <3> QED
      BY <2>2, <3>2 DEF SameTask, Live
  <2>3. CASE ~(q[i].id = id /\ q[i].status \in from)
    BY <2>1, <2>3 DEF Move, SameTask
  <2> QED
    BY <2>2, <2>3
<1>2. e = [i \in DOMAIN q |-> e[i]]
  BY DEF Move
<1> HIDE DEF e
<1>3. Thins(e, q) /\ DOMAIN e = DOMAIN q
  BY <1>1, <1>2, MapThins
<1>4. ASSUME NEW r, OnlyRuns(q, r), to = "running" => r = id PROVE OnlyRuns(e, r)
  BY <1>1, <1>3, <1>4 DEF OnlyRuns, SameTask
<1> QED
  BY <1>3, <1>4 DEF e

\* A task is taken out of the list.
LEMMA RemoveAtThins ==
    ASSUME NEW q, NEW n, NEW mn, TasksGood(q, n, mn), NEW p \in DOMAIN q
    PROVE  Thins(RemoveAt(q, p), q) /\ \A r : OnlyRuns(q, r) => OnlyRuns(RemoveAt(q, p), r)
<1>1. PICK e : e = RemoveAt(q, p)
  OBVIOUS
<1>2. /\ e \in Seq(TaskRecords) /\ Len(e) = Len(q) - 1
      /\ \A j \in DOMAIN e : LET i == IF j < p THEN j ELSE j + 1 IN i \in DOMAIN q /\ e[j] = q[i]
  BY <1>1, RemoveAtFacts DEF TasksGood
<1>3. \A j \in DOMAIN e : j \in Nat
  BY <1>2
<1>4. p \in Nat
  BY DEF TasksGood
<1>5. ASSUME NEW i \in DOMAIN e, NEW j \in DOMAIN e, e[i].id = e[j].id PROVE i = j
  <2>1. PICK a \in DOMAIN q : a = (IF i < p THEN i ELSE i + 1) /\ e[i] = q[a]
    BY <1>2
  <2>2. PICK b \in DOMAIN q : b = (IF j < p THEN j ELSE j + 1) /\ e[j] = q[b]
    BY <1>2
  <2>3. a = b
    BY <1>5, <2>1, <2>2 DEF TasksGood
  <2> QED
    BY <1>3, <1>4, <2>1, <2>2, <2>3
<1>6. \A j \in DOMAIN e : \E i \in DOMAIN q : e[j] = q[i]
  BY <1>2
<1>7. Thins(e, q)
  BY <1>2, <1>5, <1>6 DEF Thins, SameTask
<1>8. \A r : OnlyRuns(q, r) => OnlyRuns(e, r)
  BY <1>6 DEF OnlyRuns
<1> QED
  BY <1>1, <1>7, <1>8

\* The place of a task is that of its id.
LEMMA TaskIsAt ==
    ASSUME NEW q, NEW n, NEW mn, TasksGood(q, n, mn), NEW i \in DOMAIN q
    PROVE  HasTask(q, q[i].id) /\ PlaceOf(q, q[i].id) = i /\ TaskOf(q, q[i].id) = q[i]
<1>1. PlaceOf(q, q[i].id) \in DOMAIN q /\ q[PlaceOf(q, q[i].id)].id = q[i].id
  BY DEF PlaceOf
<1>2. PlaceOf(q, q[i].id) = i
  BY <1>1 DEF TasksGood
<1> QED
  BY <1>2 DEF HasTask, TaskOf

\* A task is removed by its id.
LEMMA RemoveTaskThins ==
    ASSUME NEW q, NEW n, NEW mn, TasksGood(q, n, mn), NEW id, HasTask(q, id)
    PROVE  Thins(RemoveTask(q, id), q) /\ \A r : OnlyRuns(q, r) => OnlyRuns(RemoveTask(q, id), r)
<1>1. PICK i \in DOMAIN q : q[i].id = id
  BY DEF HasTask
<1>2. RemoveTask(q, id) = RemoveAt(q, i)
  BY <1>1, TaskIsAt DEF RemoveTask
<1> QED
  BY <1>2, RemoveAtThins

\* A new task that is no mission's, or of a step that waits for it.
Fits(q, ms, mn, t) ==
    /\ t \in TaskRecords /\ t.status = "queued"
    /\ t.mission = None => t.step = 0
    /\ t.mission # None =>
         /\ t.mission \in 1 .. mn - 1 /\ t.step # 0
         /\ \A k \in DOMAIN ms : ms[k].id = t.mission => Runs(ms[k], t.step)
         /\ \A i \in DOMAIN q : Live(q[i]) => ~OneStep(t, q[i])

\* A task that fits is put at the end, under the next id.
LEMMA AppendKeeps ==
    ASSUME NEW q, NEW ms, NEW n \in Nat \ {0}, NEW mn, StoreGood(q, ms, n, mn),
           NEW t, Fits(q, ms, mn, t), t.id = n
    PROVE  /\ StoreGood(Append(q, t), ms, n + 1, mn)
           /\ \A r : OnlyRuns(q, r) => OnlyRuns(Append(q, t), r)
           /\ \A r, step : /\ t.mission = None /\ r # n /\ Bound(q, ms, r, step)
                           => Bound(Append(q, t), ms, r, step)
<1>1. PICK e : e = Append(q, t)
  OBVIOUS
<1>2. PICK L \in Nat : L = Len(q) /\ DOMAIN q = 1..L
  BY DEF StoreGood, TasksGood
<1>3. e \in Seq(TaskRecords) /\ DOMAIN e = 1..(L + 1) /\ e[L + 1] = t /\ \A i \in 1..L : e[i] = q[i]
  BY <1>1, <1>2 DEF StoreGood, TasksGood, Fits
<1>4. \A i \in DOMAIN e : i \in DOMAIN q \/ i = L + 1
  BY <1>2, <1>3
<1>5. \A i \in DOMAIN q : e[i] = q[i] /\ q[i].id # n /\ q[i].id \in 1 .. n - 1
  BY <1>2, <1>3 DEF StoreGood, TasksGood
<1>6. TasksGood(e, n + 1, mn)
  <2>1. \A i \in DOMAIN e : e[i].id \in 1 .. (n + 1) - 1
    BY <1>3, <1>4, <1>5
  <2>2. \A i \in DOMAIN e :
          /\ e[i].mission = None => e[i].step = 0
          /\ e[i].mission # None => e[i].mission \in 1 .. mn - 1 /\ e[i].step # 0
    BY <1>3, <1>4, <1>5 DEF StoreGood, TasksGood, Fits
  <2>3. \A i, j \in DOMAIN e : e[i].id = e[j].id => i = j
    BY <1>3, <1>4, <1>5 DEF StoreGood, TasksGood
  <2> QED
    BY <1>3, <2>1, <2>2, <2>3 DEF TasksGood
<1>7. Single(e)
  <2> SUFFICES ASSUME NEW i \in DOMAIN e, NEW j \in DOMAIN e, Live(e[i]), Live(e[j]), OneStep(e[i], e[j])
               PROVE  i = j
    BY DEF Single
  <2>1. CASE i \in DOMAIN q /\ j \in DOMAIN q
    BY <1>5, <2>1 DEF StoreGood, Single
  <2>2. CASE i \in DOMAIN q /\ j = L + 1
    BY <1>3, <1>5, <2>2 DEF Fits, OneStep
  <2>3. CASE i = L + 1 /\ j \in DOMAIN q
    BY <1>3, <1>5, <2>3 DEF Fits, OneStep
  <2> QED
    BY <1>4, <2>1, <2>2, <2>3
<1>8. \A k \in DOMAIN ms : ms[k].id # None
  <2>1. \A k \in DOMAIN ms : ms[k].id \in Nat
    BY DEF StoreGood, MissionsGood, MissionRecords, MissionGood
  <2> QED
    BY <2>1, SchedulerAssumption
<1>9. Wanted(e, ms)
  BY <1>3, <1>4, <1>5, <1>8 DEF StoreGood, Wanted, Fits
<1>10. \A r : OnlyRuns(q, r) => OnlyRuns(e, r)
  BY <1>3, <1>4, <1>5 DEF OnlyRuns, Fits
<1>11. ASSUME NEW r, NEW step, t.mission = None, r # n, Bound(q, ms, r, step) PROVE Bound(e, ms, r, step)
  <2> SUFFICES ASSUME NEW i \in DOMAIN e, e[i].id = r
               PROVE  /\ step = StepOf(e[i])
                      /\ \A k \in DOMAIN ms : e[i].mission = ms[k].id => Runs(ms[k], e[i].step)
                      /\ \A j \in DOMAIN e : Live(e[j]) /\ OneStep(e[i], e[j]) => i = j
    BY DEF Bound
  <2>1. i \in DOMAIN q /\ e[i] = q[i]
    BY <1>3, <1>4, <1>5, <1>11
  <2>2. \A j \in DOMAIN q : Live(q[j]) /\ OneStep(q[i], q[j]) => i = j
    BY <1>11, <2>1 DEF Bound
  <2>3. ASSUME NEW j \in DOMAIN e, Live(e[j]), OneStep(e[i], e[j]) PROVE i = j
    BY <1>3, <1>4, <1>5, <1>11, <2>1, <2>2, <2>3 DEF OneStep
  <2> QED
    BY <1>11, <2>1, <2>3 DEF Bound
<1> QED
  BY <1>1, <1>6, <1>7, <1>9, <1>10, <1>11 DEF StoreGood

\* Enqueue puts a task at the end, and may drop one that has ended.
LEMMA EnqueueKeeps ==
    ASSUME NEW q, NEW ms, NEW n \in Nat \ {0}, NEW mn, StoreGood(q, ms, n, mn),
           NEW t, Fits(q, ms, mn, t), t.id = n
    PROVE  /\ StoreGood(Enqueue(q, t), ms, n + 1, mn)
           /\ \A r : OnlyRuns(q, r) => OnlyRuns(Enqueue(q, t), r)
           /\ \A r, step : /\ t.mission = None /\ r # n /\ Bound(q, ms, r, step)
                           => Bound(Enqueue(q, t), ms, r, step)
<1>1. PICK e : e = Append(q, t)
  OBVIOUS
<1>2. /\ StoreGood(e, ms, n + 1, mn) /\ \A r : OnlyRuns(q, r) => OnlyRuns(e, r)
      /\ \A r, step : t.mission = None /\ r # n /\ Bound(q, ms, r, step) => Bound(e, ms, r, step)
  BY <1>1, AppendKeeps
<1> DEFINE ended == {i \in DOMAIN e : e[i].status \in TerminalStatuses}
           p == CHOOSE i \in ended : \A j \in ended : i <= j
<1>3. CASE Len(e) > MaxTasks /\ ended # {}
  <2>1. Enqueue(q, t) = RemoveAt(e, p)
    BY <1>1, <1>3 DEF Enqueue
  <2>2. p \in ended
    <3>1. ended \in SUBSET Nat
      BY <1>2 DEF StoreGood, TasksGood
    <3> HIDE DEF ended
    <3>2. \E i \in ended : \A j \in ended : i <= j
      BY <1>3, <3>1, LeastNumber
    <3> QED
      BY <3>2
  <2> HIDE DEF p
  <2>3. /\ p \in DOMAIN e /\ TasksGood(e, n + 1, mn)
    BY <1>2, <2>2 DEF StoreGood
  <2>4. Thins(RemoveAt(e, p), e) /\ \A r : OnlyRuns(e, r) => OnlyRuns(RemoveAt(e, p), r)
    BY <2>3, RemoveAtThins
  <2>5. /\ StoreGood(RemoveAt(e, p), ms, n + 1, mn)
        /\ \A r, step : Bound(e, ms, r, step) => Bound(RemoveAt(e, p), ms, r, step)
    BY <1>2, <2>4, ThinKeeps
  <2> QED
    BY <1>2, <2>1, <2>4, <2>5
<1>4. CASE ~(Len(e) > MaxTasks /\ ended # {})
  <2>1. Enqueue(q, t) = e
    BY <1>1, <1>4 DEF Enqueue
  <2> QED
    BY <1>2, <2>1
<1> QED
  BY <1>3, <1>4

-----------------------------------------------------------------------------
(* Missions. *)

\* The steps of n are those of m, and none of them lost its completion.
Ahead(m, n) ==
    /\ DOMAIN n.steps = DOMAIN m.steps
    /\ \A k \in DOMAIN m.steps :
          /\ m.steps[k].status = "completed" => n.steps[k].status = "completed"
          /\ n.steps[k].level = "VERIFIED" => m.steps[k].level = "VERIFIED"

\* A mission that is changed, and whose running steps run on.
Stays(m, n) ==
    /\ MissionGood(n) /\ n.id = m.id /\ Ahead(m, n)
    /\ \A k : Runs(m, k) => Runs(n, k)

\* A mission that does not change.
LEMMA StaysItself == ASSUME NEW m, MissionGood(m) PROVE Stays(m, m)
  BY DEF Stays, Ahead

\* A mission has steps, and they are numbered from 1.
LEMMA StepLengths ==
    ASSUME NEW m, m \in MissionRecords
    PROVE  \E n \in Nat \ {0} : DOMAIN m.steps = 1..n /\ n <= MaxSteps /\ m.steps \in [1..n -> StepTypes]
<1>1. PICK n \in 1 .. MaxSteps : m.steps \in [1..n -> StepTypes]
  BY DEF MissionRecords, StepLists
<1>2. n \in Nat \ {0} /\ n <= MaxSteps
  BY SchedulerAssumption
<1> QED
  BY <1>1, <1>2

\* Other steps in the place of a mission's, as many.
LEMMA OtherSteps ==
    ASSUME NEW m, m \in MissionRecords, NEW st \in MissionStatuses,
           NEW f \in [DOMAIN m.steps -> StepTypes]
    PROVE  [id |-> m.id, priority |-> m.priority, status |-> st, steps |-> f] \in MissionRecords
<1>1. f \in StepLists
  BY StepLengths DEF StepLists
<1> QED
  BY <1>1 DEF MissionRecords

\* The next step is pending, if one is.
LEMMA NextStepIs ==
    ASSUME NEW m, m \in MissionRecords
    PROVE  /\ StepsIn(m, "pending") = {} => NextPendingStep(m) = 0
           /\ StepsIn(m, "pending") # {} => NextPendingStep(m) \in StepsIn(m, "pending")
<1>1. CASE StepsIn(m, "pending") = {}
  BY <1>1 DEF NextPendingStep
<1>2. CASE StepsIn(m, "pending") # {}
  <2>1. PICK P : P = StepsIn(m, "pending")
    OBVIOUS
  <2>2. P \in SUBSET Nat /\ P # {}
    BY <1>2, <2>1, StepLengths DEF StepsIn
  <2>3. \E k \in P : \A j \in P : k <= j
    BY <2>2, LeastNumber
  <2>4. (CHOOSE k \in P : \A j \in P : k <= j) \in P
    BY <2>3
  <2> QED
    BY <1>2, <2>1, <2>4 DEF NextPendingStep
<1> QED
  BY <1>1, <1>2

\* A mission with work has a pending step, and is good with that step running.
LEMMA StartOrResumeStays ==
    ASSUME NEW m, MissionGood(m), HasWork(m)
    PROVE  /\ Stays(m, StartOrResume(m))
           /\ NextPendingStep(m) \in DOMAIN m.steps /\ NextPendingStep(m) # 0
           /\ Runs(StartOrResume(m), NextPendingStep(m))
<1>1. m \in MissionRecords /\ m.status \notin MissionTerminal
  BY DEF MissionGood, HasWork, Startable
<1>2. PICK L \in Nat \ {0} : DOMAIN m.steps = 1..L /\ L <= MaxSteps /\ m.steps \in [1..L -> StepTypes]
  BY <1>1, StepLengths
<1>3. PICK k : k = NextPendingStep(m)
  OBVIOUS
<1>4. k \in StepsIn(m, "pending")
  BY <1>1, <1>3, NextStepIs DEF MissionGood, HasWork
<1>5. k \in DOMAIN m.steps /\ m.steps[k].status = "pending" /\ k # 0
  BY <1>2, <1>4 DEF StepsIn
<1>6. PICK x : x = [m.steps[k] EXCEPT !.status = "running"]
  OBVIOUS
<1>7. x \in StepTypes /\ x.status = "running" /\ x.level = m.steps[k].level
  BY <1>2, <1>5, <1>6 DEF StepTypes, StepStatuses
<1>8. PICK f : f = [m.steps EXCEPT ![k] = x]
  OBVIOUS
<1>9. /\ f \in [DOMAIN m.steps -> StepTypes] /\ f[k] = x
      /\ \A j \in DOMAIN m.steps : j # k => f[j] = m.steps[j]
  BY <1>2, <1>5, <1>7, <1>8
<1>10. PICK n : n = [id |-> m.id, priority |-> m.priority, status |-> "running", steps |-> f]
  OBVIOUS
<1>11. n = StartOrResume(m)
  <2>1. Startable(m)
    BY DEF HasWork
  <2>2. StartOrResume(m) = [m EXCEPT !.status = "running", !.steps = f]
    BY <1>3, <1>5, <1>6, <1>8, <2>1 DEF StartOrResume
  <2> QED
    BY <1>1, <1>10, <2>2 DEF MissionRecords
<1>12. n \in MissionRecords /\ n.id = m.id /\ n.status = "running" /\ n.steps = f
  <2>1. "running" \in MissionStatuses
    BY DEF MissionStatuses
  <2> QED
    BY <1>1, <1>9, <1>10, <2>1, OtherSteps
<1>13. Runs(n, k)
  BY <1>5, <1>7, <1>9, <1>12 DEF Runs
<1>14. MissionGood(n)
  BY <1>12, <1>13 DEF MissionGood, Runs, StepsIn
<1>15. \A j : Runs(m, j) => Runs(n, j)
  BY <1>5, <1>9, <1>12 DEF Runs
<1>16. Ahead(m, n)
  BY <1>5, <1>7, <1>9, <1>12 DEF Ahead
<1> QED
  BY <1>3, <1>5, <1>11, <1>12, <1>13, <1>14, <1>15, <1>16 DEF Stays

\* A mission is paused.
LEMMA PauseStays == ASSUME NEW m, MissionGood(m) PROVE Stays(m, PauseMission(m))
<1>1. CASE m.status \in MissionTerminal
  BY <1>1, StaysItself DEF PauseMission
<1>2. CASE m.status \notin MissionTerminal
  <2>1. PICK n : n = [m EXCEPT !.status = "paused"]
    OBVIOUS
  <2>2. /\ n \in MissionRecords /\ n.id = m.id /\ n.steps = m.steps /\ n.status = "paused"
    BY <2>1 DEF MissionGood, MissionRecords, MissionStatuses
  <2>3. MissionGood(n)
    BY <1>2, <2>2 DEF MissionGood, StepsIn
  <2> QED
    BY <1>2, <2>1, <2>2, <2>3 DEF PauseMission, Stays, Ahead, Runs
<1> QED
  BY <1>1, <1>2

\* A paused mission is resumed.
LEMMA ResumeStays == ASSUME NEW m, MissionGood(m) PROVE Stays(m, ResumeMission(m))
<1>1. CASE m.status # "paused"
  BY <1>1, StaysItself DEF ResumeMission
<1>2. CASE m.status = "paused"
  <2>1. PICK n : n = [m EXCEPT !.status = "queued"]
    OBVIOUS
  <2>2. /\ n \in MissionRecords /\ n.id = m.id /\ n.steps = m.steps /\ n.status = "queued"
    BY <2>1 DEF MissionGood, MissionRecords, MissionStatuses
  <2>3. MissionGood(n)
    BY <1>2, <2>2 DEF MissionGood, StepsIn, MissionTerminal
  <2> QED
    BY <1>2, <2>1, <2>2, <2>3 DEF ResumeMission, Stays, Ahead, Runs
<1> QED
  BY <1>1, <1>2

\* A mission is cancelled.
LEMMA CancelStays == ASSUME NEW m, MissionGood(m) PROVE Stays(m, CancelMission(m))
<1>1. CASE m.status \in MissionTerminal
  BY <1>1, StaysItself DEF CancelMission
<1>2. CASE m.status \notin MissionTerminal
  <2>1. PICK n : n = [m EXCEPT !.status = "cancelled"]
    OBVIOUS
  <2>2. /\ n \in MissionRecords /\ n.id = m.id /\ n.steps = m.steps /\ n.status = "cancelled"
    BY <2>1 DEF MissionGood, MissionRecords, MissionStatuses
  <2>3. MissionGood(n)
    BY <2>2 DEF MissionGood, MissionTerminal
  <2> QED
    BY <1>2, <2>1, <2>2, <2>3 DEF CancelMission, Stays, Ahead, Runs
<1> QED
  BY <1>1, <1>2

\* Failed steps are pending again: no running one is touched.
LEMMA RetryStays == ASSUME NEW m, MissionGood(m) PROVE Stays(m, RetryMission(m))
<1>1. CASE StepsIn(m, "failed") = {}
  BY <1>1, StaysItself DEF RetryMission
<1>2. CASE StepsIn(m, "failed") # {}
  <2>1. PICK f : f = [k \in DOMAIN m.steps |-> IF m.steps[k].status = "failed"
                                                THEN [m.steps[k] EXCEPT !.status = "pending"]
                                                ELSE m.steps[k]]
    OBVIOUS
  <2>2. m \in MissionRecords /\ \A k \in DOMAIN m.steps : m.steps[k] \in StepTypes
    BY StepLengths DEF MissionGood
  <2>3. ASSUME NEW k \in DOMAIN m.steps
        PROVE  /\ f[k] \in StepTypes /\ f[k].level = m.steps[k].level
               /\ m.steps[k].status = "failed" => f[k].status = "pending"
               /\ m.steps[k].status # "failed" => f[k].status = m.steps[k].status
    BY <2>1, <2>2 DEF StepTypes, StepStatuses
  <2>4. f \in [DOMAIN m.steps -> StepTypes]
    BY <2>1, <2>3
  <2>5. PICK n : n = [id |-> m.id, priority |-> m.priority, status |-> "queued", steps |-> f]
    OBVIOUS
  <2>6. n \in MissionRecords /\ n.id = m.id /\ n.status = "queued" /\ n.steps = f
    <3>1. "queued" \in MissionStatuses
      BY DEF MissionStatuses
    <3> QED
      BY <2>2, <2>4, <2>5, <3>1, OtherSteps
  <2>7. MissionGood(n)
    <3>1. StepsIn(n, "pending") # {}
      BY <1>2, <2>3, <2>4, <2>6 DEF StepsIn
    <3> QED
      BY <2>6, <3>1 DEF MissionGood
  <2>8. Ahead(m, n) /\ \A k : Runs(m, k) => Runs(n, k)
    BY <2>3, <2>4, <2>6 DEF Ahead, Runs
  <2>9. RetryMission(m) = n
    <3>1. RetryMission(m) = [m EXCEPT !.status = "queued", !.steps = f]
      BY <1>2, <2>1 DEF RetryMission
    <3> QED
      BY <2>2, <2>5, <3>1 DEF MissionRecords
  <2> QED
    BY <2>6, <2>7, <2>8, <2>9 DEF Stays
<1> QED
  BY <1>1, <1>2

\* A list of missions each of which was there before, and goes on.
Kept(ms, ns) ==
    /\ ns \in Seq(MissionRecords)
    /\ \A k, l \in DOMAIN ns : ns[k].id = ns[l].id => k = l
    /\ \A k \in DOMAIN ns : \E l \in DOMAIN ms : Stays(ms[l], ns[k])

\* What holds of the missions that are in both lists.
Progressed(ms, ns) ==
    \A k \in DOMAIN ms, l \in DOMAIN ns : ms[k].id = ns[l].id => Ahead(ms[k], ns[l])

\* Missions that go on keep the stores good, and what is bound.
LEMMA KeptKeeps ==
    ASSUME NEW q, NEW ms, NEW n, NEW mn, StoreGood(q, ms, n, mn), NEW ns, Kept(ms, ns)
    PROVE  /\ StoreGood(q, ns, n, mn)
           /\ \A id, step : Bound(q, ms, id, step) => Bound(q, ns, id, step)
           /\ Progressed(ms, ns)
<1>1. MissionsGood(ns, mn)
  BY DEF Kept, Stays, StoreGood, MissionsGood
<1>2. Wanted(q, ns)
  <2> SUFFICES ASSUME NEW i \in DOMAIN q, NEW k \in DOMAIN ns, Live(q[i]), q[i].mission = ns[k].id
               PROVE  Runs(ns[k], q[i].step)
    BY DEF Wanted
  <2>1. PICK l \in DOMAIN ms : Stays(ms[l], ns[k])
    BY DEF Kept
  <2>2. Runs(ms[l], q[i].step)
    BY <2>1 DEF Stays, StoreGood, Wanted
  <2> QED
    BY <2>1, <2>2 DEF Stays
<1>3. ASSUME NEW id, NEW step, Bound(q, ms, id, step) PROVE Bound(q, ns, id, step)
  <2>1. ASSUME NEW i \in DOMAIN q, q[i].id = id, NEW k \in DOMAIN ns, q[i].mission = ns[k].id
        PROVE  Runs(ns[k], q[i].step)
    <3>1. PICK l \in DOMAIN ms : Stays(ms[l], ns[k])
      BY DEF Kept
    <3>2. Runs(ms[l], q[i].step)
      BY <1>3, <2>1, <3>1 DEF Stays, Bound
    <3> QED
      BY <3>1, <3>2 DEF Stays
  <2> QED
    BY <1>3, <2>1 DEF Bound
<1>4. Progressed(ms, ns)
  <2> SUFFICES ASSUME NEW k \in DOMAIN ms, NEW l \in DOMAIN ns, ms[k].id = ns[l].id
               PROVE  Ahead(ms[k], ns[l])
    BY DEF Progressed
  <2>1. PICK j \in DOMAIN ms : Stays(ms[j], ns[l])
    BY DEF Kept
  <2>2. j = k
    BY <2>1 DEF Stays, StoreGood, MissionsGood
  <2> QED
    BY <2>1, <2>2 DEF Stays
<1> QED
  BY <1>1, <1>2, <1>3, <1>4 DEF StoreGood

\* The place of a mission is that of its id.
LEMMA MissionIsAt ==
    ASSUME NEW ms, NEW mn, MissionsGood(ms, mn), NEW k \in DOMAIN ms
    PROVE  HasMission(ms, ms[k].id) /\ MissionAt(ms, ms[k].id) = k /\ MissionOf(ms, ms[k].id) = ms[k]
<1>1. MissionAt(ms, ms[k].id) \in DOMAIN ms /\ ms[MissionAt(ms, ms[k].id)].id = ms[k].id
  BY DEF MissionAt
<1>2. MissionAt(ms, ms[k].id) = k
  BY <1>1 DEF MissionsGood
<1> QED
  BY <1>2 DEF HasMission, MissionOf

\* Missions that change each in its place.
LEMMA MapKept ==
    ASSUME NEW ms, NEW mn, MissionsGood(ms, mn), NEW ns, ns = [k \in DOMAIN ms |-> ns[k]],
           \A k \in DOMAIN ms : Stays(ms[k], ns[k])
    PROVE  Kept(ms, ns) /\ DOMAIN ns = DOMAIN ms
<1>1. Len(ms) \in Nat /\ DOMAIN ms = 1..Len(ms)
  BY DEF MissionsGood
<1>2. \A k \in DOMAIN ms : ns[k] \in MissionRecords
  BY DEF Stays, MissionGood
<1>3. ns \in [1..Len(ms) -> MissionRecords] /\ DOMAIN ns = DOMAIN ms
  BY <1>1, <1>2
<1>4. ns \in Seq(MissionRecords)
  BY <1>1, <1>3
<1> QED
  BY <1>3, <1>4 DEF Kept, Stays, MissionsGood

\* One mission is put in its place.
LEMMA PutKept ==
    ASSUME NEW ms, NEW mn, MissionsGood(ms, mn), NEW k \in DOMAIN ms, NEW m, Stays(ms[k], m)
    PROVE  /\ Kept(ms, Put(ms, m)) /\ DOMAIN Put(ms, m) = DOMAIN ms
           /\ Put(ms, m)[k] = m /\ \A l \in DOMAIN ms : l # k => Put(ms, m)[l] = ms[l]
<1>1. PICK ns : ns = Put(ms, m)
  OBVIOUS
<1>2. /\ ns = [l \in DOMAIN ms |-> ns[l]] /\ ns[k] = m
      /\ \A l \in DOMAIN ms : l # k => ns[l] = ms[l]
  BY <1>1 DEF Put, Stays, MissionsGood
<1>3. \A l \in DOMAIN ms : Stays(ms[l], ns[l])
  BY <1>2, StaysItself DEF MissionsGood
<1>4. Kept(ms, ns) /\ DOMAIN ns = DOMAIN ms
  BY <1>2, <1>3, MapKept
<1> QED
  BY <1>1, <1>2, <1>4

\* A mission is removed by its id.
LEMMA RemoveMissionKept ==
    ASSUME NEW ms, NEW mn, MissionsGood(ms, mn), NEW id, HasMission(ms, id)
    PROVE  Kept(ms, RemoveMission(ms, id))
<1>1. PICK p \in DOMAIN ms : ms[p].id = id
  BY DEF HasMission
<1>2. RemoveMission(ms, id) = RemoveAt(ms, p)
  BY <1>1, MissionIsAt DEF RemoveMission
<1>3. PICK ns : ns = RemoveAt(ms, p)
  OBVIOUS
<1>4. /\ ns \in Seq(MissionRecords)
      /\ \A j \in DOMAIN ns : LET i == IF j < p THEN j ELSE j + 1 IN i \in DOMAIN ms /\ ns[j] = ms[i]
  BY <1>3, RemoveAtFacts DEF MissionsGood
<1>5. (\A j \in DOMAIN ns : j \in Nat) /\ p \in Nat
  BY <1>4 DEF MissionsGood
<1>6. ASSUME NEW i \in DOMAIN ns, NEW j \in DOMAIN ns, ns[i].id = ns[j].id PROVE i = j
  <2>1. PICK a \in DOMAIN ms : a = (IF i < p THEN i ELSE i + 1) /\ ns[i] = ms[a]
    BY <1>4
  <2>2. PICK b \in DOMAIN ms : b = (IF j < p THEN j ELSE j + 1) /\ ns[j] = ms[b]
    BY <1>4
  <2>3. a = b
    BY <1>6, <2>1, <2>2 DEF MissionsGood
  <2> QED
    BY <1>5, <2>1, <2>2, <2>3
<1>7. \A j \in DOMAIN ns : \E l \in DOMAIN ms : ns[j] = ms[l]
  BY <1>4
<1>8. \A j \in DOMAIN ns : \E l \in DOMAIN ms : Stays(ms[l], ns[j])
  BY <1>7, StaysItself DEF MissionsGood
<1> QED
  BY <1>2, <1>3, <1>4, <1>6, <1>8 DEF Kept

\* A restart pauses the missions that ran.
LEMMA LoadKept ==
    ASSUME NEW ms, NEW mn, MissionsGood(ms, mn)
    PROVE  Kept(ms, LoadMissions(ms))
<1>1. PICK ns : ns = LoadMissions(ms)
  OBVIOUS
<1>2. ns = [k \in DOMAIN ms |-> ns[k]]
  BY <1>1 DEF LoadMissions
<1>3. ASSUME NEW k \in DOMAIN ms PROVE Stays(ms[k], ns[k])
  <2>1. MissionGood(ms[k])
    BY DEF MissionsGood
  <2>2. CASE ms[k].status = "running"
    <3>1. ns[k] = PauseMission(ms[k])
      BY <1>1, <2>2 DEF LoadMissions, PauseMission, MissionTerminal
    <3> QED
      BY <2>1, <3>1, PauseStays
  <2>3. CASE ms[k].status # "running"
    BY <1>1, <2>1, <2>3, StaysItself DEF LoadMissions
  <2> QED
    BY <2>2, <2>3
<1> QED
  BY <1>1, <1>2, <1>3, MapKept

\* A restart queues the task that ran again.
LEMMA LoadThins ==
    ASSUME NEW q, NEW n, NEW mn, TasksGood(q, n, mn)
    PROVE  Thins(LoadQueue(q), q) /\ \A r : OnlyRuns(LoadQueue(q), r)
<1>1. PICK e : e = LoadQueue(q)
  OBVIOUS
<1>2. e = [i \in DOMAIN q |-> e[i]]
  BY <1>1 DEF LoadQueue
<1>3. ASSUME NEW i \in DOMAIN q
      PROVE  e[i] \in TaskRecords /\ SameTask(e[i], q[i]) /\ e[i].status # "running"
  <2>1. q[i] \in TaskRecords
    BY DEF TasksGood
  <2>2. CASE q[i].status = "running"
    <3>1. e[i] = [q[i] EXCEPT !.status = "queued"]
      BY <1>1, <2>2 DEF LoadQueue
    <3>2. /\ e[i] \in TaskRecords /\ e[i].id = q[i].id /\ e[i].mission = q[i].mission
          /\ e[i].step = q[i].step /\ e[i].status = "queued"
      BY <2>1, <3>1 DEF TaskRecords, QueueStatuses
    <3> QED
      BY <2>2, <3>2 DEF SameTask, Live, LiveStatuses, QueueStatuses, TerminalStatuses
  <2>3. CASE q[i].status # "running"
    BY <1>1, <2>1, <2>3 DEF LoadQueue, SameTask
  <2> QED
    BY <2>2, <2>3
<1>4. Thins(e, q) /\ DOMAIN e = DOMAIN q
  BY <1>2, <1>3, MapThins
<1> QED
  BY <1>1, <1>3, <1>4 DEF OnlyRuns

-----------------------------------------------------------------------------
(* pump *)

StoreTypes == [queue : Seq(TaskRecords), missions : Seq(MissionRecords), next : Nat \ {0}]

\* Stores that pump may work on: no task in them runs.
Stored(s, mn) ==
    s \in StoreTypes /\ StoreGood(s.queue, s.missions, s.next, mn) /\ OnlyRuns(s.queue, None)

\* What pump leaves of the missions: the same, and none set back.
Pumped(s, z) ==
    /\ DOMAIN z.missions = DOMAIN s.missions /\ s.next <= z.next
    /\ \A k \in DOMAIN s.missions :
          z.missions[k].id = s.missions[k].id /\ Ahead(s.missions[k], z.missions[k])

\* pump did nothing.
LEMMA PumpedItself == ASSUME NEW s, s \in StoreTypes PROVE Pumped(s, s)
  BY DEF Pumped, Ahead, StoreTypes

\* pump did one thing and then another.
LEMMA PumpedOnce ==
    ASSUME NEW s, s \in StoreTypes, NEW z, z \in StoreTypes, NEW y, y \in StoreTypes,
           Pumped(s, z), Pumped(z, y)
    PROVE  Pumped(s, y)
<1>1. s.next <= y.next
  BY DEF Pumped, StoreTypes
<1> QED
  BY <1>1 DEF Pumped, Ahead

\* One mission gets its next step started, and a task of its own for it.
LEMMA AdvanceKeeps ==
    ASSUME NEW mn, NEW s, Stored(s, mn), NEW k \in DOMAIN s.missions
    PROVE  LET z == Advance(s, s.missions[k].id) IN
           /\ Stored(z, mn) /\ Pumped(s, z)
           /\ \A l \in DOMAIN s.missions : l # k => z.missions[l] = s.missions[l]
<1>1. /\ s = [queue |-> s.queue, missions |-> s.missions, next |-> s.next] /\ s \in StoreTypes
      /\ s.next \in Nat \ {0} /\ StoreGood(s.queue, s.missions, s.next, mn)
      /\ MissionsGood(s.missions, mn) /\ OnlyRuns(s.queue, None)
  BY DEF Stored, StoreTypes, StoreGood
<1>2. PICK m : m = s.missions[k]
  OBVIOUS
<1>3. MissionOf(s.missions, m.id) = m /\ MissionGood(m) /\ m.id \in 1 .. mn - 1
  BY <1>1, <1>2, MissionIsAt DEF MissionsGood
<1>4. CASE ~HasWork(m)
  <2>1. Advance(s, m.id) = s
    BY <1>3, <1>4 DEF Advance
  <2> QED
    BY <1>1, <1>2, <2>1, PumpedItself
<1>5. CASE HasWork(m)
  <2>1. PICK ms : ms = Put(s.missions, StartOrResume(m))
    OBVIOUS
  <2>2. PICK t : t = StepTask(s.next, m)
    OBVIOUS
  <2>3. PICK e : e = Enqueue(s.queue, t)
    OBVIOUS
  <2>4. PICK j : j = NextPendingStep(m)
    OBVIOUS
  <2>5. Stays(m, StartOrResume(m)) /\ j \in DOMAIN m.steps /\ j # 0 /\ Runs(StartOrResume(m), j)
    BY <1>3, <1>5, <2>4, StartOrResumeStays
  <2>6. /\ Kept(s.missions, ms) /\ DOMAIN ms = DOMAIN s.missions /\ ms[k] = StartOrResume(m)
        /\ \A l \in DOMAIN s.missions : l # k => ms[l] = s.missions[l]
    BY <1>1, <1>2, <2>1, <2>5, PutKept
  <2>7. StoreGood(s.queue, ms, s.next, mn)
    BY <1>1, <2>6, KeptKeeps
  <2>8. t \in TaskRecords /\ t.status = "queued" /\ t.id = s.next /\ t.mission = m.id /\ t.step = j
    <3>1. m \in MissionRecords
      BY <1>3 DEF MissionGood
    <3>2. j \in 0 .. MaxSteps
      BY <2>5, <3>1, StepLengths, SchedulerAssumption
    <3>3. "queued" \in QueueStatuses /\ m.id \in Nat /\ m.priority \in 1 .. 5
      BY <3>1 DEF QueueStatuses, MissionRecords
    <3> QED
      BY <1>1, <2>2, <2>4, <3>2, <3>3 DEF StepTask, TaskRecords
  <2>9. m.id # None
    BY <1>3, SchedulerAssumption DEF MissionGood, MissionRecords
  <2>10. \A l \in DOMAIN ms : ms[l].id = t.mission => Runs(ms[l], t.step)
    <3>1. MissionsGood(ms, mn) /\ ms[k].id = m.id /\ k \in DOMAIN ms
      BY <2>5, <2>6, <2>7 DEF StoreGood, Stays
    <3> QED
      BY <2>5, <2>6, <2>8, <3>1 DEF MissionsGood
  <2>11. \A i \in DOMAIN s.queue : Live(s.queue[i]) => ~OneStep(t, s.queue[i])
    <3> SUFFICES ASSUME NEW i \in DOMAIN s.queue, Live(s.queue[i]), OneStep(t, s.queue[i]) PROVE FALSE
      OBVIOUS
    <3>1. Runs(m, s.queue[i].step)
      BY <1>1, <1>2, <2>8 DEF OneStep, StoreGood, Wanted
    <3> QED
      BY <1>5, <3>1 DEF HasWork, StepsIn, Runs
  <2>12. Fits(s.queue, ms, mn, t)
    BY <1>3, <2>5, <2>8, <2>9, <2>10, <2>11 DEF Fits
  <2>13. StoreGood(e, ms, s.next + 1, mn) /\ OnlyRuns(e, None)
    BY <1>1, <2>3, <2>7, <2>8, <2>12, EnqueueKeeps
  <2>14. PICK z : z = [queue |-> e, missions |-> ms, next |-> s.next + 1]
    OBVIOUS
  <2>15. Advance(s, m.id) = z
    <3>1. PICK y : y = [s EXCEPT !.missions = ms]
      OBVIOUS
    <3>2. PICK q, old, n : q = s.queue /\ old = s.missions /\ n = s.next
      OBVIOUS
    <3>3. [y EXCEPT !.queue = e, !.next = s.next + 1] = z
      <4>1. s = [queue |-> q, missions |-> old, next |-> n]
        BY <1>1, <3>2
      <4>2. y = [queue |-> q, missions |-> ms, next |-> n]
        BY ONLY <3>1, <4>1
      <4>3. PICK x : x = n + 1
        OBVIOUS
      <4>4. [y EXCEPT !.queue = e, !.next = x] = [queue |-> e, missions |-> ms, next |-> x]
        <5>1. PICK u : u = [y EXCEPT !.queue = e]
          OBVIOUS
        <5>2. u = [queue |-> e, missions |-> ms, next |-> n]
          BY ONLY <4>2, <5>1
        <5>3. [u EXCEPT !.next = x] = [queue |-> e, missions |-> ms, next |-> x]
          BY ONLY <5>2
        <5>4. [y EXCEPT !.queue = e, !.next = x] = [u EXCEPT !.next = x]
          BY ONLY <4>2, <5>1
        <5> QED
          BY ONLY <5>3, <5>4
      <4> QED
        BY <2>14, <3>2, <4>3, <4>4
    <3>4. Advance(s, m.id) = [y EXCEPT !.queue = e, !.next = s.next + 1]
      BY <1>3, <1>5, <2>1, <2>2, <2>3, <2>4, <2>5, <3>1 DEF Advance
    <3> QED
      BY <3>3, <3>4
  <2>16. z \in StoreTypes
    BY <1>1, <2>13, <2>14 DEF StoreTypes, StoreGood, TasksGood, MissionsGood
  <2>17. Stored(z, mn)
    BY <2>13, <2>14, <2>16 DEF Stored
  <2>18. Pumped(s, z)
    <3>1. \A l \in DOMAIN s.missions : ms[l].id = s.missions[l].id /\ Ahead(s.missions[l], ms[l])
      BY <1>2, <2>5, <2>6 DEF Stays, Ahead
    <3> QED
      BY <1>1, <2>6, <2>14, <3>1 DEF Pumped
  <2> QED
    BY <1>2, <2>6, <2>14, <2>15, <2>17, <2>18
<1> QED
  BY <1>4, <1>5

\* pump's loop over the first n missions.
LEMMA AdvanceSome ==
    ASSUME NEW mn, NEW s, Stored(s, mn), NEW N \in Nat, N <= Len(s.missions),
           NEW w, w = [j \in 1..N |-> s.missions[j].id]
    PROVE  LET z == FoldLeft(Advance, s, w) IN
           /\ Stored(z, mn) /\ Pumped(s, z)
           /\ \A l \in DOMAIN s.missions : l > N => z.missions[l] = s.missions[l]
<1> DEFINE V == {z \in StoreTypes : Stored(z, mn) /\ Pumped(s, z)}
           H == [p \in V \X (1..N) |-> Advance(p[1], w[p[2]])]
           Solves(g) == g = [c \in SUBSET (1..N) |->
                               IF c = {} THEN s ELSE Advance(g[c \ {Max(c)}], w[Max(c)])]
           it == CHOOSE g : Solves(g)
<1>1. /\ DOMAIN w = 1..N /\ \A k \in 1..N : k \in DOMAIN s.missions /\ w[k] = s.missions[k].id
      /\ DOMAIN s.missions = 1..Len(s.missions) /\ Len(s.missions) \in Nat /\ s \in StoreTypes
  BY DEF Stored, StoreTypes
<1>2. s \in V
  BY <1>1, PumpedItself
<1>3. FoldLeft(Advance, s, w) = it[1..N]
  BY <1>1 DEF FoldLeft, MapThenFoldSet
<1>4. ASSUME NEW z \in V, NEW k \in 1..N
      PROVE  /\ Advance(z, w[k]) \in V
             /\ \A l \in DOMAIN s.missions : l # k => Advance(z, w[k]).missions[l] = z.missions[l]
  <2>1. Stored(z, mn) /\ Pumped(s, z) /\ z \in StoreTypes
    OBVIOUS
  <2>2. k \in DOMAIN z.missions /\ w[k] = z.missions[k].id /\ DOMAIN z.missions = DOMAIN s.missions
    BY <1>1, <2>1 DEF Pumped
  <2>3. PICK y : y = Advance(z, w[k])
    OBVIOUS
  <2>4. /\ Stored(y, mn) /\ Pumped(z, y)
        /\ \A l \in DOMAIN z.missions : l # k => y.missions[l] = z.missions[l]
    BY <2>1, <2>2, <2>3, AdvanceKeeps
  <2>5. y \in StoreTypes
    BY <2>4 DEF Stored
  <2>6. Pumped(s, y)
    BY <1>1, <2>1, <2>4, <2>5, PumpedOnce
  <2> QED
    BY <2>2, <2>3, <2>4, <2>5, <2>6
<1> HIDE DEF V
<1>5. H \in [V \X (1..N) -> V]
  BY <1>4
<1>6. \E g : Solves(g)
  <2> HIDE DEF H
  <2>1. PICK g : Solution(V, N, s, H, g)
    <3>1. KeepsTo(V, N, H)
      BY <1>5 DEF KeepsTo
    <3> QED
      BY <1>2, <3>1, FoldExists
  <2>2. ASSUME NEW c \in SUBSET (1..N), c # {}
        PROVE  H[<<g[c \ {Max(c)}], Max(c)>>] = Advance(g[c \ {Max(c)}], w[Max(c)])
    <3>1. Max(c) \in 1..N /\ g[c \ {Max(c)}] \in V
      BY <2>1, <2>2, MaxIsLargest DEF Solution
    <3> QED
      BY <3>1 DEF H
  <2>3. g = [c \in SUBSET (1..N) |-> IF c = {} THEN s ELSE Advance(g[c \ {Max(c)}], w[Max(c)])]
    BY ZenonT(40), <2>1, <2>2 DEF Solution
  <2> QED
    BY <2>3
<1>7. Solves(it)
  <2> HIDE DEF Solves
  <2> QED
    BY <1>6
<1> HIDE DEF it
<1>8. it[{}] = s /\ \A k \in 1..N : it[1..k] = Advance(it[1..(k - 1)], w[k])
  <2>1. it[{}] = s
    BY <1>7
  <2>2. ASSUME NEW k \in 1..N PROVE it[1..k] = Advance(it[1..(k - 1)], w[k])
    <3>1. k \in Nat \ {0} /\ 1..k \in SUBSET (1..N)
      OBVIOUS
    <3>2. 1..k # {} /\ Max(1..k) = k /\ (1..k) \ {k} = 1..(k - 1)
      BY <3>1, WholeWithoutMax
    <3> QED
      BY <1>7, <3>1, <3>2
  <2> QED
    BY <2>1, <2>2
<1> DEFINE Later(z, k) == \A l \in DOMAIN s.missions : l > k => z.missions[l] = s.missions[l]
           P == {k \in Nat : k <= N => it[1..k] \in V /\ Later(it[1..k], k)}
<1>9. 0 \in P
  <2>1. 1..0 = {}
    OBVIOUS
  <2> QED
    BY <1>2, <1>8, <2>1
<1>10. ASSUME NEW k \in Nat, k \in P PROVE k + 1 \in P
  <2> SUFFICES ASSUME k + 1 <= N PROVE it[1..(k + 1)] \in V /\ Later(it[1..(k + 1)], k + 1)
    OBVIOUS
  <2>1. k + 1 \in 1..N /\ (k + 1) - 1 = k /\ k <= N
    OBVIOUS
  <2>2. it[1..k] \in V /\ Later(it[1..k], k)
    BY <1>10, <2>1
  <2>3. it[1..(k + 1)] = Advance(it[1..k], w[k + 1])
    BY <1>8, <2>1
  <2>4. /\ it[1..(k + 1)] \in V
        /\ \A l \in DOMAIN s.missions : l # k + 1 => it[1..(k + 1)].missions[l] = it[1..k].missions[l]
    <3> HIDE DEF V, Later, P
    <3>1. PICK x : x = it[1..k]
      OBVIOUS
    <3>2. PICK y : y = it[1..(k + 1)]
      OBVIOUS
    <3>3. x \in V /\ y = Advance(x, w[k + 1])
      BY <2>2, <2>3, <3>1, <3>2
    <3> QED
      BY <1>4, <2>1, <3>1, <3>2, <3>3
  <2>5. \A l \in DOMAIN s.missions : l > k + 1 => l > k /\ l # k + 1
    BY <1>1
  <2> QED
    BY <2>2, <2>4, <2>5
<1> HIDE DEF P
<1>11. N \in P
  BY <1>9, <1>10, AllNumbers
<1>12. it[1..N] \in V /\ Later(it[1..N], N)
  BY <1>11 DEF P
<1> QED
  BY <1>3, <1>12 DEF V

\* pump's loop, whole.
LEMMA AdvanceAllKeeps ==
    ASSUME NEW mn, NEW s, Stored(s, mn)
    PROVE  Stored(AdvanceAll(s), mn) /\ Pumped(s, AdvanceAll(s))
<1>1. PICK N : N = Len(s.missions) /\ N \in Nat /\ DOMAIN s.missions = 1..N
  BY DEF Stored, StoreTypes
<1>2. PICK w : w = [j \in 1..N |-> s.missions[j].id]
  OBVIOUS
<1>3. AdvanceAll(s) = FoldLeft(Advance, s, w)
  BY <1>1, <1>2 DEF AdvanceAll
<1>4. N <= Len(s.missions)
  BY <1>1
<1>5. Stored(FoldLeft(Advance, s, w), mn) /\ Pumped(s, FoldLeft(Advance, s, w))
  BY <1>1, <1>2, <1>4, AdvanceSome
<1> QED
  BY <1>3, <1>5

\* What pump starts is a queued task, if there is one.
LEMMA NextIsQueued ==
    ASSUME NEW q, NEW n, NEW mn, TasksGood(q, n, mn), NextEligible(q) # None
    PROVE  \E i \in DOMAIN q : q[i].status = "queued" /\ q[i].id = NextEligible(q)
<1> DEFINE waiting == {i \in DOMAIN q : q[i].status = "queued"}
           First(i) == \A j \in waiting : \/ q[j].priority < q[i].priority
                                          \/ q[j].priority = q[i].priority /\ i <= j
           D == {5 - q[i].priority : i \in waiting}
<1>1. /\ waiting # {} /\ NextEligible(q) = q[CHOOSE i \in waiting : First(i)].id
  BY DEF NextEligible
<1>2. ASSUME NEW i \in waiting PROVE i \in Nat /\ q[i].priority \in 1 .. 5
  <2>1. i \in DOMAIN q /\ q[i] \in TaskRecords /\ DOMAIN q = 1..Len(q)
    BY DEF TasksGood
  <2> QED
    BY <2>1 DEF TaskRecords
<1>3. D \in SUBSET Nat /\ D # {}
  BY <1>1, <1>2
<1> HIDE DEF D
<1>4. PICK d \in D : \A x \in D : d <= x
  BY <1>3, LeastNumber
<1>5. PICK W : W = {i \in waiting : 5 - q[i].priority = d}
  OBVIOUS
<1>6. W \in SUBSET Nat /\ W # {}
  BY <1>2, <1>4, <1>5 DEF D
<1>7. PICK i \in W : \A j \in W : i <= j
  BY <1>6, LeastNumber
<1>8. i \in waiting /\ 5 - q[i].priority = d
  BY <1>5, <1>7
<1>9. First(i)
  <2> SUFFICES ASSUME NEW j \in waiting
               PROVE  \/ q[j].priority < q[i].priority
                      \/ q[j].priority = q[i].priority /\ i <= j
    OBVIOUS
  <2>1. d <= 5 - q[j].priority
    BY <1>4 DEF D
  <2>2. q[j].priority \in 1 .. 5 /\ q[i].priority \in 1 .. 5
    BY <1>2, <1>8
  <2>3. CASE 5 - q[j].priority = d
    <3>1. i <= j
      BY <1>5, <1>7, <2>3
    <3> QED
      BY <1>8, <2>2, <2>3, <3>1
  <2>4. CASE 5 - q[j].priority # d
    BY <1>8, <2>1, <2>2, <2>4
  <2> QED
    BY <2>3, <2>4
<1> HIDE DEF First
<1>10. (CHOOSE j \in waiting : First(j)) \in waiting
  BY <1>8, <1>9
<1> QED
  BY <1>1, <1>10

\* A live task is the only one behind its step, which waits for it.
LEMMA LiveIsBound ==
    ASSUME NEW q, NEW ms, NEW n, NEW mn, StoreGood(q, ms, n, mn), NEW i \in DOMAIN q, Live(q[i])
    PROVE  Bound(q, ms, q[i].id, StepOf(q[i]))
<1> SUFFICES ASSUME NEW a \in DOMAIN q, q[a].id = q[i].id
             PROVE  /\ StepOf(q[i]) = StepOf(q[a])
                    /\ \A k \in DOMAIN ms : q[a].mission = ms[k].id => Runs(ms[k], q[a].step)
                    /\ \A j \in DOMAIN q : Live(q[j]) /\ OneStep(q[a], q[j]) => a = j
  BY DEF Bound
<1>1. a = i
  BY DEF StoreGood, TasksGood
<1> QED
  BY <1>1 DEF StoreGood, Wanted, Single

\* When nothing runs nothing is bound: no task has None for its id.
LEMMA NoneIsBound ==
    ASSUME NEW q, NEW ms, NEW n, NEW mn, TasksGood(q, n, mn), NEW step
    PROVE  Bound(q, ms, None, step)
<1>1. \A i \in DOMAIN q : q[i].id \in Nat
  BY DEF TasksGood, TaskRecords
<1> QED
  BY <1>1, SchedulerAssumption DEF Bound

-----------------------------------------------------------------------------
(* The inductive invariant. *)

SchedulerInv ==
    /\ run = [task |-> running, step |-> run.step, phase |-> run.phase, stopped |-> run.stopped]
    /\ run.phase \in {"idle", "direct", "routing", "loop"} /\ run.stopped \in BOOLEAN
    /\ running # None => run.phase # "idle" /\ running \in 1 .. nextTask - 1
    /\ run.phase = "idle" => pending = 0
    /\ nextTask \in 1 .. MaxTaskIds + 1 /\ nextMission \in 1 .. MaxMissionIds + 1
    /\ pending \in 0 .. MaxPending
    /\ lastState \in {"ok", "error", "idle"} /\ evidence \subseteq StepNames
    /\ StoreGood(queue, missions, nextTask, nextMission)
    /\ OnlyRuns(queue, running) /\ Bound(queue, missions, running, run.step)

\* What a step may do to what was learned of the steps.
Learns ==
    /\ evidence' \ evidence \subseteq {run.step}
    /\ \A k \in DOMAIN missions, l \in DOMAIN missions' :
          missions[k].id = missions'[l].id =>
             /\ DOMAIN missions'[l].steps = DOMAIN missions[k].steps
             /\ \A j \in DOMAIN missions[k].steps :
                   /\ missions[k].steps[j].status = "completed"
                      => missions'[l].steps[j].status = "completed"
                   /\ missions'[l].steps[j].level = "VERIFIED"
                      => \/ missions[k].steps[j].level = "VERIFIED"
                         \/ /\ run.step = <<missions[k].id, j>>
                            /\ <<missions[k].id, j>> \in evidence'

\* A step at which the coordinator learns nothing.
LEMMA ProgressLearns ==
    ASSUME Progressed(missions, missions'), evidence' \subseteq evidence
    PROVE  Learns
  BY DEF Learns, Progressed, Ahead

\* A run begins, or a message waits.
LEMMA ProcessMessageKeeps ==
    ASSUME NEW id, NEW step, SchedulerInv, ProcessMessage(id, step)
    PROVE  /\ run'.phase \in {"direct", "routing", "loop"} /\ pending' \in 0 .. MaxPending
           /\ run.phase = "idle" =>
                /\ run' = [task |-> id, step |-> step, phase |-> run'.phase, stopped |-> run'.stopped]
                /\ run'.stopped \in BOOLEAN /\ pending' = pending
           /\ run.phase # "idle" => run' = run
<1>1. CASE run.phase = "idle"
  <2>1. run' \in RunsOf(id, step) /\ pending' = pending
    BY <1>1 DEF ProcessMessage
  <2>2. PICK p \in {"direct", "routing"} :
           run' = [task |-> id, step |-> step, phase |-> p, stopped |-> FALSE]
    BY <2>1 DEF RunsOf
  <2>3. run'.phase = p /\ run'.stopped = FALSE
    BY <2>2
  <2>4. pending' \in 0 .. MaxPending
    BY <2>1 DEF SchedulerInv
  <2> QED
    BY <1>1, <2>1, <2>2, <2>3, <2>4
<1>2. CASE run.phase # "idle"
  <2>1. /\ pending' = (IF pending < MaxPending THEN pending + 1 ELSE pending) /\ run' = run
    BY <1>2 DEF ProcessMessage
  <2>2. pending \in Nat /\ pending <= MaxPending /\ MaxPending \in Nat
    BY SchedulerAssumption DEF SchedulerInv
  <2> QED
    BY <1>2, <2>1, <2>2 DEF SchedulerInv
<1> QED
  BY <1>1, <1>2

\* A request that only changes the stores.
LEMMA StoreKeeps ==
    ASSUME SchedulerInv, NEW q, NEW ms, JustStore(q, ms), StoreGood(q, ms, nextTask, nextMission),
           OnlyRuns(q, running), Bound(q, ms, running, run.step), Progressed(missions, ms),
           evidence' \subseteq evidence
    PROVE  SchedulerInv' /\ Learns
<1>1. UNCHANGED <<nextTask, nextMission, running, lastState, run, pending>> /\ queue' = q /\ missions' = ms
  BY DEF JustStore
<1>2. SchedulerInv'
  BY <1>1 DEF SchedulerInv
<1> QED
  BY <1>1, <1>2, ProgressLearns

\* A request that leaves good stores, in which nothing else runs, and pumps.
LEMMA PumpKeeps ==
    ASSUME SchedulerInv, NEW q, NEW ms, NEW n \in Nat, n >= nextTask, PumpAfter(Stores(q, ms, n)),
           nextMission' \in 1 .. MaxMissionIds + 1, StoreGood(q, ms, n, nextMission'),
           OnlyRuns(q, running), Bound(q, ms, running, run.step), Progressed(missions, ms)
    PROVE  SchedulerInv' /\ Learns
<1>1. PICK s : s = Stores(q, ms, n)
  OBVIOUS
<1>2. s.queue = q /\ s.missions = ms /\ s.next = n /\ s = [queue |-> q, missions |-> ms, next |-> n]
  BY <1>1 DEF Stores
<1>3. nextTask \in Nat /\ nextTask >= 1 /\ n \in Nat \ {0}
  BY SchedulerAssumption DEF SchedulerInv
<1>4. s \in StoreTypes
  BY <1>2, <1>3 DEF StoreTypes, StoreGood, TasksGood, MissionsGood
<1>5. evidence' = evidence /\ nextTask' <= MaxTaskIds + 1
  BY DEF PumpAfter
<1>6. CASE ~PumpGoes(running, Busy)
  <2>1. /\ missions' = ms /\ nextTask' = n /\ queue' = q
        /\ UNCHANGED <<running, lastState, run, pending>>
    BY <1>1, <1>2, <1>6 DEF PumpAfter
  <2>2. nextTask' \in 1 .. MaxTaskIds + 1
    BY <1>3, <1>5, <2>1, SchedulerAssumption
  <2>3. running # None => running \in 1 .. nextTask' - 1
    BY <1>3, <2>1 DEF SchedulerInv
  <2>4. SchedulerInv'
    BY <1>5, <2>1, <2>2, <2>3 DEF SchedulerInv
  <2> QED
    BY <1>5, <2>1, <2>4, ProgressLearns
<1>7. CASE PumpGoes(running, Busy)
  <2>1. running = None /\ run.phase = "idle" /\ pending = 0
    BY <1>7, SchedulerAssumption DEF PumpGoes, Busy, SchedulerInv
  <2>2. PICK z : z = AdvanceAll(s)
    OBVIOUS
  <2>3. Stored(s, nextMission')
    BY <1>2, <1>4, <2>1 DEF Stored
  <2>4. Stored(z, nextMission') /\ Pumped(s, z)
    BY <2>2, <2>3, AdvanceAllKeeps
  <2>5. /\ StoreGood(z.queue, z.missions, z.next, nextMission') /\ OnlyRuns(z.queue, None)
        /\ z.next \in Nat \ {0} /\ n <= z.next /\ TasksGood(z.queue, z.next, nextMission')
        /\ MissionsGood(z.missions, nextMission')
    BY <1>2, <2>4 DEF Stored, Pumped, StoreTypes, StoreGood
  <2>6. Progressed(missions, z.missions)
    <3> SUFFICES ASSUME NEW k \in DOMAIN missions, NEW l \in DOMAIN z.missions, missions[k].id = z.missions[l].id
                 PROVE  Ahead(missions[k], z.missions[l])
      BY DEF Progressed
    <3>1. l \in DOMAIN ms /\ z.missions[l].id = ms[l].id /\ Ahead(ms[l], z.missions[l])
      BY <1>2, <2>4 DEF Pumped
    <3>2. Ahead(missions[k], ms[l])
      BY <3>1 DEF Progressed
    <3> QED
      BY <3>1, <3>2 DEF Ahead
  <2>7. missions' = z.missions /\ nextTask' = z.next
    BY <1>1, <1>7, <2>2 DEF PumpAfter
  <2>8. nextTask' \in 1 .. MaxTaskIds + 1
    BY <1>5, <2>5, <2>7, SchedulerAssumption
  <2>9. PICK id : id = NextEligible(z.queue)
    OBVIOUS
  <2>10. CASE id = None
    <3>1. queue' = z.queue /\ UNCHANGED <<running, lastState, run, pending>>
      BY <1>1, <1>7, <2>2, <2>9, <2>10 DEF PumpAfter
    <3>2. Bound(queue', missions', None, run.step)
      BY <2>5, <2>7, <3>1, NoneIsBound
    <3>3. SchedulerInv'
      BY <1>5, <2>1, <2>5, <2>7, <2>8, <3>1, <3>2 DEF SchedulerInv
    <3> QED
      BY <1>5, <2>6, <2>7, <3>3, ProgressLearns
  <2>11. CASE id # None
    <3>1. /\ queue' = MarkRunning(z.queue, id) /\ running' = id /\ lastState' = "ok"
          /\ ProcessMessage(id, StepOf(TaskOf(z.queue, id)))
      BY <1>1, <1>7, <2>2, <2>9, <2>11 DEF PumpAfter
    <3>2. PICK i \in DOMAIN z.queue : z.queue[i].status = "queued" /\ z.queue[i].id = id
      BY <2>5, <2>9, <2>11, NextIsQueued
    <3>3. Live(z.queue[i]) /\ TaskOf(z.queue, id) = z.queue[i]
      BY <2>5, <3>2, TaskIsAt DEF Live, LiveStatuses, QueueStatuses, TerminalStatuses
    <3>4. "running" \in QueueStatuses /\ \A j \in DOMAIN z.queue : z.queue[j].id = id => Live(z.queue[j])
      BY <2>5, <3>2, <3>3 DEF QueueStatuses, TasksGood
    <3>5. OnlyRuns(z.queue, id)
      BY <2>5, SchedulerAssumption DEF OnlyRuns, TasksGood, TaskRecords
    <3>6. Thins(queue', z.queue) /\ OnlyRuns(queue', id)
      BY <2>5, <3>1, <3>4, <3>5, MoveThins DEF MarkRunning
    <3>7. Bound(z.queue, z.missions, id, StepOf(z.queue[i]))
      BY <2>5, <3>2, <3>3, LiveIsBound
    <3>8. /\ StoreGood(queue', missions', nextTask', nextMission')
          /\ Bound(queue', missions', id, StepOf(z.queue[i]))
      BY <2>5, <2>7, <3>6, <3>7, ThinKeeps
    <3>9. /\ run' = [task |-> id, step |-> StepOf(z.queue[i]), phase |-> run'.phase, stopped |-> run'.stopped]
          /\ run'.phase \in {"direct", "routing", "loop"} /\ run'.stopped \in BOOLEAN
          /\ pending' = pending
      BY <2>1, <3>1, <3>3, ProcessMessageKeeps
    <3>10. run'.step = StepOf(z.queue[i])
      BY <3>9
    <3>11. id \in 1 .. nextTask' - 1
      BY <2>5, <2>7, <3>2 DEF TasksGood
    <3>12. pending' \in 0 .. MaxPending /\ lastState' \in {"ok", "error", "idle"} /\ evidence' \subseteq StepNames
      BY <1>5, <3>1, <3>9 DEF SchedulerInv
    <3>13. SchedulerInv'
      BY <2>8, <3>1, <3>6, <3>8, <3>9, <3>10, <3>11, <3>12 DEF SchedulerInv
    <3> QED
      BY <1>5, <2>6, <2>7, <3>13, ProgressLearns
  <2> QED
    BY <2>10, <2>11
<1> QED
  BY <1>6, <1>7

\* A new process on stores of which what runs, no more runs.
LEMMA StartKeeps ==
    ASSUME SchedulerInv, NEW q, NEW ms, NEW n \in 1 .. MaxTaskIds + 1, StartWith(q, ms, n),
           StoreGood(q, ms, n, nextMission), Progressed(missions, ms)
    PROVE  SchedulerInv' /\ Learns
<1>1. /\ queue' = LoadQueue(q) /\ missions' = LoadMissions(ms) /\ running' = None
      /\ lastState' = "idle" /\ evidence' = {} /\ run' = NoRun /\ pending' = 0
      /\ nextTask' = n /\ nextMission' = nextMission
  BY DEF StartWith
<1>2. TasksGood(q, n, nextMission) /\ MissionsGood(ms, nextMission)
  BY DEF StoreGood
<1>3. Thins(queue', q) /\ OnlyRuns(queue', None)
  BY <1>1, <1>2, LoadThins
<1>4. Kept(ms, missions')
  BY <1>1, <1>2, LoadKept
<1>5. StoreGood(queue', ms, n, nextMission)
  BY <1>3, ThinKeeps
<1>6. StoreGood(queue', missions', n, nextMission) /\ Progressed(ms, missions')
  BY <1>4, <1>5, KeptKeeps
<1>7. TasksGood(queue', n, nextMission)
  BY <1>6 DEF StoreGood
<1>8. Bound(queue', missions', None, run'.step)
  BY <1>7, NoneIsBound
<1>9. run' = [task |-> None, step |-> run'.step, phase |-> "idle", stopped |-> FALSE]
  BY <1>1 DEF NoRun
<1>10. SchedulerInv'
  <2>1. pending' \in 0 .. MaxPending /\ run'.phase = "idle" /\ run'.stopped = FALSE
    BY <1>1, <1>9, SchedulerAssumption
  <2>2. nextMission' \in 1 .. MaxMissionIds + 1
    BY <1>1 DEF SchedulerInv
  <2> QED
    BY <1>1, <1>3, <1>6, <1>8, <1>9, <2>1, <2>2 DEF SchedulerInv
<1>11. Progressed(missions, missions')
  <2> SUFFICES ASSUME NEW k \in DOMAIN missions, NEW l \in DOMAIN missions', missions[k].id = missions'[l].id
               PROVE  Ahead(missions[k], missions'[l])
    BY DEF Progressed
  <2>1. PICK j \in DOMAIN ms : Stays(ms[j], missions'[l])
    BY <1>4 DEF Kept
  <2>2. Ahead(missions[k], ms[j])
    BY <2>1 DEF Progressed, Stays
  <2> QED
    BY <2>1, <2>2 DEF Stays, Ahead
<1> QED
  BY <1>1, <1>10, <1>11, ProgressLearns

-----------------------------------------------------------------------------
(* The end of a run. *)

\* The end of a task: it is live no more, and nothing else changes.
LEMMA SettleTaskThins ==
    ASSUME NEW q, NEW n, NEW mn, TasksGood(q, n, mn), NEW id, NEW state, OnlyRuns(q, id)
    PROVE  LET e == SettleTask(q, id, state) IN
           /\ Thins(e, q) /\ OnlyRuns(e, None)
           /\ \A i \in DOMAIN e : e[i].id = id => ~Live(e[i])
<1>1. PICK from, to : /\ to \in {"failed", "cancelled", "completed"}
                      /\ from \in {LiveStatuses, QueueStatuses}
                      /\ SettleTask(q, id, state) = Move(q, id, from, to)
  BY DEF SettleTask, MarkFailed, CancelTask, MarkCompleted
<1>2. /\ to \in QueueStatuses /\ to \notin LiveStatuses /\ to # "running" /\ LiveStatuses \subseteq from
      /\ "running" \in LiveStatuses
  BY <1>1 DEF LiveStatuses, QueueStatuses, TerminalStatuses
<1>3. PICK e : e = Move(q, id, from, to)
  OBVIOUS
<1>4. Thins(e, q) /\ OnlyRuns(e, id)
  BY <1>2, <1>3, MoveThins
<1>5. ASSUME NEW i \in DOMAIN e, e[i].id = id PROVE ~Live(e[i])
  <2>1. i \in DOMAIN q /\ q[i] \in TaskRecords
    BY <1>3 DEF Move, TasksGood
  <2>2. CASE q[i].id = id /\ q[i].status \in from
    <3>1. e[i] = [q[i] EXCEPT !.status = to]
      BY <1>3, <2>1, <2>2 DEF Move
    <3>2. e[i].status = to
      BY <2>1, <3>1 DEF TaskRecords
    <3> QED
      BY <1>2, <3>2 DEF Live
  <2>3. CASE ~(q[i].id = id /\ q[i].status \in from)
    <3>1. e[i] = q[i]
      BY <1>3, <2>1, <2>3 DEF Move
    <3> QED
      BY <1>2, <1>5, <2>3, <3>1 DEF Live
  <2> QED
    BY <2>2, <2>3
<1>6. OnlyRuns(e, None)
  BY <1>2, <1>4, <1>5 DEF OnlyRuns, Live
<1> QED
  BY <1>1, <1>3, <1>4, <1>5, <1>6

\* The end of a step: the others stay, and the mission is good with it.
LEMMA SettleStepKeeps ==
    ASSUME NEW m, MissionGood(m), NEW k, Runs(m, k), NEW success,
           NEW level \in {"VERIFIED", "NONE"}, NEW n, n = SettleStep(m, k, success, level)
    PROVE  /\ MissionGood(n) /\ n.id = m.id /\ DOMAIN n.steps = DOMAIN m.steps
           /\ \A j \in DOMAIN m.steps : j # k => n.steps[j] = m.steps[j]
           /\ n.steps[k].level \in {m.steps[k].level, level}
<1>1. PICK L \in Nat \ {0} : DOMAIN m.steps = 1..L /\ m.steps \in [1..L -> StepTypes]
  BY StepLengths DEF MissionGood
<1>2. /\ m \in MissionRecords /\ k \in DOMAIN m.steps /\ m.steps[k] \in StepTypes
      /\ m.steps[k].status = "running" /\ m.status \in MissionStatuses
  BY <1>1 DEF Runs, MissionGood, MissionRecords
<1>3. PICK x : x = IF success THEN [status |-> "completed", level |-> level]
                              ELSE [m.steps[k] EXCEPT !.status = "failed"]
  OBVIOUS
<1>4. x \in StepTypes /\ x.status \in {"completed", "failed"} /\ x.level \in {m.steps[k].level, level}
  BY <1>2, <1>3 DEF StepTypes, StepStatuses
<1>5. PICK f : f = [m.steps EXCEPT ![k] = x]
  OBVIOUS
<1>6. /\ f \in [DOMAIN m.steps -> StepTypes] /\ f[k] = x /\ DOMAIN f = DOMAIN m.steps
      /\ \A j \in DOMAIN m.steps : j # k => f[j] = m.steps[j]
  BY <1>1, <1>2, <1>4, <1>5
<1>7. PICK s : s = [m EXCEPT !.steps = f]
  OBVIOUS
<1>8. s = [id |-> m.id, priority |-> m.priority, status |-> m.status, steps |-> f]
  BY <1>2, <1>7 DEF MissionRecords
<1>9. s \in MissionRecords /\ s.id = m.id /\ s.status = m.status /\ s.steps = f
  BY <1>2, <1>6, <1>8, OtherSteps
<1>10. PICK left : left = StepsIn(s, "pending") \cup StepsIn(s, "running")
  OBVIOUS
<1>11. n = SettleStep(m, k, success, level)
  OBVIOUS
<1>12. n = IF left = {} THEN [s EXCEPT !.status = Verdict(s)] ELSE s
  BY <1>3, <1>5, <1>7, <1>10, <1>11 DEF SettleStep
<1>13. CASE left # {}
  <2>1. n = s
    BY <1>12, <1>13
  <2>2. m.status # "completed"
    BY <1>2 DEF MissionGood, StepsIn
  <2>3. MissionGood(n)
    BY <1>9, <1>10, <1>13, <2>1, <2>2 DEF MissionGood
  <2> QED
    BY <1>4, <1>6, <1>9, <1>11, <2>1, <2>3
<1>14. CASE left = {}
  <2>1. PICK v : v = Verdict(s)
    OBVIOUS
  <2>2. v \in {"failed", "completed"} /\ (v = "completed" => StepsIn(s, "failed") = {})
    BY <2>1 DEF Verdict
  <2>3. v \in MissionStatuses /\ v \in MissionTerminal
    BY <2>2 DEF MissionStatuses, MissionTerminal
  <2>4. n = [id |-> m.id, priority |-> m.priority, status |-> v, steps |-> f]
    <3>1. n = [s EXCEPT !.status = v]
      BY <1>12, <1>14, <2>1
    <3>2. PICK i, p, st : i = m.id /\ p = m.priority /\ st = m.status
      OBVIOUS
    <3>3. s = [id |-> i, priority |-> p, status |-> st, steps |-> f]
      BY <1>8, <3>2
    <3>4. n = [id |-> i, priority |-> p, status |-> v, steps |-> f]
      BY ONLY <3>1, <3>3
    <3> QED
      BY <3>2, <3>4
  <2>5. n \in MissionRecords /\ n.id = m.id /\ n.status = v /\ n.steps = f
    BY <1>2, <1>6, <2>3, <2>4, OtherSteps
  <2>6. v = "completed" => StepsIn(n, "completed") = DOMAIN n.steps
    <3> SUFFICES ASSUME v = "completed", NEW j \in DOMAIN f PROVE f[j].status = "completed"
      BY <2>5 DEF StepsIn
    <3>1. f[j].status \in StepStatuses
      BY <1>6 DEF StepTypes
    <3>2. f[j].status \notin {"pending", "running", "failed"}
      BY <1>9, <1>10, <1>14, <2>2 DEF StepsIn
    <3> QED
      BY <3>1, <3>2 DEF StepStatuses
  <2>7. MissionGood(n)
    BY <2>3, <2>5, <2>6 DEF MissionGood
  <2> QED
    BY <1>4, <1>6, <1>11, <2>5, <2>7
<1> QED
  BY <1>13, <1>14

\* What a run was begun for is what the queue has of its task.
LEMMA BoundStepIs ==
    ASSUME SchedulerInv
    PROVE  \/ BoundStep = NoStep
           \/ \E i \in DOMAIN queue :
                /\ queue[i].id = running /\ running # None
                /\ BoundStep = StepOf(queue[i]) /\ run.step = BoundStep
                /\ queue[i].mission = None \/ BoundStep \in StepNames
<1>1. CASE ~(running # None /\ HasTask(queue, running))
  BY <1>1 DEF BoundStep
<1>2. CASE running # None /\ HasTask(queue, running)
  <2>1. PICK i \in DOMAIN queue : queue[i].id = running
    BY <1>2 DEF HasTask
  <2>2. TasksGood(queue, nextTask, nextMission) /\ Bound(queue, missions, running, run.step)
    BY DEF SchedulerInv, StoreGood
  <2>3. BoundStep = StepOf(queue[i])
    BY <1>2, <2>1, <2>2, TaskIsAt DEF BoundStep
  <2>4. run.step = StepOf(queue[i])
    BY <2>1, <2>2 DEF Bound
  <2>5. queue[i].mission # None => BoundStep \in StepNames
    <3> SUFFICES ASSUME queue[i].mission # None PROVE StepOf(queue[i]) \in StepNames
      BY <2>3
    <3>1. queue[i].mission \in 1 .. nextMission - 1 /\ queue[i].step # 0 /\ queue[i] \in TaskRecords
      BY <2>2 DEF TasksGood
    <3>2. queue[i].step \in 1 .. MaxSteps
      BY <3>1, SchedulerAssumption DEF TaskRecords
    <3>3. queue[i].mission \in 1 .. MaxMissionIds
      BY <3>1, SchedulerAssumption DEF SchedulerInv
    <3> QED
      BY <3>2, <3>3 DEF StepOf, StepNames
  <2> QED
    BY <1>2, <2>1, <2>3, <2>4, <2>5
<1> QED
  BY <1>1, <1>2

\* What the coordinator learns is of the step of the run.
LEMMA IngestedIs ==
    ASSUME SchedulerInv, NEW result
    PROVE  /\ Ingested(result) \subseteq StepNames
           /\ Ingested(result) \ evidence \subseteq {run.step}
<1>1. evidence \subseteq StepNames
  BY DEF SchedulerInv
<1>2. CASE result = "VERIFIED" /\ BoundStep # NoStep
  <2>1. PICK i \in DOMAIN queue : /\ BoundStep = StepOf(queue[i]) /\ run.step = BoundStep
                                  /\ queue[i].mission = None \/ BoundStep \in StepNames
    BY <1>2, BoundStepIs
  <2>2. queue[i].mission # None
    BY <1>2, <2>1 DEF SchedulerInv, StoreGood, TasksGood, StepOf, NoStep
  <2>3. Ingested(result) = evidence \cup {BoundStep}
    BY <1>2 DEF Ingested
  <2> QED
    BY <1>1, <2>1, <2>2, <2>3
<1>3. CASE ~(result = "VERIFIED" /\ BoundStep # NoStep)
  <2>1. Ingested(result) \subseteq evidence
    BY <1>3 DEF Ingested
  <2> QED
    BY <1>1, <2>1
<1> QED
  BY <1>2, <1>3

\* The end of a run settles its task and its task's step, and no other.
LEMMA FinishStores ==
    ASSUME SchedulerInv, NEW state \in {"ok", "error", "idle"}, NEW result, FinishRun(state, result)
    PROVE  /\ StoreGood(queue', missions', nextTask, nextMission) /\ OnlyRuns(queue', None)
           /\ Learns
<1>1. /\ queue' = IF running = None THEN queue ELSE SettleTask(queue, running, state)
      /\ missions' = SettleMission(missions, state, evidence') /\ evidence' = Ingested(result)
  BY DEF FinishRun
<1>2. /\ StoreGood(queue, missions, nextTask, nextMission) /\ OnlyRuns(queue, running)
      /\ TasksGood(queue, nextTask, nextMission) /\ MissionsGood(missions, nextMission)
      /\ Bound(queue, missions, running, run.step)
  BY DEF SchedulerInv, StoreGood
<1>3. /\ Thins(queue', queue) /\ OnlyRuns(queue', None)
      /\ running # None => \A i \in DOMAIN queue' : queue'[i].id = running => ~Live(queue'[i])
  <2>1. CASE running = None
    <3>1. queue' = queue
      BY <1>1, <2>1
    <3>2. Thins(queue, queue)
      BY <1>2 DEF Thins, TasksGood, SameTask
    <3> QED
      BY <1>2, <2>1, <3>1, <3>2
  <2>2. CASE running # None
    <3>1. queue' = SettleTask(queue, running, state)
      BY <1>1, <2>2
    <3> QED
      BY <1>2, <3>1, SettleTaskThins
  <2> QED
    BY <2>1, <2>2
<1>4. StoreGood(queue', missions, nextTask, nextMission)
  BY <1>2, <1>3, ThinKeeps
<1>5. evidence' \ evidence \subseteq {run.step}
  BY <1>1, IngestedIs
<1>6. CASE missions' = missions
  <2>1. Progressed(missions, missions')
    BY <1>2, <1>6 DEF Progressed, Ahead, MissionsGood
  <2>2. Learns
    BY <1>5, <2>1 DEF Learns, Progressed, Ahead
  <2> QED
    BY <1>3, <1>4, <1>6, <2>2
<1>7. CASE missions' # missions
  <2>1. BoundStep[1] # None /\ HasMission(missions, BoundStep[1])
    BY <1>1, <1>7 DEF SettleMission
  <2>2. PICK i \in DOMAIN queue : /\ queue[i].id = running /\ running # None
                                  /\ BoundStep = StepOf(queue[i]) /\ run.step = BoundStep
    BY <2>1, BoundStepIs DEF NoStep
  <2>3. PICK k \in DOMAIN missions : missions[k].id = queue[i].mission
    BY <2>1, <2>2 DEF StepOf, HasMission
  <2>4. PICK j : j = queue[i].step
    OBVIOUS
  <2>5. PICK m : m = missions[k]
    OBVIOUS
  <2>6. Runs(m, j) /\ MissionGood(m) /\ MissionOf(missions, BoundStep[1]) = m
    BY <1>2, <2>2, <2>3, <2>4, <2>5, MissionIsAt DEF Bound, MissionsGood, StepOf
  <2>7. PICK level : level = LevelOf(BoundStep, evidence')
    OBVIOUS
  <2>8. level \in {"VERIFIED", "NONE"} /\ (level = "VERIFIED" => BoundStep \in evidence')
    BY <2>7 DEF LevelOf
  <2>9. PICK n : /\ missions' = Put(missions, n)
                 /\ MissionGood(n) /\ n.id = m.id /\ DOMAIN n.steps = DOMAIN m.steps
                 /\ \A l \in DOMAIN m.steps : l # j => n.steps[l] = m.steps[l]
                 /\ n.steps[j].level \in {m.steps[j].level, level}
    <3>1. PICK good : good = (state = "ok")
      OBVIOUS
    <3>2. PICK n : n = SettleStep(m, j, good, level)
      OBVIOUS
    <3>3. MissionGood(m) /\ Runs(m, j)
      BY <2>6
    <3>4. /\ MissionGood(n) /\ n.id = m.id /\ DOMAIN n.steps = DOMAIN m.steps
          /\ \A l \in DOMAIN m.steps : l # j => n.steps[l] = m.steps[l]
          /\ n.steps[j].level \in {m.steps[j].level, level}
      BY ONLY <2>8, <3>2, <3>3, SettleStepKeeps
    <3>5. BoundStep[2] = j
      BY <2>2, <2>4 DEF StepOf
    <3>6. SettleMission(missions, state, evidence')
            = Put(missions, SettleStep(MissionOf(missions, BoundStep[1]), BoundStep[2], state = "ok",
                                       LevelOf(BoundStep, evidence')))
      BY <2>1, Zenon DEF SettleMission
    <3>7. missions' = Put(missions, n)
      BY <1>1, <2>6, <2>7, <3>1, <3>2, <3>5, <3>6, Zenon
    <3> QED
      BY <3>4, <3>7
  <2>10. missions' = Put(missions, n)
    BY <2>9
  <2>11. /\ DOMAIN missions' = DOMAIN missions /\ missions'[k] = n
         /\ \A l \in DOMAIN missions : l # k => missions'[l] = missions[l]
    BY <1>2, <2>3, <2>5, <2>9, <2>10 DEF Put, MissionsGood
  <2>12. MissionsGood(missions', nextMission)
    <3>1. Len(missions) \in Nat /\ DOMAIN missions = 1..Len(missions)
      BY <1>2 DEF MissionsGood
    <3>2. \A l \in DOMAIN missions : missions'[l] \in MissionRecords
      BY <1>2, <2>9, <2>11 DEF MissionsGood, MissionGood
    <3>3. missions' = [l \in 1..Len(missions) |-> missions'[l]]
      BY <2>10, <3>1 DEF Put
    <3>4. missions' \in [1..Len(missions) -> MissionRecords]
      BY <3>1, <3>2, <3>3
    <3>5. missions' \in Seq(MissionRecords)
      BY <3>1, <3>4
    <3> QED
      BY <1>2, <2>5, <2>9, <2>11, <3>5 DEF MissionsGood
  <2>13. Wanted(queue', missions')
    <3> SUFFICES ASSUME NEW a \in DOMAIN queue', NEW l \in DOMAIN missions', Live(queue'[a]),
                        queue'[a].mission = missions'[l].id
                 PROVE  Runs(missions'[l], queue'[a].step)
      BY DEF Wanted
    <3>1. missions'[l].id = missions[l].id /\ l \in DOMAIN missions
      BY <2>5, <2>9, <2>11
    <3>2. Runs(missions[l], queue'[a].step)
      BY <1>4, <3>1 DEF StoreGood, Wanted
    <3>3. CASE l # k
      BY <2>11, <3>2, <3>3
    <3>4. CASE l = k
      <4>1. PICK b \in DOMAIN queue : SameTask(queue'[a], queue[b])
        BY <1>3 DEF Thins
      <4>2. queue[b].id # running
        BY <1>3, <2>2, <4>1 DEF SameTask
      <4>3. queue'[a].step # j
        <5> SUFFICES ASSUME queue'[a].step = j PROVE FALSE
          OBVIOUS
        <5>1. queue[i].mission # None
          BY <2>1, <2>2 DEF StepOf
        <5>2. Live(queue[b]) /\ OneStep(queue[i], queue[b])
          BY <2>3, <2>4, <3>1, <3>4, <4>1, <5>1 DEF SameTask, OneStep
        <5>3. i = b
          BY <1>2, <2>2, <5>2 DEF Bound
        <5> QED
          BY <2>2, <4>2, <5>3
      <4> QED
        BY <2>5, <2>9, <2>11, <3>2, <3>4, <4>3 DEF Runs
    <3> QED
      BY <3>3, <3>4
  <2>14. StoreGood(queue', missions', nextTask, nextMission)
    BY <1>4, <2>12, <2>13 DEF StoreGood
  <2>15. ASSUME NEW a \in DOMAIN missions, NEW l \in DOMAIN missions', missions[a].id = missions'[l].id
         PROVE  /\ DOMAIN missions'[l].steps = DOMAIN missions[a].steps
                /\ \A c \in DOMAIN missions[a].steps :
                      /\ missions[a].steps[c].status = "completed"
                         => missions'[l].steps[c].status = "completed"
                      /\ missions'[l].steps[c].level = "VERIFIED"
                         => \/ missions[a].steps[c].level = "VERIFIED"
                            \/ /\ run.step = <<missions[a].id, c>>
                               /\ <<missions[a].id, c>> \in evidence'
    <3>1. a = l
      <4>1. missions'[l].id = missions[l].id
        BY <2>5, <2>9, <2>11
      <4> QED
        BY <1>2, <2>11, <2>15, <4>1 DEF MissionsGood
    <3>2. CASE l # k
      BY <2>11, <3>1, <3>2
    <3>3. CASE l = k
      <4>1. missions'[l] = n /\ missions[a] = m
        BY <2>5, <2>11, <3>1, <3>3
      <4>2. ASSUME NEW c \in DOMAIN m.steps
            PROVE  /\ m.steps[c].status = "completed" => n.steps[c].status = "completed"
                   /\ n.steps[c].level = "VERIFIED"
                      => m.steps[c].level = "VERIFIED" \/ (c = j /\ level = "VERIFIED")
        BY <2>6, <2>9 DEF Runs
      <4>3. <<m.id, j>> = BoundStep /\ run.step = BoundStep
        BY <2>2, <2>3, <2>4, <2>5 DEF StepOf
      <4>4. level = "VERIFIED" => BoundStep \in evidence'
        BY <2>8
      <4>5. DOMAIN n.steps = DOMAIN m.steps
        BY <2>9
      <4>6. ASSUME NEW c \in DOMAIN m.steps
            PROVE  /\ m.steps[c].status = "completed" => n.steps[c].status = "completed"
                   /\ n.steps[c].level = "VERIFIED"
                      => \/ m.steps[c].level = "VERIFIED"
                         \/ run.step = <<m.id, c>> /\ <<m.id, c>> \in evidence'
        <5> HIDE <4>1, <2>2, <2>7, <2>9
        <5> QED
          BY <4>2, <4>3, <4>4
      <4> QED
        BY ONLY <4>1, <4>5, <4>6
    <3> QED
      BY <3>2, <3>3
  <2>16. Learns
    BY <1>5, <2>15 DEF Learns
  <2> QED
    BY <1>3, <2>14, <2>16
<1> QED
  BY <1>6, <1>7

\* The end of a run, whole.
LEMMA FinishKeeps ==
    ASSUME SchedulerInv, NEW state \in {"ok", "error", "idle"}, NEW result, FinishRun(state, result)
    PROVE  SchedulerInv' /\ Learns
<1>1. /\ StoreGood(queue', missions', nextTask, nextMission) /\ OnlyRuns(queue', None) /\ Learns
  BY FinishStores
<1>2. /\ running' = None /\ evidence' = Ingested(result) /\ lastState' = "idle" /\ Release
      /\ UNCHANGED <<nextTask, nextMission>>
  BY DEF FinishRun
<1>3. evidence' \subseteq StepNames
  BY <1>2, IngestedIs
<1>4. TasksGood(queue', nextTask, nextMission)
  BY <1>1 DEF StoreGood
<1>5. Bound(queue', missions', None, run'.step)
  BY <1>4, NoneIsBound
<1>6. /\ run' = [task |-> None, step |-> run'.step, phase |-> run'.phase, stopped |-> FALSE]
      /\ run'.phase \in {"idle", "direct", "routing"} /\ run'.stopped = FALSE
      /\ pending' \in 0 .. MaxPending /\ (run'.phase = "idle" => pending' = 0)
  <2>1. pending \in 0 .. MaxPending
    BY DEF SchedulerInv
  <2>2. CASE pending = 0
    <3>1. run' = NoRun /\ pending' = pending
      BY <1>2, <2>2 DEF Release
    <3> QED
      BY <2>1, <2>2, <3>1 DEF NoRun
  <2>3. CASE pending # 0
    <3>1. run' \in RunsOf(None, NoStep) /\ pending' = pending - 1
      BY <1>2, <2>3 DEF Release
    <3>2. PICK p \in {"direct", "routing"} :
             run' = [task |-> None, step |-> NoStep, phase |-> p, stopped |-> FALSE]
      BY <3>1 DEF RunsOf
    <3>3. run'.phase = p /\ run'.stopped = FALSE /\ run'.step = NoStep
      BY <3>2
    <3>4. pending' \in 0 .. MaxPending
      BY <2>1, <2>3, <3>1, SchedulerAssumption
    <3> QED
      BY <3>2, <3>3, <3>4
  <2> QED
    BY <2>2, <2>3
<1>7. SchedulerInv'
  BY <1>1, <1>2, <1>3, <1>5, <1>6 DEF SchedulerInv
<1> QED
  BY <1>1, <1>7
-----------------------------------------------------------------------------
(* The requests. *)

\* A mission is created, with a number that no task bears; the oldest may go.
LEMMA CreateKeeps ==
    ASSUME NEW q, NEW ms, NEW n, NEW mn \in Nat \ {0}, StoreGood(q, ms, n, mn),
           NEW p \in 1 .. 5, NEW c \in 1 .. MaxSteps
    PROVE  LET ns == CreateMission(ms, mn, p, c) IN
           /\ StoreGood(q, ns, n, mn + 1) /\ Progressed(ms, ns)
           /\ \A id, step : Bound(q, ms, id, step) => Bound(q, ns, id, step)
<1>1. TasksGood(q, n, mn) /\ MissionsGood(ms, mn) /\ Single(q) /\ Wanted(q, ms)
  BY DEF StoreGood
<1>2. PICK f : f = [k \in 1 .. c |-> [status |-> "pending", level |-> "NONE"]]
  OBVIOUS
<1>3. PICK m : m = [id |-> mn, priority |-> p, status |-> "queued", steps |-> f]
  OBVIOUS
<1>4. f \in StepLists /\ DOMAIN f = 1 .. c /\ \A k \in 1 .. c : f[k].status = "pending"
  <2>1. f \in [1 .. c -> StepTypes]
    BY <1>2 DEF StepTypes, StepStatuses
  <2> QED
    BY <1>2, <2>1 DEF StepLists
<1>5. m.id = mn /\ m.status = "queued" /\ m.steps = f /\ m \in MissionRecords
  BY <1>3, <1>4 DEF MissionRecords, MissionStatuses
<1>6. MissionGood(m)
  <2>1. 1 \in StepsIn(m, "pending")
    BY <1>4, <1>5, SchedulerAssumption DEF StepsIn
  <2> QED
    BY <1>5, <2>1 DEF MissionGood
<1>7. PICK all : all = Append(ms, m)
  OBVIOUS
<1>8. ms \in Seq(MissionRecords) /\ Len(ms) \in Nat /\ DOMAIN ms = 1 .. Len(ms)
  BY <1>1 DEF MissionsGood
<1>9. /\ all \in Seq(MissionRecords) /\ Len(all) = Len(ms) + 1 /\ DOMAIN all = 1 .. Len(ms) + 1
      /\ \A k \in DOMAIN ms : all[k] = ms[k]
      /\ all[Len(ms) + 1] = m
  BY <1>5, <1>7, <1>8, AppendProperties
<1>10. PICK ns : ns = CreateMission(ms, mn, p, c)
  OBVIOUS
<1>11. ns = all \/ ns = Tail(all)
  BY <1>2, <1>3, <1>7, <1>10 DEF CreateMission
<1>12. PICK d \in {0, 1} : /\ ns \in Seq(MissionRecords) /\ DOMAIN ns = 1 .. (Len(ms) + 1 - d)
                           /\ \A k \in DOMAIN ns : ns[k] = all[k + d]
  <2>1. CASE ns = all
    <3>1. \A k \in DOMAIN ns : k + 0 = k
      BY <1>8, <1>9, <2>1
    <3>2. Len(ms) + 1 - 0 = Len(ms) + 1
      BY <1>8
    <3>3. \A k \in DOMAIN ns : ns[k] = all[k + 0]
      BY <2>1, <3>1
    <3> QED
      BY <1>9, <2>1, <3>2, <3>3
  <2>2. CASE ns = Tail(all)
    <3>1. all # <<>>
      BY <1>8, <1>9
    <3>2. ns \in Seq(MissionRecords) /\ Len(ns) = Len(ms) /\ \A k \in 1 .. Len(ns) : ns[k] = all[k + 1]
      BY <1>8, <1>9, <2>2, <3>1, HeadTailProperties
    <3>3. DOMAIN ns = 1 .. Len(ms) /\ Len(ms) + 1 - 1 = Len(ms)
      BY <1>8, <3>2, LenProperties
    <3> QED
      BY <3>2, <3>3
  <2> QED
    BY <1>11, <2>1, <2>2
<1>13. \A k \in DOMAIN ns : \/ ns[k] = m /\ k + d = Len(ms) + 1
                            \/ k + d \in DOMAIN ms /\ ns[k] = ms[k + d]
  <2> SUFFICES ASSUME NEW k \in DOMAIN ns
               PROVE  \/ ns[k] = m /\ k + d = Len(ms) + 1
                      \/ k + d \in DOMAIN ms /\ ns[k] = ms[k + d]
    OBVIOUS
  <2>1. k + d \in 1 .. Len(ms) + 1 /\ ns[k] = all[k + d]
    BY <1>8, <1>12
  <2>2. CASE k + d = Len(ms) + 1
    BY <1>9, <2>1, <2>2
  <2>3. CASE k + d # Len(ms) + 1
    <3>1. k + d \in DOMAIN ms
      BY <1>8, <2>1, <2>3
    <3> QED
      BY <1>9, <2>1, <3>1
  <2> QED
    BY <2>2, <2>3
<1>14. MissionsGood(ns, mn + 1)
  <2>1. \A k \in DOMAIN ns : MissionGood(ns[k]) /\ ns[k].id \in 1 .. mn
    BY <1>1, <1>5, <1>6, <1>13 DEF MissionsGood
  <2>2. ASSUME NEW k \in DOMAIN ns, NEW l \in DOMAIN ns, ns[k].id = ns[l].id
        PROVE  k = l
    <3>1. \A i \in DOMAIN ms : ms[i].id # mn
      BY <1>1 DEF MissionsGood
    <3>2. k + d = l + d
      BY <1>1, <1>5, <1>13, <2>2, <3>1 DEF MissionsGood
    <3> QED
      BY <1>8, <1>12, <3>2
  <2>3. mn + 1 - 1 = mn
    OBVIOUS
  <2> QED
    BY <1>12, <2>1, <2>2, <2>3 DEF MissionsGood
<1>15. TasksGood(q, n, mn + 1)
  BY <1>1 DEF TasksGood
<1>16. ASSUME NEW i \in DOMAIN q, NEW k \in DOMAIN ns, q[i].mission = ns[k].id
       PROVE  \E l \in DOMAIN ms : ns[k] = ms[l]
  <2>1. q[i].mission # mn
    BY <1>1, SchedulerAssumption DEF TasksGood
  <2> QED
    BY <1>5, <1>13, <1>16, <2>1
<1>17. Wanted(q, ns)
  BY <1>1, <1>16 DEF Wanted
<1>18. StoreGood(q, ns, n, mn + 1)
  BY <1>1, <1>14, <1>15, <1>17 DEF StoreGood
<1>19. Progressed(ms, ns)
  <2> SUFFICES ASSUME NEW k \in DOMAIN ms, NEW l \in DOMAIN ns, ms[k].id = ns[l].id
               PROVE  Ahead(ms[k], ns[l])
    BY DEF Progressed
  <2>1. ms[k].id # mn
    BY <1>1 DEF MissionsGood
  <2>2. ns[l] = ms[k]
    BY <1>1, <1>5, <1>13, <2>1 DEF MissionsGood
  <2> QED
    BY <2>2 DEF Ahead
<1>20. ASSUME NEW id, NEW step, Bound(q, ms, id, step) PROVE Bound(q, ns, id, step)
  BY <1>16, <1>20 DEF Bound
<1> QED
  BY <1>10, <1>18, <1>19, <1>20

\* The tasks of a mission that still wait or run are cancelled.
LEMMA CancelTasksThins ==
    ASSUME NEW q, NEW n, NEW mn, TasksGood(q, n, mn), NEW id
    PROVE  /\ Thins(CancelTasksOf(q, id), q)
           /\ \A r : OnlyRuns(q, r) => OnlyRuns(CancelTasksOf(q, id), r)
<1>1. PICK e : e = CancelTasksOf(q, id)
  OBVIOUS
<1>2. DOMAIN e = DOMAIN q /\ e = [i \in DOMAIN q |-> e[i]]
  BY <1>1 DEF CancelTasksOf
<1>3. ASSUME NEW i \in DOMAIN q
      PROVE  /\ e[i] \in TaskRecords /\ SameTask(e[i], q[i])
             /\ e[i].status = "running" => q[i].status = "running"
  <2>1. q[i] \in TaskRecords
    BY ElementOfSeq DEF TasksGood
  <2>2. e[i] = q[i] \/ e[i] = [q[i] EXCEPT !.status = "cancelled"]
    BY <1>1 DEF CancelTasksOf
  <2>3. CASE e[i] = q[i]
    BY <2>1, <2>3 DEF SameTask
  <2>4. CASE e[i] = [q[i] EXCEPT !.status = "cancelled"]
    <3>1. e[i] = [id |-> q[i].id, priority |-> q[i].priority, status |-> "cancelled",
                  mission |-> q[i].mission, step |-> q[i].step]
      BY <2>1, <2>4 DEF TaskRecords
    <3>2. e[i] \in TaskRecords
      BY <2>1, <3>1 DEF TaskRecords, QueueStatuses
    <3> QED
      BY <3>1, <3>2 DEF SameTask, Live, LiveStatuses, TerminalStatuses
  <2> QED
    BY <2>2, <2>3, <2>4
<1>4. Thins(e, q)
  BY <1>2, <1>3, MapThins
<1>5. ASSUME NEW r, OnlyRuns(q, r) PROVE OnlyRuns(e, r)
  BY <1>2, <1>3, <1>5 DEF OnlyRuns, SameTask
<1> QED
  BY <1>1, <1>4, <1>5

\* The facts about the stores that the requests need.
LEMMA QueueMeans ==
    ASSUME SchedulerInv
    PROVE  /\ StoreGood(queue, missions, nextTask, nextMission) /\ OnlyRuns(queue, running)
           /\ Bound(queue, missions, running, run.step) /\ Progressed(missions, missions)
           /\ TasksGood(queue, nextTask, nextMission) /\ MissionsGood(missions, nextMission)
           /\ nextTask \in Nat \ {0} /\ nextMission \in Nat \ {0} /\ nextTask >= nextTask
           /\ nextMission \in 1 .. MaxMissionIds + 1 /\ nextTask \in 1 .. MaxTaskIds + 1
<1>1. MissionsGood(missions, nextMission)
  BY DEF SchedulerInv, StoreGood
<1>2. Progressed(missions, missions)
  BY <1>1 DEF MissionsGood, Progressed, Ahead
<1>3. nextTask \in Nat \ {0} /\ nextMission \in Nat \ {0} /\ nextTask >= nextTask
  BY SchedulerAssumption DEF SchedulerInv
<1> QED
  BY <1>1, <1>2, <1>3 DEF SchedulerInv, StoreGood

\* A request for one mission that goes on from it.
LEMMA ReplacedKept ==
    ASSUME SchedulerInv, NEW id, HasMission(missions, id), NEW m,
           MissionGood(MissionOf(missions, id)) => Stays(MissionOf(missions, id), m)
    PROVE  Kept(missions, Put(missions, m))
<1>1. MissionsGood(missions, nextMission)
  BY QueueMeans
<1>2. PICK k \in DOMAIN missions : missions[k].id = id
  BY DEF HasMission
<1>3. MissionOf(missions, id) = missions[k]
  BY <1>1, <1>2, MissionIsAt
<1>4. Stays(missions[k], m)
  BY <1>1, <1>3 DEF MissionsGood
<1> QED
  BY <1>1, <1>4, PutKept

\* A request that only changes the queue, to one without tasks of its own.
LEMMA ThinRequestKeeps ==
    ASSUME SchedulerInv, NEW q, JustStore(q, missions), evidence' = evidence,
           Thins(q, queue), OnlyRuns(q, running)
    PROVE  SchedulerInv' /\ Learns
<1>1. evidence' \subseteq evidence
  OBVIOUS
<1>2. /\ StoreGood(q, missions, nextTask, nextMission)
      /\ Bound(q, missions, running, run.step)
  BY QueueMeans, ThinKeeps
<1>3. Progressed(missions, missions)
  BY QueueMeans
<1> QED
  BY <1>1, <1>2, <1>3, StoreKeeps

\* A request that only changes the missions, each of which goes on.
LEMMA KeptRequestKeeps ==
    ASSUME SchedulerInv, NEW ms, JustStore(queue, ms), evidence' \subseteq evidence,
           Kept(missions, ms)
    PROVE  SchedulerInv' /\ Learns
<1>1. /\ StoreGood(queue, ms, nextTask, nextMission) /\ Progressed(missions, ms)
      /\ Bound(queue, ms, running, run.step)
  BY QueueMeans, KeptKeeps
<1>2. OnlyRuns(queue, running)
  BY QueueMeans
<1> QED
  BY <1>1, <1>2, StoreKeeps

\* ... and then pumps.
LEMMA KeptPumpKeeps ==
    ASSUME SchedulerInv, NEW ms, PumpAfter(Stores(queue, ms, nextTask)),
           nextMission' = nextMission, Kept(missions, ms)
    PROVE  SchedulerInv' /\ Learns
<1>1. /\ StoreGood(queue, ms, nextTask, nextMission) /\ Progressed(missions, ms)
      /\ Bound(queue, ms, running, run.step)
  BY QueueMeans, KeptKeeps
<1>2. /\ OnlyRuns(queue, running) /\ nextTask \in Nat /\ nextTask >= nextTask
      /\ nextMission' \in 1 .. MaxMissionIds + 1
  BY QueueMeans
<1>3. StoreGood(queue, ms, nextTask, nextMission')
  BY <1>1
<1> QED
  BY <1>1, <1>2, <1>3, PumpKeeps

\* POST /api/queue.
LEMMA EnqueueRequestKeeps ==
    ASSUME SchedulerInv, NEW p \in Priorities, EnqueueRequest(p)
    PROVE  SchedulerInv' /\ Learns
<1>1. PICK t : t = [id |-> nextTask, priority |-> p, status |-> "queued",
                    mission |-> None, step |-> 0]
  OBVIOUS
<1>2. PICK q : q = Enqueue(queue, t)
  OBVIOUS
<1>3. PumpAfter(Stores(q, missions, nextTask + 1)) /\ nextMission' = nextMission
  BY <1>1, <1>2, Zenon DEF EnqueueRequest
<1>4. Fits(queue, missions, nextMission, t) /\ t.id = nextTask /\ t.mission = None
  <2>1. p \in 1 .. 5 /\ 0 \in 0 .. MaxSteps /\ nextTask \in Nat
    BY QueueMeans, SchedulerAssumption
  <2>2. t \in TaskRecords
    BY <1>1, <2>1 DEF TaskRecords, QueueStatuses
  <2>3. t.status = "queued" /\ t.mission = None /\ t.step = 0 /\ t.id = nextTask
    BY <1>1
  <2> QED
    BY <2>2, <2>3 DEF Fits
<1>5. running # nextTask
  BY SchedulerAssumption DEF SchedulerInv
<1>6. nextTask \in Nat \ {0} /\ StoreGood(queue, missions, nextTask, nextMission)
  BY QueueMeans
<1>7. /\ StoreGood(q, missions, nextTask + 1, nextMission)
      /\ \A r : OnlyRuns(queue, r) => OnlyRuns(q, r)
      /\ \A r, step : /\ t.mission = None /\ r # nextTask /\ Bound(queue, missions, r, step)
                      => Bound(q, missions, r, step)
  BY <1>2, <1>4, <1>6, EnqueueKeeps
<1>8. /\ OnlyRuns(q, running) /\ Bound(q, missions, running, run.step)
      /\ Progressed(missions, missions)
  BY <1>4, <1>5, <1>7, QueueMeans
<1>9. /\ nextTask + 1 \in Nat /\ nextTask + 1 >= nextTask
      /\ nextMission' \in 1 .. MaxMissionIds + 1
  BY <1>3, QueueMeans
<1>10. StoreGood(q, missions, nextTask + 1, nextMission')
  BY <1>3, <1>7
<1> QED
  BY <1>3, <1>8, <1>9, <1>10, PumpKeeps

\* The requests for one task.
LEMMA QueueRequestsKeep ==
    ASSUME SchedulerInv, NEW id,
           CancelRequest(id) \/ PauseRequest(id) \/ ResumeRequest(id) \/ RemoveRequest(id)
    PROVE  SchedulerInv' /\ Learns
<1>1. TasksGood(queue, nextTask, nextMission) /\ OnlyRuns(queue, running)
  BY QueueMeans
<1>2. CASE CancelRequest(id)
  <2>1. JustStore(CancelTask(queue, id), missions) /\ evidence' = evidence
    BY <1>2 DEF CancelRequest
  <2>2. "cancelled" \in QueueStatuses /\ "cancelled" \notin LiveStatuses /\ "cancelled" # "running"
    BY DEF QueueStatuses, LiveStatuses, TerminalStatuses
  <2>3. Thins(CancelTask(queue, id), queue) /\ OnlyRuns(CancelTask(queue, id), running)
    BY <1>1, <2>2, MoveThins DEF CancelTask
  <2> QED
    BY <2>1, <2>3, ThinRequestKeeps
<1>3. CASE PauseRequest(id)
  <2>1. /\ JustStore(PauseTask(queue, id), missions) /\ evidence' = evidence
        /\ TaskIn(id, {"queued"})
    BY <1>3 DEF PauseRequest
  <2>2. "paused" \in QueueStatuses /\ "paused" # "running"
    BY DEF QueueStatuses
  <2>3. \A i \in DOMAIN queue : queue[i].id = id => Live(queue[i])
    BY <1>1, <2>1, TaskIsAt DEF TaskIn, Live, LiveStatuses, QueueStatuses, TerminalStatuses
  <2>4. Thins(PauseTask(queue, id), queue) /\ OnlyRuns(PauseTask(queue, id), running)
    BY <1>1, <2>2, <2>3, MoveThins DEF PauseTask
  <2> QED
    BY <2>1, <2>4, ThinRequestKeeps
<1>4. CASE ResumeRequest(id)
  <2>1. /\ PumpAfter(Stores(ResumeTask(queue, id), missions, nextTask))
        /\ nextMission' = nextMission /\ TaskIn(id, {"paused"})
    BY <1>4 DEF ResumeRequest
  <2>2. "queued" \in QueueStatuses /\ "queued" # "running"
    BY DEF QueueStatuses
  <2>3. \A i \in DOMAIN queue : queue[i].id = id => Live(queue[i])
    BY <1>1, <2>1, TaskIsAt DEF TaskIn, Live, LiveStatuses, QueueStatuses, TerminalStatuses
  <2>4. PICK q : q = ResumeTask(queue, id)
    OBVIOUS
  <2>5. Thins(q, queue) /\ OnlyRuns(q, running)
    BY <1>1, <2>2, <2>3, <2>4, MoveThins DEF ResumeTask
  <2>6. /\ StoreGood(q, missions, nextTask, nextMission)
        /\ Bound(q, missions, running, run.step)
    BY <2>5, QueueMeans, ThinKeeps
  <2>7. /\ nextTask \in Nat /\ nextTask >= nextTask /\ Progressed(missions, missions)
        /\ nextMission' \in 1 .. MaxMissionIds + 1
    BY <2>1, QueueMeans
  <2>8. StoreGood(q, missions, nextTask, nextMission') /\ PumpAfter(Stores(q, missions, nextTask))
    BY <2>1, <2>4, <2>6
  <2> QED
    BY <2>5, <2>6, <2>7, <2>8, PumpKeeps
<1>5. CASE RemoveRequest(id)
  <2>1. /\ JustStore(RemoveTask(queue, id), missions) /\ evidence' = evidence
        /\ HasTask(queue, id)
    BY <1>5 DEF RemoveRequest
  <2>2. Thins(RemoveTask(queue, id), queue) /\ OnlyRuns(RemoveTask(queue, id), running)
    BY <1>1, <2>1, RemoveTaskThins
  <2> QED
    BY <2>1, <2>2, ThinRequestKeeps
<1> QED
  BY <1>2, <1>3, <1>4, <1>5

\* The requests for one mission.
LEMMA MissionRequestsKeep ==
    ASSUME SchedulerInv, NEW id,
           \/ PauseMissionRequest(id) \/ ResumeMissionRequest(id) \/ RetryMissionRequest(id)
           \/ CancelMissionRequest(id) \/ CancelMissionMessage(id) \/ RemoveMissionRequest(id)
    PROVE  SchedulerInv' /\ Learns
<1>1. CASE PauseMissionRequest(id)
  <2>1. PICK ms : ms = Put(missions, PauseMission(MissionOf(missions, id)))
    OBVIOUS
  <2>2. JustStore(queue, ms) /\ evidence' \subseteq evidence /\ HasMission(missions, id)
    BY <1>1, <2>1 DEF PauseMissionRequest, MissionIn
  <2>3. Kept(missions, ms)
    BY <2>1, <2>2, PauseStays, ReplacedKept
  <2> QED
    BY <2>2, <2>3, KeptRequestKeeps
<1>2. CASE ResumeMissionRequest(id)
  <2>1. PICK ms : ms = Put(missions, ResumeMission(MissionOf(missions, id)))
    OBVIOUS
  <2>2. /\ PumpAfter(Stores(queue, ms, nextTask)) /\ nextMission' = nextMission
        /\ HasMission(missions, id)
    BY <1>2, <2>1 DEF ResumeMissionRequest, MissionIn
  <2>3. Kept(missions, ms)
    BY <2>1, <2>2, ResumeStays, ReplacedKept
  <2> QED
    BY <2>2, <2>3, KeptPumpKeeps
<1>3. CASE RetryMissionRequest(id)
  <2>1. PICK ms : ms = Put(missions, RetryMission(MissionOf(missions, id)))
    OBVIOUS
  <2>2. /\ PumpAfter(Stores(queue, ms, nextTask)) /\ nextMission' = nextMission
        /\ HasMission(missions, id)
    BY <1>3, <2>1 DEF RetryMissionRequest
  <2>3. Kept(missions, ms)
    BY <2>1, <2>2, RetryStays, ReplacedKept
  <2> QED
    BY <2>2, <2>3, KeptPumpKeeps
<1>4. CASE CancelMissionRequest(id)
  <2>1. PICK ms : ms = Put(missions, CancelMission(MissionOf(missions, id)))
    OBVIOUS
  <2>2. JustStore(queue, ms) /\ evidence' \subseteq evidence /\ HasMission(missions, id)
    BY <1>4, <2>1 DEF CancelMissionRequest, MissionIn
  <2>3. Kept(missions, ms)
    BY <2>1, <2>2, CancelStays, ReplacedKept
  <2> QED
    BY <2>2, <2>3, KeptRequestKeeps
<1>5. CASE CancelMissionMessage(id)
  <2>1. PICK ms, q : /\ ms = Put(missions, CancelMission(MissionOf(missions, id)))
                     /\ q = CancelTasksOf(queue, id)
    OBVIOUS
  <2>2. JustStore(q, ms) /\ evidence' \subseteq evidence /\ HasMission(missions, id)
    BY <1>5, <2>1 DEF CancelMissionMessage
  <2>3. Kept(missions, ms)
    BY <2>1, <2>2, CancelStays, ReplacedKept
  <2>4. Thins(q, queue) /\ OnlyRuns(q, running)
    BY <2>1, QueueMeans, CancelTasksThins
  <2>5. /\ StoreGood(queue, ms, nextTask, nextMission) /\ Progressed(missions, ms)
        /\ Bound(queue, ms, running, run.step)
    BY <2>3, QueueMeans, KeptKeeps
  <2>6. /\ StoreGood(q, ms, nextTask, nextMission) /\ Bound(q, ms, running, run.step)
    BY <2>4, <2>5, ThinKeeps
  <2> QED
    BY <2>2, <2>4, <2>5, <2>6, StoreKeeps
<1>6. CASE RemoveMissionRequest(id)
  <2>1. /\ JustStore(queue, RemoveMission(missions, id)) /\ evidence' \subseteq evidence
        /\ HasMission(missions, id)
    BY <1>6 DEF RemoveMissionRequest
  <2>2. Kept(missions, RemoveMission(missions, id))
    BY <2>1, QueueMeans, RemoveMissionKept
  <2> QED
    BY <2>1, <2>2, KeptRequestKeeps
<1> QED
  BY <1>1, <1>2, <1>3, <1>4, <1>5, <1>6

\* POST /api/missions.
LEMMA CreateMissionKeeps ==
    ASSUME SchedulerInv, NEW p \in Priorities, NEW c \in 1 .. MaxSteps, CreateMissionRequest(p, c)
    PROVE  SchedulerInv' /\ Learns
<1>1. PICK ms : ms = CreateMission(missions, nextMission, p, c)
  OBVIOUS
<1>2. /\ PumpAfter(Stores(queue, ms, nextTask)) /\ nextMission' = nextMission + 1
      /\ nextMission <= MaxMissionIds
  BY <1>1 DEF CreateMissionRequest
<1>3. p \in 1 .. 5 /\ nextMission \in Nat \ {0}
  BY QueueMeans, SchedulerAssumption
<1>4. StoreGood(queue, missions, nextTask, nextMission)
  BY QueueMeans
<1>5. /\ StoreGood(queue, ms, nextTask, nextMission + 1) /\ Progressed(missions, ms)
      /\ \A id, step : Bound(queue, missions, id, step) => Bound(queue, ms, id, step)
  BY <1>1, <1>3, <1>4, CreateKeeps
<1>6. Bound(queue, ms, running, run.step) /\ OnlyRuns(queue, running)
  BY <1>5, QueueMeans
<1>7. /\ nextMission' \in 1 .. MaxMissionIds + 1 /\ nextTask \in Nat /\ nextTask >= nextTask
  BY <1>2, <1>3, QueueMeans, SchedulerAssumption
<1>8. StoreGood(queue, ms, nextTask, nextMission')
  BY <1>2, <1>5
<1> QED
  BY <1>2, <1>5, <1>6, <1>7, <1>8, PumpKeeps

\* What leaves the stores and the binding alone.
LEMMA StoresStay ==
    ASSUME SchedulerInv, UNCHANGED <<queue, missions, nextTask, nextMission, running, evidence>>,
           run' = [task |-> running, step |-> run.step, phase |-> run'.phase, stopped |-> run'.stopped],
           run'.phase \in {"idle", "direct", "routing", "loop"}, run'.stopped \in BOOLEAN,
           running # None => run'.phase # "idle", run'.phase = "idle" => pending' = 0,
           pending' \in 0 .. MaxPending, lastState' \in {"ok", "error", "idle"}
    PROVE  SchedulerInv' /\ Learns
<1>1. Progressed(missions, missions') /\ evidence' \subseteq evidence
  BY QueueMeans
<1>2. Learns
  BY <1>1, ProgressLearns
<1>3. run'.step = run.step
  OBVIOUS
<1>4. SchedulerInv'
  BY <1>3 DEF SchedulerInv
<1> QED
  BY <1>2, <1>4

\* See keeps to the states.
LEMMA SeeTypes ==
    ASSUME SchedulerInv, NEW state \in {"ok", "error", "idle"}, See(state)
    PROVE  lastState' \in {"ok", "error", "idle"}
  BY DEF SchedulerInv, See

\* The stop, the clearing of the history, and the steps of a run before its end.
LEMMA OrchestratorKeeps ==
    ASSUME SchedulerInv, Stop \/ ClearHistory \/ FallThrough \/ BeginLoop
    PROVE  SchedulerInv' /\ Learns
<1>1. /\ run = [task |-> running, step |-> run.step, phase |-> run.phase, stopped |-> run.stopped]
      /\ run.phase \in {"idle", "direct", "routing", "loop"} /\ run.stopped \in BOOLEAN
      /\ running # None => run.phase # "idle"
      /\ run.phase = "idle" => pending = 0
      /\ pending \in 0 .. MaxPending /\ lastState \in {"ok", "error", "idle"}
  BY DEF SchedulerInv
<1>2. CASE Stop
  <2>1. PICK b : b = (run.phase = "loop")
    OBVIOUS
  <2>2. b \in BOOLEAN
    BY <2>1
  <2>3. run' = [run EXCEPT !.stopped = b]
    BY <1>2, <2>1, Zenon DEF Stop
  <2>4. PICK r, s, p : r = running /\ s = run.step /\ p = run.phase
    OBVIOUS
  <2>5. run' = [task |-> r, step |-> s, phase |-> p, stopped |-> b]
    BY <1>1, <2>3, <2>4
  <2>6. run'.phase = p /\ run'.stopped = b
    BY <2>5
  <2>7. lastState' \in {"ok", "error", "idle"}
    BY <1>2, SeeTypes DEF Stop
  <2>8. UNCHANGED <<queue, missions, nextTask, nextMission, running, evidence, pending>>
    BY <1>2 DEF Stop
  <2>9. run' = [task |-> running, step |-> run.step, phase |-> run'.phase, stopped |-> run'.stopped]
    BY <2>4, <2>5, <2>6
  <2> QED
    BY <1>1, <2>2, <2>4, <2>6, <2>7, <2>8, <2>9, StoresStay
<1>3. CASE ClearHistory
  <2>1. lastState' \in {"ok", "error", "idle"}
    BY <1>3, SeeTypes DEF ClearHistory
  <2>2. /\ UNCHANGED <<queue, missions, nextTask, nextMission, running, evidence, run>>
        /\ pending' = 0 /\ 0 \in 0 .. MaxPending
    BY <1>3, SchedulerAssumption DEF ClearHistory
  <2> QED
    BY <1>1, <2>1, <2>2, StoresStay
<1>4. CASE FallThrough
  <2>1. /\ run.phase = "direct" /\ run' = [run EXCEPT !.phase = "routing"]
        /\ UNCHANGED <<queue, missions, nextTask, nextMission, running, lastState, evidence, pending>>
    BY <1>4 DEF FallThrough
  <2>2. PICK r, s, b : r = running /\ s = run.step /\ b = run.stopped
    OBVIOUS
  <2>3. run' = [task |-> r, step |-> s, phase |-> "routing", stopped |-> b]
    BY <1>1, <2>1, <2>2
  <2>4. run'.phase = "routing" /\ run'.stopped = b
    BY <2>3
  <2>5. run' = [task |-> running, step |-> run.step, phase |-> run'.phase, stopped |-> run'.stopped]
    BY <2>2, <2>3, <2>4
  <2> QED
    BY <1>1, <2>1, <2>2, <2>4, <2>5, StoresStay
<1>5. CASE BeginLoop
  <2>1. /\ run.phase = "routing" /\ run' = [run EXCEPT !.phase = "loop"]
        /\ UNCHANGED <<queue, missions, nextTask, nextMission, running, evidence, pending>>
    BY <1>5 DEF BeginLoop
  <2>2. PICK r, s, b : r = running /\ s = run.step /\ b = run.stopped
    OBVIOUS
  <2>3. run' = [task |-> r, step |-> s, phase |-> "loop", stopped |-> b]
    BY <1>1, <2>1, <2>2
  <2>4. run'.phase = "loop" /\ run'.stopped = b
    BY <2>3
  <2>5. run' = [task |-> running, step |-> run.step, phase |-> run'.phase, stopped |-> run'.stopped]
    BY <2>2, <2>3, <2>4
  <2>6. lastState' \in {"ok", "error", "idle"}
    BY <1>5, SeeTypes DEF BeginLoop
  <2> QED
    BY <1>1, <2>1, <2>2, <2>4, <2>5, <2>6, StoresStay
<1> QED
  BY <1>2, <1>3, <1>4, <1>5

\* A message past the queue.
LEMMA DirectMessageKeeps ==
    ASSUME SchedulerInv, DirectMessage
    PROVE  SchedulerInv' /\ Learns
<1>1. /\ UNCHANGED <<queue, missions, nextTask, nextMission, running, evidence>>
      /\ ProcessMessage(None, NoStep)
      /\ IF pending' = pending THEN UNCHANGED lastState ELSE See("ok")
  BY DEF DirectMessage
<1>2. lastState' \in {"ok", "error", "idle"}
  BY <1>1, SeeTypes DEF SchedulerInv
<1>3. /\ run'.phase \in {"direct", "routing", "loop"} /\ pending' \in 0 .. MaxPending
      /\ run.phase = "idle" =>
           /\ run' = [task |-> None, step |-> NoStep, phase |-> run'.phase, stopped |-> run'.stopped]
           /\ run'.stopped \in BOOLEAN /\ pending' = pending
      /\ run.phase # "idle" => run' = run
  BY <1>1, ProcessMessageKeeps
<1>4. CASE run.phase # "idle"
  <2>1. /\ run' = [task |-> running, step |-> run.step, phase |-> run'.phase, stopped |-> run'.stopped]
        /\ run'.stopped \in BOOLEAN
    BY <1>3, <1>4 DEF SchedulerInv
  <2> QED
    BY <1>1, <1>2, <1>3, <2>1, StoresStay
<1>5. CASE run.phase = "idle"
  <2>1. running = None
    BY <1>5 DEF SchedulerInv
  <2>2. Progressed(missions, missions') /\ evidence' \subseteq evidence
    BY <1>1, QueueMeans
  <2>3. Learns
    BY <2>2, ProgressLearns
  <2>4. run'.step = NoStep
    BY <1>3, <1>5
  <2>5. Bound(queue, missions, None, NoStep)
    BY QueueMeans, NoneIsBound
  <2>6. SchedulerInv'
    BY <1>1, <1>2, <1>3, <1>5, <2>1, <2>4, <2>5 DEF SchedulerInv
  <2> QED
    BY <2>3, <2>6
<1> QED
  BY <1>4, <1>5

\* The three ways a run ends.
LEMMA EndsKeep ==
    ASSUME SchedulerInv, EndDirect \/ EndBlocked \/ EndLoop
    PROVE  SchedulerInv' /\ Learns
<1>1. PICK state \in {"ok", "error", "idle"}, result \in Results : FinishRun(state, result)
  <2>1. CASE EndDirect
    BY <2>1 DEF EndDirect
  <2>2. CASE EndBlocked
    BY <2>2 DEF EndBlocked, SchedulerInv, Results
  <2>3. CASE EndLoop
    BY <2>3 DEF EndLoop, LoopEnds
  <2> QED
    BY <2>1, <2>2, <2>3
<1> QED
  BY <1>1, FinishKeeps

\* A restart, and a crash between the end of a task and that of its step.
LEMMA StartsKeep ==
    ASSUME SchedulerInv, Restart \/ CrashInSettle
    PROVE  SchedulerInv' /\ Learns
<1>1. /\ StoreGood(queue, missions, nextTask, nextMission) /\ Progressed(missions, missions)
      /\ nextTask \in 1 .. MaxTaskIds + 1 /\ TasksGood(queue, nextTask, nextMission)
      /\ OnlyRuns(queue, running)
  BY QueueMeans
<1>2. CASE Restart
  <2>1. StartWith(queue, missions, nextTask)
    BY <1>2 DEF Restart
  <2> QED
    BY <1>1, <2>1, StartKeeps
<1>3. CASE CrashInSettle
  <2>1. PICK state : StartWith(SettleTask(queue, running, state), missions, nextTask)
    BY <1>3 DEF CrashInSettle
  <2>2. PICK q : q = SettleTask(queue, running, state)
    OBVIOUS
  <2>3. Thins(q, queue)
    BY <1>1, <2>2, SettleTaskThins
  <2>4. StoreGood(q, missions, nextTask, nextMission)
    BY <1>1, <2>3, ThinKeeps
  <2>5. StartWith(q, missions, nextTask)
    BY <2>1, <2>2
  <2> QED
    BY <1>1, <2>4, <2>5, StartKeeps
<1> QED
  BY <1>2, <1>3

\* A crash between the start of a step and the task for it.
LEMMA CrashInPumpKeeps ==
    ASSUME SchedulerInv, CrashInPump
    PROVE  SchedulerInv' /\ Learns
<1>1. PICK i \in DOMAIN missions :
         LET ids == [j \in 1 .. i - 1 |-> missions[j].id]
             s   == FoldLeft(Advance, Stores(queue, missions, nextTask), ids)
         IN  /\ HasWork(missions[i])
             /\ s.next <= MaxTaskIds + 1
             /\ StartWith(s.queue, Put(s.missions, StartOrResume(missions[i])), s.next)
  BY DEF CrashInPump
<1>2. running = None
  BY DEF CrashInPump, PumpGoes
<1>3. PICK s : s = Stores(queue, missions, nextTask)
  OBVIOUS
<1>4. s.queue = queue /\ s.missions = missions /\ s.next = nextTask
  BY <1>3 DEF Stores
<1>5. /\ StoreGood(queue, missions, nextTask, nextMission) /\ OnlyRuns(queue, None)
      /\ TasksGood(queue, nextTask, nextMission) /\ MissionsGood(missions, nextMission)
      /\ nextTask \in Nat \ {0}
  BY <1>2, QueueMeans
<1>6. Stored(s, nextMission)
  <2>1. s \in StoreTypes
    BY <1>3, <1>5 DEF Stores, StoreTypes, TasksGood, MissionsGood
  <2> QED
    BY <1>4, <1>5, <2>1 DEF Stored
<1>7. /\ i - 1 \in Nat /\ i - 1 <= Len(s.missions) /\ i > i - 1
  BY <1>4, <1>5, LenProperties DEF MissionsGood
<1>8. PICK w : w = [j \in 1 .. i - 1 |-> missions[j].id]
  OBVIOUS
<1>9. PICK z : z = FoldLeft(Advance, s, w)
  OBVIOUS
<1>10. /\ HasWork(missions[i]) /\ z.next <= MaxTaskIds + 1
       /\ StartWith(z.queue, Put(z.missions, StartOrResume(missions[i])), z.next)
  BY <1>1, <1>3, <1>8, <1>9, Zenon
<1>11. /\ Stored(z, nextMission) /\ Pumped(s, z)
       /\ \A l \in DOMAIN s.missions : l > i - 1 => z.missions[l] = s.missions[l]
  <2>1. w = [j \in 1 .. i - 1 |-> s.missions[j].id]
    BY <1>4, <1>8
  <2> QED
    BY <1>6, <1>7, <1>9, <2>1, AdvanceSome
<1>12. z.missions[i] = missions[i] /\ i \in DOMAIN z.missions
  BY <1>4, <1>7, <1>11 DEF Pumped
<1>13. PICK m : m = StartOrResume(missions[i])
  OBVIOUS
<1>14. Stays(z.missions[i], m)
  <2>1. MissionGood(missions[i])
    BY <1>5 DEF MissionsGood
  <2> QED
    BY <1>10, <1>12, <1>13, <2>1, StartOrResumeStays
<1>15. /\ StoreGood(z.queue, z.missions, z.next, nextMission)
       /\ MissionsGood(z.missions, nextMission)
  BY <1>11 DEF Stored, StoreGood
<1>16. PICK ms : ms = Put(z.missions, m)
  OBVIOUS
<1>17. Kept(z.missions, ms)
  BY <1>12, <1>14, <1>15, <1>16, PutKept
<1>18. StoreGood(z.queue, ms, z.next, nextMission) /\ Progressed(z.missions, ms)
  BY <1>15, <1>17, KeptKeeps
<1>19. Progressed(missions, ms)
  <2> SUFFICES ASSUME NEW k \in DOMAIN missions, NEW l \in DOMAIN ms, missions[k].id = ms[l].id
               PROVE  Ahead(missions[k], ms[l])
    BY DEF Progressed
  <2>1. /\ k \in DOMAIN z.missions /\ z.missions[k].id = missions[k].id
        /\ Ahead(missions[k], z.missions[k])
    BY <1>4, <1>11 DEF Pumped
  <2>2. Ahead(z.missions[k], ms[l])
    BY <1>18, <2>1 DEF Progressed
  <2> QED
    BY <2>1, <2>2 DEF Ahead
<1>20. z.next \in 1 .. MaxTaskIds + 1
  BY <1>10, <1>11, SchedulerAssumption DEF Stored, StoreTypes
<1>21. StartWith(z.queue, ms, z.next)
  BY <1>10, <1>13, <1>16
<1> QED
  BY <1>18, <1>19, <1>20, <1>21, StartKeeps

\* The invariant holds at first.
LEMMA InitGood == Init => SchedulerInv
<1> SUFFICES ASSUME Init PROVE SchedulerInv
  OBVIOUS
<1>1. /\ queue = <<>> /\ missions = <<>> /\ nextTask = 1 /\ nextMission = 1 /\ running = None
      /\ lastState = "idle" /\ evidence = {} /\ pending = 0
      /\ run = [task |-> None, step |-> NoStep, phase |-> "idle", stopped |-> FALSE]
  BY DEF Init, NoRun
<1>2. /\ queue \in Seq(TaskRecords) /\ missions \in Seq(MissionRecords)
      /\ DOMAIN queue = {} /\ DOMAIN missions = {}
  BY <1>1
<1>3. StoreGood(queue, missions, nextTask, nextMission)
  BY <1>2 DEF StoreGood, TasksGood, MissionsGood, Single, Wanted
<1>4. OnlyRuns(queue, running) /\ Bound(queue, missions, running, run.step)
  BY <1>2 DEF OnlyRuns, Bound
<1> QED
  BY <1>1, <1>3, <1>4, SchedulerAssumption DEF SchedulerInv

\* Every step keeps the invariant, and what a step may learn.
LEMMA NextKeeps == SchedulerInv /\ [Next]_vars => SchedulerInv' /\ Learns
<1> SUFFICES ASSUME SchedulerInv, [Next]_vars PROVE SchedulerInv' /\ Learns
  OBVIOUS
<1>1. CASE Requests
  <2>1. CASE \E p \in Priorities : EnqueueRequest(p)
    BY <2>1, EnqueueRequestKeeps
  <2>2. CASE \E id \in 1 .. MaxTaskIds :
               CancelRequest(id) \/ PauseRequest(id) \/ ResumeRequest(id) \/ RemoveRequest(id)
    BY <2>2, QueueRequestsKeep
  <2>3. CASE PumpRequest
    <3>1. Kept(missions, missions)
      <4>1. MissionsGood(missions, nextMission)
        BY QueueMeans
      <4> QED
        BY <4>1, StaysItself DEF MissionsGood, Kept
    <3> QED
      BY <2>3, <3>1, KeptPumpKeeps DEF PumpRequest
  <2>4. CASE \E p \in Priorities, n \in 1 .. MaxSteps : CreateMissionRequest(p, n)
    BY <2>4, CreateMissionKeeps
  <2>5. CASE \E id \in 1 .. MaxMissionIds :
               \/ PauseMissionRequest(id) \/ ResumeMissionRequest(id) \/ RetryMissionRequest(id)
               \/ CancelMissionRequest(id) \/ CancelMissionMessage(id) \/ RemoveMissionRequest(id)
    BY <2>5, MissionRequestsKeep
  <2>6. CASE DirectMessage \/ Stop \/ ClearHistory
    BY <2>6, DirectMessageKeeps, OrchestratorKeeps
  <2> QED
    BY <1>1, <2>1, <2>2, <2>3, <2>4, <2>5, <2>6 DEF Requests
<1>2. CASE RunStep
  BY <1>2, OrchestratorKeeps, EndsKeep DEF RunStep
<1>3. CASE Restart \/ CrashInSettle
  BY <1>3, StartsKeep
<1>4. CASE CrashInPump
  BY <1>4, CrashInPumpKeeps
<1>5. CASE UNCHANGED vars
  <2>1. /\ UNCHANGED <<queue, missions, nextTask, nextMission, running, evidence>>
        /\ run' = run /\ pending' = pending /\ lastState' = lastState
    BY <1>5 DEF vars
  <2>2. Progressed(missions, missions') /\ evidence' \subseteq evidence
    BY <2>1, QueueMeans
  <2>3. Learns
    BY <2>2, ProgressLearns
  <2>4. SchedulerInv'
    BY <2>1 DEF SchedulerInv
  <2> QED
    BY <2>3, <2>4
<1> QED
  BY <1>1, <1>2, <1>3, <1>4, <1>5 DEF Next

\* The invariant of the scheduler.
LEMMA SchedulerIsGood == Spec => []SchedulerInv
<1>1. SchedulerInv /\ [Next]_vars => SchedulerInv'
  BY NextKeeps
<1> QED
  BY InitGood, <1>1, PTL DEF Spec
-----------------------------------------------------------------------------
(* The theorems. *)

\* The step of a mission that both lists have.
LEMMA LearnsOf ==
    ASSUME SchedulerInv, SchedulerInv', Learns, NEW i \in DOMAIN missions,
           HasMission(missions', missions[i].id), NEW j \in DOMAIN missions[i].steps
    PROVE  LET m == MissionOf(missions', missions[i].id) IN
           /\ j \in DOMAIN m.steps
           /\ missions[i].steps[j].status = "completed" => m.steps[j].status = "completed"
           /\ m.steps[j].level = "VERIFIED"
              => \/ missions[i].steps[j].level = "VERIFIED"
                 \/ run.step = <<missions[i].id, j>> /\ <<missions[i].id, j>> \in evidence'
<1>1. MissionsGood(missions', nextMission')
  BY DEF SchedulerInv, StoreGood
<1>2. PICK l \in DOMAIN missions' : missions'[l].id = missions[i].id
  BY DEF HasMission
<1>3. MissionOf(missions', missions[i].id) = missions'[l]
  BY <1>1, <1>2, MissionIsAt
<1> QED
  BY <1>2, <1>3 DEF Learns

\* The orchestrator runs what the scheduler takes for running, so that the end
\* of a run settles its own task (scheduler.ts onTaskComplete).
THEOREM AttributionAlways == Spec => []AttributionExact
<1>1. SchedulerInv => AttributionExact
  BY DEF SchedulerInv, AttributionExact
<1> QED
  BY <1>1, SchedulerIsGood, PTL

\* A live task stands alone behind a step that runs.
LEMMA LiveTasksServe == SchedulerInv => LiveTasksServeRunningSteps
<1> SUFFICES ASSUME SchedulerInv, NEW i \in DOMAIN queue, queue[i].status \in LiveStatuses,
                    queue[i].mission # None, HasMission(missions, queue[i].mission)
             PROVE  /\ MissionOf(missions, queue[i].mission).steps[queue[i].step].status = "running"
                    /\ \A j \in DOMAIN queue :
                          /\ queue[j].status \in LiveStatuses
                          /\ StepOf(queue[j]) = StepOf(queue[i])
                          => i = j
  BY DEF LiveTasksServeRunningSteps
<1>1. /\ StoreGood(queue, missions, nextTask, nextMission)
      /\ MissionsGood(missions, nextMission) /\ Live(queue[i])
  BY DEF SchedulerInv, StoreGood, Live
<1>2. PICK k \in DOMAIN missions : missions[k].id = queue[i].mission
  BY DEF HasMission
<1>3. MissionOf(missions, queue[i].mission) = missions[k]
  BY <1>1, <1>2, MissionIsAt
<1>4. Runs(missions[k], queue[i].step)
  BY <1>1, <1>2 DEF StoreGood, Wanted
<1>5. ASSUME NEW j \in DOMAIN queue, queue[j].status \in LiveStatuses,
             StepOf(queue[j]) = StepOf(queue[i])
      PROVE  i = j
  <2>1. OneStep(queue[i], queue[j]) /\ Live(queue[j])
    BY <1>5 DEF StepOf, OneStep, Live
  <2> QED
    BY <1>1, <2>1 DEF StoreGood, Single
<1> QED
  BY <1>3, <1>4, <1>5 DEF Runs

\* The types follow from the invariant.
LEMMA TypesHold == SchedulerInv => TypeOK
<1> SUFFICES ASSUME SchedulerInv PROVE TypeOK
  OBVIOUS
<1>1. /\ TasksGood(queue, nextTask, nextMission) /\ MissionsGood(missions, nextMission)
      /\ nextTask \in 1 .. MaxTaskIds + 1 /\ nextMission \in 1 .. MaxMissionIds + 1
  BY QueueMeans
<1>2. ASSUME NEW i \in DOMAIN queue PROVE queue[i] \in TaskTypes
  <2>1. queue[i] \in TaskRecords
    BY <1>1, ElementOfSeq DEF TasksGood
  <2>2. queue[i].id \in 1 .. MaxTaskIds
    BY <1>1, SchedulerAssumption DEF TasksGood
  <2>3. queue[i].mission \in {None} \cup 1 .. MaxMissionIds
    BY <1>1, SchedulerAssumption DEF TasksGood
  <2> QED
    BY <2>1, <2>2, <2>3 DEF TaskRecords, TaskTypes
<1>3. ASSUME NEW i \in DOMAIN missions
      PROVE  /\ missions[i].id \in 1 .. MaxMissionIds
             /\ missions[i].status \in MissionStatuses
             /\ \A k \in DOMAIN missions[i].steps : missions[i].steps[k] \in StepTypes
  <2>1. missions[i] \in MissionRecords
    BY <1>1 DEF MissionsGood, MissionGood
  <2>2. missions[i].id \in 1 .. MaxMissionIds
    BY <1>1, SchedulerAssumption DEF MissionsGood
  <2>3. \A k \in DOMAIN missions[i].steps : missions[i].steps[k] \in StepTypes
    BY <2>1, StepLengths
  <2> QED
    BY <2>1, <2>2, <2>3 DEF MissionRecords
<1>4. \A i, j \in DOMAIN queue : queue[i].id = queue[j].id => i = j
  BY <1>1 DEF TasksGood
<1>5. running \in {None} \cup 1 .. MaxTaskIds /\ run.task = running
  BY <1>1, SchedulerAssumption DEF SchedulerInv
<1>6. /\ run.phase \in {"idle", "direct", "routing", "loop"} /\ run.stopped \in BOOLEAN
      /\ lastState \in {"ok", "error", "idle"} /\ evidence \subseteq StepNames
      /\ pending \in 0 .. MaxPending
  BY DEF SchedulerInv
<1> QED
  BY <1>1, <1>2, <1>3, <1>4, <1>5, <1>6 DEF TypeOK

\* What the queue calls running runs, and what it may still run is wanted by a
\* running step, once, through requests, ends, restarts and crashes
\* (task-queue.ts load, missions.ts retry, scheduler.ts onTaskComplete).
THEOREM QueueAlwaysReal == Spec => []QueueIsReal
<1>1. SchedulerInv => RunningIsReal
  <2> SUFFICES ASSUME SchedulerInv, NEW i \in DOMAIN queue, queue[i].status = "running"
               PROVE  run.phase # "idle" /\ run.task = queue[i].id
    BY DEF RunningIsReal
  <2>1. queue[i].id = running /\ queue[i].id \in Nat
    BY QueueMeans DEF OnlyRuns, TasksGood
  <2>2. running # None
    BY <2>1, SchedulerAssumption
  <2> QED
    BY <2>1, <2>2 DEF SchedulerInv
<1>2. SchedulerInv => QueueIsReal
  BY <1>1, TypesHold, LiveTasksServe DEF QueueIsReal
<1> QED
  BY <1>2, SchedulerIsGood, PTL

\* The checkpoints of a mission stay, and it is completed only with all of
\* them (missions.ts settleStep, retry; scheduler.ts pump).
THEOREM ProgressAlwaysStays == Spec => ProgressStays
<1>1. SchedulerInv => CompletedMeansAllSteps
  BY QueueMeans DEF CompletedMeansAllSteps, MissionsGood, MissionGood
<1>2. SchedulerInv /\ [Next]_vars =>
        (missions' # missions =>
          \A i \in DOMAIN missions : \A k \in StepsIn(missions[i], "completed") :
            HasMission(missions', missions[i].id) =>
                k \in StepsIn(MissionOf(missions', missions[i].id), "completed"))
  <2> SUFFICES ASSUME SchedulerInv, [Next]_vars, NEW i \in DOMAIN missions,
                      NEW k \in StepsIn(missions[i], "completed"),
                      HasMission(missions', missions[i].id)
               PROVE  k \in StepsIn(MissionOf(missions', missions[i].id), "completed")
    OBVIOUS
  <2>1. SchedulerInv' /\ Learns
    BY NextKeeps
  <2>2. k \in DOMAIN missions[i].steps /\ missions[i].steps[k].status = "completed"
    BY DEF StepsIn
  <2> QED
    BY <2>1, <2>2, LearnsOf DEF StepsIn
<1> QED
  BY <1>1, <1>2, SchedulerIsGood, PTL DEF Spec, ProgressStays, CheckpointsStay

\* What the coordinator learns, and a level a step is stored with, belong to the
\* step whose run is ending (scheduler.ts onSpecialistResult, stepVerification).
THEOREM EvidenceAlwaysOwn == Spec => EvidenceIsOwn
<1>1. SchedulerInv /\ [Next]_vars =>
        /\ evidence' \ evidence \subseteq {run.step}
        /\ missions' # missions => \A i \in DOMAIN missions : \A k \in DOMAIN missions[i].steps :
             LET id == missions[i].id
             IN  /\ HasMission(missions', id)
                 /\ MissionOf(missions', id).steps[k].level = "VERIFIED"
                 => \/ missions[i].steps[k].level = "VERIFIED"
                    \/ run.step = <<id, k>> /\ <<id, k>> \in evidence'
  <2> SUFFICES ASSUME SchedulerInv, [Next]_vars
               PROVE  /\ evidence' \ evidence \subseteq {run.step}
                      /\ \A i \in DOMAIN missions : \A k \in DOMAIN missions[i].steps :
                           /\ HasMission(missions', missions[i].id)
                           /\ MissionOf(missions', missions[i].id).steps[k].level = "VERIFIED"
                           => \/ missions[i].steps[k].level = "VERIFIED"
                              \/ /\ run.step = <<missions[i].id, k>>
                                 /\ <<missions[i].id, k>> \in evidence'
    OBVIOUS
  <2>1. SchedulerInv' /\ Learns
    BY NextKeeps
  <2>2. evidence' \ evidence \subseteq {run.step}
    BY <2>1 DEF Learns
  <2> QED
    BY <2>1, <2>2, LearnsOf
<1> QED
  BY <1>1, SchedulerIsGood, PTL DEF Spec, EvidenceIsOwn
====
