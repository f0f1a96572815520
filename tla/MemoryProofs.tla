----------------------------- MODULE MemoryProofs -----------------------------
(*****************************************************************************)
(* MemoryLayers proved for any objectives, outcomes, notes and caps: active   *)
(* procedures have earned it, what is rolled back stays so, the files hold     *)
(* what the memory does, and no note is lost.  The folds are those of          *)
(* AgentLoopProofs.                                                            *)
(*****************************************************************************)
EXTENDS MemoryLayers, AgentLoopProofs

-----------------------------------------------------------------------------
(* Taking from a sequence: what Where, Without, LastOf and RemoveAt return.      *)

\* w is what of the first k of s is in S, in its order.
Selected(w, s, k, S, V) ==
  /\ w \in Seq(V) /\ Len(w) <= k
  /\ \E h \in [1..Len(w) -> 1..k] : /\ \A i, j \in 1..Len(w) : i < j => h[i] < h[j]
                                    /\ \A i \in 1..Len(w) : w[i] = s[h[i]]
  /\ \A i \in 1..Len(w) : w[i] \in S
  /\ \A i \in 1..k : s[i] \in S => \E j \in 1..Len(w) : w[j] = s[i]
  /\ (\E i \in 1..k : s[i] \notin S) => Len(w) < k
  /\ (\A i \in 1..k : s[i] \in S) => Len(w) = k /\ \A i \in 1..k : w[i] = s[i]

\* The next one is taken or left.
LEMMA SelectsNext ==
    ASSUME NEW V, NEW s \in Seq(V), NEW S, NEW k \in Nat, k + 1 <= Len(s), NEW w, Selected(w, s, k, S, V),
           NEW u, u = IF s[k + 1] \in S THEN Append(w, s[k + 1]) ELSE w
    PROVE  Selected(u, s, k + 1, S, V)
<1>1. w \in Seq(V) /\ Len(w) <= k /\ Len(w) \in Nat /\ s[k + 1] \in V /\ DOMAIN w = 1..Len(w)
  BY LenProperties, ElementOfSeq DEF Selected
<1>2. PICK h \in [1..Len(w) -> 1..k] : /\ \A i, j \in 1..Len(w) : i < j => h[i] < h[j]
                                       /\ \A i \in 1..Len(w) : w[i] = s[h[i]]
  BY DEF Selected
<1>3. CASE s[k + 1] \in S
  <2>1. /\ u \in Seq(V) /\ Len(u) = Len(w) + 1 /\ \A i \in 1..Len(w) : u[i] = w[i]
        /\ u[Len(w) + 1] = s[k + 1]
    BY <1>1, <1>3, AppendProperties
  <2> DEFINE x == [i \in 1..(Len(w) + 1) |-> IF i = Len(w) + 1 THEN k + 1 ELSE h[i]]
  <2>2. /\ x \in [1..Len(u) -> 1..(k + 1)]
        /\ \A i, j \in 1..Len(u) : i < j => x[i] < x[j]
        /\ \A i \in 1..Len(u) : u[i] = s[x[i]]
    <3>1. \A i \in 1..Len(u) : i = Len(w) + 1 \/ i \in 1..Len(w)
      BY <1>1, <2>1
    <3>2. \A i \in 1..Len(w) : h[i] \in 1..k /\ i # Len(w) + 1 /\ x[i] = h[i]
      <4>1. \A i \in 1..Len(w) : i # Len(w) + 1 /\ i \in 1..(Len(w) + 1)
        BY <1>1
      <4>2. \A i \in 1..Len(w) : h[i] \in 1..k
        BY <1>2
      <4> QED
        BY <4>1, <4>2
    <3>3. x[Len(w) + 1] = k + 1 /\ k + 1 \in 1..(k + 1)
      BY <1>1
    <3>4. x \in [1..Len(u) -> 1..(k + 1)]
      BY <1>1, <1>2, <2>1
    <3>5. ASSUME NEW i \in 1..Len(u), NEW j \in 1..Len(u), i < j PROVE x[i] < x[j]
      <4>1. i \in 1..Len(w)
        BY <1>1, <2>1, <3>5
      <4>2. CASE j \in 1..Len(w)
        BY <1>2, <3>2, <3>5, <4>1, <4>2
      <4>3. CASE j = Len(w) + 1
        BY <3>2, <3>3, <4>1, <4>3
      <4> QED
        BY <3>1, <4>2, <4>3
    <3>6. ASSUME NEW i \in 1..Len(u) PROVE u[i] = s[x[i]]
      BY <1>2, <2>1, <3>1, <3>2, <3>3
    <3> HIDE DEF x
    <3> QED
      BY <3>4, <3>5, <3>6
  <2>3. \A i \in 1..Len(u) : u[i] \in S
    BY <1>1, <1>3, <2>1 DEF Selected
  <2>4. \A i \in 1..(k + 1) : s[i] \in S => \E j \in 1..Len(u) : u[j] = s[i]
    <3> SUFFICES ASSUME NEW i \in 1..(k + 1), s[i] \in S PROVE \E j \in 1..Len(u) : u[j] = s[i]
      OBVIOUS
    <3>1. CASE i = k + 1
      BY <1>1, <2>1, <3>1
    <3>2. CASE i \in 1..k
      <4>1. PICK j \in 1..Len(w) : w[j] = s[i]
        BY <3>2 DEF Selected
      <4> QED
        BY <1>1, <2>1, <4>1
    <3> QED
      BY <3>1, <3>2
  <2>5. (\E i \in 1..(k + 1) : s[i] \notin S) => Len(u) < k + 1
    <3> SUFFICES ASSUME NEW i \in 1..(k + 1), s[i] \notin S PROVE Len(u) < k + 1
      OBVIOUS
    <3>1. i \in 1..k
      BY <1>3
    <3>2. Len(w) < k
      BY <3>1 DEF Selected
    <3> QED
      BY <1>1, <2>1, <3>2
  <2>6. (\A i \in 1..(k + 1) : s[i] \in S) => Len(u) = k + 1 /\ \A i \in 1..(k + 1) : u[i] = s[i]
    <3> SUFFICES ASSUME \A i \in 1..(k + 1) : s[i] \in S
                 PROVE  Len(u) = k + 1 /\ \A i \in 1..(k + 1) : u[i] = s[i]
      OBVIOUS
    <3>1. Len(w) = k /\ \A i \in 1..k : w[i] = s[i]
      BY DEF Selected
    <3> QED
      BY <1>1, <2>1, <3>1
  <2> HIDE DEF x
  <2>7. \E y \in [1..Len(u) -> 1..(k + 1)] : /\ \A i, j \in 1..Len(u) : i < j => y[i] < y[j]
                                           /\ \A i \in 1..Len(u) : u[i] = s[y[i]]
    BY <2>2
  <2>8. Len(u) <= k + 1
    BY <1>1, <2>1
  <2> QED
    BY <2>1, <2>3, <2>4, <2>5, <2>6, <2>7, <2>8 DEF Selected
<1>4. CASE s[k + 1] \notin S
  <2>1. u = w
    BY <1>4
  <2>2. h \in [1..Len(w) -> 1..(k + 1)]
    BY <1>2
  <2>3. \A i \in 1..(k + 1) : s[i] \in S => \E j \in 1..Len(w) : w[j] = s[i]
    <3>1. \A i \in 1..(k + 1) : i \in 1..k \/ i = k + 1
      OBVIOUS
    <3> QED
      BY <1>4, <3>1 DEF Selected
  <2>4. Len(w) < k + 1 /\ Len(w) <= k + 1 /\ k + 1 \in 1..(k + 1)
    BY <1>1
  <2>5. \A i \in 1..Len(w) : w[i] \in S
    BY DEF Selected
  <2>6. \E y \in [1..Len(w) -> 1..(k + 1)] : /\ \A i, j \in 1..Len(w) : i < j => y[i] < y[j]
                                           /\ \A i \in 1..Len(w) : w[i] = s[y[i]]
    BY <1>2, <2>2
  <2>7. ~\A i \in 1..(k + 1) : s[i] \in S
    BY <1>4, <2>4
  <2>8. w \in Seq(V) /\ Len(w) <= k + 1
    BY <1>1, <2>4
  <2>9. Selected(w, s, k + 1, S, V)
    BY Zenon, <2>3, <2>4, <2>5, <2>6, <2>7, <2>8 DEF Selected
  <2> QED
    BY <2>1, <2>9
<1> QED
  BY <1>3, <1>4

\* Where takes what is in the set, in its order.
LEMMA WhereSelects ==
    ASSUME NEW V, NEW s \in Seq(V), NEW S
    PROVE  Selected(Where(s, S), s, Len(s), S, V)
<1> DEFINE N == Len(s)
           W == Seq(V)
           H == [p \in W \X (1..N) |-> IF s[p[2]] \in S THEN Append(p[1], s[p[2]]) ELSE p[1]]
           Solves(g) == g = [c \in SUBSET (1..N) |->
                               IF c = {} THEN <<>>
                               ELSE IF s[Max(c)] \in S THEN Append(g[c \ {Max(c)}], s[Max(c)]) ELSE g[c \ {Max(c)}]]
           it == CHOOSE g : Solves(g)
<1>1. N \in Nat /\ DOMAIN s = 1..N /\ (\A k \in 1..N : s[k] \in V) /\ <<>> \in W
  OBVIOUS
<1>2. Where(s, S) = it[1..N]
  BY <1>1 DEF Where, FoldLeft, MapThenFoldSet
<1>3. H \in [W \X (1..N) -> W]
  <2>1. ASSUME NEW z \in W, NEW k \in 1..N PROVE (IF s[k] \in S THEN Append(z, s[k]) ELSE z) \in W
    BY <1>1
  <2> HIDE DEF W, N
  <2> QED
    BY <2>1
<1>4. \E g : Solves(g)
  <2> HIDE DEF N, H, W
  <2>1. PICK g : Solution(W, N, <<>>, H, g)
    <3>1. N \in Nat /\ <<>> \in W /\ StepsIn(W, N, H)
      BY <1>1, <1>3 DEF StepsIn
    <3> QED
      BY <3>1, FoldExists
  <2>2. ASSUME NEW c \in SUBSET (1..N), c # {}
        PROVE  H[<<g[c \ {Max(c)}], Max(c)>>]
                 = IF s[Max(c)] \in S THEN Append(g[c \ {Max(c)}], s[Max(c)]) ELSE g[c \ {Max(c)}]
    <3>1. Max(c) \in 1..N /\ g[c \ {Max(c)}] \in W
      BY <1>1, <2>1, <2>2, MaxIsLargest DEF Solution
    <3> QED
      BY <3>1 DEF H
  <2>3. Solves(g)
    BY <2>1, <2>2 DEF Solution
  <2> QED
    BY <2>3
<1>5. Solves(it)
  <2> HIDE DEF Solves
  <2> QED
    BY <1>4
<1> HIDE DEF it, N
<1>6. it[{}] = <<>> /\ \A k \in 1..N : it[1..k] = IF s[k] \in S THEN Append(it[1..(k - 1)], s[k]) ELSE it[1..(k - 1)]
  <2>1. it[{}] = <<>>
    BY <1>5
  <2>2. ASSUME NEW k \in 1..N
        PROVE  it[1..k] = IF s[k] \in S THEN Append(it[1..(k - 1)], s[k]) ELSE it[1..(k - 1)]
    <3>1. k \in Nat \ {0} /\ 1..k \in SUBSET (1..N)
      BY <1>1
    <3>2. 1..k # {} /\ Max(1..k) = k /\ (1..k) \ {k} = 1..(k - 1)
      BY <3>1, WholeWithoutMax
    <3> QED
      BY <1>5, <3>1, <3>2
  <2> QED
    BY <2>1, <2>2
<1> DEFINE P == {k \in Nat : k <= N => Selected(it[1..k], s, k, S, V)}
<1>7. 0 \in P
  <2>1. 1..0 = {} /\ <<>> \in Seq(V) /\ Len(<<>>) = 0
    OBVIOUS
  <2>2. Selected(<<>>, s, 0, S, V)
    <3> DEFINE e == <<>>
               y == [i \in 1..0 |-> 0]
    <3>1. Len(e) = 0 /\ e \in Seq(V) /\ y \in [1..0 -> 1..0] /\ \A i \in 1..0 : FALSE
      OBVIOUS
    <3> HIDE DEF e, y
    <3>2. \E h \in [1..Len(e) -> 1..0] : /\ \A i, j \in 1..Len(e) : i < j => h[i] < h[j]
                                        /\ \A i \in 1..Len(e) : e[i] = s[h[i]]
      BY <3>1
    <3> HIDE DEF it, P, Solves, H, W
    <3>4. /\ \A i \in 1..Len(e) : e[i] \in S
          /\ \A i \in 1..0 : s[i] \in S => \E j \in 1..Len(e) : e[j] = s[i]
          /\ ~\E i \in 1..0 : s[i] \notin S
          /\ \A i \in 1..0 : e[i] = s[i]
      BY <3>1
    <3>5. Len(e) <= 0
      BY <3>1
    <3>3. Selected(e, s, 0, S, V)
      BY Zenon, <3>1, <3>2, <3>4, <3>5 DEF Selected
    <3> QED
      BY <3>3 DEF e
  <2> QED
    BY <1>6, <2>1, <2>2
<1>8. ASSUME NEW k \in Nat, k \in P PROVE k + 1 \in P
  <2> SUFFICES ASSUME k + 1 <= N PROVE Selected(it[1..(k + 1)], s, k + 1, S, V)
    OBVIOUS
  <2>1. N \in Nat
    BY <1>1
  <2>2. k <= N /\ k + 1 \in 1..N /\ (k + 1) - 1 = k
    BY <2>1
  <2>3. Selected(it[1..k], s, k, S, V) /\ k + 1 <= Len(s)
    BY <1>8, <2>2 DEF N
  <2>4. it[1..(k + 1)] = IF s[k + 1] \in S THEN Append(it[1..k], s[k + 1]) ELSE it[1..k]
    BY <1>6, <2>2
  <2> QED
    BY <2>3, <2>4, SelectsNext
<1> HIDE DEF P
<1>9. N \in P
  BY <1>1, <1>7, <1>8, AllNumbers
<1> QED
  BY <1>1, <1>2, <1>9 DEF P, N

\* Every member of q is one of s, no two of them the same one.
Picks(q, s) ==
  \E h \in [DOMAIN q -> DOMAIN s] : /\ \A i, j \in DOMAIN q : h[i] = h[j] => i = j
                                    /\ \A i \in DOMAIN q : q[i] = s[h[i]]

LEMMA WherePicks ==
    ASSUME NEW V, NEW s \in Seq(V), NEW S, NEW w, w = Where(s, S)
    PROVE  /\ w \in Seq(V) /\ Len(w) <= Len(s) /\ Picks(w, s)
           /\ \A i \in DOMAIN w : w[i] \in S
           /\ \A i \in DOMAIN s : s[i] \in S => \E j \in DOMAIN w : w[j] = s[i]
           /\ (\E i \in DOMAIN s : s[i] \notin S) => Len(w) < Len(s)
           /\ (\A i \in DOMAIN s : s[i] \in S) => w = s
<1>1. Selected(w, s, Len(s), S, V)
  BY WhereSelects
<1>2. w \in Seq(V) /\ DOMAIN w = 1..Len(w) /\ DOMAIN s = 1..Len(s) /\ Len(w) \in Nat
  BY <1>1, LenProperties DEF Selected
<1>3. PICK h \in [1..Len(w) -> 1..Len(s)] : /\ \A i, j \in 1..Len(w) : i < j => h[i] < h[j]
                                            /\ \A i \in 1..Len(w) : w[i] = s[h[i]]
  BY <1>1 DEF Selected
<1>4. Picks(w, s)
  <2>1. ASSUME NEW i \in 1..Len(w), NEW j \in 1..Len(w), h[i] = h[j] PROVE i = j
    <3>1. ~(h[i] < h[j]) /\ ~(h[j] < h[i])
      BY <1>3, <2>1
    <3>2. ~(i < j) /\ ~(j < i)
      BY <1>3, <3>1
    <3> QED
      BY <1>2, <3>2
  <2> QED
    BY <1>2, <1>3, <2>1 DEF Picks
<1>5. (\A i \in DOMAIN s : s[i] \in S) => w = s
  <2> SUFFICES ASSUME \A i \in DOMAIN s : s[i] \in S PROVE w = s
    OBVIOUS
  <2>1. Len(w) = Len(s) /\ \A i \in 1..Len(s) : w[i] = s[i]
    BY <1>1, <1>2 DEF Selected
  <2> QED
    BY <1>2, <2>1, SeqEqual
<1> QED
  BY Zenon, <1>1, <1>2, <1>4, <1>5 DEF Selected

LEMMA WithoutPicks ==
    ASSUME NEW V, NEW s \in Seq(V), NEW S, NEW w, w = Without(s, S)
    PROVE  /\ w \in Seq(V) /\ Len(w) <= Len(s) /\ Picks(w, s)
           /\ \A i \in DOMAIN w : w[i] \notin S
           /\ \A i \in DOMAIN s : s[i] \notin S => \E j \in DOMAIN w : w[j] = s[i]
           /\ (\E i \in DOMAIN s : s[i] \in S) => Len(w) < Len(s)
           /\ (\A i \in DOMAIN s : s[i] \notin S) => w = s
<1> DEFINE R == Range(s) \ S
<1>1. \A i \in DOMAIN s : s[i] \in R <=> s[i] \notin S
  BY DEF Range
<1>2. w = Where(s, R)
  BY DEF Without
<1> HIDE DEF R
<1>3. /\ w \in Seq(V) /\ Len(w) <= Len(s) /\ Picks(w, s)
      /\ \A i \in DOMAIN w : w[i] \in R
      /\ \A i \in DOMAIN s : s[i] \in R => \E j \in DOMAIN w : w[j] = s[i]
      /\ (\E i \in DOMAIN s : s[i] \notin R) => Len(w) < Len(s)
      /\ (\A i \in DOMAIN s : s[i] \in R) => w = s
  BY <1>2, WherePicks
<1>4. \A i \in DOMAIN w : w[i] \notin S
  BY <1>3 DEF R
<1> QED
  BY Zenon, <1>1, <1>3, <1>4

\* A stretch of a sequence.
LEMMA StretchPicks ==
    ASSUME NEW V, NEW s \in Seq(V), NEW d \in Nat, NEW e \in Nat, d <= e, e <= Len(s)
    PROVE  /\ SubSeq(s, d + 1, e) \in Seq(V) /\ Len(SubSeq(s, d + 1, e)) = e - d /\ Picks(SubSeq(s, d + 1, e), s)
           /\ \A i \in 1..(e - d) : SubSeq(s, d + 1, e)[i] = s[d + i]
<1>1. DOMAIN s = 1..Len(s) /\ Len(s) \in Nat /\ \A i \in 1..Len(s) : s[i] \in V
  BY LenProperties, ElementOfSeq
<1>2. d + 1 \in Int /\ e \in Int /\ e - d \in Nat /\ \A i \in (d + 1)..e : s[i] \in V
  BY <1>1
<1>3. PICK w : w = SubSeq(s, d + 1, e)
  OBVIOUS
<1>4. /\ w \in Seq(V) /\ Len(w) = IF d + 1 <= e THEN e - (d + 1) + 1 ELSE 0
      /\ \A i \in 1..(e - (d + 1) + 1) : w[i] = s[(d + 1) + i - 1]
  BY <1>2, <1>3, SubSeqProperties
<1>5. e - (d + 1) + 1 = e - d /\ Len(w) = e - d /\ \A i \in 1..(e - d) : (d + 1) + i - 1 = d + i
  BY <1>2, <1>4
<1>6. DOMAIN w = 1..(e - d) /\ \A i \in 1..(e - d) : w[i] = s[d + i]
  BY <1>4, <1>5, LenProperties
<1> DEFINE h == [i \in 1..(e - d) |-> d + i]
<1>7. h \in [DOMAIN w -> DOMAIN s] /\ (\A i, j \in DOMAIN w : h[i] = h[j] => i = j) /\ \A i \in DOMAIN w : w[i] = s[h[i]]
  BY <1>1, <1>2, <1>6
<1> HIDE DEF h
<1>8. Picks(w, s)
  BY <1>7 DEF Picks
<1> QED
  BY <1>3, <1>4, <1>5, <1>6, <1>8

LEMMA SamePicks ==
    ASSUME NEW s PROVE Picks(s, s)
<1> DEFINE h == [i \in DOMAIN s |-> i]
<1>1. h \in [DOMAIN s -> DOMAIN s] /\ (\A i, j \in DOMAIN s : h[i] = h[j] => i = j) /\ \A i \in DOMAIN s : s[i] = s[h[i]]
  OBVIOUS
<1> HIDE DEF h
<1> QED
  BY <1>1 DEF Picks

LEMMA LastPicks ==
    ASSUME NEW V, NEW s \in Seq(V), NEW n \in Nat, NEW w, w = LastOf(s, n)
    PROVE  /\ w \in Seq(V) /\ Len(w) <= n /\ Len(w) <= Len(s) /\ Picks(w, s)
           /\ Len(s) <= n => w = s
           /\ Len(s) = n + 1 => Len(w) = n /\ \A i \in 1..n : w[i] = s[i + 1]
<1>1. Len(s) \in Nat
  BY LenProperties
<1>2. CASE Len(s) <= n
  <2>1. w = s
    BY <1>2 DEF LastOf
  <2> QED
    BY <1>1, <1>2, <2>1, SamePicks
<1>3. CASE ~(Len(s) <= n)
  <2>1. PICK d \in Nat : d = Len(s) - n
    BY <1>1, <1>3
  <2>2. d <= Len(s) /\ Len(s) - d = n
    BY <1>1, <1>3, <2>1
  <2>3. w = SubSeq(s, d + 1, Len(s))
    BY <1>3, <2>1 DEF LastOf
  <2>4. w \in Seq(V) /\ Len(w) = n /\ Picks(w, s) /\ \A i \in 1..n : w[i] = s[d + i]
    BY <1>1, <2>2, <2>3, StretchPicks
  <2>5. Len(s) = n + 1 => \A i \in 1..n : w[i] = s[i + 1]
    <3> SUFFICES ASSUME Len(s) = n + 1 PROVE \A i \in 1..n : w[i] = s[i + 1]
      OBVIOUS
    <3>1. d = 1
      BY <2>1
    <3>2. \A i \in 1..n : d + i = i + 1
      BY <3>1
    <3> QED
      BY <2>4, <3>2
  <2> QED
    BY <1>1, <1>3, <2>4, <2>5
<1> QED
  BY <1>2, <1>3

LEMMA RemovePicks ==
    ASSUME NEW V, NEW s \in Seq(V), NEW k \in DOMAIN s, NEW w, w = RemoveAt(s, k)
    PROVE  w \in Seq(V) /\ Len(w) <= Len(s) /\ Picks(w, s)
<1>1. Len(s) \in Nat /\ DOMAIN s = 1..Len(s) /\ k \in 1..Len(s) /\ k - 1 \in Nat /\ Len(s) - k \in Nat
  BY LenProperties
<1>2. PICK n \in Nat, r \in Nat : n = k - 1 /\ r = Len(s) - k
  BY <1>1
<1>3. PICK a, b : a = SubSeq(s, 1, n) /\ b = SubSeq(s, k + 1, Len(s))
  OBVIOUS
<1>4. k \in Nat /\ k <= Len(s) /\ n <= Len(s)
  BY <1>1, <1>2
<1>5. a \in Seq(V) /\ Len(a) = n /\ \A i \in 1..n : a[i] = s[i]
  <2>1. PICK z \in Nat : z = 0
    OBVIOUS
  <2>2. z <= n /\ z + 1 = 1 /\ n - z = n /\ \A i \in 1..n : z + i = i
    BY <2>1
  <2>3. SubSeq(s, z + 1, n) \in Seq(V) /\ Len(SubSeq(s, z + 1, n)) = n - z
        /\ \A i \in 1..(n - z) : SubSeq(s, z + 1, n)[i] = s[z + i]
    BY <1>4, <2>2, StretchPicks
  <2> QED
    BY <1>3, <2>2, <2>3
<1>6. b \in Seq(V) /\ Len(b) = r /\ \A i \in 1..r : b[i] = s[k + i]
  <2>1. PICK d \in Nat, e \in Nat : d = k /\ e = Len(s)
    BY <1>1, <1>4
  <2>2. d <= e /\ e <= Len(s) /\ e - d = r
    BY <1>1, <1>2, <1>4, <2>1
  <2>3. /\ SubSeq(s, d + 1, e) \in Seq(V) /\ Len(SubSeq(s, d + 1, e)) = e - d
        /\ \A i \in 1..(e - d) : SubSeq(s, d + 1, e)[i] = s[d + i]
    BY <2>2, StretchPicks
  <2>4. b = SubSeq(s, d + 1, e)
    BY <1>3, <2>1
  <2> QED
    BY <2>1, <2>2, <2>3, <2>4
<1>7. w = a \o b
  <2>1. RemoveAt(s, k) = SubSeq(s, 1, k - 1) \o SubSeq(s, k + 1, Len(s))
    BY DEF RemoveAt
  <2> QED
    BY <1>2, <1>3, <2>1
<1>8. w \in Seq(V) /\ Len(w) = n + r /\ \A i \in 1..(n + r) : w[i] = IF i <= n THEN a[i] ELSE b[i - n]
  <2>1. a \in Seq(V) /\ b \in Seq(V)
    BY <1>5, <1>6
  <2>2. /\ a \o b \in Seq(V) /\ Len(a \o b) = Len(a) + Len(b)
        /\ \A i \in 1..(Len(a) + Len(b)) : (a \o b)[i] = IF i <= Len(a) THEN a[i] ELSE b[i - Len(a)]
    BY <2>1, ConcatProperties
  <2> QED
    BY <1>5, <1>6, <1>7, <2>2
<1> DEFINE h == [i \in 1..(n + r) |-> IF i <= n THEN i ELSE i + 1]
<1>9. DOMAIN w = 1..(n + r) /\ n + r <= Len(s)
  BY <1>1, <1>2, <1>8, LenProperties
<1>10. h \in [DOMAIN w -> DOMAIN s] /\ \A i, j \in DOMAIN w : h[i] = h[j] => i = j
  <2>1. \A i \in 1..(n + r) : h[i] \in 1..Len(s) /\ h[i] = IF i <= n THEN i ELSE i + 1
    BY <1>1, <1>2
  <2>2. h \in [1..(n + r) -> 1..Len(s)]
    BY <2>1
  <2>3. ASSUME NEW i \in 1..(n + r), NEW j \in 1..(n + r), h[i] = h[j] PROVE i = j
    BY <2>1, <2>3
  <2> QED
    BY <1>1, <1>9, <2>2, <2>3
<1>11. ASSUME NEW i \in DOMAIN w PROVE w[i] = s[h[i]]
  <2>1. CASE i <= n
    BY <1>5, <1>8, <1>9, <2>1
  <2>2. CASE ~(i <= n)
    <3>1. i - n \in 1..r /\ k + (i - n) = i + 1
      BY <1>1, <1>2, <1>9, <2>2
    <3> QED
      BY <1>6, <1>8, <1>9, <2>2, <3>1
  <2> QED
    BY <2>1, <2>2
<1> HIDE DEF h
<1> QED
  BY <1>8, <1>9, <1>10, <1>11 DEF Picks

LEMMA PicksCompose ==
    ASSUME NEW r, NEW q, NEW s, Picks(r, q), Picks(q, s) PROVE Picks(r, s)
<1>1. PICK h \in [DOMAIN r -> DOMAIN q] : (\A i, j \in DOMAIN r : h[i] = h[j] => i = j) /\ \A i \in DOMAIN r : r[i] = q[h[i]]
  BY DEF Picks
<1>2. PICK g \in [DOMAIN q -> DOMAIN s] : (\A i, j \in DOMAIN q : g[i] = g[j] => i = j) /\ \A i \in DOMAIN q : q[i] = s[g[i]]
  BY DEF Picks
<1> DEFINE f == [i \in DOMAIN r |-> g[h[i]]]
<1>3. f \in [DOMAIN r -> DOMAIN s] /\ (\A i, j \in DOMAIN r : f[i] = f[j] => i = j) /\ \A i \in DOMAIN r : r[i] = s[f[i]]
  BY <1>1, <1>2
<1> HIDE DEF f
<1> QED
  BY <1>3 DEF Picks

-----------------------------------------------------------------------------
(* What the memory holds.                                                    *)

Patterns == UNION {o.failed : o \in MemOutcomes}
Failures == [pattern : Patterns, count : Nat]
Episodes == MemNames \X {"partial", "failure", "success"}
Procedures == [name : MemNames, id : Nat, status : {"active", "rolled_back"}, ok : Nat, bad : Nat]
PagesSeen == {NoPage} \cup {o.page : o \in MemOutcomes}
Memories == [fails : Seq(Failures), env : [page : PagesSeen, fresh : BOOLEAN],
             eps : Seq(Episodes), procs : Seq(Procedures)]
Earned(r) == r.status = "active" => r.bad < 2 \/ r.bad <= r.ok

\* Procedures with numbers of their own, all below n, the active ones of which
\* have earned it.
Numbered(q, n) ==
  /\ q \in Seq(Procedures)
  /\ \A i \in DOMAIN q : Earned(q[i]) /\ q[i].id < n
  /\ \A i, j \in DOMAIN q : q[i].id = q[j].id => i = j
GoodProcedures(q, n) == Numbered(q, n) /\ Len(q) <= MaxMemProcs

\* Memories within their caps.
GoodMemories(n) ==
  {m \in Memories : Len(m.fails) <= MaxMemFails /\ Len(m.eps) <= MaxMemEps /\ GoodProcedures(m.procs, n)}

\* What is in q is new, from k on, or was in p, and then it stays rolled back.
Follows(p, q, k) ==
  \A j \in DOMAIN q :
    \/ q[j].id >= k
    \/ \E i \in DOMAIN p : p[i].id = q[j].id /\ (p[i].status = "rolled_back" => q[j].status = "rolled_back")

LEMMA NumberedPicked ==
    ASSUME NEW n, NEW s, Numbered(s, n), NEW q \in Seq(Procedures), Picks(q, s)
    PROVE  Numbered(q, n)
<1>1. PICK h \in [DOMAIN q -> DOMAIN s] : (\A i, j \in DOMAIN q : h[i] = h[j] => i = j) /\ \A i \in DOMAIN q : q[i] = s[h[i]]
  BY DEF Picks
<1>2. \A i \in DOMAIN q : Earned(q[i]) /\ q[i].id < n
  BY <1>1 DEF Numbered
<1>3. ASSUME NEW i \in DOMAIN q, NEW j \in DOMAIN q, q[i].id = q[j].id PROVE i = j
  <2>1. h[i] = h[j]
    BY <1>1, <1>3 DEF Numbered
  <2> QED
    BY <1>1, <2>1
<1> QED
  BY <1>2, <1>3 DEF Numbered

LEMMA FollowsPicked ==
    ASSUME NEW p, NEW k, NEW s, Follows(p, s, k), NEW q, Picks(q, s)
    PROVE  Follows(p, q, k)
  BY DEF Follows, Picks

LEMMA FollowsItself ==
    ASSUME NEW p, NEW k PROVE Follows(p, p, k)
  BY DEF Follows

\* One more procedure, with a number of its own.
LEMMA ProcedureAdded ==
    ASSUME NEW n \in Nat, NEW w, Numbered(w, n), NEW r \in Procedures, Earned(r), r.id < n,
           \A i \in DOMAIN w : w[i].id # r.id, NEW q, q = Append(w, r)
    PROVE  Numbered(q, n)
<1>1. w \in Seq(Procedures) /\ DOMAIN w = 1..Len(w) /\ Len(w) \in Nat
  BY LenProperties DEF Numbered
<1>2. /\ q \in Seq(Procedures) /\ Len(q) = Len(w) + 1 /\ (\A i \in 1..Len(w) : q[i] = w[i])
      /\ q[Len(w) + 1] = r
  BY <1>1, AppendProperties
<1>3. DOMAIN q = 1..(Len(w) + 1) /\ \A i \in DOMAIN q : i \in DOMAIN w \/ i = Len(w) + 1
  BY <1>1, <1>2, LenProperties
<1>4. ASSUME NEW i \in DOMAIN q PROVE Earned(q[i]) /\ q[i].id < n
  <2>1. CASE i \in DOMAIN w
    BY <1>1, <1>2, <2>1 DEF Numbered
  <2>2. CASE i = Len(w) + 1
    BY <1>2, <2>2
  <2> QED
    BY <1>3, <2>1, <2>2
<1>5. ASSUME NEW i \in DOMAIN q, NEW j \in DOMAIN q, q[i].id = q[j].id PROVE i = j
  <2>1. CASE i \in DOMAIN w /\ j \in DOMAIN w
    BY <1>1, <1>2, <1>5, <2>1 DEF Numbered
  <2>2. CASE i \in DOMAIN w /\ j = Len(w) + 1
    BY <1>1, <1>2, <1>5, <2>2
  <2>3. CASE i = Len(w) + 1 /\ j \in DOMAIN w
    BY <1>1, <1>2, <1>5, <2>3
  <2> QED
    BY <1>3, <2>1, <2>2, <2>3
<1> QED
  BY <1>2, <1>4, <1>5 DEF Numbered

LEMMA FollowsAdded ==
    ASSUME NEW p, NEW k, NEW w \in Seq(Procedures), Follows(p, w, k), NEW r \in Procedures,
           \/ r.id >= k
           \/ \E i \in DOMAIN p : p[i].id = r.id /\ (p[i].status = "rolled_back" => r.status = "rolled_back"),
           NEW q, q = Append(w, r)
    PROVE  Follows(p, q, k)
<1>1. DOMAIN w = 1..Len(w) /\ Len(w) \in Nat
  BY LenProperties
<1>2. /\ q \in Seq(Procedures) /\ Len(q) = Len(w) + 1 /\ (\A i \in 1..Len(w) : q[i] = w[i])
      /\ q[Len(w) + 1] = r
  BY <1>1, AppendProperties
<1>3. DOMAIN q = 1..(Len(w) + 1) /\ \A i \in DOMAIN q : i \in DOMAIN w \/ i = Len(w) + 1
  BY <1>1, <1>2, LenProperties
<1> QED
  BY <1>1, <1>2, <1>3 DEF Follows

\* Memories that differ in one layer.
LEMMA OtherFailures ==
    ASSUME NEW n, NEW m \in GoodMemories(n), NEW f \in Seq(Failures), Len(f) <= MaxMemFails, NEW z, z = [m EXCEPT !.fails = f]
    PROVE  z \in GoodMemories(n) /\ z.procs = m.procs
<1>1. m \in Memories /\ Len(m.eps) <= MaxMemEps /\ GoodProcedures(m.procs, n)
  BY DEF GoodMemories
<1>2. z \in Memories /\ z.fails = f /\ z.eps = m.eps /\ z.procs = m.procs
  BY <1>1 DEF Memories
<1> QED
  BY <1>1, <1>2 DEF GoodMemories

LEMMA OtherProcedures ==
    ASSUME NEW n, NEW k, NEW m \in GoodMemories(n), NEW q, GoodProcedures(q, k), NEW z, z = [m EXCEPT !.procs = q]
    PROVE  z \in GoodMemories(k) /\ z.procs = q
<1>1. m \in Memories /\ Len(m.fails) <= MaxMemFails /\ Len(m.eps) <= MaxMemEps /\ q \in Seq(Procedures)
  BY DEF GoodMemories, GoodProcedures, Numbered
<1>2. z \in Memories /\ z.fails = m.fails /\ z.eps = m.eps /\ z.procs = q
  BY <1>1 DEF Memories
<1> QED
  BY <1>1, <1>2 DEF GoodMemories

\* A failure that is recorded, and a procedure that failed.
LEMMA FailureKeeps ==
    ASSUME NEW n, NEW m \in GoodMemories(n), NEW p \in Patterns
    PROVE  FailureRecorded(m, p) \in GoodMemories(n) /\ FailureRecorded(m, p).procs = m.procs
<1>1. m \in Memories /\ m.fails \in Seq(Failures)
  BY DEF GoodMemories, Memories
<1> DEFINE same == {r \in Range(m.fails) : r.pattern = p}
           times == IF same = {} THEN 1 ELSE (CHOOSE r \in same : TRUE).count + 1
<1>2. times \in Nat
  <2>1. same \subseteq Failures
    BY <1>1, ElementOfSeq DEF Range
  <2> HIDE DEF same
  <2>2. CASE same = {}
    BY <2>2
  <2>3. CASE same # {}
    <3>1. PICK r : r = CHOOSE x \in same : TRUE
      OBVIOUS
    <3>2. r \in Failures
      BY <2>1, <2>3, <3>1
    <3>3. r.count \in Nat /\ times = r.count + 1
      BY <2>3, <3>1, <3>2 DEF Failures
    <3> QED
      BY <3>3
  <2> QED
    BY <2>2, <2>3
<1> HIDE DEF times
<1>3. PICK r : r = [pattern |-> p, count |-> times]
  OBVIOUS
<1>4. r \in Failures
  BY <1>2, <1>3 DEF Failures
<1>5. PICK w : w = Without(m.fails, same)
  OBVIOUS
<1>6. w \in Seq(Failures)
  BY <1>1, <1>5, WithoutPicks
<1>7. PICK a : a = Append(w, r)
  OBVIOUS
<1>8. a \in Seq(Failures)
  BY <1>4, <1>6, <1>7, AppendProperties
<1>9. PICK f : f = LastOf(a, MaxMemFails)
  OBVIOUS
<1>10. f \in Seq(Failures) /\ Len(f) <= MaxMemFails
  <2>1. MaxMemFails \in Nat
    BY MemAssumption
  <2> QED
    BY <1>8, <1>9, <2>1, LastPicks
<1>11. FailureRecorded(m, p) = [m EXCEPT !.fails = f]
  BY <1>3, <1>5, <1>7, <1>9 DEF FailureRecorded, times, same
<1> QED
  BY <1>10, <1>11, OtherFailures

LEMMA ProcedureFails ==
    ASSUME NEW n \in Nat, NEW m \in GoodMemories(n), NEW id, NEW p, NEW k, Follows(p, m.procs, k)
    PROVE  ProcedureFailed(m, id) \in GoodMemories(n) /\ Follows(p, ProcedureFailed(m, id).procs, k)
<1>1. m \in Memories /\ m.procs \in Seq(Procedures) /\ Numbered(m.procs, n)
      /\ Len(m.procs) <= MaxMemProcs
  BY DEF GoodMemories, Memories, GoodProcedures
<1> DEFINE same == {r \in Range(m.procs) : r.id = id}
<1>2. PICK hit : hit = Where(m.procs, same)
  OBVIOUS
<1>3. CASE hit = <<>>
  BY <1>2, <1>3 DEF ProcedureFailed
<1>4. CASE hit # <<>>
  <2>1. hit \in Seq(Procedures) /\ Picks(hit, m.procs) /\ (\A i \in DOMAIN hit : hit[i] \in same)
    BY <1>1, <1>2, WherePicks
  <2>2. 1 \in DOMAIN hit
    BY <1>4, <2>1
  <2>3. PICK a \in DOMAIN m.procs : hit[1] = m.procs[a]
    BY <2>1, <2>2 DEF Picks
  <2>4. m.procs[a] \in same /\ m.procs[a] \in Procedures /\ m.procs[a].id = id
    BY <1>1, <2>1, <2>2, <2>3, ElementOfSeq
  <2>5. PICK o \in Procedures : o = m.procs[a]
    BY <2>4
  <2>6. PICK r : r = [o EXCEPT !.bad = @ + 1]
    OBVIOUS
  <2>7. r \in Procedures /\ r.id = o.id /\ r.status = o.status
    BY <2>6 DEF Procedures
  <2>8. PICK f : f = IF r.bad >= 2 /\ r.bad > r.ok THEN RolledBack(r) ELSE r
    OBVIOUS
  <2>9. f \in Procedures /\ f.id = o.id /\ (o.status = "rolled_back" => f.status = "rolled_back") /\ Earned(f)
    <3>1. CASE r.bad >= 2 /\ r.bad > r.ok
      BY <2>7, <2>8, <3>1 DEF RolledBack, Procedures, Earned
    <3>2. CASE ~(r.bad >= 2 /\ r.bad > r.ok)
      <4>1. f = r /\ r.bad \in Nat /\ r.ok \in Nat
        BY <2>7, <2>8, <3>2 DEF Procedures
      <4> QED
        BY <2>7, <3>2, <4>1 DEF Earned
    <3> QED
      BY <3>1, <3>2
  <2>10. PICK w : w = Without(m.procs, same)
    OBVIOUS
  <2>11. /\ w \in Seq(Procedures) /\ Len(w) < Len(m.procs) /\ Picks(w, m.procs)
         /\ \A i \in DOMAIN w : w[i] \notin same
    BY <1>1, <2>4, <2>10, WithoutPicks
  <2>12. PICK q : q = Append(w, f)
    OBVIOUS
  <2>13. Len(q) <= MaxMemProcs /\ Len(w) <= MaxMemProcs
    <3>1. Len(q) = Len(w) + 1 /\ Len(w) \in Nat /\ Len(m.procs) \in Nat
      BY <1>1, <2>9, <2>11, <2>12, AppendProperties, LenProperties
    <3>2. Len(m.procs) <= MaxMemProcs /\ MaxMemProcs \in Nat
      BY <1>1, MemAssumption
    <3> QED
      BY <2>11, <3>1, <3>2
  <2>14. Numbered(w, n)
    BY <1>1, <2>11, NumberedPicked
  <2>15. \A i \in DOMAIN w : w[i].id # f.id
    <3> SUFFICES ASSUME NEW i \in DOMAIN w, w[i].id = f.id PROVE FALSE
      OBVIOUS
    <3>1. PICK j \in DOMAIN m.procs : w[i] = m.procs[j]
      BY <2>11 DEF Picks
    <3>2. w[i] \in same
      BY <2>4, <2>5, <2>9, <3>1 DEF Range
    <3> QED
      BY <2>11, <3>2
  <2>16. f.id < n
    BY <1>1, <2>5, <2>9 DEF Numbered
  <2>17. GoodProcedures(q, n)
    <3>1. Numbered(q, n)
      BY <2>9, <2>12, <2>14, <2>15, <2>16, ProcedureAdded
    <3> QED
      BY <2>13, <3>1 DEF GoodProcedures
  <2>18. Follows(p, w, k)
    BY <2>11, FollowsPicked
  <2>19. \/ f.id >= k
         \/ \E i \in DOMAIN p : p[i].id = f.id /\ (p[i].status = "rolled_back" => f.status = "rolled_back")
    BY <2>5, <2>9 DEF Follows
  <2>20. Follows(p, q, k)
    BY <2>9, <2>11, <2>12, <2>18, <2>19, FollowsAdded
  <2>21. ProcedureFailed(m, id) = [m EXCEPT !.procs = q]
    BY <1>2, <1>4, <2>3, <2>5, <2>6, <2>8, <2>10, <2>12 DEF ProcedureFailed
  <2> QED
    BY <2>17, <2>20, <2>21, OtherProcedures
<1> QED
  BY <1>3, <1>4

-----------------------------------------------------------------------------
(* What a run is advised, and what its end teaches.                          *)

\* The failures of a run, one after the other.
LEMMA FailuresKeep ==
    ASSUME NEW n, NEW m \in GoodMemories(n), NEW w \in Seq(Patterns)
    PROVE  FoldLeft(FailureRecorded, m, w) \in {z \in GoodMemories(n) : z.procs = m.procs}
<1> DEFINE N == Len(w)
           V == {z \in GoodMemories(n) : z.procs = m.procs}
           H == [p \in V \X (1..N) |-> FailureRecorded(p[1], w[p[2]])]
           Solves(g) == g = [c \in SUBSET (1..N) |-> IF c = {} THEN m ELSE FailureRecorded(g[c \ {Max(c)}], w[Max(c)])]
           it == CHOOSE g : Solves(g)
<1>1. N \in Nat /\ DOMAIN w = 1..N /\ m \in V
  BY LenProperties
<1>2. FoldLeft(FailureRecorded, m, w) = it[1..N]
  BY <1>1 DEF FoldLeft, MapThenFoldSet
<1>3. ASSUME NEW z \in V, NEW k \in 1..N PROVE FailureRecorded(z, w[k]) \in V
  <2>1. w[k] \in Patterns
    BY <1>1, ElementOfSeq
  <2>2. z \in GoodMemories(n) /\ z.procs = m.procs
    OBVIOUS
  <2> QED
    BY <2>1, <2>2, FailureKeeps
<1>4. H \in [V \X (1..N) -> V]
  <2> HIDE DEF V, N
  <2> QED
    BY <1>3
<1>5. \E g : Solves(g)
  <2> HIDE DEF N, H, V
  <2>1. PICK g : Solution(V, N, m, H, g)
    <3>1. N \in Nat /\ m \in V /\ StepsIn(V, N, H)
      BY <1>1, <1>4 DEF StepsIn
    <3> QED
      BY <3>1, FoldExists
  <2>2. ASSUME NEW c \in SUBSET (1..N), c # {} PROVE H[<<g[c \ {Max(c)}], Max(c)>>] = FailureRecorded(g[c \ {Max(c)}], w[Max(c)])
    <3>1. Max(c) \in 1..N /\ g[c \ {Max(c)}] \in V
      BY <1>1, <2>1, <2>2, MaxIsLargest DEF Solution
    <3> QED
      BY <3>1 DEF H
  <2>3. Solves(g)
    BY <2>1, <2>2 DEF Solution
  <2> QED
    BY <2>3
<1>6. Solves(it)
  <2> HIDE DEF Solves
  <2> QED
    BY <1>5
<1> HIDE DEF it, N, V, H
<1>7. it[{}] \in V
  BY <1>1, <1>6
<1>8. ASSUME NEW k \in 1..N, it[1..(k - 1)] \in V PROVE it[1..k] \in V
  <2>1. k \in Nat \ {0} /\ 1..k \in SUBSET (1..N)
    BY <1>1
  <2>2. 1..k # {} /\ Max(1..k) = k /\ (1..k) \ {k} = 1..(k - 1)
    BY <2>1, WholeWithoutMax
  <2>3. it[1..k] = FailureRecorded(it[1..(k - 1)], w[k])
    BY <1>6, <2>1, <2>2
  <2> HIDE DEF Solves
  <2> QED
    BY <1>3, <1>8, <2>3
<1>9. it[1..N] \in V
  BY <1>1, <1>7, <1>8, FoldStays
<1> QED
  BY <1>2, <1>9 DEF V

\* The procedures a failed run was advised.
LEMMA ProceduresKeep ==
    ASSUME NEW n \in Nat, NEW p0, NEW k0, NEW m \in GoodMemories(n), Follows(p0, m.procs, k0), NEW L, NEW w \in Seq(L)
    PROVE  FoldLeft(LAMBDA a, l : ProcedureFailed(a, l[2]), m, w) \in {z \in GoodMemories(n) : Follows(p0, z.procs, k0)}
<1> DEFINE N == Len(w)
           V == {z \in GoodMemories(n) : Follows(p0, z.procs, k0)}
           H == [p \in V \X (1..N) |-> ProcedureFailed(p[1], w[p[2]][2])]
           Solves(g) == g = [c \in SUBSET (1..N) |-> IF c = {} THEN m ELSE ProcedureFailed(g[c \ {Max(c)}], w[Max(c)][2])]
           it == CHOOSE g : Solves(g)
<1>1. N \in Nat /\ DOMAIN w = 1..N /\ m \in V
  BY LenProperties
<1>2. FoldLeft(LAMBDA a, l : ProcedureFailed(a, l[2]), m, w) = it[1..N]
  BY <1>1 DEF FoldLeft, MapThenFoldSet
<1>3. ASSUME NEW z \in V, NEW k \in 1..N PROVE ProcedureFailed(z, w[k][2]) \in V
  <2>1. z \in GoodMemories(n) /\ Follows(p0, z.procs, k0)
    OBVIOUS
  <2> QED
    BY <2>1, ProcedureFails
<1>4. H \in [V \X (1..N) -> V]
  <2> HIDE DEF V, N
  <2> QED
    BY <1>3
<1>5. \E g : Solves(g)
  <2> HIDE DEF N, H, V
  <2>1. PICK g : Solution(V, N, m, H, g)
    <3>1. N \in Nat /\ m \in V /\ StepsIn(V, N, H)
      BY <1>1, <1>4 DEF StepsIn
    <3> QED
      BY <3>1, FoldExists
  <2>2. ASSUME NEW c \in SUBSET (1..N), c # {} PROVE H[<<g[c \ {Max(c)}], Max(c)>>] = ProcedureFailed(g[c \ {Max(c)}], w[Max(c)][2])
    <3>1. Max(c) \in 1..N /\ g[c \ {Max(c)}] \in V
      BY <1>1, <2>1, <2>2, MaxIsLargest DEF Solution
    <3> QED
      BY <3>1 DEF H
  <2>3. Solves(g)
    BY <2>1, <2>2 DEF Solution
  <2> QED
    BY <2>3
<1>6. Solves(it)
  <2> HIDE DEF Solves
  <2> QED
    BY <1>5
<1> HIDE DEF it, N, V, H
<1>7. it[{}] \in V
  BY <1>1, <1>6
<1>8. ASSUME NEW k \in 1..N, it[1..(k - 1)] \in V PROVE it[1..k] \in V
  <2>1. k \in Nat \ {0} /\ 1..k \in SUBSET (1..N)
    BY <1>1
  <2>2. 1..k # {} /\ Max(1..k) = k /\ (1..k) \ {k} = 1..(k - 1)
    BY <2>1, WholeWithoutMax
  <2>3. it[1..k] = ProcedureFailed(it[1..(k - 1)], w[k][2])
    BY <1>6, <2>1, <2>2
  <2> HIDE DEF Solves
  <2> QED
    BY <1>3, <1>8, <2>3
<1>9. it[1..N] \in V
  BY <1>1, <1>7, <1>8, FoldStays
<1> QED
  BY <1>2, <1>9 DEF V

AdviceLines == {"preference", "fact", "lesson", "failure", "environment", "stale", "procedure", "episode"}
                 \X (NoteKinds \cup Patterns \cup PagesSeen \cup MemNames \cup Nat)

\* The lines of one layer.
LEMMA PushedIsAdvice ==
    ASSUME NEW a \in Seq(AdviceLines), NEW w \in Seq(AdviceLines)
    PROVE  FoldLeft(LAMBDA acc, line : IF acc.open /\ Used(acc.a) + LineSize(line) <= MemBudget THEN [acc EXCEPT !.a = Append(@, line)] ELSE [acc EXCEPT !.open = FALSE], [a |-> a, open |-> TRUE], w) \in [a : Seq(AdviceLines), open : BOOLEAN]
<1> DEFINE N == Len(w)
           V == [a : Seq(AdviceLines), open : BOOLEAN]
           H == [p \in V \X (1..N) |-> (IF p[1].open /\ Used(p[1].a) + LineSize(w[p[2]]) <= MemBudget THEN [p[1] EXCEPT !.a = Append(@, w[p[2]])] ELSE [p[1] EXCEPT !.open = FALSE])]
           Solves(g) == g = [c \in SUBSET (1..N) |-> IF c = {} THEN [a |-> a, open |-> TRUE] ELSE (IF g[c \ {Max(c)}].open /\ Used(g[c \ {Max(c)}].a) + LineSize(w[Max(c)]) <= MemBudget THEN [g[c \ {Max(c)}] EXCEPT !.a = Append(@, w[Max(c)])] ELSE [g[c \ {Max(c)}] EXCEPT !.open = FALSE])]
           it == CHOOSE g : Solves(g)
<1>1. N \in Nat /\ DOMAIN w = 1..N /\ [a |-> a, open |-> TRUE] \in V
  BY LenProperties
<1>2. FoldLeft(LAMBDA acc, line : IF acc.open /\ Used(acc.a) + LineSize(line) <= MemBudget THEN [acc EXCEPT !.a = Append(@, line)] ELSE [acc EXCEPT !.open = FALSE], [a |-> a, open |-> TRUE], w) = it[1..N]
  BY <1>1 DEF FoldLeft, MapThenFoldSet
<1>3. ASSUME NEW z \in V, NEW k \in 1..N PROVE (IF z.open /\ Used(z.a) + LineSize(w[k]) <= MemBudget THEN [z EXCEPT !.a = Append(@, w[k])] ELSE [z EXCEPT !.open = FALSE]) \in V
  <2>1. w[k] \in AdviceLines
    BY <1>1, ElementOfSeq
  <2>2. Append(z.a, w[k]) \in Seq(AdviceLines)
    BY <2>1, AppendProperties
  <2>3. [z EXCEPT !.a = Append(@, w[k])] \in V
    BY <2>2
  <2>4. [z EXCEPT !.open = FALSE] \in V
    OBVIOUS
  <2> QED
    BY <2>3, <2>4
<1>4. H \in [V \X (1..N) -> V]
  <2> HIDE DEF V, N
  <2> QED
    BY <1>3
<1>5. \E g : Solves(g)
  <2> HIDE DEF N, H, V
  <2>1. PICK g : Solution(V, N, [a |-> a, open |-> TRUE], H, g)
    <3>1. N \in Nat /\ [a |-> a, open |-> TRUE] \in V /\ StepsIn(V, N, H)
      BY <1>1, <1>4 DEF StepsIn
    <3> QED
      BY <3>1, FoldExists
  <2>2. ASSUME NEW c \in SUBSET (1..N), c # {} PROVE H[<<g[c \ {Max(c)}], Max(c)>>] = (IF g[c \ {Max(c)}].open /\ Used(g[c \ {Max(c)}].a) + LineSize(w[Max(c)]) <= MemBudget THEN [g[c \ {Max(c)}] EXCEPT !.a = Append(@, w[Max(c)])] ELSE [g[c \ {Max(c)}] EXCEPT !.open = FALSE])
    <3>1. Max(c) \in 1..N /\ g[c \ {Max(c)}] \in V
      BY <1>1, <2>1, <2>2, MaxIsLargest DEF Solution
    <3> QED
      BY <3>1 DEF H
  <2>3. Solves(g)
    BY <2>1, <2>2 DEF Solution
  <2> QED
    BY <2>3
<1>6. Solves(it)
  <2> HIDE DEF Solves
  <2> QED
    BY <1>5
<1> HIDE DEF it, N, V, H
<1>7. it[{}] \in V
  BY <1>1, <1>6
<1>8. ASSUME NEW k \in 1..N, it[1..(k - 1)] \in V PROVE it[1..k] \in V
  <2>1. k \in Nat \ {0} /\ 1..k \in SUBSET (1..N)
    BY <1>1
  <2>2. 1..k # {} /\ Max(1..k) = k /\ (1..k) \ {k} = 1..(k - 1)
    BY <2>1, WholeWithoutMax
  <2>3. it[1..k] = (IF it[1..(k - 1)].open /\ Used(it[1..(k - 1)].a) + LineSize(w[k]) <= MemBudget THEN [it[1..(k - 1)] EXCEPT !.a = Append(@, w[k])] ELSE [it[1..(k - 1)] EXCEPT !.open = FALSE])
    BY <1>6, <2>1, <2>2
  <2> HIDE DEF Solves
  <2> QED
    BY <1>3, <1>8, <2>3
<1>9. it[1..N] \in V
  BY <1>1, <1>7, <1>8, FoldStays
<1> QED
  BY <1>2, <1>9 DEF V

LEMMA LayerIsAdvice ==
    ASSUME NEW a \in Seq(AdviceLines), NEW w \in Seq(AdviceLines)
    PROVE  Pushed(a, w) \in Seq(AdviceLines)
  BY PushedIsAdvice DEF Pushed

\* The lines of all layers.
LEMMA LayersAreAdvice ==
    ASSUME NEW w \in Seq(Seq(AdviceLines))
    PROVE  FoldLeft(Pushed, <<>>, w) \in Seq(AdviceLines)
<1> DEFINE N == Len(w)
           V == Seq(AdviceLines)
           H == [p \in V \X (1..N) |-> Pushed(p[1], w[p[2]])]
           Solves(g) == g = [c \in SUBSET (1..N) |-> IF c = {} THEN <<>> ELSE Pushed(g[c \ {Max(c)}], w[Max(c)])]
           it == CHOOSE g : Solves(g)
<1>1. N \in Nat /\ DOMAIN w = 1..N /\ <<>> \in V
  BY LenProperties
<1>2. FoldLeft(Pushed, <<>>, w) = it[1..N]
  BY <1>1 DEF FoldLeft, MapThenFoldSet
<1>3. ASSUME NEW z \in V, NEW k \in 1..N PROVE Pushed(z, w[k]) \in V
  <2>1. w[k] \in Seq(AdviceLines)
    BY <1>1, ElementOfSeq
  <2> QED
    BY <2>1, LayerIsAdvice
<1>4. H \in [V \X (1..N) -> V]
  <2> HIDE DEF V, N
  <2> QED
    BY <1>3
<1>5. \E g : Solves(g)
  <2> HIDE DEF N, H, V
  <2>1. PICK g : Solution(V, N, <<>>, H, g)
    <3>1. N \in Nat /\ <<>> \in V /\ StepsIn(V, N, H)
      BY <1>1, <1>4 DEF StepsIn
    <3> QED
      BY <3>1, FoldExists
  <2>2. ASSUME NEW c \in SUBSET (1..N), c # {} PROVE H[<<g[c \ {Max(c)}], Max(c)>>] = Pushed(g[c \ {Max(c)}], w[Max(c)])
    <3>1. Max(c) \in 1..N /\ g[c \ {Max(c)}] \in V
      BY <1>1, <2>1, <2>2, MaxIsLargest DEF Solution
    <3> QED
      BY <3>1 DEF H
  <2>3. Solves(g)
    BY <2>1, <2>2 DEF Solution
  <2> QED
    BY <2>3
<1>6. Solves(it)
  <2> HIDE DEF Solves
  <2> QED
    BY <1>5
<1> HIDE DEF it, N, V, H
<1>7. it[{}] \in V
  BY <1>1, <1>6
<1>8. ASSUME NEW k \in 1..N, it[1..(k - 1)] \in V PROVE it[1..k] \in V
  <2>1. k \in Nat \ {0} /\ 1..k \in SUBSET (1..N)
    BY <1>1
  <2>2. 1..k # {} /\ Max(1..k) = k /\ (1..k) \ {k} = 1..(k - 1)
    BY <2>1, WholeWithoutMax
  <2>3. it[1..k] = Pushed(it[1..(k - 1)], w[k])
    BY <1>6, <2>1, <2>2
  <2> HIDE DEF Solves
  <2> QED
    BY <1>3, <1>8, <2>3
<1>9. it[1..N] \in V
  BY <1>1, <1>7, <1>8, FoldStays
<1> QED
  BY <1>2, <1>9 DEF V

\* What a run is advised is a sequence of lines.
LEMMA AdviceIsLines ==
    ASSUME NEW n, NEW m \in GoodMemories(n), NEW ns \in Seq(NoteKinds), NEW name \in MemNames
    PROVE  Advised(m, ns, name) \in Seq(AdviceLines)
<1> DEFINE OfKind(k) == LET s == Where(ns, {k}) IN [i \in DOMAIN s |-> <<k, s[i]>>]
           past == EpisodesFor(m, name)
           layers == <<OfKind("preference"), OfKind("fact"), OfKind("lesson"), FailuresFor(m), EnvFor(m),
                       ProceduresFor(m), [i \in DOMAIN past |-> <<"episode", past[i][1]>>]>>
<1>1. m \in Memories /\ m.fails \in Seq(Failures) /\ m.eps \in Seq(Episodes) /\ m.procs \in Seq(Procedures)
      /\ m.env.page \in PagesSeen
  BY DEF GoodMemories, Memories
<1>2. ASSUME NEW k \in {"preference", "fact", "lesson"} PROVE OfKind(k) \in Seq(AdviceLines)
  <2>1. PICK s : s = Where(ns, {k})
    OBVIOUS
  <2>2. s \in Seq(NoteKinds) /\ DOMAIN s = 1..Len(s) /\ Len(s) \in Nat
    BY <2>1, WherePicks, LenProperties
  <2>3. \A i \in 1..Len(s) : <<k, s[i]>> \in AdviceLines
    BY <2>2, ElementOfSeq DEF AdviceLines
  <2>4. [i \in 1..Len(s) |-> <<k, s[i]>>] \in Seq(AdviceLines)
    BY <2>2, <2>3, IsASeq
  <2> QED
    BY <2>1, <2>2, <2>4
<1>3. FailuresFor(m) \in Seq(AdviceLines)
  <2>1. PICK s : s = LastOf(m.fails, 2)
    OBVIOUS
  <2>2. s \in Seq(Failures) /\ Len(s) \in Nat
    <3>1. PICK z \in Nat : z = 2
      OBVIOUS
    <3>2. PICK f : f = m.fails
      OBVIOUS
    <3>3. f \in Seq(Failures) /\ s = LastOf(f, z)
      BY <1>1, <2>1, <3>1, <3>2
    <3>4. s \in Seq(Failures)
      BY <3>3, LastPicks
    <3> QED
      BY <3>4, LenProperties
  <2>3. ASSUME NEW i \in 1..Len(s) PROVE <<"failure", s[i].pattern>> \in AdviceLines
    <3>1. s[i] \in Failures
      BY <2>2, ElementOfSeq
    <3>2. s[i].pattern \in Patterns
      BY <3>1 DEF Failures
    <3> QED
      BY <3>2 DEF AdviceLines
  <2>4. [i \in 1..Len(s) |-> <<"failure", s[i].pattern>>] \in Seq(AdviceLines)
    BY <2>2, <2>3, IsASeq
  <2> QED
    BY <2>1, <2>4 DEF FailuresFor
<1>4. EnvFor(m) \in Seq(AdviceLines)
  <2>1. PICK l : l = <<IF m.env.fresh THEN "environment" ELSE "stale", m.env.page>>
    OBVIOUS
  <2>2. l \in AdviceLines
    BY <1>1, <2>1 DEF AdviceLines
  <2>3. <<l>> \in Seq(AdviceLines) /\ <<>> \in Seq(AdviceLines)
    BY <2>2
  <2> QED
    BY <2>1, <2>3 DEF EnvFor
<1>5. ProceduresFor(m) \in Seq(AdviceLines)
  <2>1. PICK w, s : w = Where(m.procs, {r \in Range(m.procs) : r.status = "active"}) /\ s = LastOf(w, 2)
    OBVIOUS
  <2>2. w \in Seq(Procedures)
    BY <1>1, <2>1, WherePicks
  <2>3. s \in Seq(Procedures) /\ Len(s) \in Nat /\ DOMAIN s = 1..Len(s)
    BY <2>1, <2>2, LastPicks, LenProperties
  <2>4. ASSUME NEW i \in 1..Len(s) PROVE <<"procedure", s[i].id>> \in AdviceLines
    <3>1. s[i] \in Procedures
      BY <2>3, ElementOfSeq
    <3>2. s[i].id \in Nat
      BY <3>1 DEF Procedures
    <3> QED
      BY <3>2 DEF AdviceLines
  <2>5. [i \in 1..Len(s) |-> <<"procedure", s[i].id>>] \in Seq(AdviceLines)
    BY <2>3, <2>4, IsASeq
  <2> QED
    BY <2>1, <2>3, <2>5 DEF ProceduresFor
<1>6. [i \in DOMAIN past |-> <<"episode", past[i][1]>>] \in Seq(AdviceLines)
  <2>1. PICK w, s : w = Where(m.eps, {e \in Range(m.eps) : e[1] = name}) /\ s = LastOf(w, 1)
    OBVIOUS
  <2>2. w \in Seq(Episodes)
    BY <1>1, <2>1, WherePicks
  <2>3. s \in Seq(Episodes) /\ Len(s) \in Nat /\ DOMAIN s = 1..Len(s)
    BY <2>1, <2>2, LastPicks, LenProperties
  <2>4. \A i \in 1..Len(s) : <<"episode", s[i][1]>> \in AdviceLines
    BY <2>3, ElementOfSeq DEF AdviceLines, Episodes
  <2>5. [i \in 1..Len(s) |-> <<"episode", s[i][1]>>] \in Seq(AdviceLines)
    BY <2>3, <2>4, IsASeq
  <2>6. past = s
    BY <2>1 DEF EpisodesFor
  <2> QED
    BY <2>3, <2>5, <2>6
<1> HIDE DEF OfKind, past
<1>7. OfKind("preference") \in Seq(AdviceLines) /\ OfKind("fact") \in Seq(AdviceLines) /\ OfKind("lesson") \in Seq(AdviceLines)
  BY <1>2
<1>8. layers \in Seq(Seq(AdviceLines))
  <2>1. \A V : \A a, b, c, d, e, f, g \in V : <<a, b, c, d, e, f, g>> \in Seq(V)
    OBVIOUS
  <2> QED
    BY <1>3, <1>4, <1>5, <1>6, <1>7, <2>1
<1>9. Advised(m, ns, name) = FoldLeft(Pushed, <<>>, layers)
  BY Zenon DEF Advised, OfKind, past
<1> HIDE DEF layers
<1> QED
  BY <1>8, <1>9, LayersAreAdvice

\* What is good for n is good for what comes after n.
LEMMA GoodLater ==
    ASSUME NEW n \in Nat, NEW m \in GoodMemories(n)
    PROVE  m \in GoodMemories(n + 1)
<1>1. m \in Memories /\ m.procs \in Seq(Procedures) /\ Numbered(m.procs, n) /\ Len(m.procs) <= MaxMemProcs
  BY DEF GoodMemories, Memories, GoodProcedures
<1>2. \A i \in DOMAIN m.procs : m.procs[i].id < n + 1
  <2> SUFFICES ASSUME NEW i \in DOMAIN m.procs PROVE m.procs[i].id < n + 1
    OBVIOUS
  <2>1. m.procs[i] \in Procedures
    BY <1>1, ElementOfSeq
  <2>2. m.procs[i].id \in Nat /\ m.procs[i].id < n
    BY <1>1, <2>1 DEF Numbered, Procedures
  <2> QED
    BY <2>2
<1>3. GoodProcedures(m.procs, n + 1)
  BY <1>1, <1>2 DEF Numbered, GoodProcedures
<1> QED
  BY <1>3 DEF GoodMemories

\* A success makes a procedure, or reinforces the one there is.
LEMMA PromotedKeeps ==
    ASSUME NEW n \in Nat, NEW m \in GoodMemories(n), NEW name \in MemNames, NEW p, Follows(p, m.procs, n)
    PROVE  Promoted(m, name, n) \in GoodMemories(n + 1) /\ Follows(p, Promoted(m, name, n).procs, n)
<1>1. m \in Memories /\ m.procs \in Seq(Procedures) /\ Numbered(m.procs, n) /\ Len(m.procs) <= MaxMemProcs
  BY DEF GoodMemories, Memories, GoodProcedures
<1>2. m \in GoodMemories(n + 1) /\ Numbered(m.procs, n + 1)
  BY GoodLater DEF GoodMemories, GoodProcedures
<1> DEFINE same == {r \in Range(m.procs) : r.name = name}
<1>3. PICK old : old = Where(m.procs, same)
  OBVIOUS
<1>4. PICK w : w = Without(m.procs, same)
  OBVIOUS
<1>5. /\ old \in Seq(Procedures) /\ Picks(old, m.procs)
      /\ \A i \in DOMAIN old : old[i] \in same
  BY <1>1, <1>3, WherePicks
<1>6. /\ w \in Seq(Procedures) /\ Picks(w, m.procs)
      /\ \A i \in DOMAIN w : w[i] \notin same
  BY <1>1, <1>4, WithoutPicks
<1>7. PICK r : r = IF old = <<>> THEN [name |-> name, id |-> n, status |-> "active", ok |-> 1, bad |-> 0]
                   ELSE [old[1] EXCEPT !.ok = @ + 1]
  OBVIOUS
<1>8. /\ r \in Procedures /\ Earned(r) /\ r.id < n + 1
      /\ \A i \in DOMAIN w : w[i].id # r.id
      /\ \/ r.id >= n
         \/ \E i \in DOMAIN p : p[i].id = r.id /\ (p[i].status = "rolled_back" => r.status = "rolled_back")
  <2>1. CASE old = <<>>
    <3>1. r = [name |-> name, id |-> n, status |-> "active", ok |-> 1, bad |-> 0]
      BY <1>7, <2>1
    <3>2. r \in Procedures /\ r.id = n /\ Earned(r)
      BY <3>1 DEF Procedures, Earned
    <3>3. ASSUME NEW i \in DOMAIN w PROVE w[i].id # n
      <4>1. PICK j \in DOMAIN m.procs : w[i] = m.procs[j]
        BY <1>6 DEF Picks
      <4>2. m.procs[j] \in Procedures
        BY <1>1, ElementOfSeq
      <4>3. m.procs[j].id < n /\ m.procs[j].id \in Nat
        BY <1>1, <4>2 DEF Numbered, Procedures
      <4> QED
        BY <4>1, <4>3
    <3> QED
      BY <3>2, <3>3
  <2>2. CASE old # <<>>
    <3>1. 1 \in DOMAIN old
      BY <1>5, <2>2
    <3>2. PICK a \in DOMAIN m.procs : old[1] = m.procs[a]
      BY <1>5, <3>1 DEF Picks
    <3>3. m.procs[a] \in same /\ m.procs[a] \in Procedures
      BY <1>1, <1>5, <3>1, <3>2, ElementOfSeq
    <3>4. PICK o \in Procedures : o = m.procs[a]
      BY <3>3
    <3>5. r = [o EXCEPT !.ok = @ + 1]
      BY <1>7, <2>2, <3>2, <3>4
    <3>6. r \in Procedures /\ r.id = o.id /\ r.status = o.status /\ r.bad = o.bad /\ r.ok = o.ok + 1
      BY <3>5 DEF Procedures
    <3>7. Earned(o) /\ o.id < n /\ o.bad \in Nat /\ o.ok \in Nat /\ o.id \in Nat
      BY <1>1, <3>4 DEF Numbered, Procedures
    <3>8. Earned(r) /\ r.id < n + 1
      BY <3>6, <3>7 DEF Earned
    <3>9. ASSUME NEW i \in DOMAIN w PROVE w[i].id # r.id
      <4> SUFFICES ASSUME w[i].id = r.id PROVE FALSE
        OBVIOUS
      <4>1. PICK j \in DOMAIN m.procs : w[i] = m.procs[j]
        BY <1>6 DEF Picks
      <4>2. j = a
        BY <1>1, <3>4, <3>6, <4>1 DEF Numbered
      <4> QED
        BY <1>6, <3>3, <4>1, <4>2
    <3>10. \/ o.id >= n
           \/ \E i \in DOMAIN p : p[i].id = o.id /\ (p[i].status = "rolled_back" => o.status = "rolled_back")
      BY <3>4 DEF Follows
    <3> QED
      BY <3>6, <3>8, <3>9, <3>10
  <2> QED
    BY <2>1, <2>2
<1> HIDE DEF same
<1>9. PICK q : q = Append(w, r)
  OBVIOUS
<1>10. Numbered(q, n + 1) /\ q \in Seq(Procedures)
  <2>1. Numbered(w, n + 1)
    BY <1>2, <1>6, NumberedPicked
  <2>2. n + 1 \in Nat
    OBVIOUS
  <2>3. Numbered(q, n + 1)
    BY <1>8, <1>9, <2>1, <2>2, ProcedureAdded
  <2> QED
    BY <2>3 DEF Numbered
<1>11. Follows(p, q, n)
  <2>1. Follows(p, w, n)
    BY <1>6, FollowsPicked
  <2> QED
    BY <1>6, <1>8, <1>9, <2>1, FollowsAdded
<1>12. PICK z : z = LastOf(q, MaxMemProcs)
  OBVIOUS
<1>13. z \in Seq(Procedures) /\ Len(z) <= MaxMemProcs /\ Picks(z, q)
  <2>1. MaxMemProcs \in Nat
    BY MemAssumption
  <2> QED
    BY <1>10, <1>12, <2>1, LastPicks
<1>14. GoodProcedures(z, n + 1) /\ Follows(p, z, n)
  BY <1>10, <1>11, <1>13, NumberedPicked, FollowsPicked DEF GoodProcedures
<1>15. Promoted(m, name, n) = [m EXCEPT !.procs = z]
  BY <1>3, <1>4, <1>7, <1>9, <1>12 DEF Promoted, same
<1> QED
  BY <1>2, <1>14, <1>15, OtherProcedures

\* The members of a finite set, in some order.
LEMMA SetAsSeq ==
    ASSUME NEW S, IsFiniteSet(S)
    PROVE  SetToSeq(S) \in Seq(S)
<1>1. PICK k \in Nat : k = Cardinality(S)
  BY FS_CardinalityType
<1>2. ExistsBijection(1..k, S)
  BY <1>1, FS_CardinalityType
<1>3. \E f \in [1..k -> S] : IsInjective(f)
  BY <1>2 DEF ExistsBijection, Bijection, Injection
<1>4. PICK f : f = CHOOSE x \in [1..k -> S] : IsInjective(x)
  OBVIOUS
<1>5. f \in [1..k -> S]
  BY <1>3, <1>4
<1>6. f \in Seq(S)
  BY <1>5
<1> QED
  BY <1>1, <1>4, <1>6 DEF SetToSeq

\* An episode, and a page.
LEMMA EpisodeKeeps ==
    ASSUME NEW n, NEW m \in GoodMemories(n), NEW name \in MemNames, NEW o \in {"partial", "failure", "success"}
    PROVE  EpisodeRecorded(m, name, o) \in GoodMemories(n) /\ EpisodeRecorded(m, name, o).procs = m.procs
<1>1. m \in Memories /\ m.eps \in Seq(Episodes) /\ Len(m.fails) <= MaxMemFails /\ GoodProcedures(m.procs, n)
  BY DEF GoodMemories, Memories
<1>2. PICK a : a = Append(m.eps, <<name, o>>)
  OBVIOUS
<1>3. a \in Seq(Episodes)
  <2>1. PICK e \in Episodes : e = <<name, o>>
    BY DEF Episodes
  <2>2. PICK s \in Seq(Episodes) : s = m.eps
    BY <1>1
  <2>3. a = Append(s, e)
    BY <1>2, <2>1, <2>2
  <2> QED
    BY <2>3, AppendProperties
<1>4. PICK z : z = LastOf(a, MaxMemEps)
  OBVIOUS
<1>5. z \in Seq(Episodes) /\ Len(z) <= MaxMemEps
  <2>1. MaxMemEps \in Nat
    BY MemAssumption
  <2> QED
    BY <1>3, <1>4, <2>1, LastPicks
<1>6. PICK x : x = [m EXCEPT !.eps = z]
  OBVIOUS
<1>7. x \in Memories /\ x.eps = z /\ x.fails = m.fails /\ x.procs = m.procs
  BY <1>1, <1>5, <1>6 DEF Memories
<1>8. EpisodeRecorded(m, name, o) = x
  BY <1>2, <1>4, <1>6 DEF EpisodeRecorded
<1> QED
  BY <1>1, <1>5, <1>7, <1>8 DEF GoodMemories

LEMMA PageKeeps ==
    ASSUME NEW n, NEW m \in GoodMemories(n), NEW e \in [page : PagesSeen, fresh : BOOLEAN], NEW x, x = [m EXCEPT !.env = e]
    PROVE  x \in GoodMemories(n) /\ x.procs = m.procs
<1>1. m \in Memories /\ Len(m.eps) <= MaxMemEps /\ Len(m.fails) <= MaxMemFails /\ GoodProcedures(m.procs, n)
  BY DEF GoodMemories
<1>2. x \in Memories /\ x.eps = m.eps /\ x.fails = m.fails /\ x.procs = m.procs
  BY <1>1 DEF Memories
<1> QED
  BY <1>1, <1>2 DEF GoodMemories

\* What the end of a run teaches.
LEMMA LearnedKeeps ==
    ASSUME NEW m \in GoodMemories(memIds), memIds \in Nat, memRun.objective \in MemNames,
           memRun.advice \in Seq(AdviceLines), NEW o \in MemOutcomes,
           NEW x, x = Learned(m, o.done, o.failed, o.outcome, o.page)
    PROVE  x \in GoodMemories(memIds + 1) /\ Follows(m.procs, x.procs, memIds)
<1> DEFINE name == memRun.objective
           ran == o.outcome \in {"completed", "step-limit"}
           outcome == IF o.failed # {} THEN IF o.done > 0 THEN "partial" ELSE "failure"
                      ELSE IF ran THEN "success" ELSE "partial"
<1>1. PICK m1 : m1 = IF o.done > 0 \/ o.failed # {} \/ o.outcome = "stopped" THEN EpisodeRecorded(m, name, outcome) ELSE m
  OBVIOUS
<1>2. m1 \in GoodMemories(memIds) /\ m1.procs = m.procs
  <2>1. outcome \in {"partial", "failure", "success"}
    OBVIOUS
  <2> HIDE DEF outcome
  <2> QED
    BY <1>1, <2>1, EpisodeKeeps
<1>3. PICK m2 : m2 = FoldLeft(FailureRecorded, m1, SetToSeq(o.failed))
  OBVIOUS
<1>4. m2 \in GoodMemories(memIds) /\ m2.procs = m.procs
  <2>1. SetToSeq(o.failed) \in Seq(o.failed) /\ o.failed \subseteq Patterns
    BY SetAsSeq, MemAssumption DEF Patterns
  <2>2. SetToSeq(o.failed) \in Seq(Patterns)
    BY <2>1
  <2> QED
    BY <1>2, <1>3, <2>2, FailuresKeep
<1>5. PICK m3 : m3 = IF ran /\ o.failed = {} /\ o.done >= 2 THEN Promoted(m2, name, memIds) ELSE m2
  OBVIOUS
<1>6. m3 \in GoodMemories(memIds + 1) /\ Follows(m.procs, m3.procs, memIds)
  <2>1. Follows(m.procs, m2.procs, memIds)
    BY <1>4, FollowsItself
  <2>2. Promoted(m2, name, memIds) \in GoodMemories(memIds + 1) /\ Follows(m.procs, Promoted(m2, name, memIds).procs, memIds)
    BY <1>4, <2>1, PromotedKeeps
  <2>3. m2 \in GoodMemories(memIds + 1)
    BY <1>4, GoodLater
  <2> HIDE DEF ran, name
  <2> QED
    BY <1>5, <2>1, <2>2, <2>3
<1>7. PICK w : w = Where(memRun.advice, {l \in Range(memRun.advice) : l[1] = "procedure"})
  OBVIOUS
<1>8. w \in Seq(AdviceLines)
  BY <1>7, WherePicks
<1>9. PICK m4 : m4 = IF o.failed = {} THEN m3 ELSE FoldLeft(LAMBDA a, l : ProcedureFailed(a, l[2]), m3, w)
  OBVIOUS
<1>10. m4 \in GoodMemories(memIds + 1) /\ Follows(m.procs, m4.procs, memIds)
  <2>1. memIds + 1 \in Nat
    OBVIOUS
  <2>2. FoldLeft(LAMBDA a, l : ProcedureFailed(a, l[2]), m3, w)
          \in {z \in GoodMemories(memIds + 1) : Follows(m.procs, z.procs, memIds)}
    BY <1>6, <1>8, <2>1, ProceduresKeep
  <2> QED
    BY <1>6, <1>9, <2>2
<1>11. x = IF o.page = NoPage THEN m4 ELSE EnvObserved(m4, o.page)
  BY <1>1, <1>3, <1>5, <1>7, <1>9 DEF Learned
<1>12. EnvObserved(m4, o.page) \in GoodMemories(memIds + 1) /\ EnvObserved(m4, o.page).procs = m4.procs
  <2>1. PICK e \in [page : PagesSeen, fresh : BOOLEAN] : e = [page |-> o.page, fresh |-> TRUE]
    BY DEF PagesSeen
  <2>2. EnvObserved(m4, o.page) = [m4 EXCEPT !.env = e]
    BY <2>1 DEF EnvObserved
  <2> QED
    BY <1>10, <2>2, PageKeeps
<1> QED
  BY <1>10, <1>11, <1>12

-----------------------------------------------------------------------------
(* The notes.                                                                *)

NoteLists == {s \in Seq(NoteKinds) : Len(s) <= MaxMemNotes /\ \A i, j \in DOMAIN s : s[i] = s[j] => i = j}

LEMMA NotesPicked ==
    ASSUME NEW s \in NoteLists, NEW q \in Seq(NoteKinds), Len(q) <= Len(s), Picks(q, s)
    PROVE  q \in NoteLists
<1>1. PICK h \in [DOMAIN q -> DOMAIN s] : (\A i, j \in DOMAIN q : h[i] = h[j] => i = j) /\ \A i \in DOMAIN q : q[i] = s[h[i]]
  BY DEF Picks
<1>2. \A i, j \in DOMAIN s : s[i] = s[j] => i = j
  BY DEF NoteLists
<1>3. \A i, j \in DOMAIN q : q[i] = q[j] => i = j
  BY <1>1, <1>2
<1>4. Len(q) <= MaxMemNotes
  BY LenProperties, MemAssumption DEF NoteLists
<1> QED
  BY <1>3, <1>4 DEF NoteLists

LEMMA RemovedNote ==
    ASSUME NEW s \in NoteLists, NEW n, NEW w, w = Without(s, {n})
    PROVE  w \in NoteLists /\ Range(w) = Range(s) \ {n}
<1>1. s \in Seq(NoteKinds)
  BY DEF NoteLists
<1>2. /\ w \in Seq(NoteKinds) /\ Len(w) <= Len(s) /\ Picks(w, s)
      /\ \A i \in DOMAIN w : w[i] \notin {n}
      /\ \A i \in DOMAIN s : s[i] \notin {n} => \E j \in DOMAIN w : w[j] = s[i]
  <2>1. PICK S : S = {n}
    OBVIOUS
  <2>2. w = Without(s, S)
    BY <2>1
  <2>3. /\ w \in Seq(NoteKinds) /\ Len(w) <= Len(s) /\ Picks(w, s)
        /\ \A i \in DOMAIN w : w[i] \notin S
        /\ \A i \in DOMAIN s : s[i] \notin S => \E j \in DOMAIN w : w[j] = s[i]
    <3>1. w \in Seq(NoteKinds) /\ Len(w) <= Len(s) /\ Picks(w, s)
      BY <1>1, <2>2, WithoutPicks
    <3>2. \A i \in DOMAIN w : w[i] \notin S
      BY <1>1, <2>2, WithoutPicks
    <3>3. \A i \in DOMAIN s : s[i] \notin S => \E j \in DOMAIN w : w[j] = s[i]
      <4> SUFFICES ASSUME NEW i \in DOMAIN s, s[i] \notin S PROVE \E j \in DOMAIN w : w[j] = s[i]
        OBVIOUS
      <4> QED
        BY <1>1, <2>2, WithoutPicks
    <3> QED
      BY <3>1, <3>2, <3>3
  <2> QED
    BY <2>1, <2>3
<1>3. w \in NoteLists
  <2>1. w \in Seq(NoteKinds) /\ Len(w) <= Len(s) /\ Picks(w, s)
    BY <1>2
  <2> QED
    BY <2>1, NotesPicked
<1>4. \A i \in DOMAIN w : \E j \in DOMAIN s : w[i] = s[j]
  <2>1. Picks(w, s)
    BY <1>2
  <2> QED
    BY <2>1 DEF Picks
<1>5. Range(w) = Range(s) \ {n}
  <2>1. \A v \in Range(w) : v \in Range(s) \ {n}
    <3> SUFFICES ASSUME NEW i \in DOMAIN w PROVE w[i] \in Range(s) \ {n}
      BY DEF Range
    <3>1. PICK j \in DOMAIN s : w[i] = s[j]
      BY <1>4
    <3> QED
      BY <1>2, <3>1 DEF Range
  <2>2. \A v \in Range(s) \ {n} : v \in Range(w)
    BY <1>2 DEF Range
  <2> QED
    BY <2>1, <2>2
<1> QED
  BY <1>3, <1>5

\* A note that is added is the last one, and may push out the first.
LEMMA AddedNote ==
    ASSUME NEW s \in NoteLists, NEW n \in NoteKinds, NEW z, z = Added(s, n)
    PROVE  /\ z \in NoteLists
           /\ Range(z) = IF Contains(s, n) \/ Len(s) < MaxMemNotes THEN Range(s) \cup {n}
                         ELSE (Range(s) \cup {n}) \ {s[1]}
<1>1. s \in Seq(NoteKinds) /\ DOMAIN s = 1..Len(s) /\ Len(s) \in Nat /\ Len(s) <= MaxMemNotes
      /\ \A i, j \in DOMAIN s : s[i] = s[j] => i = j
  BY LenProperties DEF NoteLists
<1>2. MaxMemNotes \in Nat /\ MaxMemNotes >= 1
  BY MemAssumption
<1>3. PICK w : w = Without(s, {n})
  OBVIOUS
<1>4. w \in NoteLists /\ Range(w) = Range(s) \ {n}
  BY <1>3, RemovedNote
<1>5. /\ w \in Seq(NoteKinds) /\ Len(w) <= Len(s)
      /\ (\E i \in DOMAIN s : s[i] \in {n}) => Len(w) < Len(s)
      /\ (\A i \in DOMAIN s : s[i] \notin {n}) => w = s
  BY <1>1, <1>3, WithoutPicks
<1>6. DOMAIN w = 1..Len(w) /\ Len(w) \in Nat /\ (\A i, j \in DOMAIN w : w[i] = w[j] => i = j)
      /\ \A i \in DOMAIN w : w[i] # n
  BY <1>4, <1>5, LenProperties DEF NoteLists, Range
<1>7. PICK a : a = Append(w, n)
  OBVIOUS
<1>8. /\ a \in Seq(NoteKinds) /\ Len(a) = Len(w) + 1 /\ (\A i \in 1..Len(w) : a[i] = w[i])
      /\ a[Len(w) + 1] = n
  BY <1>5, <1>7, AppendProperties
<1>9. DOMAIN a = 1..(Len(w) + 1) /\ \A i \in DOMAIN a : i \in DOMAIN w \/ i = Len(w) + 1
  BY <1>6, <1>8, LenProperties
<1>10. \A i, j \in DOMAIN a : a[i] = a[j] => i = j
  BY <1>6, <1>8, <1>9
<1>11. Range(a) = Range(s) \cup {n}
  <2>1. Range(a) = Range(w) \cup {n}
    <3>1. \A i \in DOMAIN w : i \in DOMAIN a /\ a[i] = w[i]
      BY <1>6, <1>8, <1>9
    <3>2. Len(w) + 1 \in DOMAIN a
      BY <1>6, <1>9
    <3>3. \A i \in DOMAIN a : a[i] = n \/ \E j \in DOMAIN w : a[i] = w[j]
      BY <1>8, <1>9, <3>1
    <3> QED
      BY <1>8, <3>1, <3>2, <3>3 DEF Range
  <2> QED
    BY <1>4, <2>1
<1>12. z = LastOf(a, MaxMemNotes)
  BY <1>3, <1>7 DEF Added
<1>13. /\ z \in Seq(NoteKinds) /\ Len(z) <= MaxMemNotes /\ Picks(z, a)
       /\ Len(a) <= MaxMemNotes => z = a
       /\ Len(a) = MaxMemNotes + 1 => Len(z) = MaxMemNotes /\ \A i \in 1..MaxMemNotes : z[i] = a[i + 1]
  <2>1. a \in Seq(NoteKinds) /\ MaxMemNotes \in Nat
    BY <1>2, <1>8
  <2>2. z \in Seq(NoteKinds) /\ Len(z) <= MaxMemNotes /\ Picks(z, a)
    BY <1>12, <2>1, LastPicks
  <2>3. Len(a) <= MaxMemNotes => z = a
    BY <1>12, <2>1, LastPicks
  <2>4. Len(a) = MaxMemNotes + 1 => Len(z) = MaxMemNotes /\ \A i \in 1..MaxMemNotes : z[i] = a[i + 1]
    <3>1. PICK k \in Nat : k = MaxMemNotes
      BY <2>1
    <3>2. z = LastOf(a, k)
      BY <1>12, <3>1
    <3>3. SUFFICES ASSUME Len(a) = k + 1 PROVE Len(z) = k /\ \A i \in 1..k : z[i] = a[i + 1]
      BY <3>1
    <3>4. Len(z) = k
      BY <2>1, <3>2, <3>3, LastPicks
    <3>5. PICK d \in Nat, e \in Nat : d = 1 /\ e = k + 1
      OBVIOUS
    <3>6. d <= e /\ e <= Len(a) /\ e - d = k /\ \A i \in 1..k : d + i = i + 1
      BY <3>3, <3>5
    <3>7. z = SubSeq(a, d + 1, e)
      BY <3>2, <3>3, <3>5 DEF LastOf
    <3>8. \A i \in 1..(e - d) : SubSeq(a, d + 1, e)[i] = a[d + i]
      BY <2>1, <3>6, StretchPicks
    <3>9. \A i \in 1..k : z[i] = a[i + 1]
      BY <3>6, <3>7, <3>8
    <3> QED
      BY <3>4, <3>9
  <2> QED
    BY <2>2, <2>3, <2>4
<1>14. z \in NoteLists
  <2>1. PICK h \in [DOMAIN z -> DOMAIN a] : (\A i, j \in DOMAIN z : h[i] = h[j] => i = j) /\ \A i \in DOMAIN z : z[i] = a[h[i]]
    BY <1>13 DEF Picks
  <2>2. \A i, j \in DOMAIN z : z[i] = z[j] => i = j
    BY <1>10, <2>1
  <2> QED
    BY <1>13, <2>2 DEF NoteLists
<1>15. CASE Contains(s, n) \/ Len(s) < MaxMemNotes
  <2>1. Len(a) <= MaxMemNotes
    <3>1. CASE Contains(s, n)
      <4>1. \E i \in DOMAIN s : s[i] \in {n}
        BY <1>1, <3>1 DEF Contains
      <4> QED
        BY <1>1, <1>2, <1>5, <1>6, <1>8, <4>1
    <3>2. CASE Len(s) < MaxMemNotes
      BY <1>1, <1>2, <1>5, <1>6, <1>8, <3>2
    <3> QED
      BY <1>15, <3>1, <3>2
  <2> QED
    BY <1>11, <1>13, <1>14, <1>15, <2>1
<1>16. CASE ~(Contains(s, n) \/ Len(s) < MaxMemNotes)
  <2>1. w = s
    <3>1. \A i \in DOMAIN s : s[i] # n
      BY <1>1, <1>16 DEF Contains
    <3> QED
      BY <1>5, <3>1
  <2>2. Len(s) = MaxMemNotes /\ Len(a) = MaxMemNotes + 1
    <3>1. ~(Len(s) < MaxMemNotes)
      BY <1>16
    <3>2. Len(s) = MaxMemNotes
      <4>1. PICK k \in Nat, x \in Nat : k = MaxMemNotes /\ x = Len(s)
        BY <1>1, <1>2
      <4>2. x <= k /\ ~(x < k)
        BY <1>1, <3>1, <4>1
      <4> QED
        BY <4>1, <4>2
    <3> QED
      BY <1>8, <2>1, <3>2
  <2>3. Len(z) = MaxMemNotes /\ (\A i \in 1..MaxMemNotes : z[i] = a[i + 1]) /\ DOMAIN z = 1..MaxMemNotes
    BY <1>13, <2>2, LenProperties
  <2>4. 1 \in DOMAIN a /\ a[1] = s[1]
    BY <1>2, <1>8, <1>9, <2>1, <2>2
  <2>5. Range(z) = Range(a) \ {a[1]}
    <3>1. ASSUME NEW i \in DOMAIN z PROVE i + 1 \in DOMAIN a /\ z[i] = a[i + 1] /\ a[i + 1] # a[1]
      <4>1. i + 1 \in DOMAIN a /\ z[i] = a[i + 1] /\ i + 1 # 1
        BY <1>2, <1>8, <1>9, <2>2, <2>3
      <4> QED
        BY <1>10, <2>4, <4>1
    <3>2. ASSUME NEW j \in DOMAIN a, a[j] # a[1] PROVE \E i \in DOMAIN z : z[i] = a[j]
      <4>1. j # 1 /\ j \in 1..(MaxMemNotes + 1)
        BY <1>8, <1>9, <2>2, <3>2
      <4>2. PICK i \in 1..MaxMemNotes : i + 1 = j
        <5>1. j - 1 \in 1..MaxMemNotes /\ (j - 1) + 1 = j
          BY <1>2, <4>1
        <5> QED
          BY <5>1
      <4> QED
        BY <2>3, <4>2
    <3> QED
      BY <3>1, <3>2 DEF Range
  <2> QED
    BY <1>11, <1>14, <1>16, <2>4, <2>5
<1> QED
  BY <1>15, <1>16

-----------------------------------------------------------------------------
(* The inductive invariant                                                   *)

\* The layers and their file are within their caps, with procedures that have
\* numbers of their own and earned their being active; what is saved is on disk.
LayersInv ==
  /\ memIds \in Nat /\ mem \in GoodMemories(memIds) /\ memFile \in GoodMemories(memIds)
  /\ memLoaded \in BOOLEAN /\ (~memLoaded => mem = EmptyMemory)
  /\ DiskMirrorsMemory
  /\ memRun.advice \in Seq(AdviceLines) /\ (memRun # NoAdvice => memRun.objective \in MemNames)

\* The notes and their file are within their cap, no note twice; without a cold
\* start the file holds those kept, and so does the memory once it has read it.
NotesInv ==
  /\ notes \in NoteLists /\ notesFile \in NoteLists
  /\ notesLoaded /\ ~notesCold => notes = notesFile
  /\ ~notesCold => notesKept = Range(notesFile)

MemInv == LayersInv /\ NotesInv

\* What is good fits in the caps: reading it loses nothing.
LEMMA NothingLost ==
    ASSUME NEW n, NEW f \in GoodMemories(n)
    PROVE  Hydrated(f) = f
<1>1. f \in Memories /\ Len(f.fails) <= MaxMemFails /\ Len(f.eps) <= MaxMemEps /\ Len(f.procs) <= MaxMemProcs
  BY DEF GoodMemories, GoodProcedures
<1>2. LastOf(f.fails, MaxMemFails) = f.fails /\ LastOf(f.eps, MaxMemEps) = f.eps /\ LastOf(f.procs, MaxMemProcs) = f.procs
  BY <1>1 DEF LastOf
<1>3. Hydrated(f) = [f EXCEPT !.fails = f.fails, !.eps = f.eps, !.procs = f.procs]
  BY <1>2 DEF Hydrated
<1>4. [f EXCEPT !.fails = f.fails, !.eps = f.eps, !.procs = f.procs] = f
  BY <1>1 DEF Memories
<1> QED
  BY <1>3, <1>4

LEMMA LayersAsLoaded ==
    ASSUME LayersInv
    PROVE  /\ LayersLoaded \in GoodMemories(memIds)
           /\ LayersLoaded = IF memLoaded THEN mem ELSE memFile
  BY NothingLost DEF LayersInv, LayersLoaded

LEMMA NotesAsLoaded ==
    ASSUME NotesInv
    PROVE  /\ NotesLoaded \in NoteLists /\ NotesLoaded \in Seq(NoteKinds)
           /\ ~notesCold => NotesLoaded = notesFile
<1>1. LastOf(notesFile, MaxMemNotes) = notesFile
  BY DEF NotesInv, NoteLists, LastOf
<1> QED
  BY <1>1 DEF NotesInv, NotesLoaded, NoteLists

\* A change of the layers is saved, or the save fails and is known to have.
LEMMA KeptIsGood ==
    ASSUME LayersInv, NEW k, memFile \in GoodMemories(k), NEW m \in GoodMemories(k), LayersKept(m)
    PROVE  mem' \in GoodMemories(k) /\ memFile' \in GoodMemories(k) /\ mem' = m /\ memLoaded' = TRUE
           /\ (memSaved' => memFile' = mem')
<1>1. mem' = m /\ memLoaded' = TRUE
  BY DEF LayersKept
<1>2. CASE m = LayersLoaded
  <2>1. memFile' = memFile /\ memSaved' = memSaved
    BY <1>2 DEF LayersKept
  <2>2. memSaved => memFile = m
    BY <1>2, LayersAsLoaded DEF LayersInv, DiskMirrorsMemory
  <2> QED
    BY <1>1, <2>1, <2>2
<1>3. CASE m # LayersLoaded
  <2>1. PICK ok \in BOOLEAN : memSaved' = ok /\ memFile' = IF ok THEN m ELSE memFile
    BY <1>3 DEF LayersKept
  <2> QED
    BY <1>1, <2>1
<1> QED
  BY <1>2, <1>3

\* A memory with nothing in it.
LEMMA EmptyIsGood ==
    ASSUME NEW n PROVE EmptyMemory \in GoodMemories(n)
<1> DEFINE e == <<>>
<1>1. /\ e \in Seq(Failures) /\ e \in Seq(Episodes) /\ e \in Seq(Procedures) /\ Len(e) = 0
      /\ DOMAIN e = {}
  OBVIOUS
<1>2. 0 <= MaxMemFails /\ 0 <= MaxMemEps /\ 0 <= MaxMemProcs
  BY MemAssumption
<1>3. EmptyMemory = [fails |-> e, env |-> [page |-> NoPage, fresh |-> FALSE], eps |-> e, procs |-> e]
  BY DEF EmptyMemory
<1> HIDE DEF e
<1>4. EmptyMemory \in Memories
  BY <1>1, <1>3 DEF Memories, PagesSeen
<1>5. GoodProcedures(e, n)
  BY <1>1, <1>2 DEF GoodProcedures, Numbered
<1> QED
  BY <1>1, <1>2, <1>3, <1>4, <1>5 DEF GoodMemories

\* The start.
LEMMA MemStarts ==
    ASSUME MemInit PROVE MemInv
<1>1. EmptyMemory \in GoodMemories(1)
  BY EmptyIsGood
<1>2. LayersInv
  <2>1. memRun.advice = <<>> /\ <<>> \in Seq(AdviceLines)
    BY DEF MemInit, NoAdvice
  <2> QED
    BY <1>1, <2>1 DEF MemInit, LayersInv, DiskMirrorsMemory
<1>3. NotesInv
  <2> DEFINE e == <<>>
  <2>1. e \in Seq(NoteKinds) /\ Len(e) = 0 /\ DOMAIN e = {}
    OBVIOUS
  <2>2. 0 <= MaxMemNotes
    BY MemAssumption
  <2>3. notes = e /\ notesFile = e /\ notesKept = {} /\ Range(e) = {}
    BY DEF MemInit, Range
  <2> HIDE DEF e
  <2>4. e \in NoteLists
    BY <2>1, <2>2 DEF NoteLists
  <2> QED
    BY <2>3, <2>4 DEF NotesInv
<1> QED
  BY <1>2, <1>3 DEF MemInv

\* The notes, step by step.
LEMMA NotesStep ==
    ASSUME MemInv, [MemNext]_memVars PROVE NotesInv'
<1> DEFINE same == UNCHANGED <<notes, notesLoaded, notesFile, notesKept, notesCold>>
<1>1. NotesInv
  BY DEF MemInv
<1>2. CASE same
  BY <1>1, <1>2 DEF NotesInv
<1>3. ASSUME NEW n \in NoteKinds, AddNote(n) PROVE NotesInv'
  <2>1. PICK z : z = Added(notes, n)
    OBVIOUS
  <2>2. /\ notes' = z /\ notesFile' = z /\ notesLoaded' = notesLoaded /\ notesCold' = (notesCold \/ ~notesLoaded)
        /\ notesKept' = IF Contains(notes, n) \/ Len(notes) < MaxMemNotes THEN notesKept \cup {n}
                        ELSE (notesKept \cup {n}) \ {notes[1]}
    BY <1>3, <2>1 DEF AddNote, NotesSaved
  <2>3. notes \in NoteLists
    BY <1>1 DEF NotesInv
  <2>4. /\ z \in NoteLists
        /\ Range(z) = IF Contains(notes, n) \/ Len(notes) < MaxMemNotes THEN Range(notes) \cup {n}
                      ELSE (Range(notes) \cup {n}) \ {notes[1]}
    BY <2>1, <2>3, AddedNote
  <2>5. ~notesCold' => notesKept = Range(notes)
    BY <1>1, <2>2 DEF NotesInv
  <2>6. ~notesCold' => notesKept' = Range(z)
    BY <2>2, <2>4, <2>5
  <2> QED
    BY <2>2, <2>4, <2>6 DEF NotesInv
<1>4. ASSUME NEW n \in NoteKinds, RemoveNote(n) PROVE NotesInv'
  <2>1. PICK z : z = Without(NotesLoaded, {n})
    OBVIOUS
  <2>2. notes' = z /\ notesFile' = z /\ notesCold' = notesCold /\ notesKept' = notesKept \ {n}
    BY <1>4, <2>1 DEF RemoveNote, NotesSaved
  <2>3. z \in NoteLists /\ Range(z) = Range(NotesLoaded) \ {n}
    BY <1>1, <2>1, NotesAsLoaded, RemovedNote
  <2>4. ~notesCold => notesKept = Range(NotesLoaded)
    BY <1>1, NotesAsLoaded DEF NotesInv
  <2> QED
    BY <2>2, <2>3, <2>4 DEF NotesInv
<1>5. CASE ClearNotes
  <2> DEFINE e == <<>>
  <2>1. e \in Seq(NoteKinds) /\ Len(e) = 0 /\ DOMAIN e = {} /\ Range(e) = {}
    BY DEF Range
  <2>2. 0 <= MaxMemNotes
    BY MemAssumption
  <2>3. notes' = e /\ notesFile' = e /\ notesKept' = {}
    BY <1>5 DEF ClearNotes, NotesSaved
  <2> HIDE DEF e
  <2>4. e \in NoteLists
    BY <2>1, <2>2 DEF NoteLists
  <2> QED
    BY <2>1, <2>3, <2>4 DEF NotesInv
<1>6. ASSUME notes' = NotesLoaded, UNCHANGED <<notesFile, notesKept, notesCold>> PROVE NotesInv'
  BY <1>1, <1>6, NotesAsLoaded DEF NotesInv
<1>7. CASE SearchNotes
  BY <1>6, <1>7 DEF SearchNotes
<1>8. ASSUME NEW name \in MemNames, AdvisedRun(name) PROVE NotesInv'
  BY <1>6, <1>8 DEF AdvisedRun
<1>9. ASSUME NEW o \in MemOutcomes, FinishedRun(o) PROVE NotesInv'
  BY <1>2, <1>9 DEF FinishedRun
<1>10. CASE RemoveProcedure \/ ClearLayers \/ ReadLayers \/ PageAges
  BY <1>2, <1>10 DEF RemoveProcedure, ClearLayers, ReadLayers, PageAges, NotesUnchanged
<1>11. CASE MemRestart
  <2> DEFINE e == <<>>
  <2>1. e \in Seq(NoteKinds) /\ Len(e) = 0 /\ DOMAIN e = {}
    OBVIOUS
  <2>2. 0 <= MaxMemNotes
    BY MemAssumption
  <2>3. notes' = e /\ notesLoaded' = FALSE /\ UNCHANGED <<notesFile, notesKept, notesCold>>
    BY <1>11 DEF MemRestart
  <2> HIDE DEF e
  <2>4. e \in NoteLists
    BY <2>1, <2>2 DEF NoteLists
  <2> QED
    BY <1>1, <2>3, <2>4 DEF NotesInv
<1>12. CASE UNCHANGED memVars
  BY <1>2, <1>12 DEF memVars
<1> HIDE DEF same
<1> QED
  BY <1>3, <1>4, <1>5, <1>7, <1>8, <1>9, <1>10, <1>11, <1>12 DEF MemNext

\* The layers, step by step, and what follows what.
LEMMA LayersStep ==
    ASSUME MemInv, [MemNext]_memVars
    PROVE  LayersInv' /\ (memLoaded => Follows(mem.procs, mem'.procs, memIds))
<1>1. LayersInv /\ NotesInv
  BY DEF MemInv
<1>2. /\ memIds \in Nat /\ mem \in GoodMemories(memIds) /\ memFile \in GoodMemories(memIds)
      /\ memLoaded \in BOOLEAN /\ (~memLoaded => mem = EmptyMemory) /\ (memLoaded /\ memSaved => memFile = mem)
      /\ memRun.advice \in Seq(AdviceLines) /\ (memRun # NoAdvice => memRun.objective \in MemNames)
  BY <1>1 DEF LayersInv, DiskMirrorsMemory
<1> DEFINE Follow == memLoaded => Follows(mem.procs, mem'.procs, memIds)
<1>3. CASE UNCHANGED <<mem, memLoaded, memFile, memSaved, memRun, memIds>>
  BY <1>1, <1>3, FollowsItself DEF LayersInv, DiskMirrorsMemory
<1>4. ASSUME NEW name \in MemNames, AdvisedRun(name) PROVE LayersInv' /\ Follow
  <2>1. PICK a : a = Advised(mem, NotesLoaded, name)
    OBVIOUS
  <2>2. a \in Seq(AdviceLines)
    BY <1>1, <1>2, <2>1, NotesAsLoaded, AdviceIsLines
  <2>3. memRun' = [objective |-> name, advice |-> a] /\ UNCHANGED <<mem, memLoaded, memFile, memSaved, memIds>>
    BY <1>4, <2>1 DEF AdvisedRun
  <2>4. memRun'.advice = a /\ memRun'.objective = name
    BY <2>3
  <2> QED
    BY <1>2, <2>2, <2>3, <2>4, FollowsItself DEF LayersInv, DiskMirrorsMemory
<1>5. ASSUME NEW o \in MemOutcomes, FinishedRun(o) PROVE LayersInv' /\ Follow
  <2>1. PICK m : m = LayersLoaded
    OBVIOUS
  <2>2. m \in GoodMemories(memIds) /\ (memLoaded => m = mem)
    BY <1>1, <2>1, LayersAsLoaded
  <2>3. PICK x : x = Learned(m, o.done, o.failed, o.outcome, o.page)
    OBVIOUS
  <2>4. memRun # NoAdvice /\ LayersKept(x) /\ memRun' = NoAdvice /\ memIds' = memIds + 1
    BY <1>5, <2>1, <2>3 DEF FinishedRun
  <2>5. x \in GoodMemories(memIds + 1) /\ Follows(m.procs, x.procs, memIds)
    BY <1>2, <2>2, <2>3, <2>4, LearnedKeeps
  <2>6. memFile \in GoodMemories(memIds + 1)
    BY <1>2, GoodLater
  <2>7. mem' \in GoodMemories(memIds + 1) /\ memFile' \in GoodMemories(memIds + 1) /\ mem' = x /\ memLoaded' = TRUE
        /\ (memSaved' => memFile' = mem')
    BY <1>1, <2>4, <2>5, <2>6, KeptIsGood
  <2>8. memRun'.advice = <<>> /\ <<>> \in Seq(AdviceLines)
    BY <2>4 DEF NoAdvice
  <2>9. LayersInv'
    BY <1>2, <2>4, <2>7, <2>8 DEF LayersInv, DiskMirrorsMemory
  <2> QED
    BY <2>2, <2>5, <2>7, <2>9
<1>6. ASSUME NEW x \in GoodMemories(memIds), LayersKept(x), memRun' = memRun, memIds' = memIds,
             Follows(LayersLoaded.procs, x.procs, memIds)
      PROVE  LayersInv' /\ Follow
  <2>1. mem' \in GoodMemories(memIds) /\ memFile' \in GoodMemories(memIds) /\ mem' = x /\ memLoaded' = TRUE
        /\ (memSaved' => memFile' = mem')
    BY <1>1, <1>2, <1>6, KeptIsGood
  <2>2. LayersInv'
    BY <1>2, <1>6, <2>1 DEF LayersInv, DiskMirrorsMemory
  <2>3. Follow
    BY <1>1, <1>6, <2>1, LayersAsLoaded
  <2> QED
    BY <2>2, <2>3
<1>7. CASE RemoveProcedure
  <2>1. PICK i \in DOMAIN LayersLoaded.procs : LayersKept([LayersLoaded EXCEPT !.procs = RemoveAt(@, i)])
    BY <1>7 DEF RemoveProcedure
  <2>2. PICK m, q, x : m = LayersLoaded /\ q = RemoveAt(m.procs, i) /\ x = [m EXCEPT !.procs = q]
    OBVIOUS
  <2>3. m \in GoodMemories(memIds) /\ m.procs \in Seq(Procedures) /\ GoodProcedures(m.procs, memIds)
    BY <1>1, <2>2, LayersAsLoaded DEF GoodMemories, GoodProcedures, Numbered
  <2>4. q \in Seq(Procedures) /\ Len(q) <= Len(m.procs) /\ Picks(q, m.procs)
    BY <2>1, <2>2, <2>3, RemovePicks
  <2>5. GoodProcedures(q, memIds) /\ Follows(m.procs, q, memIds)
    <3>1. Numbered(q, memIds)
      BY <2>3, <2>4, NumberedPicked DEF GoodProcedures
    <3>2. Len(q) <= MaxMemProcs
      BY <2>3, <2>4, LenProperties, MemAssumption DEF GoodProcedures
    <3> QED
      BY <2>4, <3>1, <3>2, FollowsItself, FollowsPicked DEF GoodProcedures
  <2>6. x \in GoodMemories(memIds) /\ x.procs = q
    BY <2>2, <2>3, <2>5, OtherProcedures
  <2>7. LayersKept(x) /\ memRun' = memRun /\ memIds' = memIds
    BY <1>7, <2>1, <2>2 DEF RemoveProcedure, NotesUnchanged
  <2> QED
    BY <1>6, <2>2, <2>5, <2>6, <2>7
<1>8. CASE ClearLayers
  <2>1. PICK m : m = LayersLoaded
    OBVIOUS
  <2>2. m \in GoodMemories(memIds) /\ m \in Memories /\ m.fails \in Seq(Failures) /\ m.eps \in Seq(Episodes)
        /\ m.procs \in Seq(Procedures) /\ GoodProcedures(m.procs, memIds)
        /\ Len(m.fails) <= MaxMemFails /\ Len(m.eps) <= MaxMemEps
    BY <1>1, <2>1, LayersAsLoaded DEF GoodMemories, Memories
  <2>3. PICK f, e, q, x : /\ f = Without(m.fails, Range(SnapshotOf(m).fails))
                          /\ e = SubSeq(m.eps, 1, Len(m.eps) - Len(SnapshotOf(m).eps))
                          /\ q = Without(m.procs, Range(SnapshotOf(m).procs))
                          /\ x = [fails |-> f, env |-> EmptyMemory.env, eps |-> e, procs |-> q]
    OBVIOUS
  <2>4. LayersKept(x) /\ memRun' = memRun /\ memIds' = memIds
    BY <1>8, <2>1, <2>3 DEF ClearLayers, NotesUnchanged
  <2>5. f \in Seq(Failures) /\ Len(f) <= MaxMemFails
    <3>1. f \in Seq(Failures) /\ Len(f) <= Len(m.fails)
      BY <2>2, <2>3, WithoutPicks
    <3> QED
      BY <2>2, <3>1, LenProperties, MemAssumption
  <2>6. q \in Seq(Procedures) /\ Len(q) <= Len(m.procs) /\ Picks(q, m.procs)
    BY <2>2, <2>3, WithoutPicks
  <2>7. GoodProcedures(q, memIds) /\ Follows(m.procs, q, memIds)
    <3>1. Numbered(q, memIds)
      BY <2>2, <2>6, NumberedPicked DEF GoodProcedures
    <3>2. Len(q) <= MaxMemProcs
      BY <2>2, <2>6, LenProperties, MemAssumption DEF GoodProcedures
    <3> QED
      BY <2>6, <3>1, <3>2, FollowsItself, FollowsPicked DEF GoodProcedures
  <2>8. e \in Seq(Episodes) /\ Len(e) <= MaxMemEps
    <3>1. SnapshotOf(m).eps = LastOf(m.eps, MemSnap)
      BY <2>2 DEF SnapshotOf, Memories
    <3>2. MemSnap \in Nat
      BY MemAssumption
    <3>3. PICK s : s = LastOf(m.eps, MemSnap)
      OBVIOUS
    <3>4. s \in Seq(Episodes) /\ Len(s) <= Len(m.eps)
      BY <2>2, <3>2, <3>3, LastPicks
    <3>5. PICK d \in Nat, k \in Nat : d = 0 /\ k = Len(m.eps) - Len(s)
      <4>1. PICK a \in Nat, b \in Nat : a = Len(m.eps) /\ b = Len(s)
        BY <2>2, <3>4, LenProperties
      <4>2. b <= a
        BY <3>4, <4>1
      <4>3. a - b \in Nat /\ a - b = Len(m.eps) - Len(s)
        BY <4>1, <4>2
      <4> QED
        BY <4>3
    <3>6. d <= k /\ k <= Len(m.eps) /\ k - d = k
      BY <2>2, <3>4, <3>5, LenProperties
    <3>7. SubSeq(m.eps, d + 1, k) \in Seq(Episodes) /\ Len(SubSeq(m.eps, d + 1, k)) = k - d
      BY <2>2, <3>6, StretchPicks
    <3>8. e = SubSeq(m.eps, d + 1, k)
      BY <2>3, <3>1, <3>3, <3>5
    <3> QED
      BY <2>2, <3>6, <3>7, <3>8, LenProperties, MemAssumption
  <2>9. x \in GoodMemories(memIds) /\ x.procs = q
    <3>1. EmptyMemory.env \in [page : PagesSeen, fresh : BOOLEAN]
      BY DEF EmptyMemory, PagesSeen
    <3>2. x \in Memories /\ x.fails = f /\ x.eps = e /\ x.procs = q
      BY <2>3, <2>5, <2>6, <2>8, <3>1 DEF Memories
    <3> QED
      BY <2>5, <2>7, <2>8, <3>2 DEF GoodMemories
  <2> QED
    BY <1>6, <2>1, <2>4, <2>7, <2>9
<1>9. CASE ReadLayers
  <2>1. ~memLoaded /\ mem' = LayersLoaded /\ memLoaded' = TRUE /\ UNCHANGED <<memFile, memSaved, memRun, memIds>>
    BY <1>9 DEF ReadLayers, NotesUnchanged
  <2>2. LayersLoaded = memFile
    BY <1>1, <2>1, LayersAsLoaded
  <2> QED
    BY <1>2, <2>1, <2>2 DEF LayersInv, DiskMirrorsMemory
<1>10. CASE PageAges
  <2>1. PICK x, y : x = [mem EXCEPT !.env.fresh = FALSE] /\ y = [memFile EXCEPT !.env.fresh = FALSE]
    OBVIOUS
  <2>2. mem.env.fresh /\ mem' = x /\ memFile' = y /\ UNCHANGED <<memLoaded, memSaved, memRun, memIds>>
    BY <1>10, <2>1 DEF PageAges, NotesUnchanged
  <2>3. x \in GoodMemories(memIds) /\ x.procs = mem.procs
    <3>1. PICK e : e = [mem.env EXCEPT !.fresh = FALSE]
      OBVIOUS
    <3>2. mem \in Memories /\ e \in [page : PagesSeen, fresh : BOOLEAN]
      BY <1>2, <3>1 DEF GoodMemories, Memories
    <3>3. x = [mem EXCEPT !.env = e]
      BY <2>1, <3>1, <3>2 DEF Memories
    <3> QED
      BY <1>2, <3>2, <3>3, PageKeeps
  <2>4. y \in GoodMemories(memIds)
    <3>1. PICK e : e = [memFile.env EXCEPT !.fresh = FALSE]
      OBVIOUS
    <3>2. memFile \in Memories /\ e \in [page : PagesSeen, fresh : BOOLEAN]
      BY <1>2, <3>1 DEF GoodMemories, Memories
    <3>3. y = [memFile EXCEPT !.env = e]
      BY <2>1, <3>1, <3>2 DEF Memories
    <3> QED
      BY <1>2, <3>2, <3>3, PageKeeps
  <2>5. memLoaded
    <3>1. mem # EmptyMemory
      BY <2>2 DEF EmptyMemory
    <3> QED
      BY <1>2, <3>1
  <2>6. memFile = mem => x = y
    BY <2>1
  <2>7. Follow
    BY <2>2, <2>3, FollowsItself
  <2> QED
    BY <1>2, <2>2, <2>3, <2>4, <2>5, <2>6, <2>7 DEF LayersInv, DiskMirrorsMemory
<1>11. CASE MemRestart
  <2>1. mem' = EmptyMemory /\ memLoaded' = FALSE /\ memFile' \in {memFile, EmptyMemory} /\ memRun' = NoAdvice /\ memIds' = memIds
    BY <1>11 DEF MemRestart
  <2>2. EmptyMemory \in GoodMemories(memIds) /\ EmptyMemory.procs = <<>>
    BY EmptyIsGood DEF EmptyMemory
  <2>3. Follows(mem.procs, <<>>, memIds)
    <3>1. DOMAIN <<>> = {}
      OBVIOUS
    <3> QED
      BY <3>1 DEF Follows
  <2>4. NoAdvice.advice = <<>> /\ <<>> \in Seq(AdviceLines)
    BY DEF NoAdvice
  <2> QED
    BY <1>2, <2>1, <2>2, <2>3, <2>4 DEF LayersInv, DiskMirrorsMemory
<1>12. ASSUME NEW n \in NoteKinds, AddNote(n) \/ RemoveNote(n) PROVE LayersInv' /\ Follow
  BY <1>3, <1>12 DEF AddNote, RemoveNote, NoteOp, MemUnchanged
<1>13. CASE ClearNotes \/ SearchNotes
  BY <1>3, <1>13 DEF ClearNotes, SearchNotes, NoteOp, MemUnchanged
<1>14. CASE UNCHANGED memVars
  BY <1>3, <1>14 DEF memVars
<1> HIDE DEF Follow
<1>15. LayersInv' /\ Follow
  BY <1>4, <1>5, <1>7, <1>8, <1>9, <1>10, <1>11, <1>12, <1>13, <1>14 DEF MemNext, Follow
<1> QED
  BY <1>15 DEF Follow

\* What a step leaves is rolled back for good.
LEMMA RolledBackStep ==
    ASSUME MemInv, [MemNext]_memVars
    PROVE  \A i \in DOMAIN mem.procs, j \in DOMAIN mem'.procs :
             mem.procs[i].id = mem'.procs[j].id /\ mem.procs[i].status = "rolled_back"
             => mem'.procs[j].status = "rolled_back"
<1> SUFFICES ASSUME NEW i \in DOMAIN mem.procs, NEW j \in DOMAIN mem'.procs,
                    mem.procs[i].id = mem'.procs[j].id, mem.procs[i].status = "rolled_back"
             PROVE  mem'.procs[j].status = "rolled_back"
  OBVIOUS
<1>1. mem \in GoodMemories(memIds) /\ memIds \in Nat /\ (~memLoaded => mem = EmptyMemory)
  BY DEF MemInv, LayersInv
<1>2. mem.procs \in Seq(Procedures) /\ Numbered(mem.procs, memIds)
  BY <1>1 DEF GoodMemories, GoodProcedures, Numbered
<1>3. memLoaded
  <2>1. DOMAIN EmptyMemory.procs = {}
    BY DEF EmptyMemory
  <2> QED
    BY <1>1, <2>1
<1>4. Follows(mem.procs, mem'.procs, memIds)
  BY <1>3, LayersStep
<1>5. ~(mem'.procs[j].id >= memIds)
  <2>1. mem.procs[i] \in Procedures
    BY <1>2, ElementOfSeq
  <2>2. mem.procs[i].id \in Nat /\ mem.procs[i].id < memIds
    BY <1>2, <2>1 DEF Numbered, Procedures
  <2> QED
    BY <1>1, <2>2
<1>6. PICK k \in DOMAIN mem.procs : mem.procs[k].id = mem'.procs[j].id
                                    /\ (mem.procs[k].status = "rolled_back" => mem'.procs[j].status = "rolled_back")
  BY <1>4, <1>5 DEF Follows
<1>7. k = i
  BY <1>2, <1>6 DEF Numbered
<1> QED
  BY <1>6, <1>7

\* What was learned is kept as long as it is earned: procedures are rolled back
\* for good, and the layers and the notes survive on disk.
THEOREM MemoryAlwaysHolds == MemSpec => MemoryHolds
<1>1. MemInit => MemInv
  BY MemStarts
<1>2. MemInv /\ [MemNext]_memVars => MemInv'
  BY NotesStep, LayersStep DEF MemInv
<1>3. MemInv => ActiveEarnsIt /\ DiskMirrorsMemory /\ NotesStay
  <2> SUFFICES ASSUME MemInv PROVE ActiveEarnsIt /\ DiskMirrorsMemory /\ NotesStay
    OBVIOUS
  <2>1. GoodProcedures(mem.procs, memIds) /\ DiskMirrorsMemory
    BY DEF MemInv, LayersInv, GoodMemories
  <2>2. ActiveEarnsIt
    BY <2>1 DEF ActiveEarnsIt, GoodProcedures, Numbered, Earned
  <2>3. NotesStay
    BY DEF MemInv, NotesInv, NotesStay
  <2> QED
    BY <2>1, <2>2, <2>3
<1>4. MemInv /\ [MemNext]_memVars
      => [memSaved => \A i \in DOMAIN mem.procs, j \in DOMAIN mem'.procs :
            mem.procs[i].id = mem'.procs[j].id /\ mem.procs[i].status = "rolled_back"
            => mem'.procs[j].status = "rolled_back"]_memVars
  BY RolledBackStep
<1> QED
  BY <1>1, <1>2, <1>3, <1>4, PTL DEF MemSpec, MemoryHolds, RolledBackStays
===============================================================================
