---------------------------- MODULE ModelsProofs ----------------------------
(* The components of MCSuite that choose, fetch and show the models, proved    *)
(* for every value of their constants: the local runtime (LocalRuntime), the   *)
(* choice of a model (ModelRouting), the first-run wizard (SetupWizard), the   *)
(* models page (ModelsPage) and the settings (SettingsDialog).                 *)
EXTENDS SuiteProofs

-----------------------------------------------------------------------------
(* Requests under way, as the pages keep them *)

\* What is left when one of them is gone.
LEMMA OneGone ==
  ASSUME NEW T, NEW q \in Seq(T), NEW i \in 1..Len(q)
  PROVE  LET r == RemoveAt(q, i) IN
           /\ r \in Seq(T) /\ Len(r) = Len(q) - 1 /\ Len(q) - 1 \in Nat
           /\ \A j \in 1..(i - 1) : j \in 1..Len(r) /\ r[j] = q[j]
           /\ \A j \in i..(Len(q) - 1) : j \in 1..Len(r) /\ r[j] = q[j + 1]
<1> DEFINE front == SubSeq(q, 1, i - 1)
           back == SubSeq(q, i + 1, Len(q))
<1>1. Len(q) \in Nat /\ \A j \in 1..Len(q) : q[j] \in T
  OBVIOUS
<1>2. front \in Seq(T) /\ Len(front) = i - 1 /\ \A j \in 1..(i - 1) : front[j] = q[j]
  BY <1>1
<1>3. back \in Seq(T) /\ Len(back) = Len(q) - i /\ \A j \in 1..(Len(q) - i) : back[j] = q[i + j]
  BY <1>1
<1> HIDE DEF front, back
<1>4. PICK r : r = front \o back
  OBVIOUS
<1>8. /\ r \in Seq(T) /\ Len(r) = Len(front) + Len(back)
      /\ \A j \in 1..(Len(front) + Len(back)) : r[j] = IF j <= Len(front) THEN front[j] ELSE back[j - Len(front)]
  BY <1>2, <1>3, <1>4, ConcatProperties
<1>9. Len(front) + Len(back) = Len(q) - 1 /\ Len(q) - 1 \in Nat
  BY <1>1, <1>2, <1>3
<1>5. RemoveAt(q, i) = front \o back
  BY DEF RemoveAt, front, back
<1>6. \A j \in 1..(i - 1) : j \in 1..(Len(q) - 1) /\ j <= i - 1
  BY <1>1
<1>7. \A j \in i..(Len(q) - 1) :
        /\ j \in 1..(Len(q) - 1) /\ ~(j <= i - 1) /\ j - (i - 1) \in 1..(Len(q) - i)
        /\ i + (j - (i - 1)) = j + 1
  BY <1>1
<1>10. \A j \in 1..(i - 1) : j \in 1..Len(r) /\ r[j] = q[j]
  BY <1>2, <1>6, <1>8, <1>9
<1>11. \A j \in i..(Len(q) - 1) : j \in 1..Len(r) /\ r[j] = q[j + 1]
  BY <1>2, <1>3, <1>7, <1>8, <1>9
<1> QED
  BY <1>4, <1>5, <1>8, <1>9, <1>10, <1>11

\* Whoever is left was there, and the others are left.
LEMMA OthersStay ==
  ASSUME NEW T, NEW q \in Seq(T), NEW i \in 1..Len(q)
  PROVE  /\ RemoveAt(q, i) \in Seq(T)
         /\ \A j \in 1..Len(RemoveAt(q, i)) : \E k \in 1..Len(q) : k # i /\ RemoveAt(q, i)[j] = q[k]
         /\ \A k \in 1..Len(q) : k # i => \E j \in 1..Len(RemoveAt(q, i)) : RemoveAt(q, i)[j] = q[k]
<1>1. PICK r : r = RemoveAt(q, i)
  OBVIOUS
<1>2. /\ r \in Seq(T) /\ Len(r) = Len(q) - 1 /\ Len(q) \in Nat
      /\ \A j \in 1..(i - 1) : j \in 1..Len(r) /\ r[j] = q[j]
      /\ \A j \in i..(Len(q) - 1) : j \in 1..Len(r) /\ r[j] = q[j + 1]
  BY <1>1, OneGone
<1>3. ASSUME NEW j \in 1..Len(r) PROVE \E k \in 1..Len(q) : k # i /\ r[j] = q[k]
  <2>1. CASE j < i
    <3>1. r[j] = q[j] /\ j \in 1..Len(q) /\ j # i
      BY <1>2, <2>1
    <3> QED
      BY <3>1
  <2>2. CASE j >= i
    <3>1. r[j] = q[j + 1] /\ j + 1 \in 1..Len(q) /\ j + 1 # i
      BY <1>2, <2>2
    <3> QED
      BY <3>1
  <2> QED
    BY <2>1, <2>2
<1>4. ASSUME NEW k \in 1..Len(q), k # i PROVE \E j \in 1..Len(r) : r[j] = q[k]
  <2>1. CASE k < i
    <3>1. r[k] = q[k] /\ k \in 1..Len(r)
      BY <1>2, <2>1
    <3> QED
      BY <3>1
  <2>2. CASE k > i
    <3>1. k - 1 \in i..(Len(q) - 1) /\ (k - 1) + 1 = k
      BY <1>2, <2>2
    <3>2. r[k - 1] = q[k] /\ k - 1 \in 1..Len(r)
      BY <1>2, <3>1
    <3> QED
      BY <3>2
  <2> QED
    BY <1>4, <2>1, <2>2
<1> QED
  BY <1>1, <1>2, <1>3, <1>4

\* One more joins them at the end.
LEMMA OneJoins ==
  ASSUME NEW T, NEW q \in Seq(T), NEW x \in T
  PROVE  /\ Append(q, x) \in Seq(T) /\ Len(Append(q, x)) = Len(q) + 1 /\ Len(q) \in Nat
         /\ \A j \in 1..Len(q) : j \in 1..(Len(q) + 1) /\ Append(q, x)[j] = q[j]
         /\ Len(q) + 1 \in 1..(Len(q) + 1) /\ Append(q, x)[Len(q) + 1] = x
         /\ \A j \in 1..(Len(q) + 1) : j \in 1..Len(q) \/ j = Len(q) + 1
<1>1. Len(q) \in Nat
  OBVIOUS
<1>2. \A j \in 1..(Len(q) + 1) : j \in 1..Len(q) \/ j = Len(q) + 1
  BY <1>1
<1>3. \A j \in 1..Len(q) : j \in 1..(Len(q) + 1) /\ Append(q, x)[j] = q[j]
  BY <1>1, AppendProperties
<1> QED
  BY <1>1, <1>2, <1>3, AppendProperties

-----------------------------------------------------------------------------
(* The local runtime and the choice of a model *)

RuntimeInv == lrPulls \in [LrModels -> Nat] /\ ProgressIsLive /\ KeptIsProven

\* What is shown as being pulled is, and credentials that are kept were accepted or
\* are being validated, whatever the daemon does and however many pulls and
\* validations overlap (ollama-runtime.ts, infrastructure.ts).
THEOREM RuntimeAlwaysReal == RuntimeSpec => [](ProgressIsLive /\ KeptIsProven)
<1>1. RuntimeInit => RuntimeInv
  BY DEF RuntimeInit, RuntimeInv, ProgressIsLive, KeptIsProven
<1>2. RuntimeInv /\ [RuntimeNext]_lrVars => RuntimeInv'
  <2> SUFFICES ASSUME RuntimeInv, [RuntimeNext]_lrVars PROVE RuntimeInv'
    OBVIOUS
  <2> USE DEF RuntimeInv, ProgressIsLive, KeptIsProven, lrPullVars, lrCredVars
  <2>1. CASE UNCHANGED <<lrPullVars, lrCredVars>>
    BY <2>1
  <2>2. ASSUME NEW m \in LrModels, Pull(m), UNCHANGED lrCredVars PROVE RuntimeInv'
    BY <2>2 DEF Pull
  <2>3. ASSUME NEW m \in LrModels, Progress(m), UNCHANGED lrCredVars PROVE RuntimeInv'
    BY <2>3 DEF Progress
  <2>4. ASSUME NEW m \in LrModels, NEW ok \in BOOLEAN, PullEnds(m, ok), UNCHANGED lrCredVars PROVE RuntimeInv'
    BY <2>4 DEF PullEnds, Forgotten
  <2>5. ASSUME NEW c \in LrCreds, ConnectCloud(c), UNCHANGED lrPullVars PROVE RuntimeInv'
    BY <2>5 DEF ConnectCloud
  <2>6. ASSUME NEW c \in LrCreds, NEW ok \in BOOLEAN, Proven(c, ok), UNCHANGED lrPullVars PROVE RuntimeInv'
    BY <2>6 DEF Proven, Refused
  <2>7. CASE ModelsChange
    BY <2>1, <2>2, <2>3, <2>4, <2>7 DEF ModelsChange, ModelRemoved, Lands
  <2>8. CASE CredStep
    BY <2>5, <2>6, <2>8 DEF CredStep
  <2>9. CASE StartLooks \/ DaemonStep \/ UNCHANGED lrVars
    BY <2>1, <2>9 DEF StartLooks, DaemonStep, lrVars
  <2> QED
    BY <2>7, <2>8, <2>9 DEF RuntimeNext
<1>3. RuntimeInv => ProgressIsLive /\ KeptIsProven
  BY DEF RuntimeInv
<1> QED
  BY <1>1, <1>2, <1>3, PTL DEF RuntimeSpec

\* A list that is being fetched is of providers that have a key, unless a key changed.
ListInv ==
  /\ mrCache.has => ~mrFetch.on
  /\ mrFetch.on /\ ~mrTouched => mrFetch.keyed \subseteq Keyed
  /\ ListFollowsKeys /\ KeysAgree

LastOutcomes == {r \in Seq({0, 1}) : Len(r) <= Threshold}
RoutingTyped ==
  /\ mrRecent \in [MrModels -> LastOutcomes]
  /\ mrCache.models \subseteq MrModels
RoutingInv == RoutingTyped /\ ListInv

LEMMA ListKept ==
  ASSUME RoutingInv, RoutingNext
  PROVE  ListInv'
<1> USE DEF RoutingInv, ListInv, ListFollowsKeys, KeysAgree, Keyed, NoCache, NoFetch
<1>1. ASSUME NEW p, NEW k, KeyBecomes(p, k), UNCHANGED mrFetch PROVE ListInv'
  BY <1>1 DEF KeyBecomes
<1>2. ASSUME UNCHANGED <<mrStore, mrKey, mrCache, mrTouched, mrFetch>> PROVE ListInv'
  BY <1>2
<1>3. ASSUME NEW p \in MrKeyed, NEW k \in MrKeys,
             (Validate(p, k) \/ SaveUnchecked(p, k)) /\ UNCHANGED <<mrFetch, mrRecent, mrRun>>
      PROVE  ListInv'
  BY <1>1, <1>2, <1>3 DEF Validate, SaveUnchecked
<1>4. ASSUME NEW s \in mrSaving, NEW v \in BOOLEAN, KeyValidated(s, v) /\ UNCHANGED <<mrFetch, mrRecent, mrRun>>
      PROVE  ListInv'
  <2>1. CASE v
    BY <1>1, <1>4, <2>1 DEF KeyValidated
  <2>2. CASE ~v
    BY <1>2, <1>4, <2>2 DEF KeyValidated
  <2> QED
    BY <2>1, <2>2
<1>5. ASSUME NEW p \in MrKeyed, RemoveKey(p) /\ UNCHANGED <<mrFetch, mrRecent, mrRun>> PROVE ListInv'
  BY <1>1, <1>5 DEF RemoveKey
<1>6. ASSUME NEW env \in [MrKeyed -> MrKeys \cup {NoKey}], Restart(env) PROVE ListInv'
  BY <1>6 DEF Restart, AtLaunch
<1>7. CASE FetchBegins
  BY <1>7 DEF FetchBegins
<1>8. CASE ListExpires
  BY <1>8 DEF ListExpires
<1>9. ASSUME NEW up \in SUBSET ({MrLocal} \cup MrKeyed), FetchEnds(up) PROVE ListInv'
  BY <1>9 DEF FetchEnds
<1>10. ASSUME NEW need \in BOOLEAN, NEW m \in MrModels, StartRouting(need, m) PROVE ListInv'
  BY <1>2, <1>10 DEF StartRouting, mrKeyVars
<1>11. ASSUME NEW ends \in BOOLEAN, CallSucceeds(ends) PROVE ListInv'
  BY <1>2, <1>11 DEF CallSucceeds, mrKeyVars
<1>12. CASE CallRefused \/ RateLimited \/ CallFails
  BY <1>2, <1>12 DEF CallRefused, RateLimited, CallFails, mrKeyVars
<1>13. CASE Reroute
  BY <1>2, <1>13 DEF Reroute, mrKeyVars
<1> QED
  BY <1>3, <1>4, <1>5, <1>6, <1>7, <1>8, <1>9, <1>10, <1>11, <1>12, <1>13 DEF RoutingNext

\* One more outcome, of the last three.
LEMMA OutcomesKept ==
  ASSUME mrRecent \in [MrModels -> LastOutcomes], NEW m, NEW x \in {0, 1}
  PROVE  Recorded(m, x) \in [MrModels -> LastOutcomes]
<1> DEFINE r == Append(mrRecent[m], x)
           kept == IF Len(r) > Threshold THEN Tail(r) ELSE r
<1>1. CASE m \in MrModels
  <2>1. r \in Seq({0, 1}) /\ Len(r) <= Threshold + 1 /\ Len(r) \in Nat
    BY <1>1 DEF LastOutcomes, Threshold
  <2>2. kept \in LastOutcomes
    <3> HIDE DEF r
    <3>1. CASE Len(r) > Threshold
      BY <2>1, <3>1 DEF LastOutcomes, Threshold
    <3> QED
      BY <2>1, <3>1 DEF LastOutcomes, Threshold
  <2> QED
    BY <2>2 DEF Recorded
<1>2. CASE m \notin MrModels
  BY <1>2 DEF Recorded
<1> QED
  BY <1>1, <1>2

LEMMA RoutingTypesKept ==
  ASSUME RoutingInv, RoutingNext
  PROVE  RoutingTyped'
<1> USE DEF RoutingInv, RoutingTyped, NoCache
<1>1. ASSUME UNCHANGED <<mrRecent, mrCache>> PROVE RoutingTyped'
  BY <1>1
<1>2. ASSUME UNCHANGED mrRecent, mrCache' = NoCache PROVE RoutingTyped'
  BY <1>2
<1>3. ASSUME NEW p \in MrKeyed, NEW k \in MrKeys,
             (Validate(p, k) \/ SaveUnchecked(p, k)) /\ UNCHANGED <<mrFetch, mrRecent, mrRun>>
      PROVE  RoutingTyped'
  BY <1>1, <1>2, <1>3 DEF Validate, SaveUnchecked, KeyBecomes
<1>4. ASSUME NEW s \in mrSaving, NEW v \in BOOLEAN, KeyValidated(s, v) /\ UNCHANGED <<mrFetch, mrRecent, mrRun>>
      PROVE  RoutingTyped'
  BY <1>1, <1>2, <1>4 DEF KeyValidated, KeyBecomes
<1>5. ASSUME NEW p \in MrKeyed, RemoveKey(p) /\ UNCHANGED <<mrFetch, mrRecent, mrRun>> PROVE RoutingTyped'
  BY <1>2, <1>5 DEF RemoveKey, KeyBecomes
<1>6. ASSUME NEW env \in [MrKeyed -> MrKeys \cup {NoKey}], Restart(env) PROVE RoutingTyped'
  <2>1. <<>> \in LastOutcomes
    BY DEF LastOutcomes, Threshold
  <2> QED
    BY <1>6, <2>1 DEF Restart
<1>7. CASE FetchBegins
  BY <1>1, <1>7 DEF FetchBegins
<1>8. CASE ListExpires
  BY <1>2, <1>8 DEF ListExpires
<1>9. ASSUME NEW up \in SUBSET ({MrLocal} \cup MrKeyed), FetchEnds(up) PROVE RoutingTyped'
  BY <1>9 DEF FetchEnds
<1>10. ASSUME NEW need \in BOOLEAN, NEW m \in MrModels, StartRouting(need, m) PROVE RoutingTyped'
  BY <1>1, <1>10 DEF StartRouting, mrKeyVars
<1>11. ASSUME NEW x \in {0, 1}, mrRecent' = Recorded(mrRun.model, x), UNCHANGED mrCache PROVE RoutingTyped'
  BY <1>11, OutcomesKept
<1>12. ASSUME NEW ends \in BOOLEAN, CallSucceeds(ends) PROVE RoutingTyped'
  BY <1>11, <1>12 DEF CallSucceeds, mrKeyVars
<1>13. CASE CallRefused \/ RateLimited \/ CallFails
  BY <1>1, <1>11, <1>13 DEF CallRefused, RateLimited, CallFails, mrKeyVars
<1>14. CASE Reroute
  BY <1>1, <1>14 DEF Reroute, mrKeyVars
<1> QED
  BY <1>3, <1>4, <1>5, <1>6, <1>7, <1>8, <1>9, <1>10, <1>12, <1>13, <1>14 DEF RoutingNext

\* Failures are counted up to three.
LEMMA ScoreBounded ==
  ASSUME RoutingTyped, NEW m \in MrModels
  PROVE  Score(m) \in 0..Threshold
<1> DEFINE D == DOMAIN mrRecent[m]
           S == {i \in D : mrRecent[m][i] = 1}
<1>1. D = 1..Len(mrRecent[m]) /\ Len(mrRecent[m]) \in Nat /\ Len(mrRecent[m]) <= Threshold
  BY DEF RoutingTyped, LastOutcomes
<1>2. IsFiniteSet(D) /\ Cardinality(D) = Len(mrRecent[m])
  BY <1>1, FS_Interval
<1>3. S \subseteq D
  OBVIOUS
<1>4. IsFiniteSet(S) /\ Cardinality(S) <= Cardinality(D) /\ Cardinality(S) \in Nat
  BY <1>2, <1>3, FS_Subset, FS_CardinalityType
<1> QED
  BY <1>1, <1>2, <1>4 DEF Score, Threshold

\* The best of the models that fit is one of them, and ranks before the others.
LEMMA BestIsFirst ==
  ASSUME RoutingTyped, NEW need, Fit(need) # {}
  PROVE  Best(need) \in Fit(need) /\ \A n \in Fit(need) \ {Best(need)} : RanksBefore(Best(need), n)
<1> DEFINE F == Fit(need)
<1>1. F \subseteq MrModels
  BY DEF Fit, RoutingTyped
<1>2. \A m \in F : Rank(m) \in Nat /\ m.id \in Nat
  BY <1>1, ScoreBounded, RoutingAssumption DEF Rank, Threshold
<1> HIDE DEF F
<1>3. PICK r \in {Rank(m) : m \in F} : \A k \in {Rank(m) : m \in F} : r <= k
  <2>1. {Rank(m) : m \in F} \in SUBSET Nat /\ {Rank(m) : m \in F} # {}
    BY <1>2 DEF F
  <2> QED
    BY <2>1, FirstName
<1> DEFINE G == {m \in F : Rank(m) = r}
<1>4. PICK d \in {m.id : m \in G} : \A k \in {m.id : m \in G} : d <= k
  <2>1. {m.id : m \in G} \in SUBSET Nat /\ {m.id : m \in G} # {}
    BY <1>2, <1>3
  <2> QED
    BY <2>1, FirstName
<1>5. PICK m \in G : m.id = d
  BY <1>4
<1>6. ASSUME NEW n \in F \ {m} PROVE RanksBefore(m, n)
  <2>1. Rank(m) = r /\ r <= Rank(n) /\ Rank(n) \in Nat /\ r \in Nat
    BY <1>2, <1>3, <1>5, <1>6
  <2>2. m.id # n.id /\ m.id \in Nat /\ n.id \in Nat
    BY <1>1, <1>2, <1>5, <1>6, RoutingAssumption DEF F
  <2>3. Rank(n) = r => m.id <= n.id
    BY <1>4, <1>5, <1>6
  <2> QED
    BY <2>1, <2>2, <2>3 DEF RanksBefore
<1>7. m \in Fit(need) /\ \A n \in Fit(need) \ {m} : RanksBefore(m, n)
  BY <1>5, <1>6 DEF F
<1> QED
  BY <1>7 DEF Best

\* A model that is worn is chosen only when none that fits is not.
LEMMA WornIsLast ==
  ASSUME RoutingInv, RoutingNext, Rerouted, Score(mrRun'.model) = Threshold
  PROVE  \A m \in Fit(mrRun.need) : Score(m) > 0
<1> SUFFICES ASSUME NEW m \in Fit(mrRun.need) PROVE Score(m) > 0
  OBVIOUS
<1> DEFINE b == Best(mrRun.need)
<1>1. mrRun.phase = "failed" /\ mrRun'.phase = "call" /\ mrRun'.how = "rerouted"
  BY DEF Rerouted
<1>2. Reroute
  <2>1. ~\E p \in MrKeyed, k \in MrKeys : (Validate(p, k) \/ SaveUnchecked(p, k)) /\ UNCHANGED <<mrFetch, mrRecent, mrRun>>
    BY <1>1
  <2>2. ~\E s \in mrSaving, v \in BOOLEAN : KeyValidated(s, v) /\ UNCHANGED <<mrFetch, mrRecent, mrRun>>
    BY <1>1
  <2>3. ~\E p \in MrKeyed : RemoveKey(p) /\ UNCHANGED <<mrFetch, mrRecent, mrRun>>
    BY <1>1
  <2>4. ~\E env \in [MrKeyed -> MrKeys \cup {NoKey}] : Restart(env)
    BY <1>1 DEF Restart, NoRouting
  <2>5. ~(FetchBegins \/ ListExpires \/ \E up \in SUBSET ({MrLocal} \cup MrKeyed) : FetchEnds(up))
    BY <1>1 DEF FetchBegins, ListExpires, FetchEnds
  <2>6. ~(\E n \in BOOLEAN, a \in MrModels : StartRouting(n, a))
    BY <1>1 DEF StartRouting
  <2>7. ~(\E ends \in BOOLEAN : CallSucceeds(ends)) /\ ~CallRefused /\ ~RateLimited /\ ~CallFails
    BY <1>1 DEF CallSucceeds, CallRefused, RateLimited, CallFails
  <2> QED
    BY <2>1, <2>2, <2>3, <2>4, <2>5, <2>6, <2>7 DEF RoutingNext
<1>3. b \in Fit(mrRun.need) /\ \A n \in Fit(mrRun.need) \ {b} : RanksBefore(b, n)
  BY BestIsFirst DEF RoutingInv
<1>4. mrRun'.model = b
  <2>1. CASE \E n \in MrModels : n.p \in Fallbacks /\ Resumes(n, "legacy")
    BY <1>1, <2>1 DEF Resumes
  <2>2. CASE Resumes(b, "rerouted")
    BY <1>1, <2>2 DEF Resumes
  <2>3. CASE b = mrRun.model /\ Resumes(mrRun.model, mrRun.how)
    BY <1>1, <2>3 DEF Resumes
  <2> QED
    BY <1>2, <2>1, <2>2, <2>3 DEF Reroute
<1> HIDE DEF b
<1>5. b \in MrModels /\ m \in MrModels
  BY <1>3 DEF Fit, RoutingInv, RoutingTyped
<1>6. Score(b) = Threshold /\ Score(m) \in 0..Threshold
  BY <1>4, <1>5, ScoreBounded DEF RoutingInv
<1>7. CASE m = b
  BY <1>6, <1>7 DEF Threshold
<1>8. CASE m # b
  <2>1. RanksBefore(b, m)
    BY <1>3, <1>8
  <2> QED
    BY <1>6, <2>1 DEF RanksBefore, Rank, Threshold
<1> QED
  BY <1>7, <1>8

\* The list holds models of keyed providers unless a key changed during the fetch,
\* keys are the same in memory and on disk, and a model that failed three times
\* running is taken only when every model that fits has failed (model-router.ts).
THEOREM RoutingAlwaysReal == RoutingSpec => [](ListFollowsKeys /\ KeysAgree) /\ WornGivesWay
<1>1. RoutingInit => RoutingInv
  <2>1. <<>> \in LastOutcomes
    BY DEF LastOutcomes, Threshold
  <2> QED
    BY <2>1 DEF RoutingInit, RoutingInv, RoutingTyped, ListInv, ListFollowsKeys, KeysAgree, NoCache, NoFetch
<1>2. RoutingInv /\ [RoutingNext]_mrVars => RoutingInv'
  <2> SUFFICES ASSUME RoutingInv, [RoutingNext]_mrVars PROVE RoutingInv'
    OBVIOUS
  <2>1. CASE RoutingNext
    BY <2>1, ListKept, RoutingTypesKept DEF RoutingInv
  <2>2. CASE UNCHANGED mrVars
    BY <2>2 DEF mrVars, RoutingInv, RoutingTyped, ListInv, ListFollowsKeys, KeysAgree, Keyed
  <2> QED
    BY <2>1, <2>2
<1>3. RoutingInv /\ [RoutingNext]_mrVars =>
        [(Rerouted /\ Score(mrRun'.model) = Threshold) => \A m \in Fit(mrRun.need) : Score(m) > 0]_mrVars
  BY WornIsLast
<1>4. RoutingInv => ListFollowsKeys /\ KeysAgree
  BY DEF RoutingInv, ListInv
<1> QED
  BY <1>1, <1>2, <1>3, <1>4, PTL DEF RoutingSpec, WornGivesWay

-----------------------------------------------------------------------------
(* The first-run wizard *)

KeyAnswers == {"none", "valid", "refused", "network", "lost"}
WizardCalls ==
  [op : {"check", "save", "list", "choose"}, p : Providers \cup {NoProvider}, m : SuCatalog \cup {NoModelYet},
   skip : BOOLEAN, stage : {"asked", "answered"}, how : KeyAnswers, list : SUBSET SuCatalog]
WizardTyped ==
  /\ suStep \in 1..(LastStep + 1) /\ suLoading \in BOOLEAN /\ suDiags \in BOOLEAN
  /\ suProvider \in Providers \cup {NoProvider}
  /\ suStatus \in {"idle", "validating", "valid", "invalid"}
  /\ suModels \subseteq SuCatalog /\ suChosen \in SuCatalog \cup {NoModelYet}
  /\ suCalls \in Seq(WizardCalls)

\* Whatever is shown, asked for or on its way to the page is of a provider that can
\* serve it, and the ready step is reached with a model.
Serves(m, saved) == m.p \in saved \cup {SuLocal}
WizardServes ==
  /\ \A m \in suModels : Serves(m, suSaved)
  /\ suChosen \in SuCatalog => Serves(suChosen, suSaved)
  /\ suStep >= LastStep => suChosen \in SuCatalog
CallServes(c, saved) ==
  /\ \A m \in c.list : Serves(m, saved)
  /\ c.op = "choose" => c.m \in SuCatalog /\ Serves(c.m, saved)
CallsServe == \A i \in 1..Len(suCalls) : CallServes(suCalls[i], suSaved)

\* A check is waited for at its step, a key at the step of the keys.
WaitsAtItsStep ==
  /\ suLoading => suStep <= Compatibility
  /\ suStatus = "validating" => suStep <= KeyStep /\ suProvider # SuLocal

WizardInv == WizardTyped /\ WizardServes /\ CallsServe /\ WaitsAtItsStep /\ WaitIsReal

LEMMA NoModelIsNone == NoModelYet \notin SuCatalog
  BY WizardAssumption DEF NoModelYet

\* What is asked for joins the requests under way.
LEMMA CallJoins ==
  ASSUME WizardInv, NEW op \in {"check", "save", "choose"}, NEW m \in SuCatalog \cup {NoModelYet}, NEW skip \in BOOLEAN,
         op = "choose" => m \in SuCatalog /\ Serves(m, suSaved),
         Asks(op, m, skip)
  PROVE  /\ suCalls' \in Seq(WizardCalls)
         /\ \A i \in 1..Len(suCalls') : CallServes(suCalls'[i], suSaved)
         /\ \E i \in 1..Len(suCalls') : suCalls'[i].op = op
         /\ \A i \in 1..Len(suCalls) : i \in 1..Len(suCalls') /\ suCalls'[i] = suCalls[i]
<1>1. PICK c : c = [op |-> op, p |-> suProvider, m |-> m, skip |-> skip, stage |-> "asked", how |-> "none", list |-> {}]
  OBVIOUS
<1>2. c \in WizardCalls
  BY <1>1 DEF WizardCalls, KeyAnswers, WizardInv, WizardTyped
<1>3. c.op = op /\ CallServes(c, suSaved)
  BY <1>1 DEF CallServes
<1>4. suCalls \in Seq(WizardCalls) /\ suCalls' = Append(suCalls, c)
  BY <1>1 DEF WizardInv, WizardTyped, Asks
<1>5. /\ suCalls' \in Seq(WizardCalls) /\ Len(suCalls') = Len(suCalls) + 1 /\ Len(suCalls) \in Nat
      /\ \A j \in 1..Len(suCalls) : j \in 1..(Len(suCalls) + 1) /\ suCalls'[j] = suCalls[j]
      /\ Len(suCalls) + 1 \in 1..(Len(suCalls) + 1) /\ suCalls'[Len(suCalls) + 1] = c
      /\ \A j \in 1..(Len(suCalls) + 1) : j \in 1..Len(suCalls) \/ j = Len(suCalls) + 1
  BY <1>2, <1>4, OneJoins
<1>6. \A i \in 1..Len(suCalls') : CallServes(suCalls'[i], suSaved)
  BY <1>3, <1>5 DEF WizardInv, CallsServe
<1>7. \E i \in 1..Len(suCalls') : suCalls'[i].op = op
  BY <1>3, <1>5
<1> QED
  BY <1>5, <1>6, <1>7

\* What is answered on the page is gone; the others stay.
LEMMA CallGone ==
  ASSUME WizardInv, NEW i \in 1..Len(suCalls), suCalls' = RemoveAt(suCalls, i)
  PROVE  /\ suCalls' \in Seq(WizardCalls)
         /\ \A j \in 1..Len(suCalls') : CallServes(suCalls'[j], suSaved)
         /\ \A k \in 1..Len(suCalls) : k # i => \E j \in 1..Len(suCalls') : suCalls'[j] = suCalls[k]
<1>1. suCalls \in Seq(WizardCalls)
  BY DEF WizardInv, WizardTyped
<1>2. /\ suCalls' \in Seq(WizardCalls)
      /\ \A j \in 1..Len(suCalls') : \E k \in 1..Len(suCalls) : k # i /\ suCalls'[j] = suCalls[k]
      /\ \A k \in 1..Len(suCalls) : k # i => \E j \in 1..Len(suCalls') : suCalls'[j] = suCalls[k]
  BY <1>1, OthersStay
<1> QED
  BY <1>2 DEF WizardInv, CallsServe

\* A request goes on as another record in its place.
LEMMA CallGoesOn ==
  ASSUME WizardInv, NEW i \in 1..Len(suCalls), NEW d \in WizardCalls, NEW saved, suSaved \subseteq saved,
         CallServes(d, saved),
         suCalls' = [suCalls EXCEPT ![i] = d]
  PROVE  /\ suCalls' \in Seq(WizardCalls) /\ Len(suCalls') = Len(suCalls)
         /\ \A j \in 1..Len(suCalls') : CallServes(suCalls'[j], saved)
         /\ suCalls'[i] = d
         /\ \A j \in 1..Len(suCalls) : j # i => suCalls'[j] = suCalls[j]
<1>1. suCalls \in Seq(WizardCalls)
  BY DEF WizardInv, WizardTyped
<1>2. /\ suCalls' \in Seq(WizardCalls) /\ Len(suCalls') = Len(suCalls)
      /\ suCalls'[i] = d
      /\ \A j \in 1..Len(suCalls) : j # i => suCalls'[j] = suCalls[j]
  BY <1>1
<1>3. \A c \in WizardCalls : CallServes(c, suSaved) => CallServes(c, saved)
  BY DEF CallServes, Serves
<1>4. \A j \in 1..Len(suCalls) : suCalls[j] \in WizardCalls /\ CallServes(suCalls[j], suSaved)
  BY <1>1 DEF WizardInv, CallsServe
<1> QED
  BY <1>2, <1>3, <1>4

\* The steps of the user that ask for nothing, or for one thing.
LEMMA ArriveKeeps ==
  ASSUME WizardInv, NEW step \in 1..LastStep, Arrive(step),
         suLoading => step <= Compatibility \/ step < suStep,
         suStatus = "validating" => step <= KeyStep,
         step >= LastStep => suChosen # NoModelYet
  PROVE  WizardInv'
<1> USE DEF Compatibility, LastStep, KeyStep
<1>0. /\ suStep' = step /\ UNCHANGED <<suFormVars, suServerVars>>
      /\ suStep \in 1..8
  BY DEF Arrive, WizardInv, WizardTyped
<1>1. CASE step = Compatibility
  <2>1. Asks("check", NoModelYet, FALSE) /\ suLoading' = TRUE /\ suDiags' = FALSE
    BY <1>1 DEF Arrive
  <2>2. /\ suCalls' \in Seq(WizardCalls)
        /\ \A i \in 1..Len(suCalls') : CallServes(suCalls'[i], suSaved)
        /\ \E i \in 1..Len(suCalls') : suCalls'[i].op = "check"
        /\ \A i \in 1..Len(suCalls) : i \in 1..Len(suCalls') /\ suCalls'[i] = suCalls[i]
    BY <2>1, CallJoins
  <2>7. suStep' \in 1..(LastStep + 1)
    BY <1>0
  <2>3. WizardTyped'
    BY Zenon, <1>0, <2>1, <2>2, <2>7 DEF WizardInv, WizardTyped, suFormVars
  <2>4. WizardServes' /\ CallsServe'
    BY <1>0, <1>1, <2>2 DEF WizardInv, WizardServes, CallsServe, suFormVars, suServerVars
  <2>5. WaitsAtItsStep'
    BY <1>0, <1>1 DEF WizardInv, WaitsAtItsStep, suFormVars
  <2>6. WaitIsReal'
    BY <1>0, <2>2 DEF WizardInv, WaitIsReal, suFormVars
  <2> QED
    BY <2>3, <2>4, <2>5, <2>6 DEF WizardInv
<1>2. CASE step # Compatibility
  <2>1. UNCHANGED <<suCalls, suCheckVars>>
    BY <1>2 DEF Arrive
  <2>2. WizardTyped'
    BY <1>0, <2>1 DEF WizardInv, WizardTyped, suFormVars, suCheckVars
  <2>3. WizardServes' /\ CallsServe'
    BY <1>0, <2>1 DEF WizardInv, WizardTyped, WizardServes, CallsServe, suFormVars, suServerVars
  <2>4. WaitsAtItsStep'
    BY <1>0, <2>1 DEF WizardInv, WaitsAtItsStep, suFormVars, suCheckVars
  <2>5. WaitIsReal'
    BY <1>0, <2>1 DEF WizardInv, WaitIsReal, suFormVars, suCheckVars
  <2> QED
    BY <2>2, <2>3, <2>4, <2>5 DEF WizardInv
<1> QED
  BY <1>1, <1>2

LEMMA WalkKeeps ==
  ASSUME WizardInv, NextStep \/ PrevStep \/ CheckAgain
  PROVE  WizardInv'
<1> USE DEF Compatibility, LastStep, KeyStep, ModelsStep, ProviderStep
<1>0. suStep \in 1..8 /\ WizardOpen
  BY DEF WizardInv, WizardTyped, NextStep, PrevStep, CheckAgain, UserDoes
<1>1. CASE NextStep
  <2>1. suStep < 7
    BY <1>0, <1>1 DEF NextStep, CanProceed, WizardOpen
  <2>2. suStep + 1 \in 1..LastStep /\ Arrive(suStep + 1)
    BY <1>0, <1>1, <2>1 DEF NextStep
  <2>3. suLoading => suStep + 1 <= Compatibility
    BY <1>0, <1>1 DEF NextStep, CanProceed, WizardInv, WaitsAtItsStep
  <2>4. suStatus = "validating" => suStep + 1 <= KeyStep
    BY <1>0, <1>1 DEF NextStep, CanProceed, WizardInv, WaitsAtItsStep
  <2>5. suStep + 1 >= LastStep => suChosen # NoModelYet
    BY <1>0, <1>1, <2>1 DEF NextStep, CanProceed
  <2> QED
    BY <2>2, <2>3, <2>4, <2>5, ArriveKeeps
<1>2. CASE PrevStep
  <2>1. suStep - 1 \in 1..LastStep /\ Arrive(suStep - 1) /\ suStep - 1 < suStep
    BY <1>0, <1>2 DEF PrevStep, WizardOpen
  <2>2. suStatus = "validating" => suStep - 1 <= KeyStep
    BY <1>0 DEF WizardInv, WaitsAtItsStep
  <2>3. suStep - 1 < LastStep
    BY <1>0, <1>2 DEF PrevStep, WizardOpen
  <2>4. ~(suStep - 1 >= LastStep)
    BY <1>0, <2>3
  <2> QED
    BY <2>1, <2>2, <2>4, ArriveKeeps
<1>3. CASE CheckAgain
  <2>1. suStep = 2 /\ Arrive(suStep)
    BY <1>3 DEF CheckAgain
  <2>2. suStep \in 1..LastStep /\ suStep <= Compatibility /\ suStep <= KeyStep /\ ~(suStep >= LastStep)
    BY <2>1
  <2> QED
    BY <2>1, <2>2, ArriveKeeps
<1> QED
  BY <1>1, <1>2, <1>3

LEMMA FormKeeps ==
  ASSUME WizardInv, (\E p \in Providers : ChooseProvider(p)) \/ (\E b \in BOOLEAN : TypeKey(b)) \/ Complete \/ ReloadPage
  PROVE  WizardInv'
<1> USE DEF LastStep, KeyStep, ProviderStep, Compatibility
<1>1. ASSUME NEW p \in Providers, ChooseProvider(p) PROVE WizardInv'
  <2>0. /\ suStep = 4 /\ suProvider' = p /\ suStatus' = "idle" /\ suModels' = {} /\ suChosen' = NoModelYet
        /\ UNCHANGED <<suStep, suCheckVars, suCalls, suServerVars>>
    BY <1>1 DEF ChooseProvider
  <2>1. WizardTyped'
    BY <2>0 DEF WizardInv, WizardTyped, suCheckVars
  <2>2. WizardServes' /\ CallsServe'
    BY <2>0, NoModelIsNone DEF WizardInv, WizardServes, CallsServe, suServerVars
  <2>3. WaitsAtItsStep' /\ WaitIsReal'
    BY <2>0 DEF WizardInv, WaitsAtItsStep, WaitIsReal, suCheckVars
  <2> QED
    BY <2>1, <2>2, <2>3 DEF WizardInv
<1>2. ASSUME NEW b \in BOOLEAN, TypeKey(b) PROVE WizardInv'
  <2>0. /\ suStatus' = "idle"
        /\ UNCHANGED <<suStep, suCheckVars, suProvider, suModels, suChosen, suCalls, suServerVars>>
    BY <1>2 DEF TypeKey
  <2>1. WizardTyped'
    BY <2>0 DEF WizardInv, WizardTyped, suCheckVars
  <2>2. WizardServes' /\ CallsServe'
    BY <2>0 DEF WizardInv, WizardServes, CallsServe, suServerVars
  <2>3. WaitsAtItsStep' /\ WaitIsReal'
    BY <2>0 DEF WizardInv, WaitsAtItsStep, WaitIsReal, suCheckVars
  <2> QED
    BY <2>1, <2>2, <2>3 DEF WizardInv
<1>3. CASE Complete
  <2>0. suStep = 7 /\ suStep' = 8 /\ suCalls' = <<>> /\ UNCHANGED <<suCheckVars, suFormVars, suServerVars>>
    BY <1>3 DEF Complete
  <2>1. Len(suCalls') = 0 /\ suCalls' \in Seq(WizardCalls)
    BY <2>0
  <2>2. WizardTyped'
    BY <2>0, <2>1 DEF WizardInv, WizardTyped, suCheckVars, suFormVars
  <2>3. WizardServes' /\ CallsServe'
    BY <2>0, <2>1 DEF WizardInv, WizardServes, CallsServe, suServerVars, suFormVars
  <2>4. ~suLoading /\ suStatus # "validating"
    BY <2>0 DEF WizardInv, WaitsAtItsStep
  <2>5. WaitsAtItsStep' /\ WaitIsReal'
    BY <2>0, <2>4 DEF WaitsAtItsStep, WaitIsReal, suCheckVars, suFormVars
  <2> QED
    BY <2>2, <2>3, <2>5 DEF WizardInv
<1>4. CASE ReloadPage
  <2>0. BlankForm /\ UNCHANGED suServerVars
    BY <1>4 DEF ReloadPage
  <2>1. Len(suCalls') = 0 /\ suCalls' \in Seq(WizardCalls)
    BY <2>0 DEF BlankForm
  <2>5. suStep' \in 1..(LastStep + 1)
    BY <2>0 DEF BlankForm
  <2>6. suModels' \subseteq SuCatalog /\ suChosen' \in SuCatalog \cup {NoModelYet}
    BY <2>0 DEF BlankForm
  <2>2. WizardTyped'
    BY Zenon, <2>0, <2>1, <2>5, <2>6 DEF BlankForm, WizardTyped
  <2>3. WizardServes' /\ CallsServe'
    BY <2>0, <2>1, NoModelIsNone DEF BlankForm, WizardServes, CallsServe
  <2>4. WaitsAtItsStep' /\ WaitIsReal'
    BY <2>0 DEF BlankForm, WaitsAtItsStep, WaitIsReal
  <2> QED
    BY <2>2, <2>3, <2>4 DEF WizardInv
<1> QED
  BY <1>1, <1>2, <1>3, <1>4

LEMMA AskKeeps ==
  ASSUME WizardInv, (\E b \in BOOLEAN : SaveKey(b)) \/ (\E m \in SuCatalog : SelectModel(m))
  PROVE  WizardInv'
<1> USE DEF LastStep, KeyStep, ModelsStep, Compatibility
<1>1. ASSUME NEW b \in BOOLEAN, SaveKey(b) PROVE WizardInv'
  <2>0. /\ suStep = 5 /\ suProvider # SuLocal /\ suStatus' = "validating"
        /\ UNCHANGED <<suStep, suCheckVars, suProvider, suModels, suChosen, suServerVars>>
        /\ Asks("save", NoModelYet, b)
    BY <1>1 DEF SaveKey
  <2>1. /\ suCalls' \in Seq(WizardCalls)
        /\ \A i \in 1..Len(suCalls') : CallServes(suCalls'[i], suSaved)
        /\ \E i \in 1..Len(suCalls') : suCalls'[i].op = "save"
        /\ \A i \in 1..Len(suCalls) : i \in 1..Len(suCalls') /\ suCalls'[i] = suCalls[i]
    BY <2>0, CallJoins
  <2>2. WizardTyped'
    BY <2>0, <2>1 DEF WizardInv, WizardTyped, suCheckVars
  <2>3. WizardServes' /\ CallsServe'
    BY <2>0, <2>1 DEF WizardInv, WizardServes, CallsServe, suServerVars
  <2>4. WaitsAtItsStep'
    BY <2>0 DEF WizardInv, WaitsAtItsStep, suCheckVars
  <2>5. WaitIsReal'
    BY <2>0, <2>1 DEF WizardInv, WaitIsReal, suCheckVars
  <2> QED
    BY <2>2, <2>3, <2>4, <2>5 DEF WizardInv
<1>2. ASSUME NEW m \in SuCatalog, SelectModel(m) PROVE WizardInv'
  <2>0. m \in Offered /\ Asks("choose", m, FALSE) /\ UNCHANGED <<suStep, suCheckVars, suFormVars, suServerVars>>
    BY <1>2 DEF SelectModel
  <2>1. Serves(m, suSaved)
    BY <2>0 DEF Offered, FreeOf, WizardInv, WizardServes
  <2>2. /\ suCalls' \in Seq(WizardCalls)
        /\ \A i \in 1..Len(suCalls') : CallServes(suCalls'[i], suSaved)
        /\ \A i \in 1..Len(suCalls) : i \in 1..Len(suCalls') /\ suCalls'[i] = suCalls[i]
    BY <2>0, <2>1, CallJoins
  <2>3. WizardTyped'
    BY <2>0, <2>2 DEF WizardInv, WizardTyped, suCheckVars, suFormVars
  <2>4. WizardServes' /\ CallsServe'
    BY <2>0, <2>2 DEF WizardInv, WizardServes, CallsServe, suServerVars, suFormVars
  <2>5. WaitsAtItsStep'
    BY <2>0 DEF WizardInv, WaitsAtItsStep, suCheckVars, suFormVars
  <2>6. WaitIsReal'
    BY <2>0, <2>2 DEF WizardInv, WaitIsReal, suCheckVars, suFormVars
  <2> QED
    BY <2>3, <2>4, <2>5, <2>6 DEF WizardInv
<1> QED
  BY <1>1, <1>2

\* The best free model of a list is one of it.
LEMMA BestFreeIsFree ==
  ASSUME NEW S \in SUBSET SuCatalog, FreeOf(S) # {}
  PROVE  BestFree(S) \in S
<1> DEFINE fit == {m \in FreeOf(S) : m.fit}
           pool == IF fit # {} THEN fit ELSE FreeOf(S)
<1>1. pool \subseteq S /\ pool # {} /\ \A m \in pool : m.id \in Nat
  BY WizardAssumption DEF FreeOf
<1>2. PICK d \in {m.id : m \in pool} : \A k \in {m.id : m \in pool} : d <= k
  <2> HIDE DEF pool
  <2>1. {m.id : m \in pool} \in SUBSET Nat /\ {m.id : m \in pool} # {}
    BY <1>1
  <2> QED
    BY <2>1, FirstName
<1>3. \E m \in pool : \A n \in pool : m.id <= n.id
  <2> HIDE DEF pool
  <2> QED
    BY <1>2
<1>4. BestFree(S) \in pool
  BY <1>3 DEF BestFree
<1> QED
  BY <1>1, <1>4

\* The server's side of a request.
LEMMA WizardServerKeeps ==
  ASSUME WizardInv, NEW i \in 1..Len(suCalls),
         \/ ServerChooses(i)
         \/ \E how \in {"valid", "refused", "network", "lost"}, stored \in BOOLEAN : ServerSaves(i, how, stored)
         \/ \E down \in SUBSET Providers : ServerLists(i, down)
  PROVE  WizardInv'
<1>0. suCalls \in Seq(WizardCalls) /\ suCalls[i] \in WizardCalls /\ CallServes(suCalls[i], suSaved)
  BY DEF WizardInv, WizardTyped, CallsServe
<1>1. ASSUME NEW how \in KeyAnswers, NEW list \in SUBSET SuCatalog, NEW saved,
             AnswersCall(i, how, list), suSaved' = saved, suSaved \subseteq saved,
             \A m \in list : Serves(m, saved),
             UNCHANGED <<suStep, suCheckVars, suFormVars>>
      PROVE  WizardInv'
  <2>1. PICK d : d = [suCalls[i] EXCEPT !.stage = "answered", !.how = how, !.list = list]
    OBVIOUS
  <2>2. d \in WizardCalls
    BY <1>0, <2>1 DEF WizardCalls
  <2>3. d.op = suCalls[i].op /\ d.list = list /\ d.m = suCalls[i].m
    BY <1>0, <2>1 DEF WizardCalls
  <2>4. CallServes(d, saved)
    BY <1>0, <1>1, <2>3 DEF CallServes, Serves
  <2>5. suCalls' = [suCalls EXCEPT ![i] = d]
    BY <1>0, <1>1, <2>1 DEF AnswersCall
  <2>6. /\ suCalls' \in Seq(WizardCalls) /\ Len(suCalls') = Len(suCalls)
        /\ \A j \in 1..Len(suCalls') : CallServes(suCalls'[j], saved)
        /\ suCalls'[i] = d
        /\ \A j \in 1..Len(suCalls) : j # i => suCalls'[j] = suCalls[j]
    BY <1>1, <2>2, <2>4, <2>5, CallGoesOn
  <2>7. \A j \in 1..Len(suCalls) : j \in 1..Len(suCalls') /\ suCalls'[j].op = suCalls[j].op
    BY <2>3, <2>6
  <2>8. WizardTyped'
    BY <1>1, <2>6 DEF WizardInv, WizardTyped, suCheckVars, suFormVars
  <2>9. WizardServes' /\ CallsServe'
    BY <1>1, <2>6 DEF WizardInv, WizardServes, CallsServe, suFormVars, Serves
  <2>10. WaitsAtItsStep'
    BY <1>1 DEF WizardInv, WaitsAtItsStep, suCheckVars, suFormVars
  <2>11. WaitIsReal'
    BY <1>1, <2>7 DEF WizardInv, WaitIsReal, suCheckVars, suFormVars
  <2> QED
    BY <2>8, <2>9, <2>10, <2>11 DEF WizardInv
<1>2. CASE ServerChooses(i)
  <2>1. PICK how \in {"valid", "lost"} : AnswersCall(i, how, {})
    BY <1>2 DEF ServerChooses
  <2> QED
    BY <1>1, <1>2, <2>1 DEF ServerChooses, KeyAnswers
<1>3. ASSUME NEW how \in {"valid", "refused", "network", "lost"}, NEW stored \in BOOLEAN, ServerSaves(i, how, stored)
      PROVE  WizardInv'
  <2>1. PICK saved : saved = IF stored THEN suSaved \cup {suCalls[i].p} ELSE suSaved
    OBVIOUS
  <2>2. suSaved \subseteq saved /\ suSaved' = saved
    BY <1>3, <2>1 DEF ServerSaves
  <2>3. /\ how \in KeyAnswers /\ AnswersCall(i, how, {}) /\ {} \in SUBSET SuCatalog
        /\ \A m \in {} : Serves(m, saved)
        /\ UNCHANGED <<suStep, suCheckVars, suFormVars>>
    BY <1>3 DEF ServerSaves, KeyAnswers
  <2> QED
    BY <1>1, <2>2, <2>3
<1>4. ASSUME NEW down \in SUBSET Providers, ServerLists(i, down) PROVE WizardInv'
  <2>1. PICK list : list = {m \in SuCatalog : m.p \in (suSaved \cup {SuLocal}) \ down}
    OBVIOUS
  <2>2. list \in SUBSET SuCatalog /\ \A m \in list : Serves(m, suSaved)
    BY <2>1 DEF Serves
  <2>3. PICK how \in KeyAnswers : AnswersCall(i, how, list)
    BY <1>4, <2>1 DEF ServerLists, KeyAnswers
  <2> QED
    BY <1>1, <1>4, <2>2, <2>3 DEF ServerLists, suServerVars
<1> QED
  BY <1>2, <1>3, <1>4

\* The page's side of it.
LEMMA CheckEndsKeeps ==
  ASSUME WizardInv, NEW i \in 1..Len(suCalls), NEW shown \in BOOLEAN, CheckEnds(i, shown)
  PROVE  WizardInv'
<1>0. /\ suCalls[i].op = "check" /\ suDiags' = shown /\ suLoading' = FALSE /\ suCalls' = RemoveAt(suCalls, i)
      /\ UNCHANGED <<suStep, suFormVars, suServerVars>>
  BY DEF CheckEnds
<1>1. /\ suCalls' \in Seq(WizardCalls)
      /\ \A j \in 1..Len(suCalls') : CallServes(suCalls'[j], suSaved)
      /\ \A k \in 1..Len(suCalls) : k # i => \E j \in 1..Len(suCalls') : suCalls'[j] = suCalls[k]
  BY <1>0, CallGone
<1>2. WizardTyped'
  BY Zenon, <1>0, <1>1 DEF WizardInv, WizardTyped, suFormVars
<1>3. WizardServes' /\ CallsServe'
  BY <1>0, <1>1 DEF WizardInv, WizardServes, CallsServe, suFormVars, suServerVars
<1>4. WaitsAtItsStep'
  BY <1>0 DEF WizardInv, WaitsAtItsStep, suFormVars
<1>5. WaitIsReal'
  BY <1>0, <1>1 DEF WizardInv, WaitIsReal, suFormVars
<1> QED
  BY <1>2, <1>3, <1>4, <1>5 DEF WizardInv

LEMMA SaveAnsweredKeeps ==
  ASSUME WizardInv, NEW i \in 1..Len(suCalls), SaveAnswered(i)
  PROVE  WizardInv'
<1>0. /\ suCalls[i].op = "save" /\ suStatus' = StatusAfter(suCalls[i].how)
      /\ suCalls' = IF suCalls[i].how = "valid"
                    THEN [suCalls EXCEPT ![i].op = "list", ![i].stage = "asked", ![i].how = "none"]
                    ELSE RemoveAt(suCalls, i)
      /\ UNCHANGED <<suStep, suCheckVars, suProvider, suTyped, suModels, suChosen, suServerVars>>
  BY DEF SaveAnswered
<1>1. suCalls \in Seq(WizardCalls) /\ suCalls[i] \in WizardCalls /\ CallServes(suCalls[i], suSaved)
  BY DEF WizardInv, WizardTyped, CallsServe
<1>2. /\ suCalls' \in Seq(WizardCalls)
      /\ \A j \in 1..Len(suCalls') : CallServes(suCalls'[j], suSaved)
      /\ \A k \in 1..Len(suCalls) : k # i => \E j \in 1..Len(suCalls') : suCalls'[j] = suCalls[k]
  <2>1. CASE suCalls[i].how = "valid"
    <3>1. PICK d : d = [suCalls[i] EXCEPT !.op = "list", !.stage = "asked", !.how = "none"]
      OBVIOUS
    <3>2. d \in WizardCalls
      BY <1>1, <3>1 DEF WizardCalls, KeyAnswers
    <3>3. d.op = "list" /\ d.list = suCalls[i].list
      BY <1>1, <3>1 DEF WizardCalls
    <3>4. CallServes(d, suSaved)
      BY <1>1, <3>3 DEF CallServes
    <3>5. suCalls' = [suCalls EXCEPT ![i] = d]
      BY <1>0, <1>1, <2>1, <3>1
    <3>6. /\ suCalls' \in Seq(WizardCalls) /\ Len(suCalls') = Len(suCalls)
          /\ \A j \in 1..Len(suCalls') : CallServes(suCalls'[j], suSaved)
          /\ \A j \in 1..Len(suCalls) : j # i => suCalls'[j] = suCalls[j]
      BY <3>2, <3>4, <3>5, CallGoesOn
    <3> QED
      BY <3>6
  <2>2. CASE suCalls[i].how # "valid"
    BY <1>0, <2>2, CallGone
  <2> QED
    BY <2>1, <2>2
<1>3. suStatus' \in {"valid", "invalid"}
  BY <1>0 DEF StatusAfter
<1>4. WizardTyped'
  BY <1>0, <1>2, <1>3 DEF WizardInv, WizardTyped, suCheckVars
<1>5. WizardServes' /\ CallsServe'
  BY <1>0, <1>2 DEF WizardInv, WizardServes, CallsServe, suServerVars
<1>6. WaitsAtItsStep'
  BY <1>0, <1>3 DEF WizardInv, WaitsAtItsStep, suCheckVars
<1>7. WaitIsReal'
  BY <1>0, <1>2, <1>3 DEF WizardInv, WaitIsReal, suCheckVars
<1> QED
  BY <1>4, <1>5, <1>6, <1>7 DEF WizardInv

LEMMA ModelsAnsweredKeeps ==
  ASSUME WizardInv, NEW i \in 1..Len(suCalls), ListAnswered(i) \/ ChooseAnswered(i)
  PROVE  WizardInv'
<1>0. suCalls \in Seq(WizardCalls) /\ suCalls[i] \in WizardCalls /\ CallServes(suCalls[i], suSaved)
  BY DEF WizardInv, WizardTyped, CallsServe
<1>1. ASSUME suCalls[i].op \in {"list", "choose"}, suCalls' = RemoveAt(suCalls, i),
             suStatus' \in {suStatus, "invalid"},
             suModels' \subseteq SuCatalog, \A m \in suModels' : Serves(m, suSaved),
             \/ suChosen' = suChosen
             \/ suChosen' \in SuCatalog /\ Serves(suChosen', suSaved),
             UNCHANGED <<suStep, suCheckVars, suProvider, suServerVars>>
      PROVE  WizardInv'
  <2>1. /\ suCalls' \in Seq(WizardCalls)
        /\ \A j \in 1..Len(suCalls') : CallServes(suCalls'[j], suSaved)
        /\ \A k \in 1..Len(suCalls) : k # i => \E j \in 1..Len(suCalls') : suCalls'[j] = suCalls[k]
    BY <1>1, CallGone
  <2>2. WizardTyped'
    BY <1>1, <2>1 DEF WizardInv, WizardTyped, suCheckVars
  <2>3. WizardServes' /\ CallsServe'
    BY <1>1, <2>1 DEF WizardInv, WizardServes, CallsServe, suServerVars
  <2>4. WaitsAtItsStep'
    BY <1>1 DEF WizardInv, WaitsAtItsStep, suCheckVars
  <2>5. WaitIsReal'
    BY <1>1, <2>1 DEF WizardInv, WaitIsReal, suCheckVars
  <2> QED
    BY <2>2, <2>3, <2>4, <2>5 DEF WizardInv
<1>2. CASE ListAnswered(i)
  <2>1. PICK list : list = suCalls[i].list
    OBVIOUS
  <2>2. list \in SUBSET SuCatalog /\ \A m \in list : Serves(m, suSaved)
    BY <1>0, <2>1 DEF WizardCalls, CallServes
  <2>3. suModels' \subseteq SuCatalog /\ \A m \in suModels' : Serves(m, suSaved)
    BY <1>2, <2>1, <2>2 DEF ListAnswered, WizardInv, WizardTyped, WizardServes
  <2>4. FreeOf(list) # {} => BestFree(list) \in SuCatalog /\ Serves(BestFree(list), suSaved)
    BY <2>2, BestFreeIsFree
  <2>5. suChosen' = suChosen \/ (suChosen' \in SuCatalog /\ Serves(suChosen', suSaved))
    BY <1>2, <2>1, <2>4 DEF ListAnswered
  <2>6. suStatus' \in {suStatus, "invalid"}
    BY <1>2 DEF ListAnswered
  <2> QED
    BY <1>1, <1>2, <2>3, <2>5, <2>6 DEF ListAnswered
<1>3. CASE ChooseAnswered(i)
  <2>1. suChosen' = suChosen \/ (suChosen' \in SuCatalog /\ Serves(suChosen', suSaved))
    BY <1>0, <1>3 DEF ChooseAnswered, CallServes
  <2>2. UNCHANGED suModels /\ suModels \subseteq SuCatalog /\ \A m \in suModels : Serves(m, suSaved)
    BY <1>3 DEF ChooseAnswered, WizardInv, WizardTyped, WizardServes
  <2> QED
    BY <1>1, <1>3, <2>1, <2>2 DEF ChooseAnswered
<1> QED
  BY <1>2, <1>3

\* The ready step is reached with a model that a configured provider serves, and
\* what the wizard waits for is under way, whatever is gone back to, answered late
\* or lost; for any catalogue and any number of requests (SetupWizard.tsx).
THEOREM WizardAlwaysReal == WizardSpec => [](ReadyCanServe /\ WaitIsReal)
<1>1. WizardInit => WizardInv
  <2> SUFFICES ASSUME WizardInit PROVE WizardInv
    OBVIOUS
  <2>1. suCalls \in Seq(WizardCalls) /\ Len(suCalls) = 0
    BY DEF WizardInit
  <2>2. suStep \in 1..(LastStep + 1)
    BY DEF WizardInit, LastStep
  <2>3. WizardTyped
    BY <2>1, <2>2 DEF WizardInit, WizardTyped
  <2>4. WizardServes /\ CallsServe
    BY <2>1, NoModelIsNone DEF WizardInit, WizardServes, CallsServe, LastStep
  <2>5. WaitsAtItsStep /\ WaitIsReal
    BY DEF WizardInit, WaitsAtItsStep, WaitIsReal
  <2> QED
    BY <2>3, <2>4, <2>5 DEF WizardInv
<1>2. WizardInv /\ [WizardNext]_wizardVars => WizardInv'
  <2> SUFFICES ASSUME WizardInv, [WizardNext]_wizardVars PROVE WizardInv'
    OBVIOUS
  <2>1. CASE NextStep \/ PrevStep \/ CheckAgain
    BY <2>1, WalkKeeps
  <2>2. CASE Complete \/ ReloadPage \/ (\E p \in Providers : ChooseProvider(p))
    BY <2>2, FormKeeps
  <2>3. CASE \E b \in BOOLEAN : TypeKey(b) \/ SaveKey(b)
    BY <2>3, FormKeeps, AskKeeps
  <2>4. CASE \E m \in SuCatalog : SelectModel(m)
    BY <2>4, AskKeeps
  <2>5. ASSUME NEW i \in 1..Len(suCalls),
               \/ SaveAnswered(i) \/ ListAnswered(i) \/ ServerChooses(i) \/ ChooseAnswered(i)
               \/ \E how \in {"valid", "refused", "network", "lost"}, stored \in BOOLEAN : ServerSaves(i, how, stored)
               \/ \E shown \in BOOLEAN : CheckEnds(i, shown)
               \/ \E down \in SUBSET Providers : ServerLists(i, down)
        PROVE  WizardInv'
    BY <2>5, SaveAnsweredKeeps, ModelsAnsweredKeeps, WizardServerKeeps, CheckEndsKeeps
  <2>6. CASE UNCHANGED wizardVars
    <3>1. UNCHANGED <<suStep, suLoading, suDiags, suProvider, suStatus, suModels, suChosen, suCalls, suSaved>>
      BY <2>6 DEF wizardVars, suCheckVars, suFormVars, suServerVars
    <3> QED
      BY <3>1 DEF WizardInv, WizardTyped, WizardServes, CallsServe, WaitsAtItsStep, WaitIsReal
  <2> QED
    BY <2>1, <2>2, <2>3, <2>4, <2>5, <2>6 DEF WizardNext
<1>3. WizardInv => ReadyCanServe /\ WaitIsReal
  <2> SUFFICES ASSUME WizardInv, suStep >= LastStep
               PROVE  suChosen # NoModelYet /\ suChosen.p \in suSaved \cup {SuLocal}
    BY DEF ReadyCanServe, WizardInv
  <2> QED
    BY NoModelIsNone DEF WizardInv, WizardServes, Serves
<1> QED
  BY <1>1, <1>2, <1>3, PTL DEF WizardSpec

-----------------------------------------------------------------------------
(* The models page *)

FlowsAt == ButtonFlows \cup {"poll", "refresh", "recommend", "connected", "instances", "shapes", "quota"}
FlowRecords ==
  [at : FlowsAt, key : ButtonFlows \cup {NoButton}, how : {"none", "ok", "refused", "failed"}, news : Nat,
   got : BOOLEAN, page : BOOLEAN, crossed : SUBSET {"any", "read", "unlocked"}]
PageTyped ==
  /\ mpNews \in Nat /\ mpAccount \in BOOLEAN /\ mpOpen \in BOOLEAN /\ mpUpset \in BOOLEAN
  /\ mpShown \in Int /\ mpShown <= mpNews
  /\ mpFlows \in Seq(FlowRecords)

\* What holds of a flow in what the page shows and keeps.
HasKey(f) == f.page /\ f.key # NoButton
ReadsHere(f) == f.page /\ f.at \in Reading
CloudIsRight == mpCloud = AsStatus(mpAccount)
FlowFits(f) ==
  /\ f.news <= mpNews /\ (f.how = "refused" => f.at \in {"change", "deploy"})
  /\ ~mpOpen => ~f.page
  /\ mpOpen /\ ~f.page => "any" \in f.crossed
  /\ ReadsHere(f) /\ f.how = "ok" /\ "read" \notin f.crossed => f.news >= mpShown
  /\ HasKey(f) /\ "unlocked" \notin f.crossed => mpBusy = f.key
  /\ f.page /\ f.at = "refresh" /\ f.how = "ok" /\ "any" \notin f.crossed => f.got = mpAccount
  /\ ~mpUpset /\ mpOpen =>
       /\ f.page
       /\ f.at \in {"poll", "recommend", "discover", "instances"} => CloudIsRight
       /\ f.at \in {"refresh", "connected"} /\ f.how = "ok" => f.got = mpAccount

\* Two flows that were under way together know of each other.
Met(f, g) ==
  /\ f.page \/ g.page => "any" \in f.crossed
  /\ ReadsHere(f) /\ ReadsHere(g) => "read" \in f.crossed
  /\ HasKey(f) /\ HasKey(g) => "unlocked" \in f.crossed
AllMet(q) == \A i, j \in 1..Len(q) : i # j => Met(q[i], q[j])

PageInv ==
  /\ PageTyped /\ AllMet(mpFlows)
  /\ \A i \in 1..Len(mpFlows) : FlowFits(mpFlows[i])
  /\ mpBusy # NoButton => \E i \in 1..Len(mpFlows) : mpFlows[i].page /\ mpFlows[i].key = mpBusy
  /\ ~mpUpset /\ mpOpen => Len(mpFlows) <= 1 /\ (mpFlows = <<>> => CloudIsRight)

\* A flow that met another one is the same but for that.
Grown(f, g) ==
  /\ g.at = f.at /\ g.key = f.key /\ g.how = f.how /\ g.news = f.news /\ g.got = f.got /\ g.page = f.page
  /\ f.crossed \subseteq g.crossed

\* A flow that starts meets all the others, and they meet it.
LEMMA FlowJoins ==
  ASSUME NEW q \in Seq(FlowRecords), NEW x \in FlowRecords, AllMet(q),
         \A i \in 1..Len(q) : HasKey(q[i]) /\ HasKey(x) => "unlocked" \in Meets(q[i], x)
  PROVE  LET r == Started(q, x) IN
           /\ r \in Seq(FlowRecords) /\ Len(r) = Len(q) + 1 /\ AllMet(r)
           /\ \A i \in 1..Len(q) : i \in 1..Len(r) /\ Grown(q[i], r[i])
           /\ Len(r) \in 1..Len(r) /\ Grown(x, r[Len(r)])
           /\ \A i \in 1..Len(r) : i \in 1..Len(q) \/ i = Len(r)
           /\ \A i \in 1..Len(q) : "any" \in r[i].crossed /\ "any" \in r[Len(r)].crossed
<1>1. PICK r : r = Started(q, x)
  OBVIOUS
<1> DEFINE met == [i \in DOMAIN q |-> [q[i] EXCEPT !.crossed = @ \cup Meets(q[i], x)]]
           y == [x EXCEPT !.crossed = @ \cup UNION {Meets(q[i], x) : i \in DOMAIN q}]
<1>2. DOMAIN q = 1..Len(q) /\ Len(q) \in Nat /\ \A i \in 1..Len(q) : q[i] \in FlowRecords
  OBVIOUS
<1>3. ASSUME NEW f \in FlowRecords PROVE Meets(f, x) \subseteq {"any", "read", "unlocked"}
  BY DEF Meets
<1>4. ASSUME NEW f \in FlowRecords, NEW C \in SUBSET {"any", "read", "unlocked"}
      PROVE  LET g == [f EXCEPT !.crossed = @ \cup C] IN
               g \in FlowRecords /\ Grown(f, g) /\ C \subseteq g.crossed
  <2>1. [f EXCEPT !.crossed = @ \cup C] \in FlowRecords
    BY DEF FlowRecords
  <2>2. PICK g : g = [f EXCEPT !.crossed = @ \cup C]
    OBVIOUS
  <2>3. /\ g.at = f.at /\ g.key = f.key /\ g.how = f.how /\ g.news = f.news /\ g.got = f.got /\ g.page = f.page
        /\ g.crossed = f.crossed \cup C
    BY <2>2 DEF FlowRecords
  <2> QED
    BY <2>1, <2>2, <2>3 DEF Grown
<1>5. \A i \in 1..Len(q) : met[i] \in FlowRecords /\ Grown(q[i], met[i]) /\ Meets(q[i], x) \subseteq met[i].crossed
  BY <1>2, <1>3, <1>4
<1>6. y \in FlowRecords /\ Grown(x, y) /\ \A i \in 1..Len(q) : Meets(q[i], x) \subseteq y.crossed
  <2>1. PICK C : C = UNION {Meets(q[i], x) : i \in DOMAIN q}
    OBVIOUS
  <2>2. C \in SUBSET {"any", "read", "unlocked"} /\ \A i \in 1..Len(q) : Meets(q[i], x) \subseteq C
    BY <1>2, <1>3, <2>1
  <2>3. y = [x EXCEPT !.crossed = @ \cup C]
    BY <2>1
  <2> QED
    BY <1>4, <2>2, <2>3
<1>7. met \in Seq(FlowRecords) /\ Len(met) = Len(q)
  <2>1. DOMAIN met = 1..Len(q) /\ met = [i \in 1..Len(q) |-> met[i]]
    BY <1>2
  <2> HIDE DEF met
  <2>2. met \in [1..Len(q) -> FlowRecords]
    BY <1>5, <2>1
  <2> QED
    BY <1>2, <2>2
<1>8. r = Append(met, y)
  BY <1>1 DEF Started
<1> HIDE DEF met, y
<1>9. /\ r \in Seq(FlowRecords) /\ Len(r) = Len(q) + 1
      /\ \A j \in 1..Len(q) : j \in 1..Len(r) /\ r[j] = met[j]
      /\ Len(r) \in 1..Len(r) /\ r[Len(r)] = y
      /\ \A j \in 1..Len(r) : j \in 1..Len(q) \/ j = Len(r)
  BY <1>6, <1>7, <1>8, OneJoins
<1>10. \A i \in 1..Len(q) : Grown(q[i], r[i]) /\ Meets(q[i], x) \subseteq r[i].crossed /\ Meets(q[i], x) \subseteq y.crossed
  BY <1>5, <1>6, <1>9
<1>11. \A i \in 1..Len(q) : "any" \in r[i].crossed /\ "any" \in r[Len(r)].crossed
  BY <1>9, <1>10 DEF Meets
<1>12. ASSUME NEW i \in 1..Len(r), NEW j \in 1..Len(r), i # j PROVE Met(r[i], r[j])
  <2>1. CASE i \in 1..Len(q) /\ j \in 1..Len(q)
    <3>1. Met(q[i], q[j]) /\ Grown(q[i], r[i]) /\ Grown(q[j], r[j])
      BY <1>10, <1>12, <2>1 DEF AllMet
    <3> QED
      BY <3>1 DEF Met, Grown, ReadsHere, HasKey
  <2>2. ASSUME NEW k \in 1..Len(q)
        PROVE  Met(r[k], y) /\ Met(y, r[k])
    <3>1. /\ Grown(q[k], r[k]) /\ Grown(x, y)
          /\ Meets(q[k], x) \subseteq r[k].crossed /\ Meets(q[k], x) \subseteq y.crossed
      BY <1>6, <1>10, <2>2
    <3>2. "any" \in Meets(q[k], x)
      BY DEF Meets
    <3>3. ReadsHere(q[k]) /\ ReadsHere(x) => "read" \in Meets(q[k], x)
      BY DEF Meets, ReadsHere
    <3>4. HasKey(q[k]) /\ HasKey(x) => "unlocked" \in Meets(q[k], x)
      OBVIOUS
    <3>5. /\ ReadsHere(r[k]) <=> ReadsHere(q[k])
          /\ ReadsHere(y) <=> ReadsHere(x)
          /\ HasKey(r[k]) <=> HasKey(q[k])
          /\ HasKey(y) <=> HasKey(x)
      BY <3>1 DEF Grown, ReadsHere, HasKey
    <3> QED
      BY <3>1, <3>2, <3>3, <3>4, <3>5 DEF Met
  <2>3. CASE i \in 1..Len(q) /\ j = Len(r)
    BY <1>9, <2>2, <2>3
  <2>4. CASE i = Len(r) /\ j \in 1..Len(q)
    BY <1>9, <2>2, <2>4
  <2> QED
    BY <1>9, <1>12, <2>1, <2>3, <2>4
<1>13. AllMet(r)
  BY <1>12 DEF AllMet
<1> QED
  BY <1>1, <1>6, <1>9, <1>10, <1>11, <1>13

\* What fits goes on fitting when it meets more flows.
LEMMA GrownFits ==
  ASSUME NEW f \in FlowRecords, NEW g \in FlowRecords, Grown(f, g), FlowFits(f)'
  PROVE  FlowFits(g)'
  BY DEF Grown, FlowFits, ReadsHere, HasKey

\* A flow that ends leaves the others as they are.
LEMMA FlowGone ==
  ASSUME NEW q \in Seq(FlowRecords), AllMet(q), NEW i \in 1..Len(q)
  PROVE  LET r == RemoveAt(q, i) IN
           /\ r \in Seq(FlowRecords) /\ AllMet(r) /\ Len(r) = Len(q) - 1 /\ Len(q) \in Nat
           /\ \A j \in 1..Len(r) : \E k \in 1..Len(q) : k # i /\ r[j] = q[k]
           /\ \A k \in 1..Len(q) : k # i => \E j \in 1..Len(r) : r[j] = q[k]
<1>1. PICK r : r = RemoveAt(q, i)
  OBVIOUS
<1>2. /\ r \in Seq(FlowRecords) /\ Len(r) = Len(q) - 1 /\ Len(q) - 1 \in Nat /\ Len(q) \in Nat
      /\ \A j \in 1..(i - 1) : j \in 1..Len(r) /\ r[j] = q[j]
      /\ \A j \in i..(Len(q) - 1) : j \in 1..Len(r) /\ r[j] = q[j + 1]
  BY <1>1, OneGone
<1>3. /\ \A j \in 1..Len(r) : \E k \in 1..Len(q) : k # i /\ r[j] = q[k]
      /\ \A k \in 1..Len(q) : k # i => \E j \in 1..Len(r) : r[j] = q[k]
  BY <1>1, OthersStay
<1>4. ASSUME NEW j \in 1..Len(r), NEW k \in 1..Len(r), j # k PROVE Met(r[j], r[k])
  <2> DEFINE at(n) == IF n < i THEN n ELSE n + 1
  <2>1. ASSUME NEW n \in 1..Len(r) PROVE r[n] = q[at(n)] /\ at(n) \in 1..Len(q)
    BY <1>2
  <2>2. at(j) # at(k)
    BY <1>2, <1>4
  <2> HIDE DEF at
  <2>3. Met(q[at(j)], q[at(k)])
    BY <2>1, <2>2 DEF AllMet
  <2> QED
    BY <2>1, <2>3
<1> QED
  BY <1>1, <1>2, <1>3, <1>4 DEF AllMet

\* Flows that fit, in the next state.
LEMMA FlowsFit ==
  ASSUME \A i \in 1..Len(mpFlows') : \A g : g = mpFlows'[i] => FlowFits(g)'
  PROVE  (\A i \in 1..Len(mpFlows) : FlowFits(mpFlows[i]))'
  BY DEF FlowFits

\* What a button, a poll or the opening of the page starts.
LEMMA FlowStartKeeps ==
  ASSUME PageInv, NEW at \in FlowsAt, NEW key \in ButtonFlows \cup {NoButton}, Starts(at, key),
         UNCHANGED mpServerVars, mpOpen' = TRUE,
         IF mpOpen THEN UNCHANGED <<mpShown, mpCloud>> ELSE mpShown' = NotRead /\ at = "refresh" /\ key = NoButton,
         IF key = NoButton THEN mpBusy' = IF mpOpen THEN mpBusy ELSE NoButton
         ELSE mpBusy' = key /\ (key # "logs" => mpBusy = NoButton)
  PROVE  PageInv'
<1> DEFINE q == mpFlows
<1>0. /\ q \in Seq(FlowRecords) /\ Len(q) \in Nat /\ AllMet(q)
      /\ \A i \in 1..Len(q) : q[i] \in FlowRecords /\ FlowFits(q[i])
      /\ UNCHANGED <<mpNews, mpAccount>>
  BY DEF PageInv, PageTyped, mpServerVars
<1>1. PICK x : x = FlowOf(at, key)
  OBVIOUS
<1>2. /\ x \in FlowRecords
      /\ x.at = at /\ x.key = key /\ x.how = "none" /\ x.news = 0 /\ x.page = TRUE
  BY <1>1 DEF FlowOf, FlowRecords
<1>3. ASSUME NEW i \in 1..Len(q), HasKey(q[i]), HasKey(x) PROVE "unlocked" \in Meets(q[i], x)
  <2>1. key # NoButton
    BY <1>2, <1>3 DEF HasKey
  <2>2. key = "logs" \/ "unlocked" \in q[i].crossed
    BY <1>0, <1>3, <2>1 DEF FlowFits, HasKey
  <2> QED
    BY <1>2, <1>3, <2>1, <2>2 DEF Meets, HasKey
<1>4. mpFlows' = Started(q, x) /\ mpUpset' = (mpUpset \/ q # <<>>)
  BY <1>1 DEF Starts
<1>5. /\ mpFlows' \in Seq(FlowRecords) /\ Len(mpFlows') = Len(q) + 1 /\ AllMet(mpFlows')
      /\ \A i \in 1..Len(q) : i \in 1..Len(mpFlows') /\ Grown(q[i], mpFlows'[i])
      /\ Len(mpFlows') \in 1..Len(mpFlows') /\ Grown(x, mpFlows'[Len(mpFlows')])
      /\ \A i \in 1..Len(mpFlows') : i \in 1..Len(q) \/ i = Len(mpFlows')
      /\ \A i \in 1..Len(q) : "any" \in mpFlows'[i].crossed /\ "any" \in mpFlows'[Len(mpFlows')].crossed
  <2>1. \A i \in 1..Len(q) : HasKey(q[i]) /\ HasKey(x) => "unlocked" \in Meets(q[i], x)
    BY <1>3
  <2>2. q \in Seq(FlowRecords) /\ AllMet(q)
    BY <1>0
  <2> HIDE DEF q
  <2> QED
    BY <1>2, <1>4, <2>1, <2>2, FlowJoins
<1>6. PICK n : n = Len(mpFlows')
  OBVIOUS
<1>7. PageTyped'
  <2>1. mpShown' \in Int /\ mpShown' <= mpNews'
    BY <1>0 DEF PageInv, PageTyped, NotRead
  <2>2. mpUpset' \in BOOLEAN
    BY <1>4 DEF PageInv, PageTyped
  <2>3. mpNews' \in Nat /\ mpAccount' \in BOOLEAN
    BY <1>0 DEF PageInv, PageTyped
  <2> QED
    BY <1>5, <2>1, <2>2, <2>3 DEF PageTyped
<1>8. ~mpUpset' => q = <<>> /\ ~mpUpset
  BY <1>4 DEF PageInv, PageTyped
<1>9. ASSUME NEW i \in 1..Len(q) PROVE \A g : g = mpFlows'[i] => FlowFits(g)'
  <2>1. PICK g : g = mpFlows'[i]
    OBVIOUS
  <2>2. FlowFits(q[i]) /\ Grown(q[i], g) /\ "any" \in g.crossed /\ q[i] \in FlowRecords
    BY <1>0, <1>5, <2>1
  <2>3. mpUpset'
    BY <1>0, <1>8
  <2>4. HasKey(g) /\ key # NoButton => "unlocked" \in g.crossed
    <3>1. Met(g, mpFlows'[n])
      BY <1>0, <1>5, <1>6, <2>1 DEF AllMet
    <3>2. key # NoButton => HasKey(mpFlows'[n])
      BY <1>2, <1>5, <1>6 DEF Grown, HasKey
    <3> QED
      BY <3>1, <3>2 DEF Met
  <2>5. g.page => mpOpen
    BY <2>2 DEF FlowFits, Grown
  <2>6. HasKey(g) /\ "unlocked" \notin g.crossed => mpBusy' = g.key
    BY <2>2, <2>4, <2>5 DEF FlowFits, Grown, HasKey
  <2>7. ReadsHere(g) /\ g.how = "ok" /\ "read" \notin g.crossed => g.news >= mpShown'
    BY <2>2, <2>5 DEF FlowFits, Grown, ReadsHere
  <2>8. FlowFits(g)'
    BY <1>0, <2>2, <2>3, <2>6, <2>7 DEF FlowFits, Grown, ReadsHere, HasKey
  <2> QED
    BY <2>1, <2>8
<1>10. \A g : g = mpFlows'[n] => FlowFits(g)'
  <2>1. FlowFits(x)'
    <3>1. x.at \in {"poll", "recommend", "discover", "instances"} /\ ~mpUpset' => CloudIsRight'
      <4>1. x.at \in {"poll", "recommend", "discover", "instances"} => mpOpen
        BY <1>2
      <4> QED
        BY <1>0, <1>8, <4>1 DEF PageInv, CloudIsRight
    <3>2. HasKey(x) => mpBusy' = x.key
      BY <1>2 DEF HasKey
    <3>3. x.news <= mpNews'
      BY <1>0, <1>2 DEF PageInv, PageTyped
    <3> QED
      BY <1>2, <3>1, <3>2, <3>3 DEF FlowFits, ReadsHere, HasKey
  <2>2. PICK g : g = mpFlows'[n]
    OBVIOUS
  <2>3. g \in FlowRecords /\ Grown(x, g)
    BY <1>5, <1>6, <2>2
  <2>4. FlowFits(g)'
    BY <1>2, <2>1, <2>3, GrownFits
  <2> QED
    BY <2>2, <2>4
<1>11. (\A i \in 1..Len(mpFlows) : FlowFits(mpFlows[i]))'
  <2>1. \A i \in 1..Len(mpFlows') : \A g : g = mpFlows'[i] => FlowFits(g)'
    BY <1>5, <1>6, <1>9, <1>10
  <2> QED
    BY <2>1, FlowsFit
<1>12. mpBusy' # NoButton => \E i \in 1..Len(mpFlows') : mpFlows'[i].page /\ mpFlows'[i].key = mpBusy'
  <2>1. CASE key # NoButton
    <3>1. mpFlows'[n].page /\ mpFlows'[n].key = mpBusy'
      BY <1>2, <1>5, <1>6, <2>1 DEF Grown
    <3> QED
      BY <1>5, <1>6, <3>1
  <2>2. CASE key = NoButton /\ mpBusy' # NoButton
    <3>1. mpBusy' = mpBusy /\ mpBusy # NoButton
      BY <2>2
    <3>2. PICK i \in 1..Len(q) : q[i].page /\ q[i].key = mpBusy
      BY <3>1 DEF PageInv
    <3>3. i \in 1..Len(mpFlows') /\ mpFlows'[i].page /\ mpFlows'[i].key = mpBusy'
      BY <1>5, <3>1, <3>2 DEF Grown
    <3> QED
      BY <3>3
  <2> QED
    BY <2>1, <2>2
<1>13. ~mpUpset' => Len(mpFlows') <= 1 /\ mpFlows' # <<>>
  <2>1. ~mpUpset' => Len(q) = 0
    BY <1>8
  <2>2. Len(mpFlows') # 0
    BY <1>0, <1>5
  <2> QED
    BY <1>0, <1>5, <2>1, <2>2
<1> QED
  BY <1>5, <1>7, <1>11, <1>12, <1>13 DEF PageInv

\* The page is opened, polled or left, and its buttons.
LEMMA PageKeeps ==
  ASSUME PageInv, OpenModels \/ PollModels \/ RefreshButton \/ (\E flow \in ButtonFlows : PressButton(flow))
  PROVE  PageInv'
<1>0. mpOpen \in BOOLEAN /\ NoButton \notin ButtonFlows
  BY DEF PageInv, PageTyped, NoButton, ButtonFlows, LockedFlows
<1> USE DEF mpViewVars
<1>1. CASE OpenModels
  <2>1. /\ "refresh" \in FlowsAt /\ NoButton \in ButtonFlows \cup {NoButton} /\ Starts("refresh", NoButton)
        /\ UNCHANGED mpServerVars /\ mpOpen' = TRUE /\ ~mpOpen
        /\ mpShown' = NotRead /\ mpBusy' = NoButton
    BY <1>1 DEF OpenModels, BlankPage, FlowsAt
  <2> QED
    BY <2>1, FlowStartKeeps
<1>2. CASE PollModels \/ RefreshButton
  <2>1. PICK at \in {"poll", "refresh"} :
          /\ Starts(at, NoButton) /\ UNCHANGED mpServerVars /\ mpOpen' = mpOpen /\ mpOpen
          /\ UNCHANGED <<mpShown, mpCloud, mpBusy>>
    BY <1>2 DEF PollModels, RefreshButton
  <2>2. at \in FlowsAt /\ NoButton \in ButtonFlows \cup {NoButton}
    BY DEF FlowsAt
  <2>3. mpOpen' = TRUE
    BY <1>0, <2>1
  <2> QED
    BY <2>1, <2>2, <2>3, FlowStartKeeps
<1>3. ASSUME NEW flow \in ButtonFlows, PressButton(flow) PROVE PageInv'
  <2>1. /\ mpOpen /\ mpBusy' = flow /\ Starts(flow, flow)
        /\ UNCHANGED <<mpServerVars, mpOpen, mpShown, mpCloud>>
        /\ flow # "logs" => mpBusy = NoButton
    BY <1>3 DEF PressButton, ButtonOffered
  <2>2. flow \in FlowsAt /\ flow \in ButtonFlows \cup {NoButton} /\ flow # NoButton
    BY <1>0 DEF FlowsAt
  <2>3. mpOpen' = TRUE
    BY <1>0, <2>1
  <2> QED
    BY <2>1, <2>2, <2>3, FlowStartKeeps
<1> QED
  BY <1>1, <1>2, <1>3

LEMMA LeaveModelsKeeps ==
  ASSUME PageInv, LeaveModels
  PROVE  PageInv'
<1>0. /\ mpFlows \in Seq(FlowRecords) /\ Len(mpFlows) \in Nat /\ DOMAIN mpFlows = 1..Len(mpFlows)
      /\ \A i \in 1..Len(mpFlows) : mpFlows[i] \in FlowRecords /\ FlowFits(mpFlows[i])
  BY DEF PageInv, PageTyped
<1>1. /\ mpOpen /\ mpOpen' = FALSE /\ mpShown' = NotRead /\ mpBusy' = NoButton
      /\ mpFlows' = [i \in DOMAIN mpFlows |-> [mpFlows[i] EXCEPT !.page = FALSE]]
      /\ mpUpset' = (mpUpset \/ mpFlows # <<>>) /\ UNCHANGED <<mpNews, mpAccount>>
  BY DEF LeaveModels, BlankPage, mpServerVars
<1>2. ASSUME NEW i \in 1..Len(mpFlows)
      PROVE  \E g \in FlowRecords : mpFlows'[i] = g /\ ~g.page /\ FlowFits(g)'
  <2>1. PICK f \in FlowRecords : f = mpFlows[i]
    BY <1>0
  <2>2. PICK g : g = [f EXCEPT !.page = FALSE]
    OBVIOUS
  <2>3. g \in FlowRecords
    BY <2>2 DEF FlowRecords
  <2>4. ~g.page /\ g.news = f.news /\ g.how = f.how /\ g.at = f.at
    BY <2>2 DEF FlowRecords
  <2>5. FlowFits(f)
    BY <1>0, <2>1
  <2>6. FlowFits(g)'
    BY <1>1, <2>4, <2>5 DEF FlowFits, ReadsHere, HasKey
  <2>7. mpFlows'[i] = g
    BY <1>0, <1>1, <2>1, <2>2
  <2> QED
    BY <2>3, <2>4, <2>6, <2>7
<1>3. mpFlows' \in Seq(FlowRecords) /\ Len(mpFlows') = Len(mpFlows)
  <2>1. DOMAIN mpFlows' = 1..Len(mpFlows) /\ mpFlows' = [i \in 1..Len(mpFlows) |-> mpFlows'[i]]
    BY <1>0, <1>1
  <2>2. mpFlows' \in [1..Len(mpFlows) -> FlowRecords]
    BY <1>2, <2>1
  <2> QED
    BY <1>0, <2>2
<1>4. (\A i \in 1..Len(mpFlows) : FlowFits(mpFlows[i]))'
  BY <1>2, <1>3, FlowsFit
<1>5. AllMet(mpFlows')
  <2>1. \A i \in 1..Len(mpFlows') : ~mpFlows'[i].page
    BY <1>2, <1>3
  <2> QED
    BY <2>1 DEF AllMet, Met, ReadsHere, HasKey
<1>6. PageTyped'
  <2>1. mpShown' \in Int /\ mpShown' <= mpNews' /\ mpNews' \in Nat
    BY <1>1 DEF PageInv, PageTyped, NotRead
  <2>2. mpUpset' \in BOOLEAN /\ mpOpen' \in BOOLEAN /\ mpAccount' \in BOOLEAN
    BY <1>1 DEF PageInv, PageTyped
  <2> QED
    BY <1>3, <2>1, <2>2 DEF PageTyped
<1> QED
  BY <1>1, <1>4, <1>5, <1>6 DEF PageInv

LEMMA PageStays ==
  ASSUME PageInv,
         ServerMoves \/ TypeAccount \/ UNCHANGED modelsVars
  PROVE  PageInv'
<1>1. /\ mpNews' \in {mpNews, mpNews + 1}
      /\ UNCHANGED <<mpAccount, mpOpen, mpShown, mpCloud, mpBusy, mpFlows, mpUpset>>
  BY DEF ServerMoves, TypeAccount, modelsVars, mpServerVars, mpViewVars
<1>2. PageTyped'
  BY <1>1 DEF PageInv, PageTyped
<1>3. ASSUME NEW f \in FlowRecords, FlowFits(f) PROVE FlowFits(f)'
  <2>1. f.news <= mpNews'
    BY <1>1, <1>3 DEF FlowFits, FlowRecords, PageInv, PageTyped
  <2> QED
    BY <1>1, <1>3, <2>1 DEF FlowFits, CloudIsRight
<1>4. (\A i \in 1..Len(mpFlows) : FlowFits(mpFlows[i]))'
  <2>1. \A i \in 1..Len(mpFlows) : mpFlows[i] \in FlowRecords /\ FlowFits(mpFlows[i])
    BY DEF PageInv, PageTyped
  <2>2. \A i \in 1..Len(mpFlows') : \A g : g = mpFlows'[i] => FlowFits(g)'
    BY <1>1, <1>3, <2>1
  <2> QED
    BY <2>2, FlowsFit
<1> QED
  BY <1>1, <1>2, <1>4 DEF PageInv, CloudIsRight

\* The server answers one request.
LEMMA ModelsServesKeeps ==
  ASSUME PageInv, NEW i \in 1..Len(mpFlows), NEW how \in {"ok", "refused", "failed"}, NEW done \in BOOLEAN,
         ModelsServes(i, how, done)
  PROVE  PageInv'
<1>0. /\ mpFlows \in Seq(FlowRecords) /\ Len(mpFlows) \in Nat /\ AllMet(mpFlows) /\ mpNews \in Nat /\ mpAccount \in BOOLEAN
      /\ mpShown \in Int /\ mpShown <= mpNews
      /\ \A j \in 1..Len(mpFlows) : mpFlows[j] \in FlowRecords /\ FlowFits(mpFlows[j])
  BY DEF PageInv, PageTyped
<1>1. PICK f \in FlowRecords : f = mpFlows[i]
  BY <1>0
<1>2. /\ f.how = "none" /\ (how = "refused" => f.at \in {"change", "deploy"})
      /\ mpAccount' = IF ~done THEN mpAccount ELSE (mpAccount \/ f.at = "connect") /\ f.at # "disconnect"
      /\ mpNews' = IF done /\ f.at \in {"change", "deploy"} /\ mpNews < MaxMpNews THEN mpNews + 1 ELSE mpNews
      /\ UNCHANGED <<mpOpen, mpShown, mpCloud, mpBusy, mpUpset>>
  BY <1>1 DEF ModelsServes, mpViewVars
<1>3. PICK d : d = [f EXCEPT !.how = how, !.news = IF f.at \in Reading THEN mpNews ELSE 0,
                             !.got = f.at \in {"refresh", "connected"} /\ mpAccount]
  OBVIOUS
<1>4. d \in FlowRecords
  <2>1. (f.at \in {"refresh", "connected"} /\ mpAccount) \in BOOLEAN
    BY <1>0
  <2>2. (IF f.at \in Reading THEN mpNews ELSE 0) \in Nat
    BY <1>0
  <2> QED
    BY <1>3, <2>1, <2>2 DEF FlowRecords
<1>5. /\ d.at = f.at /\ d.key = f.key /\ d.how = how /\ d.page = f.page /\ d.crossed = f.crossed
      /\ d.news = (IF f.at \in Reading THEN mpNews ELSE 0)
      /\ d.got = (f.at \in {"refresh", "connected"} /\ mpAccount)
  BY <1>3 DEF FlowRecords
<1>6. mpFlows' = [mpFlows EXCEPT ![i] = d]
  BY <1>0, <1>1, <1>3 DEF ModelsServes
<1>7. /\ mpFlows' \in Seq(FlowRecords) /\ Len(mpFlows') = Len(mpFlows) /\ mpFlows'[i] = d
      /\ \A j \in 1..Len(mpFlows) : j # i => mpFlows'[j] = mpFlows[j]
  BY <1>0, <1>4, <1>6
<1>8. mpNews' \in Nat /\ mpNews <= mpNews' /\ mpAccount' \in BOOLEAN
  <2>1. mpNews' \in Nat /\ mpNews <= mpNews'
    BY <1>0, <1>2
  <2>2. mpAccount' \in BOOLEAN
    BY Zenon, <1>0, <1>2
  <2> QED
    BY <2>1, <2>2
<1>9. PageTyped'
  <2>1. mpShown' \in Int /\ mpShown' <= mpNews'
    BY <1>0, <1>2, <1>8
  <2> QED
    BY <1>2, <1>7, <1>8, <2>1 DEF PageInv, PageTyped
<1>10. AllMet(mpFlows')
  <2>1. ASSUME NEW j \in 1..Len(mpFlows)
        PROVE  /\ mpFlows'[j].page = mpFlows[j].page /\ mpFlows'[j].key = mpFlows[j].key
               /\ mpFlows'[j].at = mpFlows[j].at /\ mpFlows'[j].crossed = mpFlows[j].crossed
    BY <1>1, <1>5, <1>7
  <2> QED
    BY <1>0, <1>7, <2>1 DEF AllMet, Met, ReadsHere, HasKey
<1>11. FlowFits(d)'
  <2>1. FlowFits(f)
    BY <1>0, <1>1
  <2>2. d.news <= mpNews'
    BY <1>0, <1>5, <1>8
  <2>3. ReadsHere(d) => d.news >= mpShown'
    BY <1>0, <1>2, <1>5 DEF ReadsHere
  <2>4. f.at \in {"poll", "recommend", "discover", "instances", "refresh", "connected"} => mpAccount' = mpAccount
    BY <1>0, <1>2
  <2>5. d.at \in {"refresh", "connected"} => d.got = mpAccount'
    BY <1>0, <1>5, <2>4
  <2>6. ~mpUpset' /\ mpOpen' /\ d.at \in {"poll", "recommend", "discover", "instances"} => CloudIsRight'
    BY <1>2, <1>5, <2>1, <2>4 DEF FlowFits, CloudIsRight
  <2> QED
    BY <1>2, <1>5, <2>1, <2>2, <2>3, <2>5, <2>6 DEF FlowFits, HasKey
<1>12. ASSUME NEW j \in 1..Len(mpFlows), j # i, NEW g, g = mpFlows[j] PROVE FlowFits(g)'
  <2>1. FlowFits(g) /\ g \in FlowRecords
    BY <1>0, <1>12
  <2>2. ~mpUpset' => ~mpOpen'
    BY <1>0, <1>2, <1>12 DEF PageInv
  <2>3. g.news <= mpNews'
    BY <1>0, <1>8, <2>1 DEF FlowFits, FlowRecords
  <2>4. g.page => "any" \in g.crossed
    BY <1>0, <1>12 DEF AllMet, Met
  <2> QED
    BY <1>2, <2>1, <2>2, <2>3, <2>4 DEF FlowFits
<1>13. (\A j \in 1..Len(mpFlows) : FlowFits(mpFlows[j]))'
  <2>1. \A j \in 1..Len(mpFlows') : \A g : g = mpFlows'[j] => FlowFits(g)'
    BY <1>7, <1>11, <1>12
  <2> QED
    BY <2>1, FlowsFit
<1>14. mpBusy' # NoButton => \E j \in 1..Len(mpFlows') : mpFlows'[j].page /\ mpFlows'[j].key = mpBusy'
  <2> SUFFICES ASSUME mpBusy' # NoButton PROVE \E j \in 1..Len(mpFlows') : mpFlows'[j].page /\ mpFlows'[j].key = mpBusy'
    OBVIOUS
  <2>1. PICK j \in 1..Len(mpFlows) : mpFlows[j].page /\ mpFlows[j].key = mpBusy
    BY <1>2 DEF PageInv
  <2>2. mpFlows'[j].page /\ mpFlows'[j].key = mpBusy'
    BY <1>1, <1>2, <1>5, <1>7, <2>1
  <2> QED
    BY <1>7, <2>2
<1>15. ~mpUpset' /\ mpOpen' => Len(mpFlows') <= 1 /\ mpFlows' # <<>>
  BY <1>0, <1>2, <1>7 DEF PageInv
<1> QED
  BY <1>7, <1>9, <1>10, <1>13, <1>14, <1>15 DEF PageInv

\* A flow that is answered while nothing upset the page is its only one.
LEMMA AnsweredAlone ==
  ASSUME PageInv, NEW i \in 1..Len(mpFlows), NEW ats, AnsweredAt(i, ats), mpOpen, ~mpUpset'
  PROVE  /\ Len(mpFlows) = 1 /\ mpFlows[i].page
         /\ mpFlows[i].how = "ok" \/ (mpFlows[i].how = "refused" /\ mpFlows[i].at \in {"change", "deploy"})
<1>0. /\ mpFlows \in Seq(FlowRecords) /\ Len(mpFlows) \in Nat /\ AllMet(mpFlows)
      /\ mpFlows[i] \in FlowRecords /\ FlowFits(mpFlows[i])
  BY DEF PageInv, PageTyped
<1>1. mpFlows[i].how # "none" /\ mpFlows[i].how # "failed"
  BY DEF AnsweredAt
<1>2. mpFlows[i].how = "ok" \/ (mpFlows[i].how = "refused" /\ mpFlows[i].at \in {"change", "deploy"})
  BY <1>0, <1>1 DEF FlowRecords, FlowFits
<1>3. CASE ~mpUpset
  <2>1. Len(mpFlows) <= 1
    BY <1>3 DEF PageInv
  <2>2. Len(mpFlows) = 1
    <3>1. PICK n \in Nat : n = Len(mpFlows)
      BY <1>0
    <3>2. n <= 1
      BY <2>1, <3>1
    <3>3. i \in 1..n
      BY <3>1
    <3>4. n = 1
      BY <3>2, <3>3
    <3> QED
      BY <3>1, <3>4
  <2>3. mpFlows[i].page
    BY <1>0, <1>3 DEF FlowFits
  <2> QED
    BY <1>2, <2>2, <2>3
<1>4. CASE mpUpset
  <2>1. mpFlows[i].at = "refresh" /\ "any" \notin mpFlows[i].crossed
    BY <1>4 DEF AnsweredAt
  <2>2. mpFlows[i].page
    BY <1>0, <2>1 DEF FlowFits
  <2>3. \A j \in 1..Len(mpFlows) : j = i
    BY <1>0, <2>1, <2>2 DEF AllMet, Met
  <2>4. 1 \in 1..Len(mpFlows) /\ Len(mpFlows) \in 1..Len(mpFlows)
    BY <1>0
  <2>5. 1 = i /\ Len(mpFlows) = i
    BY <2>3, <2>4
  <2> QED
    BY <1>2, <2>2, <2>5
<1> QED
  BY <1>3, <1>4

\* What an answer may change of what is shown and of the lock.
ShowsNext(i) == mpShown' = mpShown \/ (ReadsHere(mpFlows[i]) /\ mpShown' = mpFlows[i].news)

LEMMA OthersFit ==
  ASSUME PageInv, NEW i \in 1..Len(mpFlows), NEW ats, AnsweredAt(i, ats), ShowsNext(i),
         mpBusy' = mpBusy \/ (HasKey(mpFlows[i]) /\ mpBusy' = NoButton),
         NEW k \in 1..Len(mpFlows), k # i, NEW f, f = mpFlows[k]
  PROVE  FlowFits(f)'
<1>0. /\ mpFlows \in Seq(FlowRecords) /\ Len(mpFlows) \in Nat
      /\ f \in FlowRecords /\ FlowFits(f) /\ Met(f, mpFlows[i])
  BY DEF PageInv, PageTyped, AllMet
<1>1. UNCHANGED <<mpNews, mpAccount, mpOpen>>
  BY DEF AnsweredAt, mpServerVars
<1>2. ~(~mpUpset' /\ mpOpen')
  BY <1>0, <1>1, AnsweredAlone
<1>3. ReadsHere(f) /\ f.how = "ok" /\ "read" \notin f.crossed => f.news >= mpShown'
  BY <1>0 DEF FlowFits, Met, ShowsNext
<1>4. HasKey(f) /\ "unlocked" \notin f.crossed => mpBusy' = f.key
  BY <1>0 DEF FlowFits, Met
<1> QED
  BY <1>0, <1>1, <1>2, <1>3, <1>4 DEF FlowFits, ReadsHere, HasKey

LEMMA PageTypesKept ==
  ASSUME PageInv, NEW i \in 1..Len(mpFlows), NEW ats, AnsweredAt(i, ats), ShowsNext(i), mpFlows' \in Seq(FlowRecords)
  PROVE  PageTyped'
<1>0. mpFlows[i] \in FlowRecords /\ FlowFits(mpFlows[i])
  BY DEF PageInv, PageTyped
<1>1. UNCHANGED <<mpNews, mpAccount, mpOpen>>
  BY DEF AnsweredAt, mpServerVars
<1>2. mpUpset' \in BOOLEAN
  <2>1. mpUpset \in BOOLEAN
    BY DEF PageInv, PageTyped
  <2> QED
    BY Zenon, <2>1 DEF AnsweredAt
<1>3. mpShown' \in Int /\ mpShown' <= mpNews'
  BY <1>0, <1>1 DEF ShowsNext, FlowFits, FlowRecords, PageInv, PageTyped
<1> QED
  BY <1>1, <1>2, <1>3 DEF PageInv, PageTyped

\* The end of a flow.
LEMMA FlowEndKeeps ==
  ASSUME PageInv, NEW i \in 1..Len(mpFlows), NEW ats, AnsweredAt(i, ats), FlowEnds(i), ShowsNext(i),
         mpOpen /\ ~mpUpset' => CloudIsRight'
  PROVE  PageInv'
<1>0. /\ mpFlows \in Seq(FlowRecords) /\ Len(mpFlows) \in Nat /\ AllMet(mpFlows)
  BY DEF PageInv, PageTyped
<1>1. mpFlows' = RemoveAt(mpFlows, i) /\ UNCHANGED mpOpen
  BY DEF FlowEnds, AnsweredAt
<1>2. mpBusy' = IF HasKey(mpFlows[i]) THEN NoButton ELSE mpBusy
  BY DEF FlowEnds, HasKey
<1>3. /\ mpFlows' \in Seq(FlowRecords) /\ AllMet(mpFlows') /\ Len(mpFlows') = Len(mpFlows) - 1
      /\ \A j \in 1..Len(mpFlows') : \E k \in 1..Len(mpFlows) : k # i /\ mpFlows'[j] = mpFlows[k]
      /\ \A k \in 1..Len(mpFlows) : k # i => \E j \in 1..Len(mpFlows') : mpFlows'[j] = mpFlows[k]
  BY <1>0, <1>1, FlowGone
<1>4. PageTyped'
  BY <1>3, PageTypesKept
<1>5. (\A j \in 1..Len(mpFlows) : FlowFits(mpFlows[j]))'
  <2>0. mpBusy' = mpBusy \/ (HasKey(mpFlows[i]) /\ mpBusy' = NoButton)
    BY <1>2
  <2>1. ASSUME NEW j \in 1..Len(mpFlows'), NEW g, g = mpFlows'[j] PROVE FlowFits(g)'
    <3>1. PICK k \in 1..Len(mpFlows) : k # i /\ g = mpFlows[k]
      BY <1>3, <2>1
    <3> QED
      BY <2>0, <3>1, OthersFit
  <2> QED
    BY <2>1, FlowsFit
<1>6. mpBusy' # NoButton => \E j \in 1..Len(mpFlows') : mpFlows'[j].page /\ mpFlows'[j].key = mpBusy'
  <2> SUFFICES ASSUME mpBusy' # NoButton PROVE \E j \in 1..Len(mpFlows') : mpFlows'[j].page /\ mpFlows'[j].key = mpBusy'
    OBVIOUS
  <2>1. mpBusy' = mpBusy /\ ~HasKey(mpFlows[i])
    BY <1>2
  <2>2. PICK k \in 1..Len(mpFlows) : mpFlows[k].page /\ mpFlows[k].key = mpBusy
    BY <2>1 DEF PageInv
  <2>3. k # i
    BY <2>1, <2>2 DEF HasKey
  <2> QED
    BY <1>3, <2>1, <2>2, <2>3
<1>7. ~mpUpset' /\ mpOpen' => Len(mpFlows') <= 1 /\ CloudIsRight'
  <2>1. ~mpUpset' /\ mpOpen' => Len(mpFlows) = 1
    BY <1>1, AnsweredAlone
  <2>2. ~mpUpset' /\ mpOpen' => CloudIsRight'
    BY <1>1
  <2> QED
    BY <1>0, <1>3, <2>1, <2>2
<1> QED
  BY <1>3, <1>4, <1>5, <1>6, <1>7 DEF PageInv

\* A flow that goes on to its next request.
LEMMA FlowOnKeeps ==
  ASSUME PageInv, NEW i \in 1..Len(mpFlows), NEW ats, AnsweredAt(i, ats), NEW at \in FlowsAt, GoneOn(i, at), ShowsNext(i),
         mpBusy' = mpBusy,
         mpOpen /\ ~mpUpset' /\ at \in {"poll", "recommend", "discover", "instances"} => CloudIsRight'
  PROVE  PageInv'
<1>0. /\ mpFlows \in Seq(FlowRecords) /\ Len(mpFlows) \in Nat /\ AllMet(mpFlows)
      /\ mpFlows[i] \in FlowRecords /\ FlowFits(mpFlows[i])
  BY DEF PageInv, PageTyped
<1>1. UNCHANGED <<mpNews, mpAccount, mpOpen>>
  BY DEF AnsweredAt, mpServerVars
<1>2. PICK f \in FlowRecords : f = mpFlows[i]
  BY <1>0
<1>3. PICK x : x = [f EXCEPT !.at = at, !.how = "none"]
  OBVIOUS
<1>4. /\ x \in FlowRecords
      /\ x.at = at /\ x.how = "none" /\ x.key = f.key /\ x.news = f.news /\ x.page = f.page /\ x.crossed = f.crossed
  BY <1>3 DEF FlowRecords
<1>5. PICK q : q = RemoveAt(mpFlows, i)
  OBVIOUS
<1>6. /\ q \in Seq(FlowRecords) /\ AllMet(q) /\ Len(q) = Len(mpFlows) - 1
      /\ \A j \in 1..Len(q) : \E k \in 1..Len(mpFlows) : k # i /\ q[j] = mpFlows[k]
      /\ \A k \in 1..Len(mpFlows) : k # i => \E j \in 1..Len(q) : q[j] = mpFlows[k]
  BY <1>0, <1>5, FlowGone
<1>7. ASSUME NEW j \in 1..Len(q), HasKey(q[j]), HasKey(x) PROVE "unlocked" \in Meets(q[j], x)
  <2>1. PICK k \in 1..Len(mpFlows) : k # i /\ q[j] = mpFlows[k]
    BY <1>6, <1>7
  <2>2. Met(mpFlows[k], mpFlows[i])
    BY <1>0, <2>1 DEF AllMet
  <2>3. HasKey(mpFlows[i]) /\ HasKey(mpFlows[k])
    BY <1>2, <1>4, <1>7, <2>1 DEF HasKey
  <2> QED
    BY <1>7, <2>1, <2>2, <2>3 DEF Met, Meets, HasKey
<1>8. mpFlows' = Started(q, x)
  BY <1>2, <1>3, <1>5 DEF GoneOn
<1>9. /\ mpFlows' \in Seq(FlowRecords) /\ Len(mpFlows') = Len(q) + 1 /\ AllMet(mpFlows')
      /\ \A j \in 1..Len(q) : j \in 1..Len(mpFlows') /\ Grown(q[j], mpFlows'[j])
      /\ Len(mpFlows') \in 1..Len(mpFlows') /\ Grown(x, mpFlows'[Len(mpFlows')])
      /\ \A j \in 1..Len(mpFlows') : j \in 1..Len(q) \/ j = Len(mpFlows')
  <2>1. \A j \in 1..Len(q) : HasKey(q[j]) /\ HasKey(x) => "unlocked" \in Meets(q[j], x)
    BY <1>7
  <2> QED
    BY <1>4, <1>6, <1>8, <2>1, FlowJoins
<1>10. PICK n : n = Len(mpFlows')
  OBVIOUS
<1>11. PageTyped'
  BY <1>9, PageTypesKept
<1>12. ASSUME NEW j \in 1..Len(q), NEW g, g = mpFlows'[j] PROVE FlowFits(g)'
  <2>1. PICK k \in 1..Len(mpFlows) : k # i /\ q[j] = mpFlows[k]
    BY <1>6, <1>12
  <2>2. q[j] \in FlowRecords
    BY <1>6, <1>12
  <2>3. PICK h \in FlowRecords : h = q[j]
    BY <2>2
  <2>4. FlowFits(h)'
    BY <2>1, <2>3, OthersFit
  <2>5. g \in FlowRecords
    BY <1>9, <1>12
  <2>6. Grown(h, g)
    BY <1>9, <1>12, <2>3
  <2> QED
    BY <2>4, <2>5, <2>6, GrownFits
<1>13. ASSUME NEW g, g = mpFlows'[n] PROVE FlowFits(g)'
  <2>1. FlowFits(f)
    BY <1>0, <1>2
  <2>2. ~mpUpset' /\ mpOpen' => x.page
    BY <1>1, <1>2, <1>4, AnsweredAlone
  <2>3. FlowFits(x)'
    BY <1>1, <1>4, <2>1, <2>2 DEF FlowFits, HasKey, ReadsHere
  <2>4. g \in FlowRecords /\ Grown(x, g)
    BY <1>9, <1>10, <1>13
  <2> QED
    BY <1>4, <2>3, <2>4, GrownFits
<1>14. (\A j \in 1..Len(mpFlows) : FlowFits(mpFlows[j]))'
  <2>1. \A j \in 1..Len(mpFlows') : \A g : g = mpFlows'[j] => FlowFits(g)'
    BY <1>9, <1>10, <1>12, <1>13
  <2> QED
    BY <2>1, FlowsFit
<1>15. mpBusy' # NoButton => \E j \in 1..Len(mpFlows') : mpFlows'[j].page /\ mpFlows'[j].key = mpBusy'
  <2> SUFFICES ASSUME mpBusy' # NoButton PROVE \E j \in 1..Len(mpFlows') : mpFlows'[j].page /\ mpFlows'[j].key = mpBusy'
    OBVIOUS
  <2>1. PICK k \in 1..Len(mpFlows) : mpFlows[k].page /\ mpFlows[k].key = mpBusy
    BY DEF PageInv
  <2>2. CASE k = i
    <3>1. mpFlows'[n].page /\ mpFlows'[n].key = mpBusy'
      BY <1>2, <1>4, <1>9, <1>10, <2>1, <2>2 DEF Grown
    <3> QED
      BY <1>9, <1>10, <3>1
  <2>3. CASE k # i
    <3>1. PICK j \in 1..Len(q) : q[j] = mpFlows[k]
      BY <1>6, <2>3
    <3>2. mpFlows'[j].page /\ mpFlows'[j].key = mpBusy' /\ j \in 1..Len(mpFlows')
      BY <1>9, <2>1, <3>1 DEF Grown
    <3> QED
      BY <3>2
  <2> QED
    BY <2>2, <2>3
<1>16. ~mpUpset' /\ mpOpen' => Len(mpFlows') <= 1 /\ mpFlows' # <<>>
  <2>1. ~mpUpset' /\ mpOpen' => Len(mpFlows) = 1
    BY <1>1, AnsweredAlone
  <2>2. Len(mpFlows') # 0
    BY <1>0, <1>6, <1>9
  <2> QED
    BY <1>6, <1>9, <2>1, <2>2
<1> QED
  BY <1>9, <1>11, <1>14, <1>15, <1>16 DEF PageInv

\* An answer that is told, read, or followed by the next request.
LEMMA AnswersKeep ==
  ASSUME PageInv, NEW i \in 1..Len(mpFlows),
         \/ ActAnswered(i) \/ RefreshAnswered(i) \/ RecommendAnswered(i) \/ PollAnswered(i)
         \/ ConnectAnswered(i) \/ ConnectedAnswered(i)
         \/ DiscoverAnswered(i) \/ InstancesAnswered(i) \/ RediscoverAnswered(i)
  PROVE  PageInv' /\ ShowsNext(i) /\ (\E ats : AnsweredAt(i, ats))
<1>0. mpFlows[i] \in FlowRecords /\ FlowFits(mpFlows[i])
  BY DEF PageInv, PageTyped
<1>1. \A ats : AnsweredAt(i, ats) => UNCHANGED <<mpAccount, mpOpen>>
  BY DEF AnsweredAt, mpServerVars
<1>2. CASE ActAnswered(i)
  <2>1. PICK ats : AnsweredAt(i, ats)
    BY <1>2 DEF ActAnswered
  <2>2. ShowsNext(i)
    BY <1>2 DEF ActAnswered, ShowsNext
  <2>3. CASE mpFlows[i].how = "failed"
    <3>1. FlowEnds(i) /\ mpUpset'
      BY <1>2, <2>3 DEF ActAnswered, AnsweredAt
    <3> QED
      BY <2>1, <2>2, <3>1, FlowEndKeeps
  <2>4. CASE mpFlows[i].how # "failed"
    <3>1. GoneOn(i, "refresh") /\ mpBusy' = mpBusy /\ "refresh" \in FlowsAt
      BY <1>2, <2>4 DEF ActAnswered, FlowsAt
    <3> QED
      BY <2>1, <2>2, <3>1, FlowOnKeeps
  <2> QED
    BY <2>3, <2>4
<1>3. CASE RefreshAnswered(i)
  <2>1. AnsweredAt(i, {"refresh"}) /\ mpFlows[i].at = "refresh"
    BY <1>3 DEF RefreshAnswered, AnsweredAt
  <2>2. ShowsNext(i)
    BY <1>3, <2>1 DEF RefreshAnswered, Sees, ShowsNext, ReadsHere, Reading
  <2>3. ASSUME mpOpen, ~mpUpset' PROVE FlowOk(i) /\ CloudIsRight'
    <3>1. mpFlows[i].page /\ mpFlows[i].how = "ok"
      BY <2>1, <2>3, AnsweredAlone
    <3>2. mpFlows[i].got = mpAccount
      <4>1. ~mpUpset \/ "any" \notin mpFlows[i].crossed
        BY <2>1, <2>3, <3>1 DEF AnsweredAt
      <4> QED
        BY <1>0, <2>1, <2>3, <3>1, <4>1 DEF FlowFits
    <3>3. mpCloud' = AsStatus(mpFlows[i].got)
      BY <1>3, <3>1 DEF RefreshAnswered, Sees, FlowOk
    <3> QED
      BY <1>1, <2>1, <3>1, <3>2, <3>3 DEF CloudIsRight, AsStatus, FlowOk
  <2>4. CASE FlowOk(i)
    <3>1. GoneOn(i, "recommend") /\ mpBusy' = mpBusy /\ "recommend" \in FlowsAt
      BY <1>3, <2>4 DEF RefreshAnswered, FlowsAt
    <3> QED
      BY <2>1, <2>2, <2>3, <3>1, FlowOnKeeps
  <2>5. CASE ~FlowOk(i)
    <3>1. FlowEnds(i)
      BY <1>3, <2>5 DEF RefreshAnswered
    <3> QED
      BY <2>1, <2>2, <2>3, <3>1, FlowEndKeeps
  <2> QED
    BY <2>4, <2>5
\* A flow that showed nothing of the account.
<1>4. ASSUME NEW ats, AnsweredAt(i, ats), mpFlows[i].at \in {"poll", "recommend", "discover", "instances"},
             mpCloud' = mpCloud, mpOpen, ~mpUpset'
      PROVE  CloudIsRight'
  <2>1. ~mpUpset
    BY <1>4 DEF AnsweredAt
  <2>2. CloudIsRight
    BY <1>0, <1>4, <2>1 DEF FlowFits
  <2> QED
    BY <1>1, <1>4, <2>2 DEF CloudIsRight
<1>5. CASE RecommendAnswered(i) \/ PollAnswered(i) \/ InstancesAnswered(i)
  <2>1. PICK ats : AnsweredAt(i, ats) /\ mpFlows[i].at \in {"poll", "recommend", "instances"}
    BY <1>5 DEF RecommendAnswered, PollAnswered, InstancesAnswered, AnsweredAt
  <2>2. FlowEnds(i) /\ mpCloud' = mpCloud
    BY <1>5 DEF RecommendAnswered, PollAnswered, InstancesAnswered
  <2>3. ShowsNext(i)
    <3>1. CASE PollAnswered(i)
      BY <3>1 DEF PollAnswered, AnsweredAt, Sees, ShowsNext, ReadsHere, Reading
    <3>2. CASE RecommendAnswered(i) \/ InstancesAnswered(i)
      BY <3>2 DEF RecommendAnswered, InstancesAnswered, ShowsNext
    <3> QED
      BY <1>5, <3>1, <3>2
  <2>4. mpOpen /\ ~mpUpset' => CloudIsRight'
    BY <1>4, <2>1, <2>2
  <2> QED
    BY <2>1, <2>2, <2>3, <2>4, FlowEndKeeps
<1>6. CASE ConnectAnswered(i)
  <2>1. AnsweredAt(i, {"connect"}) /\ mpFlows[i].at = "connect" /\ ShowsNext(i)
    BY <1>6 DEF ConnectAnswered, AnsweredAt, ShowsNext
  <2>2. CASE FlowOk(i)
    <3>1. GoneOn(i, "connected") /\ mpBusy' = mpBusy /\ "connected" \in FlowsAt
      BY <1>6, <2>2 DEF ConnectAnswered, FlowsAt
    <3> QED
      BY <2>1, <3>1, FlowOnKeeps
  <2>3. CASE ~FlowOk(i)
    <3>1. FlowEnds(i)
      BY <1>6, <2>3 DEF ConnectAnswered
    <3>2. ~(mpOpen /\ ~mpUpset')
      BY <2>1, <2>3, AnsweredAlone DEF FlowOk
    <3> QED
      BY <2>1, <3>1, <3>2, FlowEndKeeps
  <2> QED
    BY <2>1, <2>2, <2>3
<1>7. CASE ConnectedAnswered(i)
  <2>1. AnsweredAt(i, {"connected"}) /\ mpFlows[i].at = "connected" /\ ShowsNext(i) /\ FlowEnds(i)
    BY <1>7 DEF ConnectedAnswered, AnsweredAt, ShowsNext
  <2>2. ASSUME mpOpen, ~mpUpset' PROVE CloudIsRight'
    <3>1. mpFlows[i].page /\ mpFlows[i].how = "ok"
      BY <2>1, <2>2, AnsweredAlone
    <3>2. ~mpUpset
      BY <2>1, <2>2 DEF AnsweredAt
    <3>3. mpFlows[i].got = mpAccount
      BY <1>0, <2>1, <2>2, <3>1, <3>2 DEF FlowFits
    <3>4. mpCloud' = AsStatus(mpFlows[i].got)
      BY <1>7, <3>1 DEF ConnectedAnswered, Sees, FlowOk
    <3> QED
      BY <1>1, <2>1, <3>3, <3>4 DEF CloudIsRight, AsStatus
  <2> QED
    BY <2>1, <2>2, FlowEndKeeps
<1>8. CASE DiscoverAnswered(i)
  <2>1. AnsweredAt(i, {"discover"}) /\ mpFlows[i].at = "discover" /\ ShowsNext(i) /\ mpCloud' = mpCloud
    BY <1>8 DEF DiscoverAnswered, AnsweredAt, ShowsNext
  <2>2. mpOpen /\ ~mpUpset' => CloudIsRight'
    BY <1>4, <2>1
  <2>3. CASE FlowOk(i)
    <3>1. GoneOn(i, "instances") /\ mpBusy' = mpBusy /\ "instances" \in FlowsAt
      BY <1>8, <2>3 DEF DiscoverAnswered, FlowsAt
    <3> QED
      BY <2>1, <2>2, <3>1, FlowOnKeeps
  <2>4. CASE ~FlowOk(i)
    <3>1. FlowEnds(i)
      BY <1>8, <2>4 DEF DiscoverAnswered
    <3> QED
      BY <2>1, <2>2, <3>1, FlowEndKeeps
  <2> QED
    BY <2>1, <2>3, <2>4
<1>9. CASE RediscoverAnswered(i)
  <2>1. PICK ats : AnsweredAt(i, ats) /\ mpFlows[i].at \in {"rediscover", "shapes"}
    BY <1>9 DEF RediscoverAnswered, AnsweredAt
  <2>2. ShowsNext(i)
    BY <1>9 DEF RediscoverAnswered, ShowsNext
  <2>3. CASE FlowOk(i)
    <3>1. PICK at \in {"shapes", "quota"} : GoneOn(i, at)
      BY <1>9, <2>3 DEF RediscoverAnswered
    <3>2. mpBusy' = mpBusy /\ at \in FlowsAt /\ at \notin {"poll", "recommend", "discover", "instances"}
      BY <1>9, <2>3 DEF RediscoverAnswered, FlowsAt
    <3> QED
      BY <2>1, <2>2, <3>1, <3>2, FlowOnKeeps
  <2>4. CASE ~FlowOk(i)
    <3>1. FlowEnds(i)
      BY <1>9, <2>4 DEF RediscoverAnswered
    <3>2. ~(mpOpen /\ ~mpUpset')
      BY <2>1, <2>4, AnsweredAlone DEF FlowOk
    <3> QED
      BY <2>1, <2>2, <3>1, <3>2, FlowEndKeeps
  <2> QED
    BY <2>1, <2>2, <2>3, <2>4
<1> QED
  BY <1>2, <1>3, <1>5, <1>6, <1>7, <1>8, <1>9

LEMMA PageStart ==
  ModelsInit => PageInv
<1> SUFFICES ASSUME ModelsInit PROVE PageInv
  OBVIOUS
<1>1. mpFlows = <<>> /\ mpFlows \in Seq(FlowRecords) /\ Len(mpFlows) = 0
  BY DEF ModelsInit
<1>2. PageTyped
  <2>1. mpNews \in Nat /\ mpShown \in Int /\ mpShown <= mpNews
    BY DEF ModelsInit, NotRead
  <2>2. mpAccount \in BOOLEAN /\ mpOpen \in BOOLEAN /\ mpUpset \in BOOLEAN
    BY Zenon DEF ModelsInit
  <2> QED
    BY <1>1, <2>1, <2>2 DEF PageTyped
<1> QED
  BY <1>1, <1>2 DEF PageInv, AllMet, ModelsInit

\* A step of the page, and what it may do to what is shown.
LEMMA PageStep ==
  ASSUME PageInv, [ModelsNext]_modelsVars
  PROVE  /\ PageInv'
         /\ mpOpen /\ mpOpen' /\ mpShown # mpShown' =>
              \A k \in DOMAIN mpFlows :
                mpFlows[k].page /\ mpFlows[k].at \in Reading /\ "read" \notin mpFlows[k].crossed => mpShown' >= mpShown
<1>0. mpFlows \in Seq(FlowRecords) /\ DOMAIN mpFlows = 1..Len(mpFlows)
  BY DEF PageInv, PageTyped
<1>1. CASE OpenModels \/ PollModels \/ RefreshButton \/ (\E flow \in ButtonFlows : PressButton(flow))
  <2>1. mpOpen => mpShown' = mpShown
    BY <1>1 DEF OpenModels, PollModels, RefreshButton, PressButton, mpViewVars
  <2> QED
    BY <1>1, <2>1, PageKeeps
<1>2. CASE LeaveModels
  <2>1. ~mpOpen'
    BY <1>2 DEF LeaveModels
  <2> QED
    BY <1>2, <2>1, LeaveModelsKeeps
<1>3. CASE ServerMoves \/ TypeAccount \/ UNCHANGED modelsVars
  <2>1. mpShown' = mpShown
    BY <1>3 DEF ServerMoves, TypeAccount, modelsVars, mpViewVars
  <2> QED
    BY <1>3, <2>1, PageStays
<1>4. ASSUME NEW i \in DOMAIN mpFlows, NEW how \in {"ok", "refused", "failed"}, NEW done \in BOOLEAN, ModelsServes(i, how, done)
      PROVE  PageInv' /\ mpShown' = mpShown
  <2>1. mpShown' = mpShown
    BY <1>4 DEF ModelsServes, mpViewVars
  <2> QED
    BY <1>0, <1>4, <2>1, ModelsServesKeeps
<1>5. ASSUME NEW i \in DOMAIN mpFlows,
             \/ ActAnswered(i) \/ RefreshAnswered(i) \/ RecommendAnswered(i) \/ PollAnswered(i)
             \/ ConnectAnswered(i) \/ ConnectedAnswered(i)
             \/ DiscoverAnswered(i) \/ InstancesAnswered(i) \/ RediscoverAnswered(i)
      PROVE  /\ PageInv'
             /\ mpShown # mpShown' =>
                  \A k \in DOMAIN mpFlows :
                    mpFlows[k].page /\ mpFlows[k].at \in Reading /\ "read" \notin mpFlows[k].crossed => mpShown' >= mpShown
  <2>1. i \in 1..Len(mpFlows)
    BY <1>0
  <2>2. PageInv' /\ ShowsNext(i) /\ (\E ats : AnsweredAt(i, ats))
    BY <1>5, <2>1, AnswersKeep
  <2>3. ASSUME mpShown # mpShown', NEW k \in DOMAIN mpFlows, ReadsHere(mpFlows[k]), "read" \notin mpFlows[k].crossed
        PROVE  mpShown' >= mpShown
    <3>1. ReadsHere(mpFlows[i]) /\ mpShown' = mpFlows[i].news
      BY <2>2, <2>3 DEF ShowsNext
    <3>2. k = i
      BY <1>0, <2>1, <2>3, <3>1 DEF PageInv, AllMet, Met
    <3>3. FlowFits(mpFlows[i]) /\ mpFlows[i] \in FlowRecords
      BY <2>1 DEF PageInv, PageTyped
    <3>4. mpFlows[i].how = "ok"
      BY <1>5, <2>3 DEF ActAnswered, RefreshAnswered, RecommendAnswered, PollAnswered, ConnectAnswered,
           ConnectedAnswered, DiscoverAnswered, InstancesAnswered, RediscoverAnswered, Sees, FlowOk
    <3> QED
      BY <2>3, <3>1, <3>2, <3>3, <3>4 DEF FlowFits
  <2> QED
    BY <2>2, <2>3 DEF ReadsHere
<1>6. CASE ModelsNext
  <2>1. CASE \E i \in DOMAIN mpFlows : \E how \in {"ok", "refused", "failed"}, done \in BOOLEAN : ModelsServes(i, how, done)
    BY <1>4, <2>1
  <2>2. CASE \E i \in DOMAIN mpFlows :
               \/ ActAnswered(i) \/ RefreshAnswered(i) \/ RecommendAnswered(i) \/ PollAnswered(i)
               \/ ConnectAnswered(i) \/ ConnectedAnswered(i)
               \/ DiscoverAnswered(i) \/ InstancesAnswered(i) \/ RediscoverAnswered(i)
    BY <1>5, <2>2
  <2> QED
    BY <1>1, <1>2, <1>3, <1>6, <2>1, <2>2 DEF ModelsNext
<1> QED
  BY <1>3, <1>6

\* ModelsPage: buttons are locked while an action runs, the account is shown as
\* the server has it, and reads that crossed no other never go back, always.
THEOREM ModelsPageAlwaysTrue ==
  ModelsSpec => [](LockIsHeld /\ CloudIsShown) /\ ReadsGoForward
<1>1. PageInv => LockIsHeld /\ CloudIsShown
  <2> SUFFICES ASSUME PageInv PROVE LockIsHeld /\ CloudIsShown
    OBVIOUS
  <2>1. DOMAIN mpFlows = 1..Len(mpFlows)
    BY DEF PageInv, PageTyped
  <2>2. LockIsHeld
    BY <2>1 DEF PageInv, FlowFits, HasKey, LockIsHeld
  <2>3. CloudIsShown
    BY DEF PageInv, CloudIsRight, CloudIsShown
  <2> QED
    BY <2>2, <2>3
<1>2. PageInv /\ [ModelsNext]_modelsVars => PageInv'
  BY PageStep
<1>3. PageInv /\ [ModelsNext]_modelsVars =>
        [mpOpen /\ mpOpen' /\ mpShown # mpShown' =>
           \A i \in DOMAIN mpFlows :
             mpFlows[i].page /\ mpFlows[i].at \in Reading /\ "read" \notin mpFlows[i].crossed => mpShown' >= mpShown]_modelsVars
  BY PageStep
<1> QED
  BY <1>1, <1>2, <1>3, PageStart, PTL DEF ModelsSpec, ReadsGoForward

-----------------------------------------------------------------------------
(* The settings *)

SeValues == SeProviders \cup SeTools \cup {0, 1}
CallOps == {"save", "remove", "load", "start", "choose", "greet", "status", "toggle", "list", "diagnose"}
CallRecords ==
  [op : CallOps, x : SeValues, on : BOOLEAN, got : SUBSET SeValues, how : {"none", "ok", "refused", "lost"},
   alone : BOOLEAN, tab : BOOLEAN, dialog : BOOLEAN]
Subjects == {"keys", "model", "tools"}

\* What the server has and the page shows of it.
SeenNow ==
  [keys |-> seKeys, active |-> seActive, enabled |-> seEnabled,
   providers |-> seProviders, shown |-> seShown, tools |-> seToolView]
Toggled(on, c) == IF c.on THEN on \cup {c.x} ELSE on \ {c.x}

\* A request in a history of crossings and what is seen: an answer that was alone
\* says what the server has, and one that may leave the page as it is finds it right.
CallFits(c, crossed, v) ==
  /\ Subject(c.op) \notin crossed => c.alone
  /\ c.how = "refused" => c.op = "save"
  /\ c.op = "greet" => c.how = "ok"
  /\ c.alone /\ c.how = "ok" =>
       /\ c.op \in {"load", "start"} => c.got = v.keys
       /\ c.op = "choose" => c.x = v.active
       /\ c.op = "greet" => c.got = {v.active}
       /\ c.op = "status" => c.got = v.enabled
  /\ "keys" \notin crossed /\ c.op \in {"save", "remove"} /\ c.how \in {"none", "refused"} => v.providers = v.keys
  /\ "tools" \notin crossed /\ v.tools.has /\ c.op \in {"status", "toggle"} =>
       /\ c.op = "toggle" /\ c.tab
       /\ c.how = "none" => v.tools.on = v.enabled
       /\ c.how = "ok" => Toggled(v.tools.on, c) = v.enabled

AloneIsAlone(q) == \A i, j \in 1..Len(q) : i # j /\ q[i].alone => Subject(q[j].op) # Subject(q[i].op)
AgreesOn(s, v) ==
  /\ s = "keys" => v.providers = v.keys
  /\ s = "model" => v.shown = v.active
  /\ s = "tools" /\ v.tools.has => v.tools.on = v.enabled
NoneAbout(q, s) == \A i \in 1..Len(q) : Subject(q[i].op) # s
CallsSound(q, crossed, v, T) ==
  /\ q \in Seq(CallRecords) /\ AloneIsAlone(q)
  /\ \A i \in 1..Len(q) : CallFits(q[i], crossed, v)
  /\ \A s \in T : NoneAbout(q, s) /\ s \notin crossed => AgreesOn(s, v)

SavesHere(q) == \E i \in 1..Len(q) : q[i].op = "save" /\ q[i].dialog
LoadsHere(q) == \E i \in 1..Len(q) : q[i].op \in {"list", "diagnose"} /\ q[i].tab

SeTyped ==
  /\ seKeys \subseteq SeValues /\ seEnabled \subseteq SeValues /\ seActive \in SeValues
  /\ seEditing \in [p : SeValues, typed : BOOLEAN]
  /\ seToolView \in [has : BOOLEAN, on : SUBSET SeValues]
SettingsInv ==
  /\ SeTyped /\ CallsSound(seCalls, seCrossed, SeenNow, Subjects)
  /\ seLoading => SavesHere(seCalls)
  /\ seWaiting => LoadsHere(seCalls)

\* A request that joins others leaves them as they are, but for who is alone.
SameCall(f, g) ==
  g.op = f.op /\ g.x = f.x /\ g.on = f.on /\ g.got = f.got /\ g.how = f.how /\ g.tab = f.tab /\ g.dialog = f.dialog
IsNewCall(c, op, x, on) ==
  c.op = op /\ c.x = x /\ c.on = on /\ c.got = {} /\ c.how = "none" /\ c.tab = TRUE /\ c.dialog = TRUE

LEMMA RequestJoins ==
  ASSUME NEW q \in Seq(CallRecords), AloneIsAlone(q), NEW op \in CallOps, NEW x \in SeValues, NEW on \in BOOLEAN
  PROVE  LET r == Asked(q, op, x, on) IN
           /\ r \in Seq(CallRecords) /\ Len(r) = Len(q) + 1 /\ Len(q) \in Nat /\ AloneIsAlone(r)
           /\ \A i \in 1..Len(q) : i \in 1..Len(r) /\ SameCall(q[i], r[i])
           /\ \A i \in 1..Len(q) : r[i].alone <=> q[i].alone /\ Subject(q[i].op) # Subject(op)
           /\ Len(r) \in 1..Len(r) /\ IsNewCall(r[Len(r)], op, x, on)
           /\ r[Len(r)].alone <=> NoneAbout(q, Subject(op))
           /\ \A i \in 1..Len(r) : i \in 1..Len(q) \/ i = Len(r)
           /\ Crossing(q, op) = IF NoneAbout(q, Subject(op)) THEN {} ELSE {Subject(op)}
<1>1. PICK r : r = Asked(q, op, x, on)
  OBVIOUS
<1>2. PICK others : others = About(q, Subject(op))
  OBVIOUS
<1>3. DOMAIN q = 1..Len(q) /\ Len(q) \in Nat /\ \A i \in 1..Len(q) : q[i] \in CallRecords
  OBVIOUS
<1>4. \A i : i \in others <=> i \in 1..Len(q) /\ Subject(q[i].op) = Subject(op)
  BY <1>2, <1>3 DEF About
<1>5. others = {} <=> NoneAbout(q, Subject(op))
  BY <1>4 DEF NoneAbout
<1> DEFINE met == [i \in DOMAIN q |-> [q[i] EXCEPT !.alone = @ /\ i \notin others]]
           y == [op |-> op, x |-> x, on |-> on, got |-> {}, how |-> "none", alone |-> others = {}, tab |-> TRUE, dialog |-> TRUE]
<1>6. y \in CallRecords /\ IsNewCall(y, op, x, on) /\ (y.alone <=> others = {})
  <2>1. PICK b \in BOOLEAN : b = (others = {})
    OBVIOUS
  <2>2. y = [op |-> op, x |-> x, on |-> on, got |-> {}, how |-> "none", alone |-> b, tab |-> TRUE, dialog |-> TRUE]
    BY <2>1
  <2> HIDE DEF y
  <2>3. y \in CallRecords /\ IsNewCall(y, op, x, on) /\ y.alone = b
    BY <2>2 DEF CallRecords, IsNewCall
  <2> QED
    BY <2>1, <2>3
<1>7. ASSUME NEW i \in 1..Len(q)
      PROVE  met[i] \in CallRecords /\ SameCall(q[i], met[i]) /\ (met[i].alone <=> q[i].alone /\ i \notin others)
  <2>1. PICK f \in CallRecords : f = q[i]
    BY <1>3
  <2>2. PICK b \in BOOLEAN : b <=> f.alone /\ i \notin others
    OBVIOUS
  <2>3. (f.alone /\ i \notin others) \in BOOLEAN
    OBVIOUS
  <2>4. b = (f.alone /\ i \notin others)
    BY Zenon, <2>2, <2>3
  <2>5. met[i] = [f EXCEPT !.alone = b]
    BY <1>3, <2>1, <2>4
  <2> HIDE DEF met
  <2>6. met[i] \in CallRecords /\ SameCall(f, met[i]) /\ met[i].alone = b
    BY <2>5 DEF CallRecords, SameCall
  <2> QED
    BY <2>1, <2>2, <2>6
<1>8. met \in Seq(CallRecords) /\ Len(met) = Len(q)
  <2>1. DOMAIN met = 1..Len(q) /\ met = [i \in 1..Len(q) |-> met[i]]
    BY <1>3
  <2> HIDE DEF met
  <2>2. met \in [1..Len(q) -> CallRecords]
    BY <1>7, <2>1
  <2> QED
    BY <1>3, <2>2
<1>9. r = Append(met, y)
  BY <1>1, <1>2 DEF Asked
<1> HIDE DEF met, y
<1>10. /\ r \in Seq(CallRecords) /\ Len(r) = Len(q) + 1
       /\ \A j \in 1..Len(q) : j \in 1..Len(r) /\ r[j] = met[j]
       /\ Len(r) \in 1..Len(r) /\ r[Len(r)] = y
       /\ \A j \in 1..Len(r) : j \in 1..Len(q) \/ j = Len(r)
  BY <1>6, <1>8, <1>9, OneJoins
<1>11. \A i \in 1..Len(q) : SameCall(q[i], r[i]) /\ (r[i].alone <=> q[i].alone /\ Subject(q[i].op) # Subject(op))
  BY <1>4, <1>7, <1>10
<1>12. IsNewCall(r[Len(r)], op, x, on) /\ (r[Len(r)].alone <=> NoneAbout(q, Subject(op)))
  BY <1>5, <1>6, <1>10
<1>13. ASSUME NEW i \in 1..Len(r), NEW j \in 1..Len(r), i # j, r[i].alone PROVE Subject(r[j].op) # Subject(r[i].op)
  <2>1. CASE i \in 1..Len(q) /\ j \in 1..Len(q)
    <3>1. q[i].alone /\ r[i].op = q[i].op /\ r[j].op = q[j].op
      BY <1>11, <1>13, <2>1 DEF SameCall
    <3> QED
      BY <1>13, <2>1, <3>1 DEF AloneIsAlone
  <2>2. CASE i \in 1..Len(q) /\ j = Len(r)
    <3>1. Subject(q[i].op) # Subject(op) /\ r[i].op = q[i].op /\ r[j].op = op
      BY <1>11, <1>12, <1>13, <2>2 DEF SameCall, IsNewCall
    <3> QED
      BY <3>1
  <2>3. CASE i = Len(r) /\ j \in 1..Len(q)
    <3>1. Subject(q[j].op) # Subject(op) /\ r[j].op = q[j].op /\ r[i].op = op
      BY <1>11, <1>12, <1>13, <2>3 DEF SameCall, IsNewCall, NoneAbout
    <3> QED
      BY <3>1
  <2> QED
    BY <1>10, <1>13, <2>1, <2>2, <2>3
<1>14. AloneIsAlone(r)
  BY <1>13 DEF AloneIsAlone
<1>15. Crossing(q, op) = IF NoneAbout(q, Subject(op)) THEN {} ELSE {Subject(op)}
  BY <1>2, <1>5 DEF Crossing
<1> QED
  BY <1>1, <1>3, <1>10, <1>11, <1>12, <1>14, <1>15

\* With it they are sound again, if it may not pass over what disagrees.
LEMMA RequestJoinsSound ==
  ASSUME NEW q, NEW C, NEW v, NEW T, CallsSound(q, C, v, T),
         NEW op \in CallOps \ {"greet"}, NEW x \in SeValues, NEW on \in BOOLEAN,
         op \in {"save", "remove", "toggle"} => Subject(op) \in T, op = "status" => ~v.tools.has
  PROVE  LET r == Asked(q, op, x, on) IN
           /\ CallsSound(r, C \cup Crossing(q, op), v, T \cup {Subject(op)})
           /\ SavesHere(q) \/ op = "save" => SavesHere(r)
           /\ LoadsHere(q) \/ op \in {"list", "diagnose"} => LoadsHere(r)
<1>1. PICK r : r = Asked(q, op, x, on)
  OBVIOUS
<1>2. PICK n : n = Len(r)
  OBVIOUS
<1>3. PICK D : D = C \cup Crossing(q, op)
  OBVIOUS
<1>4. q \in Seq(CallRecords) /\ AloneIsAlone(q) /\ \A i \in 1..Len(q) : CallFits(q[i], C, v)
  BY DEF CallsSound
<1>5. /\ r \in Seq(CallRecords) /\ AloneIsAlone(r)
      /\ \A i \in 1..Len(q) : i \in 1..Len(r) /\ SameCall(q[i], r[i])
      /\ \A i \in 1..Len(q) : r[i].alone <=> q[i].alone /\ Subject(q[i].op) # Subject(op)
      /\ n \in 1..Len(r) /\ IsNewCall(r[n], op, x, on)
      /\ r[n].alone <=> NoneAbout(q, Subject(op))
      /\ \A i \in 1..Len(r) : i \in 1..Len(q) \/ i = n
      /\ Crossing(q, op) = IF NoneAbout(q, Subject(op)) THEN {} ELSE {Subject(op)}
  BY <1>1, <1>2, <1>4, RequestJoins
<1>6. ASSUME NEW i \in 1..Len(q) PROVE CallFits(r[i], D, v)
  <2>1. PICK f : f = q[i]
    OBVIOUS
  <2>2. PICK g : g = r[i]
    OBVIOUS
  <2>3. CallFits(f, C, v) /\ SameCall(f, g) /\ (g.alone <=> f.alone /\ Subject(f.op) # Subject(op))
    BY <1>4, <1>5, <2>1, <2>2
  <2>4. Subject(f.op) \notin D => Subject(f.op) # Subject(op)
    BY <1>3, <1>5, <2>1 DEF NoneAbout
  <2>5. \A s : s \notin D => s \notin C
    BY <1>3
  <2>6. Toggled(v.tools.on, f) = Toggled(v.tools.on, g)
    BY <2>3 DEF Toggled, SameCall
  <2>7. CallFits(g, D, v)
    BY <2>3, <2>4, <2>5, <2>6 DEF CallFits, SameCall
  <2> QED
    BY <2>2, <2>7
<1>7. CallFits(r[n], D, v)
  <2>1. PICK g : g = r[n]
    OBVIOUS
  <2>2. IsNewCall(g, op, x, on) /\ (g.alone <=> NoneAbout(q, Subject(op)))
    BY <1>5, <2>1
  <2>3. Subject(op) \notin D => NoneAbout(q, Subject(op)) /\ Subject(op) \notin C
    BY <1>3, <1>5
  <2>4. Subject(op) \notin D /\ op \in {"save", "remove", "toggle"} => AgreesOn(Subject(op), v)
    BY <2>3 DEF CallsSound
  <2>5. op \in {"save", "remove"} => Subject(op) = "keys"
    BY DEF Subject
  <2>6. op \in {"toggle"} => Subject(op) = "tools"
    BY DEF Subject
  <2>7. CallFits(g, D, v)
    BY <2>2, <2>3, <2>4, <2>5, <2>6 DEF CallFits, IsNewCall, AgreesOn
  <2> QED
    BY <2>1, <2>7
<1>8. ASSUME NEW s \in T \cup {Subject(op)}, NoneAbout(r, s), s \notin D PROVE AgreesOn(s, v)
  <2>1. s # Subject(op)
    BY <1>5, <1>8 DEF NoneAbout, IsNewCall
  <2>2. NoneAbout(q, s)
    BY <1>5, <1>8 DEF NoneAbout, SameCall
  <2> QED
    BY <1>3, <1>8, <2>1, <2>2 DEF CallsSound
<1>9. CallsSound(r, D, v, T \cup {Subject(op)})
  BY <1>5, <1>6, <1>7, <1>8 DEF CallsSound
<1>10. SavesHere(q) \/ op = "save" => SavesHere(r)
  BY <1>5 DEF SavesHere, SameCall, IsNewCall
<1>11. LoadsHere(q) \/ op \in {"list", "diagnose"} => LoadsHere(r)
  BY <1>5 DEF LoadsHere, SameCall, IsNewCall
<1> QED
  BY <1>1, <1>3, <1>9, <1>10, <1>11

\* A tab that goes takes the view of the tools with it.
LEMMA CallsLeftSound ==
  ASSUME NEW q, NEW C, NEW v, NEW w, CallsSound(q, C, v, Subjects), NEW all \in BOOLEAN,
         w.keys = v.keys, w.active = v.active, w.enabled = v.enabled,
         w.providers = v.providers, w.shown = v.shown, ~w.tools.has
  PROVE  LET r == Left(q, all) IN
           /\ CallsSound(r, C, w, Subjects)
           /\ \A op \in CallOps : Crossing(r, op) = Crossing(q, op)
           /\ ~all /\ SavesHere(q) => SavesHere(r)
<1>1. PICK r : r = Left(q, all)
  OBVIOUS
<1>2. /\ q \in Seq(CallRecords) /\ AloneIsAlone(q) /\ DOMAIN q = 1..Len(q) /\ Len(q) \in Nat
      /\ \A i \in 1..Len(q) : q[i] \in CallRecords /\ CallFits(q[i], C, v)
  BY DEF CallsSound
<1>3. ASSUME NEW i \in 1..Len(q)
      PROVE  /\ r[i] \in CallRecords /\ r[i].op = q[i].op /\ (r[i].alone <=> q[i].alone) /\ CallFits(r[i], C, w)
             /\ ~all /\ q[i].dialog => r[i].dialog
  <2>1. PICK f \in CallRecords : f = q[i]
    BY <1>2
  <2>2. PICK b \in BOOLEAN : b <=> f.dialog /\ ~all
    OBVIOUS
  <2>3. (f.dialog /\ ~all) \in BOOLEAN
    OBVIOUS
  <2>4. b = (f.dialog /\ ~all)
    BY Zenon, <2>2, <2>3
  <2>5. r[i] = [f EXCEPT !.tab = FALSE, !.dialog = b]
    BY <1>1, <1>2, <2>1, <2>4 DEF Left
  <2>6. PICK g : g = r[i]
    OBVIOUS
  <2>7. g \in CallRecords
    BY <2>5, <2>6 DEF CallRecords
  <2>8. /\ g.op = f.op /\ g.x = f.x /\ g.on = f.on /\ g.got = f.got /\ g.how = f.how
        /\ g.alone = f.alone /\ g.dialog = b
    BY <2>5, <2>6 DEF CallRecords
  <2>9. CallFits(f, C, v)
    BY <1>2, <2>1
  <2>10. CallFits(g, C, w)
    BY <2>8, <2>9 DEF CallFits
  <2> QED
    BY <2>1, <2>2, <2>6, <2>7, <2>8, <2>10
<1>4. r \in Seq(CallRecords) /\ Len(r) = Len(q) /\ DOMAIN r = 1..Len(q)
  <2>1. DOMAIN r = 1..Len(q) /\ r = [i \in 1..Len(q) |-> r[i]]
    BY <1>1, <1>2 DEF Left
  <2>2. r \in [1..Len(q) -> CallRecords]
    BY <1>3, <2>1
  <2> QED
    BY <1>2, <2>1, <2>2
<1>5. AloneIsAlone(r)
  BY <1>2, <1>3, <1>4 DEF AloneIsAlone
<1>6. ASSUME NEW s \in Subjects, NoneAbout(r, s), s \notin C PROVE AgreesOn(s, w)
  <2>1. NoneAbout(q, s)
    BY <1>3, <1>4, <1>6 DEF NoneAbout
  <2>2. AgreesOn(s, v)
    BY <1>6, <2>1 DEF CallsSound
  <2> QED
    BY <2>2 DEF AgreesOn
<1>7. ASSUME NEW op \in CallOps PROVE Crossing(r, op) = Crossing(q, op)
  <2>1. About(r, Subject(op)) = About(q, Subject(op))
    BY <1>2, <1>3, <1>4 DEF About
  <2> QED
    BY <2>1 DEF Crossing
<1>8. ~all /\ SavesHere(q) => SavesHere(r)
  BY <1>3, <1>4 DEF SavesHere
<1>9. CallsSound(r, C, w, Subjects)
  BY <1>3, <1>4, <1>5, <1>6 DEF CallsSound
<1> QED
  BY <1>1, <1>7, <1>8, <1>9

\* A request that is gone, and what its answer changed.
LEMMA CallGoneSound ==
  ASSUME NEW q, NEW C, NEW D, NEW v, NEW w, NEW T, T \subseteq Subjects, CallsSound(q, C, v, Subjects), NEW i \in 1..Len(q),
         \A s : s \notin D /\ s \in C => q[i].alone /\ s = Subject(q[i].op),
         w.keys = v.keys, w.active = v.active, w.enabled = v.enabled,
         Subject(q[i].op) # "keys" => w.providers = v.providers,
         Subject(q[i].op) # "model" => w.shown = v.shown,
         Subject(q[i].op) # "tools" => w.tools = v.tools,
         Subject(q[i].op) \in T \ D => AgreesOn(Subject(q[i].op), w)
  PROVE  LET r == RemoveAt(q, i) IN
           /\ CallsSound(r, D, w, T)
           /\ SavesHere(q) /\ ~(q[i].op = "save" /\ q[i].dialog) => SavesHere(r)
           /\ LoadsHere(q) /\ ~(q[i].op \in {"list", "diagnose"} /\ q[i].tab) => LoadsHere(r)
<1>1. PICK r : r = RemoveAt(q, i)
  OBVIOUS
<1>2. /\ q \in Seq(CallRecords) /\ AloneIsAlone(q) /\ Len(q) \in Nat
      /\ \A j \in 1..Len(q) : q[j] \in CallRecords /\ CallFits(q[j], C, v)
  BY DEF CallsSound
<1>3. /\ r \in Seq(CallRecords) /\ Len(r) = Len(q) - 1
      /\ \A j \in 1..(i - 1) : j \in 1..Len(r) /\ r[j] = q[j]
      /\ \A j \in i..(Len(q) - 1) : j \in 1..Len(r) /\ r[j] = q[j + 1]
  BY <1>1, <1>2, OneGone
<1>4. /\ \A j \in 1..Len(r) : \E k \in 1..Len(q) : k # i /\ r[j] = q[k]
      /\ \A k \in 1..Len(q) : k # i => \E j \in 1..Len(r) : r[j] = q[k]
  BY <1>1, <1>2, OthersStay
<1>5. AloneIsAlone(r)
  <2> DEFINE at(n) == IF n < i THEN n ELSE n + 1
  <2>1. ASSUME NEW n \in 1..Len(r) PROVE r[n] = q[at(n)] /\ at(n) \in 1..Len(q)
    BY <1>2, <1>3
  <2>2. ASSUME NEW j \in 1..Len(r), NEW k \in 1..Len(r), j # k PROVE at(j) # at(k)
    BY <1>2, <1>3, <2>2
  <2> HIDE DEF at
  <2> QED
    BY <1>2, <2>1, <2>2 DEF AloneIsAlone
<1>6. ASSUME NEW k \in 1..Len(q), k # i, NEW f, f = q[k] PROVE CallFits(f, D, w)
  <2>1. CallFits(f, C, v)
    BY <1>2, <1>6
  <2>2. CASE Subject(f.op) = Subject(q[i].op)
    <3>1. ~f.alone /\ ~q[i].alone
      BY <1>2, <1>6, <2>2 DEF AloneIsAlone
    <3>2. Subject(f.op) \in C /\ Subject(f.op) \in D
      BY <2>1, <3>1 DEF CallFits
    <3>3. (f.op \in {"save", "remove"} => Subject(f.op) = "keys") /\ (f.op \in {"status", "toggle"} => Subject(f.op) = "tools")
      BY DEF Subject
    <3> QED
      BY <2>1, <3>1, <3>2, <3>3 DEF CallFits
  <2>3. CASE Subject(f.op) # Subject(q[i].op)
    <3>1. Subject(f.op) \notin D => Subject(f.op) \notin C
      BY <2>3
    <3>2. f.op \in {"save", "remove"} => Subject(f.op) = "keys" /\ w.providers = v.providers /\ ("keys" \notin D => "keys" \notin C)
      BY <2>3, <3>1 DEF Subject
    <3>3. f.op \in {"status", "toggle"} => Subject(f.op) = "tools" /\ w.tools = v.tools /\ ("tools" \notin D => "tools" \notin C)
      BY <2>3, <3>1 DEF Subject
    <3> QED
      BY <2>1, <3>1, <3>2, <3>3 DEF CallFits
  <2> QED
    BY <2>2, <2>3
<1>7. ASSUME NEW s \in T, NoneAbout(r, s), s \notin D PROVE AgreesOn(s, w)
  <2>1. CASE s = Subject(q[i].op)
    BY <1>7, <2>1
  <2>2. CASE s # Subject(q[i].op)
    <3>1. NoneAbout(q, s)
      BY <1>4, <1>7, <2>2 DEF NoneAbout
    <3>2. s \notin C
      BY <1>7, <2>2
    <3>3. AgreesOn(s, v)
      BY <3>1, <3>2 DEF CallsSound
    <3> QED
      BY <2>2, <3>3 DEF AgreesOn
  <2> QED
    BY <2>1, <2>2
<1>8. \A j \in 1..Len(r) : CallFits(r[j], D, w)
  BY <1>4, <1>6
<1>9. CallsSound(r, D, w, T)
  BY <1>3, <1>5, <1>7, <1>8 DEF CallsSound
<1>10. SavesHere(q) /\ ~(q[i].op = "save" /\ q[i].dialog) => SavesHere(r)
  <2> SUFFICES ASSUME SavesHere(q), ~(q[i].op = "save" /\ q[i].dialog) PROVE SavesHere(r)
    OBVIOUS
  <2>1. PICK k \in 1..Len(q) : q[k].op = "save" /\ q[k].dialog
    BY DEF SavesHere
  <2>2. k # i
    BY <2>1
  <2> QED
    BY <1>4, <2>1, <2>2 DEF SavesHere
<1>11. LoadsHere(q) /\ ~(q[i].op \in {"list", "diagnose"} /\ q[i].tab) => LoadsHere(r)
  <2> SUFFICES ASSUME LoadsHere(q), ~(q[i].op \in {"list", "diagnose"} /\ q[i].tab) PROVE LoadsHere(r)
    OBVIOUS
  <2>1. PICK k \in 1..Len(q) : q[k].op \in {"list", "diagnose"} /\ q[k].tab
    BY DEF LoadsHere
  <2>2. k # i
    BY <2>1
  <2> QED
    BY <1>4, <2>1, <2>2 DEF LoadsHere
<1> QED
  BY <1>1, <1>9, <1>10, <1>11

\* The greeting comes with the answer in it.
LEMMA GreetingSound ==
  ASSUME NEW q, NEW C, NEW v, CallsSound(q, C, v, Subjects), v.active \in SeValues, 0 \in SeValues
  PROVE  LET g == Asked(q, "greet", 0, TRUE)
             r == [g EXCEPT ![Len(g)].how = "ok", ![Len(g)].got = {v.active}] IN
           /\ CallsSound(r, C \cup Crossing(q, "greet"), v, Subjects)
           /\ Crossing(r, "start") = Crossing(q, "start")
           /\ SavesHere(q) => SavesHere(r)
           /\ LoadsHere(q) => LoadsHere(r)
<1>1. PICK g : g = Asked(q, "greet", 0, TRUE)
  OBVIOUS
<1>2. PICK n : n = Len(g)
  OBVIOUS
<1>3. PICK D : D = C \cup Crossing(q, "greet")
  OBVIOUS
<1>4. PICK r : r = [g EXCEPT ![n].how = "ok", ![n].got = {v.active}]
  OBVIOUS
<1>5. q \in Seq(CallRecords) /\ AloneIsAlone(q) /\ \A i \in 1..Len(q) : CallFits(q[i], C, v)
  BY DEF CallsSound
<1>6. "greet" \in CallOps /\ Subject("greet") = "model" /\ Subject("start") = "keys"
  BY DEF CallOps, Subject
<1>7. /\ g \in Seq(CallRecords) /\ Len(g) = Len(q) + 1 /\ Len(q) \in Nat /\ AloneIsAlone(g)
      /\ \A i \in 1..Len(q) : i \in 1..Len(g) /\ SameCall(q[i], g[i])
      /\ \A i \in 1..Len(q) : g[i].alone <=> q[i].alone /\ Subject(q[i].op) # "model"
      /\ n \in 1..Len(g) /\ IsNewCall(g[n], "greet", 0, TRUE)
      /\ g[n].alone <=> NoneAbout(q, "model")
      /\ \A i \in 1..Len(g) : i \in 1..Len(q) \/ i = n
      /\ Crossing(q, "greet") = IF NoneAbout(q, "model") THEN {} ELSE {"model"}
  <2>1. PICK on \in BOOLEAN, z \in SeValues, op \in CallOps : on = TRUE /\ z = 0 /\ op = "greet"
    BY <1>6
  <2>2. PICK s : s = Subject("greet")
    OBVIOUS
  <2>3. /\ g \in Seq(CallRecords) /\ Len(g) = Len(q) + 1 /\ Len(q) \in Nat /\ AloneIsAlone(g)
        /\ \A i \in 1..Len(q) : i \in 1..Len(g) /\ SameCall(q[i], g[i])
        /\ \A i \in 1..Len(q) : g[i].alone <=> q[i].alone /\ Subject(q[i].op) # s
        /\ Len(g) \in 1..Len(g) /\ IsNewCall(g[Len(g)], "greet", 0, TRUE)
        /\ g[Len(g)].alone <=> NoneAbout(q, s)
        /\ \A i \in 1..Len(g) : i \in 1..Len(q) \/ i = Len(g)
        /\ Crossing(q, "greet") = IF NoneAbout(q, s) THEN {} ELSE {s}
    <3>1. g = Asked(q, op, z, on) /\ s = Subject(op)
      BY <1>1, <2>1, <2>2
    <3>2. /\ g \in Seq(CallRecords) /\ Len(g) = Len(q) + 1 /\ Len(q) \in Nat /\ AloneIsAlone(g)
          /\ \A i \in 1..Len(q) : i \in 1..Len(g) /\ SameCall(q[i], g[i])
          /\ \A i \in 1..Len(q) : g[i].alone <=> q[i].alone /\ Subject(q[i].op) # s
          /\ Len(g) \in 1..Len(g) /\ IsNewCall(g[Len(g)], op, z, on)
          /\ g[Len(g)].alone <=> NoneAbout(q, s)
          /\ \A i \in 1..Len(g) : i \in 1..Len(q) \/ i = Len(g)
          /\ Crossing(q, op) = IF NoneAbout(q, s) THEN {} ELSE {s}
      BY <1>5, <3>1, RequestJoins
    <3> QED
      BY <2>1, <3>2
  <2>4. s = "model"
    BY <1>6, <2>2
  <2> QED
    BY <1>2, <2>3, <2>4
<1>8. PICK f \in CallRecords : f = g[n]
  BY <1>7
<1>9. PICK d : d = [f EXCEPT !.how = "ok", !.got = {v.active}]
  OBVIOUS
<1>10. d \in CallRecords
  BY <1>9 DEF CallRecords
<1>11. d.op = "greet" /\ d.how = "ok" /\ d.got = {v.active} /\ d.alone = f.alone
  BY <1>7, <1>8, <1>9 DEF CallRecords, IsNewCall
<1>12. r = [g EXCEPT ![n] = d]
  BY <1>4, <1>7, <1>8, <1>9
<1>13. /\ r \in Seq(CallRecords) /\ Len(r) = Len(g) /\ r[n] = d
       /\ \A j \in 1..Len(q) : j # n /\ r[j] = g[j]
  BY <1>2, <1>7, <1>10, <1>12
<1>14. \A j \in 1..Len(g) : r[j].op = g[j].op /\ (r[j].alone <=> g[j].alone)
  BY <1>7, <1>8, <1>11, <1>13 DEF IsNewCall
<1>15. AloneIsAlone(r)
  BY <1>7, <1>13, <1>14 DEF AloneIsAlone
<1>16. ASSUME NEW i \in 1..Len(q) PROVE CallFits(r[i], D, v)
  <2>1. PICK a : a = q[i]
    OBVIOUS
  <2>2. PICK b : b = r[i]
    OBVIOUS
  <2>3. CallFits(a, C, v) /\ SameCall(a, b) /\ (b.alone <=> a.alone /\ Subject(a.op) # "model")
    BY <1>5, <1>7, <1>13, <2>1, <2>2
  <2>4. Subject(a.op) \notin D => Subject(a.op) # "model"
    BY <1>3, <1>7, <2>1 DEF NoneAbout
  <2>5. \A s : s \notin D => s \notin C
    BY <1>3
  <2>6. Toggled(v.tools.on, a) = Toggled(v.tools.on, b)
    BY <2>3 DEF Toggled, SameCall
  <2>7. CallFits(b, D, v)
    BY <2>3, <2>4, <2>5, <2>6 DEF CallFits, SameCall
  <2> QED
    BY <2>2, <2>7
<1>17. CallFits(d, D, v)
  <2>1. "model" \notin D => NoneAbout(q, "model")
    BY <1>3, <1>7
  <2>2. Subject(d.op) \notin D => d.alone
    BY <1>6, <1>7, <1>8, <1>11, <2>1
  <2> QED
    BY <1>11, <2>2 DEF CallFits
<1>18. ASSUME NEW s \in Subjects, NoneAbout(r, s), s \notin D PROVE AgreesOn(s, v)
  <2>1. NoneAbout(q, s)
    BY <1>7, <1>13, <1>18 DEF NoneAbout, SameCall
  <2> QED
    BY <1>3, <1>18, <2>1 DEF CallsSound
<1>19. CallsSound(r, D, v, Subjects)
  BY <1>7, <1>13, <1>15, <1>16, <1>17, <1>18 DEF CallsSound
<1>20. Crossing(r, "start") = Crossing(q, "start")
  <2>1. \A i : i \in About(r, "keys") <=> i \in About(q, "keys")
    <3>1. \A i : i \in About(q, "keys") <=> i \in 1..Len(q) /\ Subject(q[i].op) = "keys"
      BY <1>5 DEF About
    <3>2. \A i : i \in About(r, "keys") <=> i \in 1..Len(r) /\ Subject(r[i].op) = "keys"
      BY <1>13 DEF About
    <3> QED
      BY <1>6, <1>7, <1>11, <1>13, <1>14, <3>1, <3>2 DEF SameCall
  <2>2. About(r, "keys") = About(q, "keys")
    BY <2>1
  <2> QED
    BY <1>6, <2>2 DEF Crossing
<1>21. SavesHere(q) => SavesHere(r)
  BY <1>7, <1>13 DEF SavesHere, SameCall
<1>22. LoadsHere(q) => LoadsHere(r)
  BY <1>7, <1>13 DEF LoadsHere, SameCall
<1> QED
  BY <1>1, <1>2, <1>3, <1>4, <1>19, <1>20, <1>21, <1>22

\* The server takes a request, and may change what it is about.
LEMMA CallTakenSound ==
  ASSUME NEW q, NEW C, NEW v, NEW w, CallsSound(q, C, v, Subjects), NEW i \in 1..Len(q), NEW d \in CallRecords,
         d.op = q[i].op, d.alone = q[i].alone, d.tab = q[i].tab, d.dialog = q[i].dialog, CallFits(d, C, w),
         w.providers = v.providers, w.shown = v.shown, w.tools = v.tools,
         Subject(q[i].op) # "keys" => w.keys = v.keys,
         Subject(q[i].op) # "model" => w.active = v.active,
         Subject(q[i].op) # "tools" => w.enabled = v.enabled
  PROVE  LET r == [q EXCEPT ![i] = d] IN
           CallsSound(r, C, w, Subjects) /\ (SavesHere(q) => SavesHere(r)) /\ (LoadsHere(q) => LoadsHere(r))
<1>1. PICK r : r = [q EXCEPT ![i] = d]
  OBVIOUS
<1>2. /\ q \in Seq(CallRecords) /\ AloneIsAlone(q) /\ Len(q) \in Nat
      /\ \A j \in 1..Len(q) : q[j] \in CallRecords /\ CallFits(q[j], C, v)
  BY DEF CallsSound
<1>3. /\ r \in Seq(CallRecords) /\ Len(r) = Len(q) /\ r[i] = d
      /\ \A j \in 1..Len(q) : j # i => r[j] = q[j]
  BY <1>1, <1>2
<1>4. AloneIsAlone(r)
  BY <1>2, <1>3 DEF AloneIsAlone
<1>5. ASSUME NEW k \in 1..Len(q), k # i, NEW f, f = q[k] PROVE CallFits(f, C, w)
  <2>1. CallFits(f, C, v)
    BY <1>2, <1>5
  <2>2. (f.op \in {"save", "remove", "load", "start"} <=> Subject(f.op) = "keys") /\ (f.op \in {"choose", "greet"} <=> Subject(f.op) = "model")
        /\ (f.op \in {"status", "toggle"} <=> Subject(f.op) = "tools")
    <3>1. f.op \in CallOps
      BY <1>2, <1>5 DEF CallRecords
    <3> QED
      BY <3>1 DEF Subject, CallOps
  <2>3. CASE Subject(f.op) = Subject(q[i].op)
    <3>1. ~f.alone
      BY <1>2, <1>5, <2>3 DEF AloneIsAlone
    <3>2. Subject(f.op) \in C
      BY <2>1, <3>1 DEF CallFits
    <3> QED
      BY <2>1, <2>2, <3>1, <3>2 DEF CallFits
  <2>4. CASE Subject(f.op) # Subject(q[i].op)
    <3>1. f.op \in {"save", "remove", "load", "start"} => w.keys = v.keys
      BY <2>2, <2>4
    <3>2. f.op \in {"choose", "greet"} => w.active = v.active
      BY <2>2, <2>4
    <3>3. f.op \in {"status", "toggle"} => w.enabled = v.enabled
      BY <2>2, <2>4
    <3> QED
      BY <2>1, <3>1, <3>2, <3>3 DEF CallFits
  <2> QED
    BY <2>3, <2>4
<1>6. \A j \in 1..Len(r) : CallFits(r[j], C, w)
  BY <1>3, <1>5
<1>7. ASSUME NEW s \in Subjects, NoneAbout(r, s), s \notin C PROVE AgreesOn(s, w)
  <2>1. NoneAbout(q, s) /\ s # Subject(q[i].op)
    BY <1>3, <1>7 DEF NoneAbout
  <2>2. AgreesOn(s, v)
    BY <1>7, <2>1 DEF CallsSound
  <2> QED
    BY <2>1, <2>2 DEF AgreesOn
<1>8. CallsSound(r, C, w, Subjects)
  BY <1>3, <1>4, <1>6, <1>7 DEF CallsSound
<1>9. SavesHere(q) => SavesHere(r)
  BY <1>3 DEF SavesHere
<1>10. LoadsHere(q) => LoadsHere(r)
  BY <1>3 DEF LoadsHere
<1> QED
  BY <1>1, <1>8, <1>9, <1>10

LEMMA ServerTakesKeeps ==
  ASSUME SettingsInv, NEW i \in 1..Len(seCalls), NEW how \in {"ok", "refused", "lost"}, NEW done \in BOOLEAN,
         ServerTakes(i, how, done)
  PROVE  SettingsInv'
<1>0. /\ seCalls \in Seq(CallRecords) /\ \A j \in 1..Len(seCalls) : seCalls[j] \in CallRecords
      /\ CallFits(seCalls[i], seCrossed, SeenNow)
      /\ CallsSound(seCalls, seCrossed, SeenNow, Subjects)
  BY DEF SettingsInv, CallsSound
<1>1. PICK f \in CallRecords : f = seCalls[i]
  BY <1>0
<1>2. /\ f.how = "none" /\ (how = "ok" => done) /\ (how = "refused" => f.op = "save" /\ ~done)
      /\ IF done THEN Served(f) ELSE UNCHANGED seServerVars
      /\ UNCHANGED <<seProviders, seShown, seToolView, seEditing, seWaiting, seLoading, seCrossed>>
  BY <1>1 DEF ServerTakes, seStoreVars, seTabVars
<1>3. PICK d : d = [f EXCEPT !.how = how, !.got = IF how = "ok" THEN Report(f.op) ELSE {}]
  OBVIOUS
<1>4. /\ seKeys \subseteq SeValues /\ seEnabled \subseteq SeValues /\ seActive \in SeValues
  BY DEF SettingsInv, SeTyped
<1>5. (IF how = "ok" THEN Report(f.op) ELSE {}) \in SUBSET SeValues
  BY <1>4 DEF Report
<1>6. d \in CallRecords
  BY <1>3, <1>5 DEF CallRecords
<1>7. /\ d.op = f.op /\ d.x = f.x /\ d.on = f.on /\ d.how = how /\ d.alone = f.alone /\ d.tab = f.tab /\ d.dialog = f.dialog
      /\ d.got = IF how = "ok" THEN Report(f.op) ELSE {}
  BY <1>3 DEF CallRecords
<1>8. seCalls' = [seCalls EXCEPT ![i] = d]
  BY <1>0, <1>1, <1>3 DEF ServerTakes
<1>9. /\ seKeys' = IF done /\ f.op = "save" THEN seKeys \cup {f.x}
                   ELSE IF done /\ f.op = "remove" THEN seKeys \ {f.x} ELSE seKeys
      /\ seActive' = IF done /\ f.op = "choose" THEN f.x ELSE seActive
      /\ seEnabled' = IF done /\ f.op = "toggle" THEN Toggled(seEnabled, f) ELSE seEnabled
  BY <1>2 DEF Served, Toggled, seServerVars
<1>10. SeTyped'
  <2>1. f.x \in SeValues
    BY DEF CallRecords
  <2>2. seKeys' \subseteq SeValues /\ seActive' \in SeValues
    BY <1>4, <1>9, <2>1
  <2>3. seEnabled' \subseteq SeValues
    BY <1>4, <1>9, <2>1 DEF Toggled
  <2> QED
    BY <1>2, <2>2, <2>3 DEF SettingsInv, SeTyped
<1>11. PICK v, w : v = SeenNow /\ w = SeenNow'
  OBVIOUS
<1>12. /\ v.keys = seKeys /\ v.active = seActive /\ v.enabled = seEnabled
       /\ v.providers = seProviders /\ v.shown = seShown /\ v.tools = seToolView
       /\ w.keys = seKeys' /\ w.active = seActive' /\ w.enabled = seEnabled'
       /\ w.providers = seProviders /\ w.shown = seShown /\ w.tools = seToolView
  BY <1>2, <1>11 DEF SeenNow
<1>13. CallFits(f, seCrossed, v)
  BY <1>0, <1>1, <1>11
<1>14. CallFits(d, seCrossed, w)
  <2>1. d.how = "ok" =>
          /\ d.op \in {"load", "start"} => d.got = w.keys
          /\ d.op = "choose" => d.x = w.active
          /\ d.op = "status" => d.got = w.enabled
    BY <1>2, <1>7, <1>9, <1>12 DEF Report
  <2>2. d.op # "greet"
    BY <1>2, <1>7, <1>13 DEF CallFits
  <2>3. "keys" \notin seCrossed /\ d.op \in {"save", "remove"} /\ d.how \in {"none", "refused"} => w.providers = w.keys
    BY <1>2, <1>7, <1>9, <1>12, <1>13 DEF CallFits
  <2>4. ASSUME "tools" \notin seCrossed, w.tools.has, d.op \in {"status", "toggle"}
        PROVE  d.op = "toggle" /\ d.tab /\ d.how # "none" /\ (d.how = "ok" => Toggled(w.tools.on, d) = w.enabled)
    <3>1. f.op = "toggle" /\ f.tab /\ seToolView.on = seEnabled
      BY <1>2, <1>7, <1>12, <1>13, <2>4 DEF CallFits
    <3>2. Toggled(w.tools.on, d) = Toggled(seEnabled, f)
      BY <1>7, <1>12, <3>1 DEF Toggled
    <3> QED
      BY <1>2, <1>7, <1>9, <1>12, <3>1, <3>2
  <2>5. Subject(d.op) \notin seCrossed => d.alone
    BY <1>7, <1>13 DEF CallFits
  <2>6. d.how = "refused" => d.op = "save"
    BY <1>2, <1>7
  <2> QED
    BY <2>1, <2>2, <2>3, <2>4, <2>5, <2>6 DEF CallFits
<1>15. /\ Subject(f.op) # "keys" => w.keys = v.keys
       /\ Subject(f.op) # "model" => w.active = v.active
       /\ Subject(f.op) # "tools" => w.enabled = v.enabled
  BY <1>9, <1>12 DEF Subject
<1>16. CallsSound(seCalls', seCrossed, w, Subjects) /\ (SavesHere(seCalls) => SavesHere(seCalls')) /\ (LoadsHere(seCalls) => LoadsHere(seCalls'))
  <2>1. CallsSound(seCalls, seCrossed, v, Subjects)
    BY <1>0, <1>11
  <2>2. d.op = seCalls[i].op /\ d.alone = seCalls[i].alone /\ d.tab = seCalls[i].tab /\ d.dialog = seCalls[i].dialog
    BY <1>1, <1>7
  <2>3. w.providers = v.providers /\ w.shown = v.shown /\ w.tools = v.tools
    BY <1>12
  <2>4. /\ Subject(seCalls[i].op) # "keys" => w.keys = v.keys
        /\ Subject(seCalls[i].op) # "model" => w.active = v.active
        /\ Subject(seCalls[i].op) # "tools" => w.enabled = v.enabled
    BY <1>1, <1>15
  <2> QED
    BY <1>6, <1>8, <1>14, <2>1, <2>2, <2>3, <2>4, CallTakenSound
<1> QED
  BY <1>2, <1>10, <1>11, <1>16 DEF SettingsInv

\* A request that the dialog or the page makes.
LEMMA RequestKeeps ==
  ASSUME SettingsInv, NEW op \in CallOps \ {"greet"}, NEW x \in SeValues, NEW on, on \in BOOLEAN, Requests(op, x, on),
         op = "status" => ~seToolView.has,
         UNCHANGED <<seServerVars, seProviders, seShown, seToolView>>, seEditing' = seEditing,
         seLoading' => seLoading \/ op = "save",
         seWaiting' => seWaiting \/ op \in {"list", "diagnose"}
  PROVE  SettingsInv'
<1>1. PICK v : v = SeenNow
  OBVIOUS
<1>2. SeenNow' = v /\ v.tools = seToolView
  BY <1>1 DEF SeenNow, seServerVars
<1>3. CallsSound(seCalls, seCrossed, v, Subjects)
  BY <1>1 DEF SettingsInv
<1>4. seCalls' = Asked(seCalls, op, x, on) /\ seCrossed' = seCrossed \cup Crossing(seCalls, op)
  BY DEF Requests
<1>5. op \in {"save", "remove", "toggle"} => Subject(op) \in Subjects
  BY DEF Subject, Subjects
<1>6. /\ CallsSound(seCalls', seCrossed', v, Subjects \cup {Subject(op)})
      /\ SavesHere(seCalls) \/ op = "save" => SavesHere(seCalls')
      /\ LoadsHere(seCalls) \/ op \in {"list", "diagnose"} => LoadsHere(seCalls')
  BY <1>2, <1>3, <1>4, <1>5, RequestJoinsSound
<1>7. CallsSound(seCalls', seCrossed', v, Subjects)
  BY <1>6 DEF CallsSound
<1>8. SeTyped'
  BY DEF SettingsInv, SeTyped, seServerVars
<1> QED
  BY <1>2, <1>6, <1>7, <1>8 DEF SettingsInv

\* The buttons of the dialog.
LEMMA ButtonsKeep ==
  ASSUME SettingsInv,
         \/ OpenSettings \/ TypeKeyIn \/ HandleSaveKey \/ RefreshModels \/ RunDiagnosticsAgain
         \/ \E p \in SeProviders : EditKey(p) \/ HandleRemoveKey(p) \/ ChooseModel(p)
         \/ \E t \in SeTools : ToggleTool(t)
  PROVE  SettingsInv'
<1>0. /\ {"load", "save", "remove", "choose", "toggle", "list", "diagnose"} \subseteq CallOps \ {"greet"}
      /\ 0 \in SeValues /\ SeProviders \subseteq SeValues /\ SeTools \subseteq SeValues
  BY DEF CallOps, SeValues
<1>1. /\ seEditing \in [p : SeValues, typed : BOOLEAN]
      /\ seToolView \in [has : BOOLEAN, on : SUBSET SeValues]
  BY DEF SettingsInv, SeTyped
<1>2. CASE OpenSettings
  <2>1. PICK op, x, on : op = "load" /\ x = 0 /\ on = TRUE
    OBVIOUS
  <2>2. op \in CallOps \ {"greet"} /\ x \in SeValues /\ on \in BOOLEAN
    BY <1>0, <2>1
  <2>3. Requests(op, x, on) /\ UNCHANGED <<seServerVars, seStoreVars, seTabVars>> /\ seLoading' = FALSE
    BY <1>2, <2>1 DEF OpenSettings
  <2>4. /\ UNCHANGED <<seServerVars, seProviders, seShown, seToolView>> /\ seEditing' = seEditing
        /\ seWaiting' = seWaiting /\ op # "status"
    BY <2>1, <2>3 DEF seStoreVars, seTabVars
  <2> QED
    BY <2>2, <2>3, <2>4, RequestKeeps
<1>3. ASSUME UNCHANGED <<seServerVars, seStoreVars, seLoading, seWaiting, seToolView, seCalls, seCrossed>>,
             seEditing' \in [p : SeValues, typed : BOOLEAN]
      PROVE  SettingsInv'
  <2>1. SeenNow' = SeenNow
    BY <1>3 DEF SeenNow, seServerVars, seStoreVars
  <2>2. SeTyped'
    BY <1>3 DEF SettingsInv, SeTyped, seServerVars
  <2> QED
    BY <1>3, <2>1, <2>2 DEF SettingsInv
<1>4. CASE TypeKeyIn
  <2>1. seEditing' = [seEditing EXCEPT !.typed = TRUE]
    BY <1>4 DEF TypeKeyIn
  <2>2. seEditing' \in [p : SeValues, typed : BOOLEAN]
    BY <1>1, <2>1
  <2> QED
    BY <1>3, <1>4, <2>2 DEF TypeKeyIn
<1>5. ASSUME NEW p \in SeProviders, EditKey(p) PROVE SettingsInv'
  <2>1. seEditing' \in [p : SeValues, typed : BOOLEAN]
    BY <1>0, <1>5 DEF EditKey, Blank
  <2> QED
    BY <1>3, <1>5, <2>1 DEF EditKey
<1>6. CASE HandleSaveKey
  <2>1. PICK op, x, on : op = "save" /\ x = seEditing.p /\ on = TRUE
    OBVIOUS
  <2>2. op \in CallOps \ {"greet"} /\ x \in SeValues /\ on \in BOOLEAN
    BY <1>0, <1>1, <2>1
  <2>3. Requests(op, x, on) /\ UNCHANGED <<seServerVars, seStoreVars, seTabVars>>
    BY <1>6, <2>1 DEF HandleSaveKey
  <2>4. /\ UNCHANGED <<seServerVars, seProviders, seShown, seToolView>> /\ seEditing' = seEditing
        /\ seWaiting' = seWaiting /\ op # "status"
    BY <2>1, <2>3 DEF seStoreVars, seTabVars
  <2> QED
    BY <2>1, <2>2, <2>3, <2>4, RequestKeeps
<1>7. CASE RefreshModels \/ RunDiagnosticsAgain
  <2>1. PICK op, x, on : op \in {"list", "diagnose"} /\ x = 0 /\ on = TRUE /\ Requests(op, x, on)
    BY <1>7 DEF RefreshModels, RunDiagnosticsAgain
  <2>2. op \in CallOps \ {"greet"} /\ x \in SeValues /\ on \in BOOLEAN
    BY <1>0, <2>1
  <2>3. UNCHANGED <<seServerVars, seStoreVars, seEditing, seToolView, seLoading>>
    BY <1>7 DEF RefreshModels, RunDiagnosticsAgain
  <2>4. /\ UNCHANGED <<seServerVars, seProviders, seShown, seToolView>> /\ seEditing' = seEditing
        /\ seLoading' = seLoading /\ op # "status"
    BY <2>1, <2>3 DEF seStoreVars
  <2> QED
    BY <2>1, <2>2, <2>4, RequestKeeps
<1>8. ASSUME NEW p \in SeProviders, HandleRemoveKey(p) \/ ChooseModel(p) PROVE SettingsInv'
  <2>1. PICK op, x, on : op \in {"remove", "choose"} /\ x = p /\ on = TRUE /\ Requests(op, x, on)
    BY <1>8 DEF HandleRemoveKey, ChooseModel
  <2>2. op \in CallOps \ {"greet"} /\ x \in SeValues /\ on \in BOOLEAN
    BY <1>0, <2>1
  <2>3. UNCHANGED <<seServerVars, seStoreVars, seTabVars, seLoading>>
    BY <1>8 DEF HandleRemoveKey, ChooseModel
  <2>4. /\ UNCHANGED <<seServerVars, seProviders, seShown, seToolView>> /\ seEditing' = seEditing
        /\ seLoading' = seLoading /\ seWaiting' = seWaiting /\ op # "status"
    BY <2>1, <2>3 DEF seStoreVars, seTabVars
  <2> QED
    BY <2>1, <2>2, <2>4, RequestKeeps
<1>9. ASSUME NEW t \in SeTools, ToggleTool(t) PROVE SettingsInv'
  <2>1. PICK on \in BOOLEAN : on <=> t \notin seToolView.on
    OBVIOUS
  <2>2. (t \notin seToolView.on) \in BOOLEAN
    OBVIOUS
  <2>3. on = (t \notin seToolView.on)
    BY Zenon, <2>1, <2>2
  <2>4. Requests("toggle", t, on)
    BY <1>9, <2>3 DEF ToggleTool
  <2>5. PICK op : op = "toggle"
    OBVIOUS
  <2>6. op \in CallOps \ {"greet"} /\ t \in SeValues /\ on \in BOOLEAN /\ Requests(op, t, on)
    BY <1>0, <2>4, <2>5
  <2>7. UNCHANGED <<seServerVars, seStoreVars, seTabVars, seLoading>>
    BY <1>9 DEF ToggleTool
  <2>8. /\ UNCHANGED <<seServerVars, seProviders, seShown, seToolView>> /\ seEditing' = seEditing
        /\ seLoading' = seLoading /\ seWaiting' = seWaiting /\ op # "status"
    BY <2>5, <2>7 DEF seStoreVars, seTabVars
  <2> QED
    BY <2>6, <2>8, RequestKeeps
<1> QED
  BY <1>2, <1>4, <1>5, <1>6, <1>7, <1>8, <1>9

\* A tab or the dialog that goes.
LEMMA TabsKeep ==
  ASSUME SettingsInv, CloseSettings \/ (\E tab \in SettingsTabs : PickTab(tab))
  PROVE  SettingsInv'
<1>1. PICK v, w : v = SeenNow /\ w = SeenNow'
  OBVIOUS
<1>2. TabGoes /\ UNCHANGED <<seServerVars, seStoreVars>>
  BY DEF CloseSettings, PickTab
<1>3. /\ w.keys = v.keys /\ w.active = v.active /\ w.enabled = v.enabled
      /\ w.providers = v.providers /\ w.shown = v.shown /\ ~w.tools.has
  BY <1>1, <1>2 DEF SeenNow, TabGoes, NoStatus, seServerVars, seStoreVars
<1>4. CallsSound(seCalls, seCrossed, v, Subjects)
  BY <1>1 DEF SettingsInv
<1>5. SeTyped'
  <2>1. seEditing' \in [p : SeValues, typed : BOOLEAN] /\ seToolView' \in [has : BOOLEAN, on : SUBSET SeValues]
    BY <1>2 DEF TabGoes, Blank, NoStatus, SeValues
  <2> QED
    BY <1>2, <2>1 DEF SettingsInv, SeTyped, seServerVars
<1>6. CASE CloseSettings
  <2>1. PICK all \in BOOLEAN : all = TRUE
    OBVIOUS
  <2>2. seCalls' = Left(seCalls, all) /\ seCrossed' = seCrossed /\ seLoading' = FALSE /\ seWaiting' = FALSE
    BY <1>6, <2>1 DEF CloseSettings
  <2>3. CallsSound(seCalls', seCrossed', w, Subjects)
    BY <1>3, <1>4, <2>2, CallsLeftSound
  <2> QED
    BY <1>1, <1>5, <2>2, <2>3 DEF SettingsInv
<1>7. ASSUME NEW tab \in SettingsTabs, PickTab(tab) PROVE SettingsInv'
  <2>1. PICK all \in BOOLEAN : all = FALSE
    OBVIOUS
  <2>2. PICK q : q = Left(seCalls, all)
    OBVIOUS
  <2>3. /\ CallsSound(q, seCrossed, w, Subjects)
        /\ SavesHere(seCalls) => SavesHere(q)
    BY <1>3, <1>4, <2>1, <2>2, CallsLeftSound
  <2>4. seLoading' = seLoading /\ (seWaiting' <=> tab = "diagnostics")
    BY <1>7 DEF PickTab
  <2>5. CASE tab \in {"tools", "diagnostics"}
    <3>1. PICK op, x, on : op = LoadsAs(tab) /\ x = 0 /\ on = TRUE
      OBVIOUS
    <3>2. op \in CallOps \ {"greet"} /\ x \in SeValues /\ on \in BOOLEAN /\ op \notin {"save", "remove", "toggle"}
      BY <3>1 DEF LoadsAs, CallOps, SeValues
    <3>3. seCalls' = Asked(q, op, x, on) /\ seCrossed' = seCrossed \cup Crossing(q, op)
      BY <1>7, <2>1, <2>2, <2>5, <3>1 DEF PickTab
    <3>4. /\ CallsSound(seCalls', seCrossed', w, Subjects \cup {Subject(op)})
          /\ SavesHere(q) => SavesHere(seCalls')
          /\ op \in {"list", "diagnose"} => LoadsHere(seCalls')
      BY <1>3, <2>3, <3>2, <3>3, RequestJoinsSound
    <3>5. CallsSound(seCalls', seCrossed', w, Subjects)
      BY <3>4 DEF CallsSound
    <3>6. tab = "diagnostics" => LoadsHere(seCalls')
      BY <3>1, <3>4 DEF LoadsAs
    <3> QED
      BY <1>1, <1>5, <2>3, <2>4, <3>4, <3>5, <3>6 DEF SettingsInv
  <2>6. CASE tab \notin {"tools", "diagnostics"}
    <3>1. seCalls' = q /\ seCrossed' = seCrossed
      BY <1>7, <2>1, <2>2, <2>6 DEF PickTab
    <3> QED
      BY <1>1, <1>5, <2>3, <2>4, <2>6, <3>1 DEF SettingsInv
  <2> QED
    BY <2>5, <2>6
<1> QED
  BY <1>6, <1>7

\* A new connection: the first load, and the greeting.
LEMMA PageConnectsKeeps ==
  ASSUME SettingsInv, NEW back \in BOOLEAN, PageConnects(back)
  PROVE  SettingsInv'
<1>1. PICK v : v = SeenNow
  OBVIOUS
<1>2. UNCHANGED <<seServerVars, seStoreVars, seTabVars, seLoading>>
  BY DEF PageConnects
<1>3. SeenNow' = v /\ v.active = seActive
  BY <1>1, <1>2 DEF SeenNow, seServerVars, seStoreVars, seTabVars
<1>4. CallsSound(seCalls, seCrossed, v, Subjects)
  BY <1>1 DEF SettingsInv
<1>5. PICK g : g = Asked(seCalls, "greet", 0, TRUE)
  OBVIOUS
<1>6. PICK q : q = IF back THEN [g EXCEPT ![Len(g)].how = "ok", ![Len(g)].got = {v.active}] ELSE seCalls
  OBVIOUS
<1>7. PICK D : D = IF back THEN seCrossed \cup Crossing(seCalls, "greet") ELSE seCrossed
  OBVIOUS
<1>8. seActive \in SeValues /\ 0 \in SeValues
  BY DEF SettingsInv, SeTyped, SeValues
<1>9. /\ CallsSound(q, D, v, Subjects) /\ Crossing(q, "start") = Crossing(seCalls, "start")
      /\ SavesHere(seCalls) => SavesHere(q)
      /\ LoadsHere(seCalls) => LoadsHere(q)
  <2>1. CASE back
    <3>1. q = [g EXCEPT ![Len(g)].how = "ok", ![Len(g)].got = {v.active}] /\ D = seCrossed \cup Crossing(seCalls, "greet")
      BY <1>6, <1>7, <2>1
    <3>2. v.active \in SeValues /\ 0 \in SeValues
      BY <1>3, <1>8
    <3>3. PICK r : r = [g EXCEPT ![Len(g)].how = "ok", ![Len(g)].got = {v.active}]
      OBVIOUS
    <3>4. /\ CallsSound(r, seCrossed \cup Crossing(seCalls, "greet"), v, Subjects)
          /\ Crossing(r, "start") = Crossing(seCalls, "start")
          /\ SavesHere(seCalls) => SavesHere(r)
          /\ LoadsHere(seCalls) => LoadsHere(r)
      BY <1>4, <1>5, <3>2, <3>3, GreetingSound
    <3> QED
      BY <3>1, <3>3, <3>4
  <2>2. CASE ~back
    BY <1>4, <1>6, <1>7, <2>2
  <2> QED
    BY <2>1, <2>2
<1>10. PICK op, x, on : op = "start" /\ x = 0 /\ on = TRUE
  OBVIOUS
<1>11. op \in CallOps \ {"greet"} /\ x \in SeValues /\ on \in BOOLEAN /\ op \notin {"save", "remove", "toggle", "status"}
  BY <1>8, <1>10 DEF CallOps
<1>12. seCalls' = Asked(q, op, x, on) /\ seCrossed' = D \cup Crossing(q, op)
  <2>1. seCalls' = Asked(q, op, x, on)
    BY <1>3, <1>5, <1>6, <1>10 DEF PageConnects
  <2>2. seCrossed' = seCrossed \cup Crossing(seCalls, "start") \cup (IF back THEN Crossing(seCalls, "greet") ELSE {})
    BY DEF PageConnects
  <2> QED
    BY <1>7, <1>9, <1>10, <2>1, <2>2
<1>13. /\ CallsSound(seCalls', seCrossed', v, Subjects \cup {Subject(op)})
       /\ SavesHere(q) => SavesHere(seCalls')
       /\ LoadsHere(q) => LoadsHere(seCalls')
  BY <1>9, <1>11, <1>12, RequestJoinsSound
<1>14. CallsSound(seCalls', seCrossed', v, Subjects)
  BY <1>13 DEF CallsSound
<1>15. SeTyped'
  BY <1>2 DEF SettingsInv, SeTyped, seServerVars, seTabVars
<1> QED
  BY <1>2, <1>3, <1>9, <1>13, <1>14, <1>15 DEF SettingsInv, seTabVars

\* What an answer settles: what it was alone about, or what it lost.
LEMMA AnswerSettles ==
  ASSUME SettingsInv, NEW i \in 1..Len(seCalls), NEW ops, AnswerTo(i, ops), NEW c, c = seCalls[i]
  PROVE  /\ c \in CallRecords /\ CallFits(c, seCrossed, SeenNow) /\ c.how \in {"ok", "refused", "lost"} /\ c.op \in ops
         /\ \A s : s \notin Settled(i) /\ s \in seCrossed => c.alone /\ s = Subject(c.op)
         /\ \A s : s \notin seCrossed \cup Missed(i) => s \notin seCrossed
         /\ Subject(c.op) \notin Settled(i) => c.how = "refused" \/ (c.how = "ok" /\ c.alone)
         /\ Subject(c.op) \notin seCrossed \cup Missed(i) => c.how # "lost" /\ Subject(c.op) \notin seCrossed
         /\ UNCHANGED seServerVars
<1>1. c \in CallRecords /\ CallFits(c, seCrossed, SeenNow)
  BY DEF SettingsInv, CallsSound
<1>2. c.how # "none" /\ c.op \in ops /\ UNCHANGED seServerVars
  BY DEF AnswerTo
<1>3. c.how \in {"ok", "refused", "lost"}
  BY <1>1, <1>2 DEF CallRecords
<1>4. Settled(i) = IF c.how = "ok" /\ c.alone THEN seCrossed \ {Subject(c.op)} ELSE seCrossed \cup Missed(i)
  BY DEF Settled, Ok
<1>5. Missed(i) = IF c.how = "lost" THEN {Subject(c.op)} ELSE {}
  BY DEF Missed
<1>6. Subject(c.op) \notin seCrossed => c.alone
  BY <1>1 DEF CallFits
<1>7. \A s : s \notin Settled(i) /\ s \in seCrossed => c.alone /\ s = Subject(c.op)
  BY <1>4
<1>8. Subject(c.op) \notin Settled(i) => c.how = "refused" \/ (c.how = "ok" /\ c.alone)
  BY <1>3, <1>4, <1>5, <1>6
<1> QED
  BY <1>1, <1>2, <1>3, <1>5, <1>7, <1>8

\* An answer to a request, and the view it leaves.
LEMMA AnswerSound ==
  ASSUME SettingsInv, NEW i \in 1..Len(seCalls), NEW c, c = seCalls[i], NEW D,
         \A s : s \notin D /\ s \in seCrossed => c.alone /\ s = Subject(c.op),
         UNCHANGED seServerVars,
         Subject(c.op) # "keys" => seProviders' = seProviders,
         Subject(c.op) # "model" => seShown' = seShown,
         Subject(c.op) # "tools" => seToolView' = seToolView,
         NEW T, T \subseteq Subjects, Subject(c.op) \in T \ D => AgreesOn(Subject(c.op), SeenNow')
  PROVE  LET r == RemoveAt(seCalls, i) IN
           /\ CallsSound(r, D, SeenNow', T)
           /\ SavesHere(seCalls) /\ ~(c.op = "save" /\ c.dialog) => SavesHere(r)
           /\ LoadsHere(seCalls) /\ ~(c.op \in {"list", "diagnose"} /\ c.tab) => LoadsHere(r)
<1>1. PICK v, w : v = SeenNow /\ w = SeenNow'
  OBVIOUS
<1>2. /\ v.keys = seKeys /\ v.active = seActive /\ v.enabled = seEnabled
      /\ v.providers = seProviders /\ v.shown = seShown /\ v.tools = seToolView
      /\ w.keys = seKeys /\ w.active = seActive /\ w.enabled = seEnabled
      /\ w.providers = seProviders' /\ w.shown = seShown' /\ w.tools = seToolView'
  BY <1>1 DEF SeenNow, seServerVars
<1>3. w.keys = v.keys /\ w.active = v.active /\ w.enabled = v.enabled
  BY <1>2
<1>4. /\ Subject(seCalls[i].op) # "keys" => w.providers = v.providers
      /\ Subject(seCalls[i].op) # "model" => w.shown = v.shown
      /\ Subject(seCalls[i].op) # "tools" => w.tools = v.tools
  BY <1>2
<1>5. CallsSound(seCalls, seCrossed, v, Subjects)
  BY <1>1 DEF SettingsInv
<1>6. Subject(seCalls[i].op) \in T \ D => AgreesOn(Subject(seCalls[i].op), w)
  BY <1>1
<1>7. \A s : s \notin D /\ s \in seCrossed => seCalls[i].alone /\ s = Subject(seCalls[i].op)
  OBVIOUS
<1>8. PICK r : r = RemoveAt(seCalls, i)
  OBVIOUS
<1>9. /\ CallsSound(r, D, w, T)
      /\ SavesHere(seCalls) /\ ~(seCalls[i].op = "save" /\ seCalls[i].dialog) => SavesHere(r)
      /\ LoadsHere(seCalls) /\ ~(seCalls[i].op \in {"list", "diagnose"} /\ seCalls[i].tab) => LoadsHere(r)
  BY <1>3, <1>4, <1>5, <1>6, <1>7, <1>8, CallGoneSound
<1> QED
  BY <1>1, <1>8, <1>9

LEMMA KeyAnsweredKeeps ==
  ASSUME SettingsInv, NEW i \in 1..Len(seCalls), KeyAnswered(i)
  PROVE  SettingsInv'
<1>1. PICK c : c = seCalls[i]
  OBVIOUS
<1>2. PICK rest : rest = RemoveAt(seCalls, i)
  OBVIOUS
<1>3. PICK D : D = seCrossed \cup Missed(i)
  OBVIOUS
<1>4. /\ AnswerTo(i, {"save", "remove"}) /\ UNCHANGED <<seStoreVars, seWaiting, seToolView>>
      /\ seLoading' = (seLoading /\ ~(c.op = "save" /\ c.dialog))
      /\ seEditing' \in {Blank, seEditing}
      /\ seCalls' = IF c.how = "ok" THEN Asked(rest, "load", 0, TRUE) ELSE rest
      /\ seCrossed' = D \cup (IF c.how = "ok" THEN Crossing(rest, "load") ELSE {})
  BY <1>1, <1>2, <1>3 DEF KeyAnswered, Ok
<1>5. /\ c.how \in {"ok", "refused", "lost"} /\ c.op \in {"save", "remove"} /\ CallFits(c, seCrossed, SeenNow)
      /\ \A s : s \notin D => s \notin seCrossed
      /\ Subject(c.op) \notin D => c.how # "lost" /\ Subject(c.op) \notin seCrossed
      /\ UNCHANGED seServerVars
  BY <1>1, <1>3, <1>4, AnswerSettles
<1>6. Subject(c.op) = "keys"
  BY <1>5 DEF Subject
<1>7. SeenNow' = SeenNow
  BY <1>4, <1>5 DEF SeenNow, seServerVars, seStoreVars
<1>8. PICK T : T = IF c.how = "ok" THEN Subjects \ {"keys"} ELSE Subjects
  OBVIOUS
<1>9. Subject(c.op) \in T \ D => AgreesOn(Subject(c.op), SeenNow')
  <2> SUFFICES ASSUME "keys" \in T \ D PROVE AgreesOn("keys", SeenNow)
    BY <1>6, <1>7
  <2>1. c.how = "refused" /\ "keys" \notin seCrossed
    BY <1>5, <1>6, <1>8
  <2>2. SeenNow.providers = SeenNow.keys
    BY <1>5, <2>1 DEF CallFits
  <2> QED
    BY <2>2 DEF AgreesOn
<1>10. /\ CallsSound(rest, D, SeenNow', T)
       /\ SavesHere(seCalls) /\ ~(c.op = "save" /\ c.dialog) => SavesHere(rest)
       /\ LoadsHere(seCalls) => LoadsHere(rest)
  <2>1. T \subseteq Subjects
    BY <1>8
  <2>2. seProviders' = seProviders /\ seShown' = seShown /\ seToolView' = seToolView
    BY <1>4 DEF seStoreVars
  <2> QED
    BY <1>1, <1>2, <1>5, <1>9, <2>1, <2>2, AnswerSound
<1>11. SeTyped'
  <2>1. Blank \in [p : SeValues, typed : BOOLEAN]
    BY DEF Blank, SeValues
  <2>2. seEditing' \in [p : SeValues, typed : BOOLEAN]
    BY <1>4, <2>1 DEF SettingsInv, SeTyped
  <2> QED
    BY <1>4, <1>5, <2>2 DEF SettingsInv, SeTyped, seServerVars
<1>12. /\ CallsSound(seCalls', seCrossed', SeenNow', Subjects)
       /\ SavesHere(rest) => SavesHere(seCalls')
       /\ LoadsHere(rest) => LoadsHere(seCalls')
  <2>1. CASE c.how = "ok"
    <3>1. PICK op, x, on : op = "load" /\ x = 0 /\ on = TRUE
      OBVIOUS
    <3>2. op \in CallOps \ {"greet"} /\ x \in SeValues /\ on \in BOOLEAN /\ op \notin {"save", "remove", "toggle", "status"}
      BY <3>1 DEF CallOps, SeValues
    <3>3. seCalls' = Asked(rest, op, x, on) /\ seCrossed' = D \cup Crossing(rest, op)
      BY <1>4, <2>1, <3>1
    <3>4. /\ CallsSound(seCalls', seCrossed', SeenNow', T \cup {Subject(op)})
          /\ SavesHere(rest) => SavesHere(seCalls')
          /\ LoadsHere(rest) => LoadsHere(seCalls')
      BY <1>10, <3>2, <3>3, RequestJoinsSound
    <3>5. Subjects \subseteq T \cup {Subject(op)}
      BY <1>8, <2>1, <3>1 DEF Subjects, Subject
    <3> QED
      BY <3>4, <3>5 DEF CallsSound
  <2>2. CASE c.how # "ok"
    <3>1. seCalls' = rest /\ seCrossed' = D /\ T = Subjects
      BY <1>4, <1>8, <2>2
    <3> QED
      BY <1>10, <3>1
  <2> QED
    BY <2>1, <2>2
<1>13. seLoading' => seLoading /\ ~(c.op = "save" /\ c.dialog)
  BY <1>4
<1>14. seWaiting' = seWaiting
  BY <1>4
<1> QED
  BY <1>10, <1>11, <1>12, <1>13, <1>14 DEF SettingsInv

\* An answer that only changes what is shown.
LEMMA ViewAnswerKeeps ==
  ASSUME SettingsInv, NEW i \in 1..Len(seCalls), NEW c, c = seCalls[i],
         \A s : s \notin seCrossed' /\ s \in seCrossed => c.alone /\ s = Subject(c.op),
         UNCHANGED seServerVars, Removed(i), seLoading' = seLoading, seEditing' = seEditing,
         seWaiting' => seWaiting /\ ~(c.op \in {"list", "diagnose"} /\ c.tab), c.op # "save",
         Subject(c.op) # "keys" => seProviders' = seProviders,
         Subject(c.op) # "model" => seShown' = seShown,
         Subject(c.op) # "tools" => seToolView' = seToolView,
         seToolView' \in [has : BOOLEAN, on : SUBSET SeValues],
         Subject(c.op) \in Subjects /\ Subject(c.op) \notin seCrossed' => AgreesOn(Subject(c.op), SeenNow')
  PROVE  SettingsInv'
<1>1. PICK D, r : D = seCrossed' /\ r = RemoveAt(seCalls, i)
  OBVIOUS
<1>2. \A s : s \notin D /\ s \in seCrossed => c.alone /\ s = Subject(c.op)
  BY <1>1
<1>3. Subject(c.op) \in Subjects \ D => AgreesOn(Subject(c.op), SeenNow')
  BY <1>1
<1>4. /\ CallsSound(r, D, SeenNow', Subjects)
      /\ SavesHere(seCalls) /\ ~(c.op = "save" /\ c.dialog) => SavesHere(r)
      /\ LoadsHere(seCalls) /\ ~(c.op \in {"list", "diagnose"} /\ c.tab) => LoadsHere(r)
  BY <1>1, <1>2, <1>3, AnswerSound
<1>5. seCalls' = r
  BY <1>1 DEF Removed
<1>6. SeTyped'
  BY DEF SettingsInv, SeTyped, seServerVars
<1> QED
  BY <1>1, <1>4, <1>5, <1>6 DEF SettingsInv

LEMMA ViewAnsweredKeeps ==
  ASSUME SettingsInv, NEW i \in 1..Len(seCalls),
         LoadAnswered(i) \/ ModelAnswered(i) \/ StatusAnswered(i) \/ ToggleAnswered(i) \/ TabAnswered(i)
  PROVE  SettingsInv'
<1>1. PICK c : c = seCalls[i]
  OBVIOUS
<1>2. /\ Removed(i) /\ seLoading' = seLoading /\ seEditing' = seEditing
      /\ \E ops : AnswerTo(i, ops)
  BY DEF LoadAnswered, ModelAnswered, StatusAnswered, ToggleAnswered, TabAnswered, seTabVars
<1>3. PICK ops : AnswerTo(i, ops)
  BY <1>2
<1>4. /\ c \in CallRecords /\ CallFits(c, seCrossed, SeenNow) /\ c.how \in {"ok", "refused", "lost"}
      /\ \A s : s \notin Settled(i) /\ s \in seCrossed => c.alone /\ s = Subject(c.op)
      /\ \A s : s \notin seCrossed \cup Missed(i) => s \notin seCrossed
      /\ Subject(c.op) \notin Settled(i) => c.how = "refused" \/ (c.how = "ok" /\ c.alone)
      /\ Subject(c.op) \notin seCrossed \cup Missed(i) => c.how # "lost" /\ Subject(c.op) \notin seCrossed
      /\ UNCHANGED seServerVars
  BY <1>1, <1>3, AnswerSettles
<1>5. c.how = "refused" => c.op = "save"
  BY <1>4 DEF CallFits
<1>6. seToolView \in [has : BOOLEAN, on : SUBSET SeValues] /\ c.got \subseteq SeValues /\ c.x \in SeValues
  BY <1>4 DEF SettingsInv, SeTyped, CallRecords
<1>7. PICK v, w : v = SeenNow /\ w = SeenNow'
  OBVIOUS
<1>8. /\ v.keys = seKeys /\ v.active = seActive /\ v.enabled = seEnabled /\ v.tools = seToolView
      /\ w.keys = seKeys /\ w.active = seActive /\ w.enabled = seEnabled
      /\ w.providers = seProviders' /\ w.shown = seShown' /\ w.tools = seToolView'
  BY <1>4, <1>7 DEF SeenNow, seServerVars
<1>9. CallFits(c, seCrossed, v)
  BY <1>4, <1>7
<1>10. CASE LoadAnswered(i)
  <2>1. /\ c.op \in {"load", "start"} /\ seCrossed' = Settled(i)
        /\ seProviders' = IF c.how = "ok" THEN c.got ELSE seProviders
        /\ UNCHANGED <<seShown, seWaiting, seToolView>>
    BY <1>1, <1>10 DEF LoadAnswered, AnswerTo, Ok, seTabVars
  <2>2. Subject(c.op) = "keys" /\ c.op \notin {"save", "list", "diagnose"}
    BY <2>1 DEF Subject
  <2>3. "keys" \notin seCrossed' => seProviders' = seKeys
    BY <1>4, <1>5, <1>8, <1>9, <2>1, <2>2 DEF CallFits
  <2>4. "keys" \notin seCrossed' => AgreesOn("keys", SeenNow')
    BY <1>7, <1>8, <2>3 DEF AgreesOn
  <2> QED
    BY <1>1, <1>2, <1>4, <1>6, <2>1, <2>2, <2>4, ViewAnswerKeeps
<1>11. CASE ModelAnswered(i)
  <2>1. /\ c.op \in {"choose", "greet"} /\ seCrossed' = Settled(i)
        /\ seShown' = IF c.how # "ok" THEN seShown ELSE IF c.op = "choose" THEN c.x ELSE CHOOSE m \in c.got : TRUE
        /\ UNCHANGED <<seProviders, seWaiting, seToolView>>
    BY <1>1, <1>11 DEF ModelAnswered, AnswerTo, Ok, seTabVars
  <2>2. Subject(c.op) = "model" /\ c.op \notin {"save", "list", "diagnose"}
    BY <2>1 DEF Subject
  <2>3. ASSUME "model" \notin seCrossed' PROVE seShown' = seActive
    <3>1. c.how = "ok" /\ c.alone
      BY <1>4, <1>5, <2>1, <2>2, <2>3
    <3>2. CASE c.op = "choose"
      BY <1>8, <1>9, <2>1, <3>1, <3>2 DEF CallFits
    <3>3. CASE c.op = "greet"
      <4>1. c.got = {seActive}
        BY <1>8, <1>9, <3>1, <3>3 DEF CallFits
      <4>2. seShown' = CHOOSE m \in {seActive} : TRUE
        BY <2>1, <3>1, <3>3, <4>1
      <4> QED
        BY <4>2
    <3> QED
      BY <2>1, <3>2, <3>3
  <2>4. "model" \notin seCrossed' => AgreesOn("model", SeenNow')
    BY <1>7, <1>8, <2>3 DEF AgreesOn
  <2> QED
    BY <1>1, <1>2, <1>4, <1>6, <2>1, <2>2, <2>4, ViewAnswerKeeps
<1>12. CASE StatusAnswered(i)
  <2>1. /\ c.op = "status" /\ seCrossed' = (IF c.tab THEN Settled(i) ELSE seCrossed)
        /\ seToolView' = IF c.how = "ok" /\ c.tab THEN [has |-> TRUE, on |-> c.got] ELSE seToolView
        /\ UNCHANGED <<seProviders, seShown, seWaiting>>
    BY <1>1, <1>12 DEF StatusAnswered, AnswerTo, Ok, seStoreVars
  <2>2. Subject(c.op) = "tools" /\ c.op \notin {"save", "list", "diagnose"}
    BY <2>1 DEF Subject
  <2>3. ASSUME "tools" \notin seCrossed', seToolView'.has PROVE seToolView'.on = seEnabled
    <3>1. CASE c.tab
      <4>1. c.how = "ok" /\ c.alone
        BY <1>4, <1>5, <2>1, <2>2, <2>3, <3>1
      <4> QED
        BY <1>8, <1>9, <2>1, <3>1, <4>1 DEF CallFits
    <3>2. CASE ~c.tab
      BY <1>8, <1>9, <2>1, <2>3, <3>2 DEF CallFits
    <3> QED
      BY <3>1, <3>2
  <2>4. "tools" \notin seCrossed' => AgreesOn("tools", SeenNow')
    BY <1>7, <1>8, <2>3 DEF AgreesOn
  <2>5. seToolView' \in [has : BOOLEAN, on : SUBSET SeValues]
    BY <1>6, <2>1
  <2>6. \A s : s \notin seCrossed' /\ s \in seCrossed => c.alone /\ s = Subject(c.op)
    BY <1>4, <2>1
  <2> QED
    BY <1>1, <1>2, <1>4, <2>1, <2>2, <2>4, <2>5, <2>6, ViewAnswerKeeps
<1>13. CASE ToggleAnswered(i)
  <2>1. /\ c.op = "toggle" /\ seCrossed' = seCrossed \cup Missed(i)
        /\ seToolView' = IF ~(c.how = "ok" /\ c.tab) THEN seToolView ELSE [seToolView EXCEPT !.on = Toggled(@, c)]
        /\ UNCHANGED <<seProviders, seShown, seWaiting>>
    BY <1>1, <1>13 DEF ToggleAnswered, AnswerTo, Ok, seStoreVars, Toggled
  <2>2. Subject(c.op) = "tools" /\ c.op \notin {"save", "list", "diagnose"}
    BY <2>1 DEF Subject
  <2>3. Toggled(seToolView.on, c) \in SUBSET SeValues
    BY <1>6 DEF Toggled
  <2>4. seToolView' \in [has : BOOLEAN, on : SUBSET SeValues]
    BY <1>6, <2>1, <2>3
  <2>5. c.how = "ok" /\ c.tab => seToolView'.has = seToolView.has /\ seToolView'.on = Toggled(seToolView.on, c)
    BY <1>6, <2>1, <2>3
  <2>6. ASSUME "tools" \notin seCrossed', seToolView'.has PROVE seToolView'.on = seEnabled
    <3>1. c.how = "ok" /\ "tools" \notin seCrossed
      BY <1>4, <1>5, <2>1, <2>2, <2>6
    <3>2. seToolView.has
      BY <2>1, <2>5, <2>6
    <3>3. c.tab /\ Toggled(seToolView.on, c) = seEnabled
      BY <1>8, <1>9, <2>1, <3>1, <3>2 DEF CallFits
    <3> QED
      BY <2>5, <3>1, <3>3
  <2>7. "tools" \notin seCrossed' => AgreesOn("tools", SeenNow')
    BY <1>7, <1>8, <2>6 DEF AgreesOn
  <2>8. \A s : s \notin seCrossed' /\ s \in seCrossed => c.alone /\ s = Subject(c.op)
    BY <2>1
  <2> QED
    BY <1>1, <1>2, <1>4, <2>1, <2>2, <2>4, <2>7, <2>8, ViewAnswerKeeps
<1>14. CASE TabAnswered(i)
  <2>1. /\ c.op \in {"list", "diagnose"} /\ seCrossed' = seCrossed
        /\ UNCHANGED <<seProviders, seShown, seToolView>>
    BY <1>1, <1>14 DEF TabAnswered, AnswerTo
  <2>2. seWaiting' = (seWaiting /\ ~c.tab)
    BY <1>1, <1>14 DEF TabAnswered
  <2>3. Subject(c.op) \notin Subjects /\ c.op # "save"
    BY <2>1 DEF Subject, Subjects
  <2> QED
    BY <1>1, <1>2, <1>4, <1>6, <2>1, <2>2, <2>3, ViewAnswerKeeps
<1> QED
  BY <1>10, <1>11, <1>12, <1>13, <1>14

\* SettingsDialog: what is shown agrees with the server once nothing is under way
\* about it, and spinners belong to requests, always.
THEOREM SettingsAlwaysReal ==
  SettingsSpec => [](SettingsAgree /\ SpinnersAreReal)
<1>1. SettingsInit => SettingsInv
  <2> SUFFICES ASSUME SettingsInit PROVE SettingsInv
    OBVIOUS
  <2>1. seCalls = <<>> /\ Len(seCalls) = 0 /\ seCalls \in Seq(CallRecords)
    BY DEF SettingsInit
  <2>2. SeTyped
    <3>1. seEditing \in [p : SeValues, typed : BOOLEAN] /\ seToolView \in [has : BOOLEAN, on : SUBSET SeValues]
      BY DEF SettingsInit, Blank, NoStatus, SeValues
    <3>2. seKeys \subseteq SeValues /\ seEnabled \subseteq SeValues /\ seActive \in SeValues
      BY DEF SettingsInit, SeValues
    <3> QED
      BY <3>1, <3>2 DEF SeTyped
  <2>3. \A s \in Subjects : AgreesOn(s, SeenNow)
    BY DEF SettingsInit, AgreesOn, SeenNow, NoStatus
  <2>4. CallsSound(seCalls, seCrossed, SeenNow, Subjects)
    BY <2>1, <2>3 DEF CallsSound, AloneIsAlone
  <2>5. ~seLoading /\ ~seWaiting
    BY DEF SettingsInit
  <2> QED
    BY <2>2, <2>4, <2>5 DEF SettingsInv
<1>2. SettingsInv /\ [SettingsNext]_settingsVars => SettingsInv'
  <2> SUFFICES ASSUME SettingsInv, [SettingsNext]_settingsVars PROVE SettingsInv'
    OBVIOUS
  <2>1. InHand = 1..Len(seCalls)
    BY DEF InHand, SettingsInv, CallsSound
  <2>2. CASE UNCHANGED settingsVars
    <3>1. UNCHANGED <<seKeys, seActive, seEnabled, seProviders, seShown, seToolView, seEditing, seWaiting, seLoading, seCalls, seCrossed>>
      BY <2>2 DEF settingsVars, seServerVars, seStoreVars, seTabVars
    <3>2. SeenNow' = SeenNow
      BY <3>1 DEF SeenNow
    <3>3. SeTyped'
      BY <3>1 DEF SettingsInv, SeTyped
    <3> QED
      BY <3>1, <3>2, <3>3 DEF SettingsInv
  <2>3. ASSUME NEW back \in BOOLEAN, PageConnects(back) PROVE SettingsInv'
    BY <2>3, PageConnectsKeeps
  <2>4. ASSUME NEW i \in InHand, NEW how \in {"ok", "refused", "lost"}, NEW done \in BOOLEAN, ServerTakes(i, how, done)
        PROVE  SettingsInv'
    <3>1. i \in 1..Len(seCalls)
      BY <2>1
    <3> QED
      BY <2>4, <3>1, ServerTakesKeeps
  <2>5. ASSUME NEW i \in InHand,
               \/ KeyAnswered(i) \/ LoadAnswered(i) \/ ModelAnswered(i)
               \/ StatusAnswered(i) \/ ToggleAnswered(i) \/ TabAnswered(i)
        PROVE  SettingsInv'
    <3>1. i \in 1..Len(seCalls)
      BY <2>1
    <3> QED
      BY <2>5, <3>1, KeyAnsweredKeeps, ViewAnsweredKeeps
  <2>6. CASE SettingsNext
    <3>1. CASE \/ OpenSettings \/ TypeKeyIn \/ HandleSaveKey \/ RefreshModels \/ RunDiagnosticsAgain
               \/ \E p \in SeProviders : EditKey(p) \/ HandleRemoveKey(p) \/ ChooseModel(p)
               \/ \E t \in SeTools : ToggleTool(t)
      BY <3>1, ButtonsKeep
    <3>2. CASE CloseSettings \/ (\E tab \in SettingsTabs : PickTab(tab))
      BY <3>2, TabsKeep
    <3>3. CASE \E i \in InHand : \E how \in {"ok", "refused", "lost"}, done \in BOOLEAN : ServerTakes(i, how, done)
      BY <2>4, <3>3
    <3>4. CASE \E i \in InHand : \/ KeyAnswered(i) \/ LoadAnswered(i) \/ ModelAnswered(i)
                                 \/ StatusAnswered(i) \/ ToggleAnswered(i) \/ TabAnswered(i)
      BY <2>5, <3>4
    <3>5. CASE \E back \in BOOLEAN : PageConnects(back)
      BY <2>3, <3>5
    <3> QED
      BY <2>6, <3>1, <3>2, <3>3, <3>4, <3>5 DEF SettingsNext
  <2> QED
    BY <2>2, <2>6
<1>3. SettingsInv => SettingsAgree /\ SpinnersAreReal
  <2> SUFFICES ASSUME SettingsInv PROVE SettingsAgree /\ SpinnersAreReal
    OBVIOUS
  <2>1. InHand = 1..Len(seCalls) /\ DOMAIN seCalls = 1..Len(seCalls)
    BY DEF InHand, SettingsInv, CallsSound
  <2>2. ASSUME NEW s \in Subjects, About(seCalls, s) = {}, s \notin seCrossed PROVE AgreesOn(s, SeenNow)
    <3>1. NoneAbout(seCalls, s)
      BY <2>1, <2>2 DEF About, NoneAbout
    <3> QED
      BY <2>2, <3>1 DEF SettingsInv, CallsSound
  <2>3. SettingsAgree
    BY <2>2 DEF SettingsAgree, AgreesOn, SeenNow, Subjects
  <2>4. SpinnersAreReal
    BY <2>1 DEF SpinnersAreReal, SettingsInv, SavesHere, LoadsHere
  <2> QED
    BY <2>3, <2>4
<1> QED
  BY <1>1, <1>2, <1>3, PTL DEF SettingsSpec

-----------------------------------------------------------------------------
(* All of them *)

\* What is offered, used and shown of models, keys and credentials is there,
\* whatever changed while somebody waited (providers/index.ts, model-router.ts,
\* ollama-runtime.ts, infrastructure.ts, SetupWizard.tsx, SettingsModal.tsx,
\* ModelsPage.tsx).
THEOREM ModelsAlwaysReal ==
  RoutingSpec /\ RuntimeSpec /\ WizardSpec /\ SettingsSpec /\ ModelsSpec => ModelsAreReal
BY RuntimeAlwaysReal, RoutingAlwaysReal, WizardAlwaysReal, SettingsAlwaysReal, ModelsPageAlwaysTrue, PTL DEF ModelsAreReal
=============================================================================
