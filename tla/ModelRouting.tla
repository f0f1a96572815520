---------------------------- MODULE ModelRouting ----------------------------
(* Which model answers (router/model-router.ts, providers/index.ts, the routing  *)
(* of orchestrator/index.ts): keys are saved, removed and read from the          *)
(* environment, the list of available models is fetched from the keyed providers *)
(* and cached, a run is routed to the best capable model and re-routed when a     *)
(* call fails.  Everything that waits for a provider's server is two steps.      *)
EXTENDS Naturals, FiniteSets, Sequences, SequencesExt

CONSTANTS MrModels,  \* models, as records [id, p, free, tools]; p the provider
          MrLocal,   \* the keyless provider (Ollama)
          MrKeys,    \* API keys, a set of positive numbers
          MaxMrSteps \* bound: key changes, restarts and runs together

\* A list of models is ordered: a model is told from another by its place.
ASSUME RoutingAssumption ==
  /\ MrModels \subseteq [id : Nat, p : Nat, free : BOOLEAN, tools : BOOLEAN]
  /\ \A m, n \in MrModels : m.id = n.id => m = n

MrKeyed == {m.p : m \in MrModels} \ {MrLocal}  \* numbered in FALLBACK_ORDER
NoKey == 0
Threshold == 3  \* FAILURE_THRESHOLD
Errors == 3     \* MAX_CONSECUTIVE_ERRORS

VARIABLES
  mrStore,   \* the encrypted credential store, by provider
  mrKey,     \* the key each provider object holds
  mrSaving,  \* validations in flight: <<provider, key>>
  mrCache,   \* availableModelsCache: [has, models]
  mrFetch,   \* fetchAllAvailableModels in flight: [on, keyed]
  mrTouched, \* a key changed while that list was being fetched
  mrRecent,  \* ModelReliability: the last outcomes of each model, 0 or 1
  mrRun,     \* the run: phase, need (tools), model, errors, and how it was chosen
  mrSteps    \* bounded

mrVars == <<mrStore, mrKey, mrSaving, mrCache, mrFetch, mrTouched, mrRecent, mrRun, mrSteps>>
mrKeyVars == <<mrStore, mrKey, mrSaving, mrCache, mrTouched>>

NoModel == [id |-> 0, p |-> 0, free |-> FALSE, tools |-> FALSE]
NoRouting == [phase |-> "idle", need |-> FALSE, model |-> NoModel, errors |-> 0, how |-> "none"]
NoCache == [has |-> FALSE, models |-> {}]
NoFetch == [on |-> FALSE, keyed |-> {}]
NoKeys == [p \in MrKeyed |-> NoKey]
RoutingInit ==
  /\ mrStore = NoKeys /\ mrKey = NoKeys /\ mrSaving = {}
  /\ mrCache = NoCache /\ mrFetch = NoFetch /\ mrTouched = FALSE
  /\ mrRecent = [m \in MrModels |-> <<>>] /\ mrRun = NoRouting /\ mrSteps = 0

MrCounted == mrSteps < MaxMrSteps /\ mrSteps' = mrSteps + 1
-----------------------------------------------------------------------------
(* A key that was changed drops the cached list.                                  *)
\* Mutant: the list of available models survives the change of a key.
KeyBecomesKept(p, k) ==
  /\ mrStore' = [mrStore EXCEPT ![p] = k] /\ mrKey' = [mrKey EXCEPT ![p] = k]
  /\ mrTouched' = (mrTouched \/ mrFetch.on) /\ UNCHANGED mrCache
KeyBecomes(p, k) ==
  /\ mrStore' = [mrStore EXCEPT ![p] = k] /\ mrKey' = [mrKey EXCEPT ![p] = k]
  /\ mrTouched' = (mrTouched \/ mrFetch.on) /\ mrCache' = NoCache
(* saveKey: validated first, unless the user skips the validation.                *)
Validate(p, k) == mrSaving = {} /\ MrCounted /\ mrSaving' = mrSaving \cup {<<p, k>>} /\ UNCHANGED <<mrStore, mrKey, mrCache, mrTouched>>
KeyValidated(s, valid) ==
  /\ s \in mrSaving /\ mrSaving' = mrSaving \ {s} /\ UNCHANGED <<mrSteps>>
  /\ IF valid THEN KeyBecomes(s[1], s[2]) ELSE UNCHANGED <<mrStore, mrKey, mrCache, mrTouched>>
SaveUnchecked(p, k) == MrCounted /\ KeyBecomes(p, k) /\ UNCHANGED <<mrSaving>>
RemoveKey(p) == MrCounted /\ KeyBecomes(p, NoKey) /\ UNCHANGED <<mrSaving>>

(* initializeAll after a restart: the stored key, else the environment's, which   *)
(* setApiKey then stores.                                                         *)
AtLaunch(env) ==
  LET k == [p \in MrKeyed |-> IF mrStore[p] # NoKey THEN mrStore[p] ELSE env[p]]
  IN  mrKey' = k /\ mrStore' = k
Restart(env) ==
  /\ MrCounted /\ AtLaunch(env) /\ mrSaving' = {} /\ mrCache' = NoCache /\ mrFetch' = NoFetch
  /\ mrTouched' = FALSE /\ mrRecent' = [m \in MrModels |-> <<>>] /\ mrRun' = NoRouting
-----------------------------------------------------------------------------
(* getAvailableModels: the cached list for a minute, else the models of every     *)
(* provider that has a stored key; one that fails contributes nothing.           *)
Keyed == {MrLocal} \cup {p \in MrKeyed : mrStore[p] # NoKey}
FetchBegins ==
  /\ ~mrCache.has /\ ~mrFetch.on /\ mrFetch' = [on |-> TRUE, keyed |-> Keyed] /\ mrTouched' = FALSE
  /\ UNCHANGED <<mrStore, mrKey, mrSaving, mrCache, mrRecent, mrRun, mrSteps>>
FetchEnds(up) ==
  /\ mrFetch.on /\ up \subseteq mrFetch.keyed /\ mrFetch' = NoFetch
  /\ mrCache' = [has |-> TRUE, models |-> {m \in MrModels : m.p \in up}]
  /\ UNCHANGED <<mrStore, mrKey, mrSaving, mrTouched, mrRecent, mrRun, mrSteps>>
ListExpires ==
  /\ mrCache.has /\ mrCache' = NoCache /\ mrTouched' = FALSE
  /\ UNCHANGED <<mrStore, mrKey, mrSaving, mrFetch, mrRecent, mrRun, mrSteps>>
-----------------------------------------------------------------------------
(* ModelReliability: the last three outcomes count.                               *)
Score(m) == Cardinality({i \in DOMAIN mrRecent[m] : mrRecent[m][i] = 1})
Recorded(m, failed) ==
  LET r == Append(mrRecent[m], failed)
  IN  [mrRecent EXCEPT ![m] = IF Len(r) > Threshold THEN Tail(r) ELSE r]
(* supportsRequired: an unknown capability is no capability.                      *)
Supports(m, need) == need => m.tools
(* orderedCandidates: free before paid, remote ties after local, each recent      *)
(* failure a demerit; then the order of the list.                                 *)
Rank(m) == (IF m.free THEN 0 ELSE 100) + (IF m.p = MrLocal THEN 0 ELSE 10) + 50 * Score(m)
RanksBefore(m, n) == Rank(m) < Rank(n) \/ (Rank(m) = Rank(n) /\ m.id < n.id)
Fit(need) == {m \in mrCache.models : Supports(m, need)}
Best(need) == CHOOSE m \in Fit(need) : \A n \in Fit(need) \ {m} : RanksBefore(m, n)
(* The user's model goes first when it can serve.                                 *)
Route(need, active) == IF active \in Fit(need) THEN active ELSE Best(need)
(* routeModel at the start of a run; without any list the active model is taken. *)
StartRouting(need, active) ==
  /\ MrCounted /\ mrRun.phase = "idle" /\ mrCache.has
  /\ mrRun' = IF mrCache.models = {} THEN [NoRouting EXCEPT !.phase = "call", !.need = need, !.model = active, !.how = "active"]
              ELSE IF Fit(need) = {} THEN NoRouting  \* blocked, honestly
              ELSE [NoRouting EXCEPT !.phase = "call", !.need = need, !.model = Route(need, active), !.how = "routed"]
  /\ UNCHANGED <<mrKeyVars, mrFetch, mrRecent>>
CallSucceeds(ends) ==
  /\ mrRun.phase = "call" /\ mrRecent' = Recorded(mrRun.model, 0)
  /\ mrRun' = IF ends THEN NoRouting ELSE [mrRun EXCEPT !.errors = 0]
  /\ UNCHANGED <<mrKeyVars, mrFetch, mrSteps>>
(* A rate limit is waited out; a refused key, and the third error, end the run.   *)
CallRefused ==
  /\ mrRun.phase = "call" /\ mrRun' = NoRouting
  /\ mrRecent' = IF mrRun.errors + 1 >= Errors THEN mrRecent ELSE Recorded(mrRun.model, 1)
  /\ UNCHANGED <<mrKeyVars, mrFetch, mrSteps>>
RateLimited ==
  /\ mrRun.phase = "call" /\ mrRun.errors + 1 < Errors
  /\ mrRun' = [mrRun EXCEPT !.errors = @ + 1] /\ mrRecent' = Recorded(mrRun.model, 1)
  /\ UNCHANGED <<mrKeyVars, mrFetch, mrSteps>>
(* A network, server or timeout error: the failure is recorded, then re-routed.   *)
CallFails ==
  /\ mrRun.phase = "call" /\ mrRun.errors + 1 < Errors
  /\ mrRecent' = Recorded(mrRun.model, 1)
  /\ mrRun' = [mrRun EXCEPT !.phase = "failed", !.errors = @ + 1]
  /\ UNCHANGED <<mrKeyVars, mrFetch, mrSteps>>
(* getFallbackProvider: another provider with a key (Ollama has none), healthy or *)
(* not; pickFallbackModel: one of the models it is known to list.                 *)
Fallbacks == {p \in MrKeyed \ {mrRun.model.p} : mrKey[p] # NoKey}
Resumes(m, how) == mrRun' = [mrRun EXCEPT !.phase = "call", !.model = m, !.how = how]
Reroute ==
  /\ mrRun.phase = "failed" /\ mrCache.has /\ UNCHANGED <<mrKeyVars, mrFetch, mrRecent, mrSteps>>
  /\ LET escalated == Fit(mrRun.need) # {} IN
     \/ /\ escalated /\ (Best(mrRun.need) # mrRun.model \/ Fallbacks # {})
        /\ Resumes(Best(mrRun.need), "rerouted")
     \/ /\ ~(escalated /\ (Best(mrRun.need) # mrRun.model \/ Fallbacks # {}))
        /\ \/ \E m \in MrModels : m.p \in Fallbacks /\ Resumes(m, "legacy")
           \/ Fallbacks = {} /\ Resumes(mrRun.model, mrRun.how)

RoutingNext ==
  \/ \E p \in MrKeyed, k \in MrKeys : (Validate(p, k) \/ SaveUnchecked(p, k)) /\ UNCHANGED <<mrFetch, mrRecent, mrRun>>
  \/ \E s \in mrSaving, v \in BOOLEAN : KeyValidated(s, v) /\ UNCHANGED <<mrFetch, mrRecent, mrRun>>
  \/ \E p \in MrKeyed : RemoveKey(p) /\ UNCHANGED <<mrFetch, mrRecent, mrRun>>
  \/ \E env \in [MrKeyed -> MrKeys \cup {NoKey}] : Restart(env)
  \/ FetchBegins \/ ListExpires \/ \E up \in SUBSET ({MrLocal} \cup MrKeyed) : FetchEnds(up)
  \/ \E need \in BOOLEAN, m \in MrModels : StartRouting(need, m)
  \/ \E ends \in BOOLEAN : CallSucceeds(ends)
  \/ CallRefused \/ RateLimited \/ CallFails \/ Reroute

RoutingSpec == RoutingInit /\ [][RoutingNext]_mrVars
-----------------------------------------------------------------------------
\* "Models REALLY available right now": the cached list holds models of providers
\* without a key only if a key was removed while the list was being fetched.
ListFollowsKeys == mrCache.has /\ ~mrTouched => \A m \in mrCache.models : m.p \in Keyed

\* What a provider sends is what is on disk, whichever way the key came: the list
\* of models and the health checks speak of the same keys.
KeysAgree == mrKey = mrStore

Rerouted == mrRun.phase = "failed" /\ mrRun'.phase = "call" /\ mrRun'.how = "rerouted"

\* "A model with no recorded history is always preferred over one with failures":
\* a model that failed three times running is taken again only if no capable model
\* of the list has a clean record.
WornGivesWay ==
  [][(Rerouted /\ Score(mrRun'.model) = Threshold) => \A m \in Fit(mrRun.need) : Score(m) > 0]_mrVars

=============================================================================
