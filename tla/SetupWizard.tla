---------------------------- MODULE SetupWizard ----------------------------
(* The first-run wizard (SetupWizard.tsx): its steps, the answers of its    *)
(* requests, which come whenever they come and are applied whatever the user *)
(* has done since, and what the server has saved and made active.            *)
EXTENDS Naturals, FiniteSets, Sequences, SequencesExt

CONSTANTS SuCatalog,  \* the providers' models: [id, p, free, fit]
          SuLocal,    \* Ollama
          MaxSuCalls, \* bound: requests under way
          MaxSuSteps  \* bound: what the user does

VARIABLES
  suStep,     \* currentStep, from 1; LastStep + 1: the wizard is gone
  suLoading,  \* loading
  suDiags,    \* diagnostics has an item
  suProvider, \* selectedProvider
  suTyped,    \* apiKey is not blank
  suStatus,   \* apiKeyStatus
  suNetwork,  \* the failure is of the network type
  suModels,   \* models
  suChosen,   \* selectedModel
  suCalls,    \* the requests under way
  suSaved,    \* the providers with a stored key
  suActive,   \* the server's active model
  suDone      \* what the user has done so far

suFormVars == <<suProvider, suTyped, suStatus, suNetwork, suModels, suChosen>>
suCheckVars == <<suLoading, suDiags>>
suServerVars == <<suSaved, suActive>>
wizardVars == <<suStep, suCheckVars, suFormVars, suCalls, suServerVars, suDone>>

\* A model is told from the others by its place in the catalogue, from 1.
ASSUME WizardAssumption == SuCatalog \subseteq [id : Nat \ {0}, p : Nat, free : BOOLEAN, fit : BOOLEAN]

Providers == {m.p : m \in SuCatalog}
NoModelYet == [id |-> 0, p |-> SuLocal, free |-> FALSE, fit |-> FALSE]
Compatibility == 2
ProviderStep == 4
KeyStep == 5
ModelsStep == 6
LastStep == 7

NoProvider == SuLocal + Cardinality(SuCatalog) + 1
BlankForm ==  \* a page just loaded
  /\ suStep' = 1 /\ suLoading' = FALSE /\ suDiags' = FALSE
  /\ suProvider' = NoProvider /\ suTyped' = FALSE /\ suStatus' = "idle" /\ suNetwork' = FALSE
  /\ suModels' = {} /\ suChosen' = NoModelYet /\ suCalls' = <<>>

WizardInit ==
  /\ suStep = 1 /\ suLoading = FALSE /\ suDiags = FALSE
  /\ suProvider = NoProvider /\ suTyped = FALSE /\ suStatus = "idle" /\ suNetwork = FALSE
  /\ suModels = {} /\ suChosen = NoModelYet /\ suCalls = <<>>
  /\ suSaved = {} /\ suActive = 0 /\ suDone = 0

WizardOpen == suStep <= LastStep
UserDoes == WizardOpen /\ suDone < MaxSuSteps /\ suDone' = suDone + 1
Asks(op, m, skip) ==
  /\ Len(suCalls) < MaxSuCalls
  /\ suCalls' = Append(suCalls, [op |-> op, p |-> suProvider, m |-> m, skip |-> skip, stage |-> "asked", how |-> "none", list |-> {}])

CanProceed ==
  CASE suStep = Compatibility -> ~suLoading /\ suDiags
    [] suStep = ProviderStep -> suProvider # NoProvider
    [] suStep = KeyStep -> suProvider = SuLocal \/ suStatus = "valid"
    [] suStep = ModelsStep -> suChosen # NoModelYet
    [] OTHER -> suStep < LastStep

\* Arriving at the system check runs it.
Arrive(step) ==
  /\ suStep' = step
  /\ IF step = Compatibility
     THEN Asks("check", NoModelYet, FALSE) /\ suLoading' = TRUE /\ suDiags' = FALSE
     ELSE UNCHANGED <<suCalls, suCheckVars>>
  /\ UNCHANGED <<suFormVars, suServerVars>>
NextStep == UserDoes /\ CanProceed /\ Arrive(suStep + 1)
PrevStep == UserDoes /\ suStep > 1 /\ Arrive(suStep - 1)
CheckAgain == UserDoes /\ suStep = Compatibility /\ ~suLoading /\ ~suDiags /\ Arrive(suStep)

\* A check that fails shows the failure as its one item; one that succeeds may
\* find none of the groups it shows.
CheckEnds(i, shown) ==
  /\ suCalls[i].op = "check"
  /\ suDiags' = shown /\ suLoading' = FALSE
  /\ suCalls' = RemoveAt(suCalls, i)
  /\ UNCHANGED <<suStep, suFormVars, suServerVars, suDone>>

\* ---- the provider and its key
ChooseProvider(p) ==
  /\ UserDoes /\ suStep = ProviderStep
  /\ suProvider' = p /\ suTyped' = FALSE /\ suStatus' = "idle" /\ suNetwork' = FALSE
  /\ suModels' = {} /\ suChosen' = NoModelYet
  /\ UNCHANGED <<suStep, suCheckVars, suCalls, suServerVars>>

TypeKey(typed) ==
  /\ UserDoes /\ suStep = KeyStep /\ suProvider # SuLocal
  /\ suTyped' = typed /\ suStatus' = "idle" /\ suNetwork' = FALSE
  /\ UNCHANGED <<suStep, suCheckVars, suProvider, suModels, suChosen, suCalls, suServerVars>>

\* validateAndSaveKey, which Enter starts again while one is under way, and
\* saveKeyWithoutValidation, offered after a failure of the network type.
SaveKey(skip) ==
  /\ UserDoes /\ suStep = KeyStep /\ suProvider # SuLocal /\ suTyped
  /\ skip => suStatus = "invalid" /\ suNetwork
  /\ suStatus' = "validating" /\ suNetwork' = FALSE
  /\ Asks("save", NoModelYet, skip)
  /\ UNCHANGED <<suStep, suCheckVars, suProvider, suTyped, suModels, suChosen, suServerVars>>

\* The server's side; "lost" is an answer that never arrives, stored or not.
AnswersCall(i, how, list) == suCalls' = [suCalls EXCEPT ![i].stage = "answered", ![i].how = how, ![i].list = list]
ServerSaves(i, how, stored) ==
  /\ suCalls[i].op = "save" /\ suCalls[i].stage = "asked"
  /\ how = "valid" => stored
  /\ how \in {"refused", "network"} => ~stored
  /\ suCalls[i].skip => how \notin {"refused", "network"}
  /\ AnswersCall(i, how, {})
  /\ suSaved' = IF stored THEN suSaved \cup {suCalls[i].p} ELSE suSaved
  /\ UNCHANGED <<suStep, suCheckVars, suFormVars, suActive, suDone>>

\* A valid key is followed by a request for all models.
StatusAfter(how) == IF how = "valid" THEN "valid" ELSE "invalid"
SaveAnswered(i) ==
  /\ suCalls[i].op = "save" /\ suCalls[i].stage = "answered"
  /\ suStatus' = StatusAfter(suCalls[i].how)
  /\ suNetwork' = (suCalls[i].how = "network")
  /\ suCalls' = IF suCalls[i].how = "valid"
                THEN [suCalls EXCEPT ![i].op = "list", ![i].stage = "asked", ![i].how = "none"]
                ELSE RemoveAt(suCalls, i)
  /\ UNCHANGED <<suStep, suCheckVars, suProvider, suTyped, suModels, suChosen, suServerVars, suDone>>

\* fetchAllAvailableModels: the providers that have a key and answer.
ServerLists(i, down) ==
  /\ suCalls[i].op = "list" /\ suCalls[i].stage = "asked"
  /\ \E ok \in BOOLEAN :
       AnswersCall(i, IF ok THEN "valid" ELSE "lost", {m \in SuCatalog : m.p \in (suSaved \cup {SuLocal}) \ down})
  /\ UNCHANGED <<suStep, suCheckVars, suFormVars, suServerVars, suDone>>

FreeOf(models) == {m \in models : m.free}
BestFree(models) ==
  LET fit == {m \in FreeOf(models) : m.fit}
      pool == IF fit # {} THEN fit ELSE FreeOf(models) IN
  CHOOSE m \in pool : \A n \in pool : m.id <= n.id

\* The best free model is selected on the page, unless validation was skipped;
\* a list that cannot be had turns the saved key's status to invalid.
ListAnswered(i) ==
  /\ suCalls[i].op = "list" /\ suCalls[i].stage = "answered"
  /\ LET ok == suCalls[i].how = "valid"
         list == suCalls[i].list IN
     /\ suModels' = IF ok THEN list ELSE suModels
     /\ suChosen' = IF ok /\ ~suCalls[i].skip /\ FreeOf(list) # {} THEN BestFree(list) ELSE suChosen
     /\ suStatus' = IF ok THEN suStatus ELSE "invalid"
     /\ suNetwork' = (ok /\ suNetwork)
  /\ suCalls' = RemoveAt(suCalls, i)
  /\ UNCHANGED <<suStep, suCheckVars, suProvider, suTyped, suServerVars, suDone>>

\* ---- the model
Offered == IF FreeOf(suModels) # {} THEN FreeOf(suModels) ELSE suModels
SelectModel(m) ==
  /\ UserDoes /\ suStep = ModelsStep /\ m \in Offered
  /\ Asks("choose", m, FALSE)
  /\ UNCHANGED <<suStep, suCheckVars, suFormVars, suServerVars>>

ServerChooses(i) ==
  /\ suCalls[i].op = "choose" /\ suCalls[i].stage = "asked"
  /\ suActive' = suCalls[i].m.id
  /\ \E how \in {"valid", "lost"} : AnswersCall(i, how, {})
  /\ UNCHANGED <<suStep, suCheckVars, suFormVars, suSaved, suDone>>

ChooseAnswered(i) ==
  /\ suCalls[i].op = "choose" /\ suCalls[i].stage = "answered"
  /\ suChosen' = IF suCalls[i].how = "valid" THEN suCalls[i].m ELSE suChosen
  /\ suCalls' = RemoveAt(suCalls, i)
  /\ UNCHANGED <<suStep, suCheckVars, suProvider, suTyped, suStatus, suNetwork, suModels, suServerVars, suDone>>

\* onComplete, and a reload of the page before it.
Complete == UserDoes /\ suStep = LastStep /\ suStep' = LastStep + 1 /\ suCalls' = <<>> /\ UNCHANGED <<suCheckVars, suFormVars, suServerVars>>
ReloadPage == UserDoes /\ BlankForm /\ UNCHANGED suServerVars

WizardNext ==
  \/ NextStep \/ PrevStep \/ CheckAgain \/ Complete \/ ReloadPage
  \/ \E p \in Providers : ChooseProvider(p)
  \/ \E b \in BOOLEAN : TypeKey(b) \/ SaveKey(b)
  \/ \E m \in SuCatalog : SelectModel(m)
  \/ \E i \in 1..Len(suCalls) :
       \/ SaveAnswered(i) \/ ListAnswered(i) \/ ServerChooses(i) \/ ChooseAnswered(i)
       \/ \E how \in {"valid", "refused", "network", "lost"}, stored \in BOOLEAN : ServerSaves(i, how, stored)
       \/ \E shown \in BOOLEAN : CheckEnds(i, shown)
       \/ \E down \in SUBSET Providers : ServerLists(i, down)

WizardSpec == WizardInit /\ [][WizardNext]_wizardVars

\* ---- properties
\* Whoever gets to the ready step has a model some configured provider serves,
\* whatever was gone back to, switched or answered late on the way.
ReadyCanServe == suStep >= LastStep => suChosen # NoModelYet /\ suChosen.p \in suSaved \cup {SuLocal}

\* What the wizard shows as under way is: the spinner of the check and the
\* "validating" of a key outlive no request, even one that is never answered.
WaitIsReal ==
  /\ suLoading => \E i \in 1..Len(suCalls) : suCalls[i].op = "check"
  /\ suStatus = "validating" => \E i \in 1..Len(suCalls) : suCalls[i].op = "save"
=============================================================================
