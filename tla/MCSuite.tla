------------------------------ MODULE MCSuite ------------------------------
(* The components without a liveness property of their own in one instance for *)
(* TLC: the initial state chooses the component in focus, which takes every    *)
(* step, and the others stay as they began.  They share no state here; each    *)
(* module names what it takes from the others.                                 *)
EXTENDS BodyLink, ActionLedger, RegistryFeed, Deployment, DesktopShell,
        ClientSession, VoiceInput, WebAgent, BrowserActions, WebTasks,
        BulkFiles, ComputerControl, ProcessTools, ModelRouting, LocalRuntime,
        MessageRouting, SavedState, SetupWizard, SettingsDialog, ModelsPage,
        SystemSampler, TLC

CONSTANTS s1, s2, a1, a2, a3, t1, t2, c1, c2, b1, b2

VARIABLES focus

\* The third action is of the second task; they share a permission.
MCTaskOf == [a \in Actions |-> IF a = a3 THEN t2 ELSE t1]
MCKeyOf == [a \in Actions |-> "tool"]

\* A free model and a paid one of another provider.
RoutedModels == {[id |-> n, p |-> n, free |-> n = 1, tools |-> TRUE] : n \in {1, 2}}

\* Ollama's model, which is not the best; a free and a paid one of two providers.
OfferedModels == {[id |-> 1, p |-> 0, free |-> TRUE, fit |-> FALSE],
                  [id |-> 2, p |-> 1, free |-> TRUE, fit |-> TRUE],
                  [id |-> 3, p |-> 2, free |-> FALSE, fit |-> TRUE]}

suiteVars == <<focus, linkVars, vars, feedVars, dpVars, dsVars, csVars, voVars, wbVars,
               baVars, wtVars, bfVars, ccVars, ptVars, mrVars, lrVars, rtVars,
               savedVars, wizardVars, settingsVars, modelsVars, samplerVars>>
Components ==
  {"link", "ledger", "feed", "deployment", "shell", "session", "voice", "web",
   "browser", "webtasks", "files", "desktop", "processes", "routing", "runtime",
   "messages", "saved", "wizard", "settings", "models", "sampler"}

SuiteInit ==
  /\ focus \in Components
  /\ LinkInit /\ Init /\ FeedInit /\ DeploymentInit
  /\ ShellInit /\ SessionInit /\ VoiceInit /\ WebInit
  /\ BrowserInit /\ TasksInit /\ BulkInit /\ ControlInit
  /\ ProcessInit /\ RoutingInit /\ RuntimeInit /\ MessagesInit
  /\ SavedInit /\ WizardInit /\ SettingsInit /\ ModelsInit
  /\ SamplerInit
  /\ focus # "sampler" => tmScreens = TmDisplays /\ tmXTools

\* The component in focus takes the step.
Only(f) ==
  /\ focus = f /\ UNCHANGED focus
  /\ (f # "link" => UNCHANGED linkVars)
  /\ (f # "ledger" => UNCHANGED vars)
  /\ (f # "feed" => UNCHANGED feedVars)
  /\ (f # "deployment" => UNCHANGED dpVars)
  /\ (f # "shell" => UNCHANGED dsVars)
  /\ (f # "session" => UNCHANGED csVars)
  /\ (f # "voice" => UNCHANGED voVars)
  /\ (f # "web" => UNCHANGED wbVars)
  /\ (f # "browser" => UNCHANGED baVars)
  /\ (f # "webtasks" => UNCHANGED wtVars)
  /\ (f # "files" => UNCHANGED bfVars)
  /\ (f # "desktop" => UNCHANGED ccVars)
  /\ (f # "processes" => UNCHANGED ptVars)
  /\ (f # "routing" => UNCHANGED mrVars)
  /\ (f # "runtime" => UNCHANGED lrVars)
  /\ (f # "messages" => UNCHANGED rtVars)
  /\ (f # "saved" => UNCHANGED savedVars)
  /\ (f # "wizard" => UNCHANGED wizardVars)
  /\ (f # "settings" => UNCHANGED settingsVars)
  /\ (f # "models" => UNCHANGED modelsVars)
  /\ (f # "sampler" => UNCHANGED samplerVars)

SuiteNext ==
  \/ Only("link") /\ LinkNext
  \/ Only("ledger") /\ Next
  \/ Only("feed") /\ FeedNext
  \/ Only("deployment") /\ DeploymentNext
  \/ Only("shell") /\ ShellNext
  \/ Only("session") /\ SessionNext
  \/ Only("voice") /\ VoiceNext
  \/ Only("web") /\ WebNext
  \/ Only("browser") /\ BrowserNext
  \/ Only("webtasks") /\ TasksNext
  \/ Only("files") /\ BulkNext
  \/ Only("desktop") /\ ControlNext
  \/ Only("processes") /\ ProcessNext
  \/ Only("routing") /\ RoutingNext
  \/ Only("runtime") /\ RuntimeNext
  \/ Only("messages") /\ MessagesNext
  \/ Only("saved") /\ SavedNext
  \/ Only("wizard") /\ WizardNext
  \/ Only("settings") /\ SettingsNext
  \/ Only("models") /\ ModelsNext
  \/ Only("sampler") /\ SamplerNext

SuiteSpec == SuiteInit /\ [][SuiteNext]_suiteVars

\* What the tools that work in the browser report as done was seen there
\* (web-agent.ts, browser.ts over browser-session.ts).
BrowserTellsTheTruth ==
  /\ [](SwitchIsNotedOnLiveSockets /\ RecoveryIsBounded /\ ClosedIsGone)
  /\ OpenIsSeen /\ BackMoved /\ FreshIsFresh

\* The same of the tools that work on the machine, its windows, pointer, sound
\* and processes, and of what is sampled of it (computer-control.ts,
\* process-control.ts, terminal-stream.ts, system-telemetry.ts).
MachineTellsTheTruth ==
  /\ [](VerifiedClickHit /\ VerifiedCloseClosed /\ KillIsSeen /\ ShellsAreTold)
  /\ [](CountedOnce /\ WalkIsHonest)
  /\ VerifiedWasSeen /\ UseIsOwn

\* The models, keys and credentials that are offered, used and shown are there,
\* whatever changed while somebody waited (providers/index.ts, model-router.ts,
\* ollama-runtime.ts, infrastructure.ts, SetupWizard.tsx, SettingsModal.tsx,
\* ModelsPage.tsx).
ModelsAreReal ==
  /\ [](ListFollowsKeys /\ KeysAgree /\ ProgressIsLive /\ KeptIsProven /\ ReadyCanServe /\ WaitIsReal)
  /\ [](SettingsAgree /\ SpinnersAreReal /\ LockIsHeld /\ CloudIsShown)
  /\ WornGivesWay /\ ReadsGoForward
=============================================================================
