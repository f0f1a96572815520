--------------------------- MODULE SettingsDialog ---------------------------
(* The settings (SettingsModal.tsx): keys, the active model, the tools and the   *)
(* diagnostics of one server, each shown from answers that come whenever they    *)
(* come, to a tab or a dialog that may be gone; and the greeting and the first   *)
(* load of a new connection, which write the same store (App.tsx).               *)
EXTENDS Naturals, FiniteSets, Sequences, SequencesExt

CONSTANTS SeProviders, \* keyed providers, numbered from 1; a model stands for its provider's
          SeTools,     \* tools that can be switched
          MaxSeCalls,  \* bound: requests under way
          MaxSeSteps   \* bound: what the user and the connection do

VARIABLES
  seKeys,      \* the server's: providers with a key
  seActive,    \* its active model
  seEnabled,   \* its enabled tools
  seProviders, \* the page's store: providers shown as connected
  seModels,    \* models
  seShown,     \* activeModel, with activeProvider
  seTab,       \* the tab in view, or NotOpen
  seEditing,   \* editingProvider, and whether apiKey is not blank
  seLoading,   \* loading, of the dialog
  seWaiting,   \* refreshing or loading, of the tab
  seToolView,  \* toolStatus: [has, on]
  seCalls,     \* requests under way
  seCrossed,   \* history: what two requests crossed over, or lost an answer about
  seDone       \* what was done; opening again needs a close, which counts

seServerVars == <<seKeys, seActive, seEnabled>>
seStoreVars == <<seProviders, seModels, seShown>>
seTabVars == <<seEditing, seWaiting, seToolView>>
settingsVars == <<seServerVars, seStoreVars, seTab, seTabVars, seLoading, seCalls, seCrossed, seDone>>

NotOpen == "closed"
\* The voice tab only switches two flags of the page.
SettingsTabs == {"providers", "models", "tools", "diagnostics"}
Blank == [p |-> 0, typed |-> FALSE]
NoStatus == [has |-> FALSE, on |-> {}]

SettingsInit ==
  /\ seKeys = SeProviders /\ seEnabled = SeTools  \* set up before, all of it
  /\ seActive = 1 /\ seShown = seActive
  /\ seProviders = seKeys /\ seModels = seKeys
  /\ seTab = NotOpen /\ seEditing = Blank /\ seLoading = FALSE /\ seWaiting = FALSE
  /\ seToolView = NoStatus /\ seCalls = <<>> /\ seCrossed = {} /\ seDone = 0

InHand == DOMAIN seCalls
\* What a request is about.
Subject(op) ==
  CASE op \in {"save", "remove", "load", "start"} -> "keys"
    [] op \in {"choose", "greet"} -> "model"
    [] op \in {"status", "toggle"} -> "tools"
    [] OTHER -> op
About(calls, s) == {i \in DOMAIN calls : Subject(calls[i].op) = s}

\* A request joins those under way; "alone" while no other is about the same.
Asked(calls, op, x, on) ==
  LET others == About(calls, Subject(op)) IN
  Append([i \in DOMAIN calls |-> [calls[i] EXCEPT !.alone = @ /\ i \notin others]],
         [op |-> op, x |-> x, on |-> on, got |-> {}, how |-> "none", alone |-> others = {}, tab |-> TRUE, dialog |-> TRUE])
Crossing(calls, op) == IF About(calls, Subject(op)) # {} THEN {Subject(op)} ELSE {}
Requests(op, x, on) ==
  /\ Len(seCalls) < MaxSeCalls
  /\ seCalls' = Asked(seCalls, op, x, on) /\ seCrossed' = seCrossed \cup Crossing(seCalls, op)
Counts == seDone < MaxSeSteps /\ seDone' = seDone + 1
-----------------------------------------------------------------------------
(* Opening loads the providers; a tab that goes takes its state with it, and the   *)
(* requests it made find nobody; the tools and the diagnostics load as they open.  *)
OpenSettings ==
  /\ seTab = NotOpen /\ seTab' = "providers" /\ seLoading' = FALSE
  /\ Requests("load", 0, TRUE) /\ UNCHANGED <<seServerVars, seStoreVars, seTabVars, seDone>>

Left(calls, all) == [i \in DOMAIN calls |-> [calls[i] EXCEPT !.tab = FALSE, !.dialog = @ /\ ~all]]
TabGoes == seEditing' = Blank /\ seToolView' = NoStatus
CloseSettings ==
  /\ Counts /\ seTab # NotOpen /\ seTab' = NotOpen /\ TabGoes /\ seWaiting' = FALSE
  /\ seLoading' = FALSE /\ seCalls' = Left(seCalls, TRUE)
  /\ UNCHANGED <<seServerVars, seStoreVars, seCrossed>>

LoadsAs(tab) == IF tab = "tools" THEN "status" ELSE "diagnose"
PickTab(tab) ==
  /\ Counts /\ seTab \notin {NotOpen, tab} /\ seTab' = tab /\ TabGoes /\ seWaiting' = (tab = "diagnostics")
  /\ LET left == Left(seCalls, FALSE) IN
     IF tab \in {"tools", "diagnostics"}
     THEN /\ Len(seCalls) < MaxSeCalls /\ seCalls' = Asked(left, LoadsAs(tab), 0, TRUE)
          /\ seCrossed' = seCrossed \cup Crossing(left, LoadsAs(tab))
     ELSE seCalls' = left /\ UNCHANGED seCrossed
  /\ UNCHANGED <<seServerVars, seStoreVars, seLoading>>

\* When its socket is lost, and when it is back, the page loads the providers and
\* the models again, both or neither; the server greets it with the active model.
PageConnects(back) ==
  /\ Counts /\ Len(seCalls) + 2 <= MaxSeCalls /\ \A i \in InHand : seCalls[i].op # "greet"
  /\ LET greeted == Asked(seCalls, "greet", 0, TRUE)
         before == IF back THEN [greeted EXCEPT ![Len(greeted)].how = "ok", ![Len(greeted)].got = {seActive}] ELSE seCalls IN
     /\ seCalls' = Asked(before, "start", 0, TRUE)
     /\ seCrossed' = seCrossed \cup Crossing(seCalls, "start") \cup (IF back THEN Crossing(seCalls, "greet") ELSE {})
  /\ UNCHANGED <<seServerVars, seStoreVars, seTab, seTabVars, seLoading>>
-----------------------------------------------------------------------------
(* The form of one provider; Enter saves although a save is under way.             *)
EditKey(p) ==
  /\ Counts /\ seTab = "providers"
  /\ seEditing' = IF seEditing.p = p THEN Blank ELSE [p |-> p, typed |-> FALSE]
  /\ UNCHANGED <<seServerVars, seStoreVars, seTab, seLoading, seWaiting, seToolView, seCalls, seCrossed>>
TypeKeyIn ==
  /\ Counts /\ seEditing.p # 0 /\ ~seEditing.typed /\ seEditing' = [seEditing EXCEPT !.typed = TRUE]
  /\ UNCHANGED <<seServerVars, seStoreVars, seTab, seLoading, seWaiting, seToolView, seCalls, seCrossed>>
HandleSaveKey ==
  /\ Counts /\ seEditing.typed /\ seLoading' = TRUE /\ Requests("save", seEditing.p, TRUE)
  /\ UNCHANGED <<seServerVars, seStoreVars, seTab, seTabVars>>
HandleRemoveKey(p) ==
  /\ Counts /\ seTab = "providers" /\ p \in seProviders /\ Requests("remove", p, TRUE)
  /\ UNCHANGED <<seServerVars, seStoreVars, seTab, seTabVars, seLoading>>

RefreshModels ==
  /\ Counts /\ seTab = "models" /\ ~seWaiting /\ seWaiting' = TRUE /\ Requests("list", 0, TRUE)
  /\ UNCHANGED <<seServerVars, seStoreVars, seTab, seEditing, seToolView, seLoading>>
ChooseModel(m) ==
  /\ Counts /\ seTab = "models" /\ m \in seModels /\ Requests("choose", m, TRUE)
  /\ UNCHANGED <<seServerVars, seStoreVars, seTab, seTabVars, seLoading>>
ToggleTool(t) ==
  /\ Counts /\ seToolView.has /\ Requests("toggle", t, t \notin seToolView.on)
  /\ UNCHANGED <<seServerVars, seStoreVars, seTab, seTabVars, seLoading>>
RunDiagnosticsAgain ==
  /\ Counts /\ seTab = "diagnostics" /\ ~seWaiting /\ seWaiting' = TRUE /\ Requests("diagnose", 0, TRUE)
  /\ UNCHANGED <<seServerVars, seStoreVars, seTab, seEditing, seToolView, seLoading>>
-----------------------------------------------------------------------------
(* The server: a key that validates is stored; "lost" is an answer that never      *)
(* comes, or an error, whether or not the request was done.                        *)
Served(c) ==
  /\ seKeys' = CASE c.op = "save" -> seKeys \cup {c.x} [] c.op = "remove" -> seKeys \ {c.x} [] OTHER -> seKeys
  /\ seActive' = IF c.op = "choose" THEN c.x ELSE seActive
  /\ seEnabled' = IF c.op # "toggle" THEN seEnabled ELSE IF c.on THEN seEnabled \cup {c.x} ELSE seEnabled \ {c.x}
Report(op) == CASE op \in {"load", "start", "list"} -> seKeys [] op = "status" -> seEnabled [] OTHER -> {}
ServerTakes(i, how, done) ==
  /\ seCalls[i].how = "none" /\ (how = "ok" => done)
  /\ how = "refused" => seCalls[i].op = "save" /\ ~done
  /\ IF done THEN Served(seCalls[i]) ELSE UNCHANGED seServerVars
  /\ seCalls' = [seCalls EXCEPT ![i].how = how, ![i].got = IF how = "ok" THEN Report(seCalls[i].op) ELSE {}]
  /\ UNCHANGED <<seStoreVars, seTab, seTabVars, seLoading, seCrossed, seDone>>

AnswerTo(i, ops) == i \in InHand /\ seCalls[i].op \in ops /\ seCalls[i].how # "none" /\ UNCHANGED <<seServerVars, seTab, seDone>>
Ok(i) == seCalls[i].how = "ok"
Missed(i) == IF seCalls[i].how = "lost" THEN {Subject(seCalls[i].op)} ELSE {}

\* A save that ends clears the dialog's spinner; a valid one closes the form that
\* is open then, whose ever it is.  What changed a key loads the providers again.
KeyAnswered(i) ==
  /\ AnswerTo(i, {"save", "remove"})
  /\ LET c == seCalls[i]
         rest == RemoveAt(seCalls, i) IN
     /\ seLoading' = (seLoading /\ ~(c.op = "save" /\ c.dialog))
     /\ seEditing' = IF c.op = "save" /\ Ok(i) /\ c.tab THEN Blank ELSE seEditing
     /\ seCalls' = IF Ok(i) THEN Asked(rest, "load", 0, TRUE) ELSE rest
     /\ seCrossed' = seCrossed \cup Missed(i) \cup (IF Ok(i) THEN Crossing(rest, "load") ELSE {})
  /\ UNCHANGED <<seStoreVars, seWaiting, seToolView>>

\* What an answer that was alone all its way says is so.
Settled(i) == IF Ok(i) /\ seCalls[i].alone THEN seCrossed \ {Subject(seCalls[i].op)} ELSE seCrossed \cup Missed(i)
Removed(i) == seCalls' = RemoveAt(seCalls, i)
LoadAnswered(i) ==
  /\ AnswerTo(i, {"load", "start"}) /\ Removed(i) /\ seCrossed' = Settled(i)
  /\ seProviders' = IF Ok(i) THEN seCalls[i].got ELSE seProviders
  /\ seModels' = IF Ok(i) /\ seCalls[i].op = "start" THEN seCalls[i].got ELSE seModels
  /\ UNCHANGED <<seShown, seTabVars, seLoading>>
ModelAnswered(i) ==
  /\ AnswerTo(i, {"choose", "greet"}) /\ Removed(i) /\ seCrossed' = Settled(i)
  /\ seShown' = IF ~Ok(i) THEN seShown ELSE IF seCalls[i].op = "choose" THEN seCalls[i].x ELSE CHOOSE m \in seCalls[i].got : TRUE
  /\ UNCHANGED <<seProviders, seModels, seTabVars, seLoading>>
StatusAnswered(i) ==
  /\ AnswerTo(i, {"status"}) /\ Removed(i)
  /\ seToolView' = IF Ok(i) /\ seCalls[i].tab THEN [has |-> TRUE, on |-> seCalls[i].got] ELSE seToolView
  /\ seCrossed' = IF seCalls[i].tab THEN Settled(i) ELSE seCrossed
  /\ UNCHANGED <<seStoreVars, seEditing, seWaiting, seLoading>>
ToggleAnswered(i) ==
  /\ AnswerTo(i, {"toggle"}) /\ Removed(i) /\ seCrossed' = seCrossed \cup Missed(i)
  /\ LET c == seCalls[i] IN
     seToolView' = IF ~(Ok(i) /\ c.tab) THEN seToolView
                   ELSE [seToolView EXCEPT !.on = IF c.on THEN @ \cup {c.x} ELSE @ \ {c.x}]
  /\ UNCHANGED <<seStoreVars, seEditing, seWaiting, seLoading>>
TabAnswered(i) ==
  /\ AnswerTo(i, {"list", "diagnose"}) /\ Removed(i)
  /\ seModels' = IF seCalls[i].op = "list" /\ Ok(i) THEN seCalls[i].got ELSE seModels
  /\ seWaiting' = (seWaiting /\ ~seCalls[i].tab)
  /\ UNCHANGED <<seProviders, seShown, seEditing, seToolView, seLoading, seCrossed>>

SettingsNext ==
  \/ OpenSettings \/ CloseSettings \/ (\E back \in BOOLEAN : PageConnects(back))
  \/ TypeKeyIn \/ HandleSaveKey \/ RefreshModels \/ RunDiagnosticsAgain
  \/ \E tab \in SettingsTabs : PickTab(tab)
  \/ \E p \in SeProviders : EditKey(p) \/ HandleRemoveKey(p) \/ ChooseModel(p)
  \/ \E t \in SeTools : ToggleTool(t)
  \/ \E i \in InHand :
       \/ \E how \in {"ok", "refused", "lost"}, done \in BOOLEAN : ServerTakes(i, how, done)
       \/ KeyAnswered(i) \/ LoadAnswered(i) \/ ModelAnswered(i)
       \/ StatusAnswered(i) \/ ToggleAnswered(i) \/ TabAnswered(i)

SettingsSpec == SettingsInit /\ [][SettingsNext]_settingsVars
-----------------------------------------------------------------------------
\* Once nothing is under way about it, the page shows the server's keys, model and
\* tools, unless two requests crossed or an answer was lost; and the next request
\* that goes alone to the server and back makes it true again.
SettingsAgree ==
  LET true(s) == About(seCalls, s) = {} /\ s \notin seCrossed IN
  /\ true("keys") => seProviders = seKeys
  /\ true("model") => seShown = seActive
  /\ true("tools") /\ seToolView.has => seToolView.on = seEnabled

\* A spinner of the dialog or of a tab belongs to a request of that dialog or tab.
SpinnersAreReal ==
  /\ seLoading => \E i \in InHand : seCalls[i].op = "save" /\ seCalls[i].dialog
  /\ seWaiting => \E i \in InHand : seCalls[i].op \in {"list", "diagnose"} /\ seCalls[i].tab
=============================================================================
