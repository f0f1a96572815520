---------------------------- MODULE MessageRouting ----------------------------
(* What becomes of a message the user types: the terminal (AgentTerminalPanel),   *)
(* the socket's cases "user-message" and "command" (index.ts), the slash commands *)
(* (router/commands.ts, handleCommand) and the fast path (router/direct.ts), an   *)
(* ordered list of patterns that answers with one tool action, with "defer to the *)
(* model", or passes the message on.                                              *)
(*                                                                               *)
(* A message is a form (the phrase it is made of), the kind of its target, and a  *)
(* flag; the file system changes while the user types.                            *)
EXTENDS Naturals, Sequences

Commands == {"/help", "/stop", "/clear", "/mission-new"}
OpenForms == {"open", "open the file"}
ReadForms == OpenForms \cup {"read", "show", "show the files in", "show duplicates in"}
Fixed == {"screenshot", "clipboard", "volume", "mute", "info", "processes", "close tab", "submit"}
Forms == Commands \cup ReadForms \cup Fixed \cup
  {"set volume", "kill", "inspect", "go to", "what is in", "what is in the folder", "organize",
   "delete duplicates", "find duplicates", "list files in", "ls", "download",
   "play on youtube", "search on youtube", "search for on youtube", "search for", "google"}
(* "over" is a number no percentage can be; "words" is any other phrase.           *)
Targets == {"url", "site", "name", "path", "number", "over", "words"}
Flags == {"plain", "negated", "complex", "long"}

VARIABLES
  rtMode,   \* "off", then BRAIN_MODE: "embedded" or "external"
  rtBusy,   \* the agent (of the Body, or of the Brain) works on a task
  rtDisk,   \* what is at the path or name the user has in mind
  rtMsg,    \* the message on its way: at "none", "sent" or "agent"
  rtTaken,  \* what became of the last one: a pair
  rtHeard   \* the model was given a slash command, as it was typed

rtVars == <<rtMode, rtBusy, rtDisk, rtMsg, rtTaken, rtHeard>>

NoMsg == [at |-> "none", form |-> "read", target |-> "words", flag |-> "plain"]
Pass == <<"next", "">>
Defer == <<"defer", "">>
MessagesInit ==
  /\ rtMode = "off" /\ rtBusy = FALSE /\ rtDisk = "missing" /\ rtMsg = NoMsg /\ rtTaken = Pass /\ rtHeard = FALSE

Then(form, forms, answer) == IF form \in forms THEN answer ELSE Pass
-----------------------------------------------------------------------------
(* ----- The patterns of classifyDirect, in their order ------------------------ *)
PathKind(m) == IF m.target \in {"name", "path"} THEN rtDisk ELSE "missing"
Sight(m) == CASE m.form = "screenshot" -> <<"screenshot", "">> [] m.form = "clipboard" -> <<"clipboard", "read">>
              [] OTHER -> Pass
Volume(m) ==
  CASE m.form = "volume" -> <<"system-audio", "get">> [] m.form = "mute" -> <<"system-audio", "mute">>
    [] m.form = "set volume" /\ m.target = "number" -> <<"system-audio", "set">>
    [] m.form = "set volume" /\ m.target = "over" -> Defer
    [] OTHER -> Pass
Info(m) == Then(m.form, {"info"}, <<"system-info", "">>)
\* Mutant: any target will do for a kill.
ProcessAny(m) ==
  CASE m.form = "processes" -> <<"process-control", "list">> [] m.form = "kill" -> <<"process-control", "kill">>
    [] OTHER -> Pass
Process(m) ==
  CASE m.form = "processes" -> <<"process-control", "list">>
    [] m.form \in {"kill", "inspect"} /\ m.target \in {"number", "over"} -> <<"process-control", m.form>>
    [] OTHER -> Pass
Tabs(m) == Then(m.form, {"close tab"}, <<"browser", "close_tab">>)
OpenAddress(m) == IF m.form = "open" /\ m.target \in {"url", "site"} THEN <<"browser", "open_url">> ELSE Pass
GoTo(m) == Then(m.form, {"go to"}, IF m.target \in {"url", "site"} THEN <<"browser", "open_url">> ELSE Defer)
(* The verbs read, open, show: a file is read, a directory listed; only a bare    *)
(* "open" of what is missing goes on.  "show the files in" is taken as a path.    *)
ReadOrList(m) ==
  LET kind == IF m.form \in {"show the files in", "show duplicates in"} THEN "missing" ELSE PathKind(m)
  IN Then(m.form, ReadForms,
       CASE kind = "file" -> <<"filesystem", "read">> [] kind = "dir" -> <<"filesystem", "list">>
         [] m.form # "open" -> Defer [] OTHER -> Pass)
WhatIsIn(m) ==
  CASE m.form = "what is in" /\ PathKind(m) = "file" -> <<"filesystem", "read">>
    [] m.form = "what is in" /\ PathKind(m) = "dir" -> <<"filesystem", "list">>
    [] m.form \in {"what is in", "what is in the folder"} -> Defer
    [] OTHER -> Pass
LaunchNamed(m) == Then(m.form, OpenForms, IF m.target # "path" THEN <<"computer-control", "launch_app">> ELSE Defer)
OnDir(m, forms, answer) == Then(m.form, forms, IF PathKind(m) = "dir" THEN answer ELSE Defer)
Organize(m) == OnDir(m, {"organize"}, <<"bulk-files", "organize">>)
DeleteDuplicates(m) == OnDir(m, {"delete duplicates"}, <<"bulk-files", "delete_duplicates">>)
FindDuplicates(m) == OnDir(m, {"find duplicates", "show duplicates in"}, <<"bulk-files", "report">>)
ListFiles(m) == OnDir(m, {"list files in", "show the files in", "what is in the folder"}, <<"filesystem", "list">>)
Ls(m) == Then(m.form, {"ls"}, IF PathKind(m) # "missing" THEN <<"filesystem", "list">> ELSE Defer)
Submit(m) == Then(m.form, {"submit"}, <<"blaxin_web", "form_submit">>)
Download(m) == Then(m.form, {"download"}, IF m.target # "url" THEN <<"blaxin_web", "download">> ELSE Defer)
YouTube(m) ==
  CASE m.form = "play on youtube" -> <<"blaxin_web", "youtube_play">>
    [] m.form \in {"search on youtube", "search for on youtube"} -> <<"blaxin_web", "youtube_search">>
    [] OTHER -> Pass
WebSearch(m) == Then(m.form, {"search for", "search for on youtube", "google"}, <<"search", "">>)

AnswersItself(m) ==
  <<Sight(m), Volume(m), Info(m), Process(m), Tabs(m), OpenAddress(m), GoTo(m), ReadOrList(m), WhatIsIn(m), LaunchNamed(m),
    Organize(m), DeleteDuplicates(m), FindDuplicates(m), ListFiles(m), Ls(m), Submit(m), Download(m)>>
LastAnswers(m) == <<YouTube(m), WebSearch(m)>>
First(answers) ==
  LET taken == {i \in DOMAIN answers : answers[i] # Pass}
  IN IF taken = {} THEN Defer ELSE answers[CHOOSE i \in taken : \A j \in taken : i <= j]
(* Negated, complex or long messages are the model's.                             *)
ClassifyDirect(m) == IF m.flag # "plain" THEN Defer ELSE First(AnswersItself(m) \o LastAnswers(m))
-----------------------------------------------------------------------------
(* ----- From the terminal to the agent ------------------------------------------ *)
BrainLaunched(mode) ==
  /\ rtMode = "off" /\ rtMode' = mode /\ UNCHANGED <<rtBusy, rtDisk, rtMsg, rtTaken, rtHeard>>
DiskTurns(kind) ==
  /\ rtMode # "off" /\ rtDisk' = kind /\ UNCHANGED <<rtMode, rtBusy, rtMsg, rtTaken, rtHeard>>
(* While the agent is busy only commands are sent.                                *)
HandleSend(form, target, flag) ==
  /\ rtMode # "off" /\ rtMsg.at = "none" /\ (form \in Commands => flag = "plain" /\ target = "words")
  /\ (rtBusy => form \in Commands)
  /\ rtMsg' = [at |-> "sent", form |-> form, target |-> target, flag |-> flag] /\ rtTaken' = Pass
  /\ UNCHANGED <<rtMode, rtBusy, rtDisk, rtHeard>>
(* classifyCommand, and handleCommand: stop and clear reach the scheduler of the  *)
(* embedded Brain only; a new mission is pumped.                                  *)
IsCommand(m) == m.form \in Commands
HandleCommand ==
  /\ rtTaken' = <<"command", rtMsg.form>> /\ rtMsg' = NoMsg /\ UNCHANGED <<rtMode, rtDisk, rtHeard>>
  /\ rtBusy' = CASE rtMsg.form \in {"/stop", "/clear"} /\ rtMode = "embedded" -> FALSE
                 [] rtMsg.form = "/mission-new" /\ rtMode = "embedded" -> TRUE
                 [] OTHER -> rtBusy
(* Case "user-message": in external mode the Brain gets the text, whatever it is. *)
UserMessage ==
  /\ rtMsg.at = "sent"
  /\ IF rtMode = "external"
     THEN /\ rtHeard' = (rtHeard \/ IsCommand(rtMsg)) /\ rtBusy' = TRUE
          /\ rtMsg' = NoMsg /\ rtTaken' = <<"remote", "">> /\ UNCHANGED <<rtMode, rtDisk>>
     ELSE IF IsCommand(rtMsg) THEN HandleCommand
     ELSE rtMsg' = [rtMsg EXCEPT !.at = "agent"] /\ UNCHANGED <<rtMode, rtBusy, rtDisk, rtTaken, rtHeard>>
(* runTask: the fast path, else the model.                                        *)
RunTask ==
  /\ rtMsg.at = "agent" /\ rtTaken' = ClassifyDirect(rtMsg) /\ rtMsg' = NoMsg /\ rtBusy' = TRUE
  /\ rtHeard' = (rtHeard \/ (ClassifyDirect(rtMsg) = Defer /\ IsCommand(rtMsg)))
  /\ UNCHANGED <<rtMode, rtDisk>>
AgentAnswers == rtBusy /\ rtBusy' = FALSE /\ rtHeard' = FALSE /\ UNCHANGED <<rtMode, rtDisk, rtMsg, rtTaken>>

MessagesNext ==
  \/ \E mode \in {"embedded", "external"} : BrainLaunched(mode)
  \/ \E kind \in {"file", "dir", "missing"} : DiskTurns(kind)
  \/ \E f \in Forms, t \in Targets, g \in Flags : HandleSend(f, t, g)
  \/ UserMessage \/ RunTask \/ AgentAnswers

MessagesSpec == MessagesInit /\ [][MessagesNext]_rtVars
-----------------------------------------------------------------------------
Mutating == {<<"process-control", "kill">>, <<"system-audio", "set">>, <<"bulk-files", "organize">>,
             <<"bulk-files", "delete_duplicates">>}
RunsAs(action) == rtMsg.at = "agent" /\ rtMsg'.at = "none" /\ rtTaken' = action

\* "Kill is routed ONLY with an explicit numeric pid ... never guessed": an action
\* that changes the machine comes from a plain message whose target is what the
\* action needs, at the moment it is taken.
NeverGuessed ==
  [][\A a \in Mutating : RunsAs(a) =>
       /\ rtMsg.flag = "plain"
       /\ CASE a[1] = "process-control" -> rtMsg.target \in {"number", "over"}
            [] a[1] = "system-audio" -> rtMsg.target = "number"
            [] OTHER -> rtDisk = "dir" /\ rtMsg.target \in {"name", "path"}]_rtVars

\* "'search X on youtube' stays a YouTube search, not a Google search."
YouTubeStays ==
  [][rtMsg.at = "agent" /\ rtMsg.form \in {"search on youtube", "search for on youtube"}
       => rtTaken'[1] # "search"]_rtVars

\* "They execute locally with zero model involvement": the embedded Brain never
\* gives a slash command to the model.
CommandsStayHere == rtMode = "embedded" => ~rtHeard

\* A message does what it says or goes to the model: neither a guessed change of
\* the machine nor a command in the model's hands (direct.ts, commands.ts).
MessagesAreUnderstood == []CommandsStayHere /\ NeverGuessed /\ YouTubeStays
=============================================================================
