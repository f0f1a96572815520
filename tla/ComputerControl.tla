---------------------------- MODULE ComputerControl ----------------------------
(* Desktop input and sound: computer-control.ts (mouse, keyboard, windows,         *)
(* launching) and system-audio.ts.  Each request runs commands one after the       *)
(* other on a desktop (external) that the user and other programs use as well, and *)
(* then reads back what became of it.  One coordinate stands for both; the screen  *)
(* has the pixels 0..w-1.                                                          *)
EXTENDS Naturals, Integers, FiniteSets

CONSTANTS CcPoints,    \* coordinates that may be asked for
          CcWidths,    \* widths the screen may have
          CcWindows,   \* window ids
          MaxCcUpsets, MaxCcTasks  \* bounds: what others do to the desktop; requests

ASSUME ControlAssumption == CcPoints \subseteq Nat /\ CcWidths \subseteq Nat \ {0} /\ IsFiniteSet(CcWindows)

Tol == 2               \* pixels the pointer may be off
VARIABLES
  ccWidth, ccPointer, ccLegible, \* the screen; the pointer; xdotool and xdpyinfo can read them
  ccBounds,   \* boundsCache: a width, or 0
  ccWins,     \* title of each open window; "asked" is the one the user names
  ccActive,   \* the active window (0: none)
  ccApp,      \* processes of the name to launch: "none", "ours", "others"
  ccSinks,    \* default sink (1, 2), and the volume of each
  ccTask,     \* kind, at, x, stops (way points left), hit (where the button went),
              \* seen (windows found), target, verdict
  ccJogs, ccTasks, ccUpsets     \* times the pointer was moved during a request; counters

ccVars == <<ccWidth, ccPointer, ccLegible, ccBounds, ccWins, ccActive, ccApp, ccSinks, ccTask, ccJogs, ccTasks, ccUpsets>>
ccScreen == <<ccWidth, ccLegible, ccBounds>>
ccDesk == <<ccWins, ccActive, ccApp, ccSinks>>
ccCounts == <<ccJogs, ccTasks, ccUpsets>>

NoHit == -1
NoTask == [kind |-> "none", at |-> "idle", x |-> 0, stops |-> 0, hit |-> NoHit, seen |-> 0, target |-> 0, verdict |-> "none"]
ControlInit ==
  /\ ccWidth = 8 /\ ccPointer = 0 /\ ccLegible = TRUE /\ ccBounds = 0
  /\ ccWins = [w \in CcWindows |-> "asked"] /\ ccActive = 0 /\ ccApp = "none"
  /\ ccSinks = [default |-> 1, level |-> <<1, 0>>] /\ ccTask = NoTask
  /\ ccJogs = 0 /\ ccTasks = 0 /\ ccUpsets = 0

ControlAt(kinds, step) == ccTask.kind \in kinds /\ ccTask.at = step
To(step) == ccTask' = [ccTask EXCEPT !.at = step]
ControlEnds(v) == ccTask' = [ccTask EXCEPT !.at = "over", !.verdict = v]
Clicks == {"click", "right"}
Pointing == Clicks \cup {"double", "move"}
Clamp(x) == IF x < ccWidth THEN x ELSE ccWidth - 1
Far(a, b) == a - b > Tol \/ b - a > Tol

(* ----- The desktop (external) ---------------------------------------------------- *)
DesktopUpset == ccUpsets < MaxCcUpsets /\ ccUpsets' = ccUpsets + 1 /\ UNCHANGED <<ccTask, ccTasks>>
UserMoves(x) ==
  /\ DesktopUpset /\ ccTask.kind \in Pointing /\ x < ccWidth /\ Far(x, ccPointer) /\ ccPointer' = x /\ ccJogs' = ccJogs + 1
  /\ UNCHANGED <<ccScreen, ccDesk>>
ScreenTurns(w) ==
  /\ DesktopUpset /\ w # ccWidth /\ ccWidth' = w /\ ccPointer' = (IF ccPointer < w THEN ccPointer ELSE w - 1)
  /\ ccJogs' = ccJogs + 1 /\ UNCHANGED <<ccLegible, ccBounds, ccDesk>>
ReadBackGoes == DesktopUpset /\ ccLegible /\ ccLegible' = FALSE /\ UNCHANGED <<ccWidth, ccPointer, ccBounds, ccDesk, ccJogs>>
BoundsExpire == ccBounds # 0 /\ ccBounds' = 0 /\ UNCHANGED <<ccWidth, ccPointer, ccLegible, ccDesk, ccTask, ccCounts>>
WindowCloses(w) ==
  /\ DesktopUpset /\ w \in DOMAIN ccWins /\ ccWins' = [v \in DOMAIN ccWins \ {w} |-> ccWins[v]]
  /\ ccActive' = (IF ccActive = w THEN 0 ELSE ccActive) /\ UNCHANGED <<ccScreen, ccPointer, ccApp, ccSinks, ccJogs>>
Activates(w) ==
  /\ DesktopUpset /\ w \in DOMAIN ccWins /\ ccActive' = w /\ UNCHANGED <<ccScreen, ccPointer, ccWins, ccApp, ccSinks, ccJogs>>
AppTurns(app) ==
  /\ DesktopUpset /\ app # ccApp /\ ccApp' = app /\ UNCHANGED <<ccScreen, ccPointer, ccWins, ccActive, ccSinks, ccJogs>>
SinkTurns(s) ==
  /\ DesktopUpset /\ ccSinks' = [ccSinks EXCEPT !.default = s] /\ UNCHANGED <<ccScreen, ccPointer, ccWins, ccActive, ccApp, ccJogs>>
Desktop ==
  \/ (\E x \in CcPoints : UserMoves(x)) \/ (\E w \in CcWidths : ScreenTurns(w)) \/ ReadBackGoes \/ BoundsExpire
  \/ (\E w \in CcWindows : WindowCloses(w) \/ Activates(w)) \/ (\E a \in {"none", "others"} : AppTurns(a))
  \/ \E s \in {1, 2} : SinkTurns(s)

BeginControl(kind, x) ==
  /\ ccTask.at = "idle" /\ ccTasks < MaxCcTasks /\ ccTasks' = ccTasks + 1 /\ ccJogs' = 0
  /\ ccTask' = [NoTask EXCEPT !.kind = kind, !.x = x, !.at = IF kind \in Pointing THEN "bounds" ELSE "go"]
  /\ UNCHANGED <<ccScreen, ccPointer, ccDesk, ccUpsets>>
Reported == ccTask.at = "over" /\ ccTask' = NoTask /\ UNCHANGED <<ccScreen, ccPointer, ccDesk, ccCounts>>
-----------------------------------------------------------------------------
(* ----- The mouse ------------------------------------------------------------------- *)
(* readScreenBounds: the cache, or xdpyinfo; without either nothing is checked.   *)
KnownWidth == IF ccBounds # 0 THEN ccBounds ELSE IF ccLegible THEN ccWidth ELSE 0
OnScreen(x, width) == width = 0 \/ x <= width
CheckOnScreen ==
  /\ ControlAt(Pointing, "bounds") /\ ccBounds' = KnownWidth
  /\ IF OnScreen(ccTask.x, KnownWidth) THEN To(IF ccTask.kind = "double" THEN "press" ELSE "travel") ELSE ControlEnds("refused")
  /\ UNCHANGED <<ccWidth, ccPointer, ccLegible, ccDesk, ccCounts>>
(* moveMouseSmooth: way points from where the pointer is, or one move.            *)
Travel(via) ==
  /\ ControlAt(Pointing, "travel") /\ (via => ccLegible /\ Far(ccTask.x, ccPointer) /\ ccTask.stops = 0)
  /\ IF via THEN /\ ccPointer' = Clamp((ccPointer + ccTask.x) \div 2)
                 /\ ccTask' = [ccTask EXCEPT !.stops = 1]
     ELSE /\ ccPointer' = Clamp(ccTask.x) /\ To(IF ccTask.kind = "move" THEN "read" ELSE "press")
  /\ UNCHANGED <<ccScreen, ccDesk, ccCounts>>
(* A click goes to wherever the pointer is; a double click moves and clicks in    *)
(* one command.                                                                   *)
Press ==
  /\ ControlAt(Pointing, "press")
  /\ ccPointer' = (IF ccTask.kind = "double" THEN Clamp(ccTask.x) ELSE ccPointer)
  /\ ccTask' = [ccTask EXCEPT !.hit = ccPointer', !.at = "read"]
  /\ UNCHANGED <<ccScreen, ccDesk, ccCounts>>
PointVerdict == IF ~ccLegible THEN "unverified" ELSE IF Far(ccPointer, ccTask.x) THEN "failed" ELSE "verified"
ReadPointer == ControlAt(Pointing, "read") /\ ControlEnds(PointVerdict) /\ UNCHANGED <<ccScreen, ccPointer, ccDesk, ccCounts>>
(* Keys go to the window that is active then; whoever gets them is not verified.  *)
SendKeys == ControlAt({"type"}, "go") /\ ControlEnds("unverified") /\ UNCHANGED <<ccScreen, ccPointer, ccDesk, ccCounts>>
-----------------------------------------------------------------------------
(* ----- Windows ----------------------------------------------------------------------- *)
Found == {w \in DOMAIN ccWins : ccWins[w] = "asked"}
(* close_window: the first match is closed; xdotool search without a match fails, *)
(* and so does the request.                                                       *)
CloseWindow ==
  /\ ControlAt({"close"}, "go")
  /\ IF Found = {} THEN ControlEnds("failed") /\ UNCHANGED <<ccWins, ccActive>>
     ELSE \E w \in Found, obeys \in BOOLEAN :
       /\ (\A v \in Found : w <= v)
       /\ ccTask' = [ccTask EXCEPT !.at = "gone", !.seen = Cardinality(Found), !.target = w]
       /\ IF obeys THEN ccWins' = [v \in DOMAIN ccWins \ {w} |-> ccWins[v]] /\ ccActive' = (IF ccActive = w THEN 0 ELSE ccActive)
          ELSE UNCHANGED <<ccWins, ccActive>>
  /\ UNCHANGED <<ccScreen, ccPointer, ccApp, ccSinks, ccCounts>>
Fewer(n, before) == n < before
(* Looked for five times; the search fails once the last of that title is gone.   *)
SeeGone ==
  /\ ControlAt({"close"}, "gone") /\ Found # {} /\ Fewer(Cardinality(Found), ccTask.seen) /\ ControlEnds("verified")
  /\ UNCHANGED <<ccScreen, ccPointer, ccDesk, ccCounts>>
NotSeenGone == ControlAt({"close"}, "gone") /\ ControlEnds("failed") /\ UNCHANGED <<ccScreen, ccPointer, ccDesk, ccCounts>>
(* focus_window: activated, and the active window's name is read.                 *)
FocusWindow ==
  /\ ControlAt({"focus"}, "go")
  /\ IF Found = {} THEN ControlEnds("failed") /\ UNCHANGED ccActive
     ELSE To("see") /\ \E w \in Found \cup {ccActive} : ccActive' = w
  /\ UNCHANGED <<ccScreen, ccPointer, ccWins, ccApp, ccSinks, ccCounts>>
SeeFocus ==
  /\ ControlAt({"focus"}, "see")
  /\ ControlEnds(IF ccActive = 0 THEN "unverified" ELSE IF ccWins[ccActive] = "asked" THEN "verified" ELSE "failed")
  /\ UNCHANGED <<ccScreen, ccPointer, ccDesk, ccCounts>>
-----------------------------------------------------------------------------
(* ----- Launching, and sound ------------------------------------------------------------ *)
(* Spawned directly, or through the open handler; it may die at once.             *)
LaunchApp(outcome) ==
  /\ ControlAt({"launch"}, "go")
  /\ CASE outcome = "runs" -> ccApp' = "ours" /\ To("alive")
       [] outcome = "dies" -> UNCHANGED ccApp /\ To("alive")
       [] outcome = "refused" -> UNCHANGED ccApp /\ ControlEnds("failed")
  /\ UNCHANGED <<ccScreen, ccPointer, ccWins, ccActive, ccSinks, ccCounts>>
(* pgrep, then pidof: a process of that name.                                     *)
Alive == ccApp # "none"
SeeAlive ==
  /\ ControlAt({"launch"}, "alive") /\ ControlEnds(IF Alive THEN "verified" ELSE "failed") /\ UNCHANGED <<ccScreen, ccPointer, ccDesk, ccCounts>>
SetVolume ==
  /\ ControlAt({"volume"}, "go") /\ To("listen")
  /\ \E obeys \in BOOLEAN : ccSinks' = IF obeys THEN [ccSinks EXCEPT !.level[ccSinks.default] = ccTask.x] ELSE ccSinks
  /\ UNCHANGED <<ccScreen, ccPointer, ccWins, ccActive, ccApp, ccCounts>>
(* parseSinks takes the first volume of the status, whichever sink is the default. *)
ListedWindow == 1
LevelVerdict == IF ccSinks.level[ListedWindow] = ccTask.x THEN "verified" ELSE "failed"
ReadVolume == ControlAt({"volume"}, "listen") /\ ControlEnds(LevelVerdict) /\ UNCHANGED <<ccScreen, ccPointer, ccDesk, ccCounts>>

ControlNext ==
  \/ Desktop \/ Reported \/ (\E k \in Pointing, x \in CcPoints : BeginControl(k, x))
  \/ (\E k \in {"type", "close", "focus", "launch"} : BeginControl(k, 1)) \/ \E x \in {0, 1} : BeginControl("volume", x)
  \/ CheckOnScreen \/ (\E b \in BOOLEAN : Travel(b)) \/ Press \/ ReadPointer \/ SendKeys
  \/ CloseWindow \/ SeeGone \/ NotSeenGone \/ FocusWindow \/ SeeFocus
  \/ (\E o \in {"runs", "dies", "refused"} : LaunchApp(o)) \/ SeeAlive \/ SetVolume \/ ReadVolume

ControlSpec == ControlInit /\ [][ControlNext]_ccVars
-----------------------------------------------------------------------------
VerifiedOf(kinds) == ccTask.kind \in kinds /\ ccTask.verdict = "verified"

\* "Exit 0 alone only proves the X server accepted the request, not that the
\* pointer is there": one move by the user, or one change of the screen, never makes
\* a click that went elsewhere a verified one.
VerifiedClickHit ==
  VerifiedOf(Clicks) /\ ccJogs <= 1 => ~Far(ccTask.hit, ccTask.x)

\* "A focus that did not take effect is a failure", "the closed window must be
\* GONE", "is the process actually alive": what is reported as verified was so
\* when it was looked at.
VerifiedWasSeen ==
  [][ccTask.at # "over" /\ ccTask'.at = "over" /\ ccTask'.verdict = "verified"
       => CASE ccTask.kind = "focus" -> ccActive \in Found
            [] ccTask.kind = "launch" -> ccApp # "none"
            [] ccTask.kind = "volume" -> ccSinks.default = ListedWindow => ccSinks.level[ListedWindow] = ccTask.x
            [] OTHER -> TRUE]_ccVars

\* A close that was verified took a window of that title off the screen: the one
\* it named, unless another went by itself meanwhile.
VerifiedCloseClosed ==
  VerifiedOf({"close"}) /\ ccUpsets = 0 => ccTask.target \notin DOMAIN ccWins
=============================================================================
