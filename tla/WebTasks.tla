------------------------------- MODULE WebTasks -------------------------------
(* The verified tasks of web-agent.ts on one page: fill_form, download, scroll   *)
(* and youtube_play, over the page operations of cdp-browser.ts and the polling   *)
(* checks of verification.ts.  Whether the page and the session are still there  *)
(* is WebAgent's subject: here the page (external) stays and changes by itself.  *)
EXTENDS Naturals, FiniteSets

CONSTANTS WtFields,  \* 1..n: the fields of the form, in the order given
          WtFiles,   \* names the download directory may hold, in its own order
          WtRows,    \* rows the page may have; the view shows two
          ScanCap,   \* maxEntries of scanDownloadDir
          MaxWtUpsets, MaxWtPolls  \* bounds: changes of page and disk; steps, polls

ASSUME WtAssumption ==
  /\ IsFiniteSet(WtFields) /\ WtFields = 1 .. Cardinality(WtFields)
  /\ IsFiniteSet(WtFiles) /\ WtFiles = 1 .. Cardinality(WtFiles)
  /\ ScanCap \in Nat /\ WtRows \in Nat

View == 2                                   \* innerHeight
Step == 2                                   \* stepPx, not above the view
VARIABLES
  wtTask,    \* the task: kind, at, result
  wtForm,    \* what each field of the page holds: "old", "wanted", "other"
  wtMeddled, \* fields the page changed after they were read back
  wtFilled,  \* fields done so far, and whether one failed
  wtDir,     \* sizes of the files in the download directory
  wtScan,    \* before: the names seen before the click; there: all of them then;
             \* pick, size: the best candidate; over: more files than the cap
  wtScroll,  \* top, height of the page; target: its row (WtRows: none); end: at
             \* the boundary when the heights were read
  wtVideo,   \* what the page is: "results", "watch", "playing", "elsewhere"
  wtSeen,    \* a poll of the current check read the page
  wtPolls, wtUpsets  \* bounded

wtVars == <<wtTask, wtForm, wtMeddled, wtFilled, wtDir, wtScan, wtScroll, wtVideo, wtSeen, wtPolls, wtUpsets>>
wtFormVars == <<wtForm, wtMeddled, wtFilled>>
wtDirVars == <<wtDir, wtScan>>
wtPageVars == <<wtScroll, wtVideo, wtSeen>>

TasksInit ==
  /\ wtTask = [kind |-> "none", at |-> "idle", result |-> "none"]
  /\ wtForm = [f \in WtFields |-> "old"] /\ wtMeddled = {} /\ wtFilled = [n |-> 0, ok |-> TRUE]
  /\ wtDir = [n \in {} |-> 0]
  /\ wtScan = [before |-> {}, there |-> {}, pick |-> 0, size |-> 0, over |-> FALSE]
  /\ wtScroll = [top |-> 0, height |-> WtRows - 1, target |-> WtRows, end |-> FALSE]
  /\ wtVideo = "elsewhere" /\ wtSeen = FALSE /\ wtPolls = 0 /\ wtUpsets = 0

On(kind, at) == wtTask.kind = kind /\ wtTask.at = at
TaskMoves(at) == wtTask' = [wtTask EXCEPT !.at = at]
Results(r) == wtTask' = [wtTask EXCEPT !.at = "over", !.result = r]
PollPage == wtPolls < MaxWtPolls /\ wtPolls' = wtPolls + 1 /\ UNCHANGED wtUpsets
NoPoll == UNCHANGED <<wtPolls, wtUpsets>>
PageUpset == wtUpsets < MaxWtUpsets /\ wtUpsets' = wtUpsets + 1 /\ UNCHANGED <<wtTask, wtPolls>>
BeginTask(kind, at) ==
  /\ wtTask.at = "idle" /\ wtTask' = [kind |-> kind, at |-> at, result |-> "none"]
  /\ UNCHANGED <<wtFormVars, wtDirVars, wtPageVars>> /\ NoPoll
-----------------------------------------------------------------------------
(* ----- fill_form ------------------------------------------------------------- *)
Field == wtFilled.n + 1
(* fillField: the native setter, or the option found by value or label, in any     *)
(* case; the handlers of the page run before the value is read back.              *)
Held == {"wanted", "other"}
CountedField(f, held) == [n |-> f, ok |-> wtFilled.ok /\ held = "wanted"]
FillField(held) ==
  /\ On("form", "fill") /\ Field \in WtFields
  /\ wtForm' = [wtForm EXCEPT ![Field] = held] /\ wtFilled' = CountedField(Field, held)
  /\ UNCHANGED <<wtTask, wtMeddled, wtDirVars, wtPageVars>> /\ NoPoll
(* No description, no confident grounding, no such option, or the page threw.     *)
FieldMissed ==
  /\ On("form", "fill") /\ Field \in WtFields /\ wtFilled' = CountedField(Field, "missed")
  /\ UNCHANGED <<wtTask, wtForm, wtMeddled, wtDirVars, wtPageVars>> /\ NoPoll
EndForm ==
  /\ On("form", "fill") /\ Field \notin WtFields /\ Results(IF wtFilled.ok THEN "success" ELSE "failure")
  /\ UNCHANGED <<wtFormVars, wtDirVars, wtPageVars>> /\ NoPoll
(* A script of the page (a mask, a dependent select) rewrites a field.            *)
PageRewrites(f) ==
  /\ wtTask.kind = "form" /\ wtTask.at # "over" /\ PageUpset /\ wtForm' = [wtForm EXCEPT ![f] = "other"]
  /\ wtMeddled' = wtMeddled \cup {f}
  /\ UNCHANGED <<wtFilled, wtDirVars, wtPageVars>>
FormStep == (\E h \in Held : FillField(h)) \/ FieldMissed \/ EndForm \/ \E f \in WtFields : PageRewrites(f)
-----------------------------------------------------------------------------
(* ----- download -------------------------------------------------------------- *)
Files == DOMAIN wtDir
(* scanDownloadDir: the first entries of the directory, up to the cap.            *)
Scanned == {n \in Files : Cardinality({m \in Files : m <= n}) <= ScanCap}
\* Mutant: the files there before the click are not noted.
BeforeNone == {}
SeenBefore == Scanned
ClickDownload ==
  /\ On("download", "click") /\ TaskMoves("poll")
  /\ wtScan' = [wtScan EXCEPT !.before = SeenBefore, !.there = Files]
  /\ UNCHANGED <<wtFormVars, wtDir, wtPageVars>> /\ NoPoll
Fresh == Scanned \ wtScan.before
(* The last of the fresh ones is looked at; the loop ends once it is not empty.   *)
PollDownload ==
  /\ On("download", "poll") /\ PollPage
  /\ IF Fresh # {} /\ wtDir[CHOOSE n \in Fresh : \A m \in Fresh : m <= n] > 0
     THEN LET n == CHOOSE n \in Fresh : \A m \in Fresh : m <= n
          IN wtScan' = [wtScan EXCEPT !.pick = n, !.size = wtDir[n]] /\ TaskMoves("stable")
     ELSE UNCHANGED <<wtScan, wtTask>>
  /\ UNCHANGED <<wtFormVars, wtDir, wtPageVars>>
DownloadTimesOut ==
  /\ On("download", "poll") /\ Results("failure") /\ UNCHANGED <<wtFormVars, wtDirVars, wtPageVars>> /\ NoPoll
Holds(n, size) == n \in Scanned /\ wtDir[n] = size
CheckStable ==
  /\ On("download", "stable") /\ Results(IF Holds(wtScan.pick, wtScan.size) THEN "success" ELSE "failure")
  /\ UNCHANGED <<wtFormVars, wtDirVars, wtPageVars>> /\ NoPoll
(* The browser writes what is downloaded; others write and delete files too.      *)
DiskChanges(dir) ==
  /\ wtTask.kind = "download" /\ wtTask.at # "over" /\ PageUpset /\ wtDir' = dir
  /\ wtScan' = [wtScan EXCEPT !.over = @ \/ Cardinality(DOMAIN dir) > ScanCap]
  /\ UNCHANGED <<wtFormVars, wtPageVars>>
FileWritten(n, size) == DiskChanges([m \in Files \cup {n} |-> IF m = n THEN size ELSE wtDir[m]])
FileDeleted(n) == n \in Files /\ DiskChanges([m \in Files \ {n} |-> wtDir[m]])
DownloadStep ==
  \/ ClickDownload \/ PollDownload \/ DownloadTimesOut \/ CheckStable
  \/ \E n \in WtFiles : FileDeleted(n) \/ \E s \in 0..2 : FileWritten(n, s)
-----------------------------------------------------------------------------
Smaller(a, b) == IF a < b THEN a ELSE b
(* ----- scroll (adaptiveScroll, downwards) -------------------------------------- *)
Visible(row) == wtScroll.top <= row /\ row < wtScroll.top + View
AtBoundary == wtScroll.top + View >= wtScroll.height
(* OBSERVE first: the heights as they are now decide, after the search.           *)
ReadHeights ==
  /\ On("scroll", "look") /\ PollPage /\ TaskMoves("search") /\ wtScroll' = [wtScroll EXCEPT !.end = AtBoundary]
  /\ UNCHANGED <<wtFormVars, wtDirVars, wtVideo, wtSeen>>
Look == IF Visible(wtScroll.target) THEN "found" ELSE IF wtScroll.end THEN "boundary" ELSE "on"
LookAndScroll ==
  /\ On("scroll", "search") /\ NoPoll
  /\ IF Look # "on" THEN Results(Look) /\ UNCHANGED wtScroll
     ELSE /\ wtScroll' = [wtScroll EXCEPT !.top = IF AtBoundary THEN @ ELSE Smaller(@ + Step, wtScroll.height - View)]
          /\ IF wtPolls = MaxWtPolls THEN Results("max") ELSE TaskMoves("look")
  /\ UNCHANGED <<wtFormVars, wtDirVars, wtVideo, wtSeen>>
(* The page did not move: taken for the boundary.                                 *)
ScrollStuck ==
  /\ On("scroll", "search") /\ Look = "on" /\ Results("stuck")
  /\ UNCHANGED <<wtFormVars, wtDirVars, wtPageVars>> /\ NoPoll
(* More of the page loads at its end.                                             *)
PageGrows ==
  /\ wtTask.kind = "scroll" /\ wtTask.at # "over" /\ PageUpset
  /\ wtScroll.height < WtRows /\ wtScroll' = [wtScroll EXCEPT !.height = @ + 1]
  /\ UNCHANGED <<wtFormVars, wtDirVars, wtVideo, wtSeen>>
BeginScroll(row) ==
  /\ wtTask.at = "idle" /\ wtScroll' = [wtScroll EXCEPT !.target = row]
  /\ wtTask' = [kind |-> "scroll", at |-> "look", result |-> "none"]
  /\ UNCHANGED <<wtFormVars, wtDirVars, wtVideo, wtSeen>> /\ NoPoll
ScrollStep == ReadHeights \/ LookAndScroll \/ ScrollStuck \/ PageGrows
-----------------------------------------------------------------------------
(* ----- youtube_play, over verifyUrl and verifyPlaybackTri ----------------------- *)
(* One round of a check: unreadable (the evaluation threw), not yet, or there.    *)
(* verifyUrl keeps the last read, verifyPlaybackTri that there was one.           *)
Round(check, there, next) ==
  /\ On("play", check) /\ PollPage
  /\ \E reads \in BOOLEAN :
       /\ wtSeen' = (IF reads /\ there THEN FALSE ELSE reads \/ (check = "video" /\ wtSeen))
       /\ IF reads /\ there THEN (IF next = "success" THEN Results(next) ELSE TaskMoves(next)) ELSE UNCHANGED wtTask
  /\ UNCHANGED <<wtFormVars, wtDirVars, wtScroll, wtVideo>>
OnWatchPage == wtVideo \in {"watch", "playing"}
VerifySearchUrl == Round("nav", wtVideo = "results", "search")
VerifyVideoUrl == Round("url", OnWatchPage, "video")
VerifyPlaying == Round("video", wtVideo = "playing", "success")
(* The window closes: FAILURE needs evidence, without any it is UNKNOWN.          *)
TaskVerdict == IF wtSeen THEN "failure" ELSE "unknown"
Closes(check) ==
  /\ On("play", check)
  /\ IF check = "nav" /\ TaskVerdict = "unknown" THEN TaskMoves("search") ELSE Results(TaskVerdict)
  /\ UNCHANGED <<wtFormVars, wtDirVars, wtPageVars>> /\ NoPoll
(* The first result of what the page shows is clicked, or there is none to click. *)
ClickResult(lands) ==
  /\ On("play", "search") /\ wtVideo = "results" /\ TaskMoves("url")
  /\ wtVideo' = (IF lands THEN "watch" ELSE wtVideo)
  /\ UNCHANGED <<wtFormVars, wtDirVars, wtScroll, wtSeen>> /\ NoPoll
NoResult == On("play", "search") /\ Results("failure") /\ UNCHANGED <<wtFormVars, wtDirVars, wtPageVars>> /\ NoPoll
PageTurns(page) ==
  /\ wtTask.kind = "play" /\ wtTask.at # "over" /\ PageUpset /\ wtVideo' = page
  /\ (page = "playing" => wtVideo = "watch") /\ UNCHANGED <<wtFormVars, wtDirVars, wtScroll, wtSeen>>
PlayStep ==
  \/ VerifySearchUrl \/ VerifyVideoUrl \/ VerifyPlaying \/ NoResult \/ (\E b \in BOOLEAN : ClickResult(b))
  \/ (\E c \in {"nav", "url", "video"} : Closes(c)) \/ \E p \in {"results", "playing", "elsewhere"} : PageTurns(p)

TasksNext ==
  \/ BeginTask("form", "fill") \/ BeginTask("download", "click") \/ BeginTask("play", "nav")
  \/ \E row \in 0..WtRows : BeginScroll(row)
  \/ FormStep \/ DownloadStep \/ ScrollStep \/ PlayStep

TasksSpec == TasksInit /\ [][TasksNext]_wtVars
-----------------------------------------------------------------------------
Succeeded(kind) == wtTask.kind = kind /\ wtTask.result = "success"

\* "Form filled and verified (n/n fields read back)": every field holds what was
\* asked for, but for those the page rewrote after their turn.
FilledIsHeld == Succeeded("form") => \A f \in WtFields \ wtMeddled : wtForm[f] = "wanted"

\* "The new file must REALLY appear": a verified download is a file that was not
\* there at the click, while the directory holds no more than a scan returns.
DownloadIsNew == Succeeded("download") /\ ~wtScan.over => wtScan.pick \notin wtScan.there

\* A scroll that ends at the bottom has passed every row that was on the page
\* when it began.
ScrollMissesNothing == wtTask.result = "boundary" => wtScroll.target >= WtRows - 1

\* "UNKNOWN never becomes FAILURE": a check that says no has read the page, and a
\* playback reported as verified is one that was playing then.
VerdictIsObserved ==
  [][wtTask.at \in {"nav", "url", "video"} /\ wtTask'.at = "over"
       => CASE wtTask'.result = "success" -> wtVideo = "playing"
            [] wtTask'.result = "failure" -> wtSeen
            [] OTHER -> ~wtSeen]_wtVars

\* A verdict of the web tools says what the page showed (web-agent.ts).
TaskVerdictsHold == [](FilledIsHeld /\ DownloadIsNew /\ ScrollMissesNothing) /\ VerdictIsObserved
=============================================================================
