------------------------------- MODULE WebAgent -------------------------------
(* Web actions on a real browser: the one browser session (browser-session.ts),  *)
(* its CDP attachment (cdp-browser.ts), the actions "open" and "form_submit" of   *)
(* web-agent.ts and the polling verification of verification.ts.  The browser    *)
(* (external) loads pages, and tabs, renderers and sockets die at any time.       *)
(*                                                                               *)
(* A tab shows a document: "blank", "form", "error" (chrome-error), "goal" (what *)
(* an action expects) or any "other"; "hung" no longer evaluates.                *)
EXTENDS Naturals, FiniteSets

CONSTANTS WebTabs,    \* tabs the browser may have
          MaxWebJobs, \* bound: web actions
          MaxUpsets   \* bound: what the user and the machine do to the browser

ASSUME WebTabsAssumption == 0 \notin WebTabs

MaxRecovery == 3      \* MAX_RECOVERY_ATTEMPTS

VARIABLES
  wbDoc,      \* document of each open tab
  wbSession,  \* target (0: none), open (its socket), url (lastKnownUrl, "null"), attempts
  wbJob,      \* the action: kind, at, tab, origin, seen, loading, verdict
  wbNote,     \* whether a session event happened since the action began
  wbLast,     \* the tab of the action before (0: none)
  wbJobs, wbUpsets, wbDeaths  \* counters: actions, upsets, sockets that died

wbVars == <<wbDoc, wbSession, wbJob, wbNote, wbLast, wbJobs, wbUpsets, wbDeaths>>
wbCounters == <<wbJobs, wbUpsets, wbDeaths>>

OpenPages == DOMAIN wbDoc
NoSession == [target |-> 0, open |-> FALSE, url |-> "null", attempts |-> 0]
NoJob == [kind |-> "none", at |-> "idle", tab |-> 0, origin |-> "null", seen |-> "never",
          loading |-> FALSE, verdict |-> "none"]
WebInit ==
  /\ wbDoc = [t \in {} |-> "blank"] /\ wbSession = NoSession /\ wbJob = NoJob /\ wbNote = FALSE
  /\ wbLast = 0 /\ wbJobs = 0 /\ wbUpsets = 0 /\ wbDeaths = 0

ActionAt(step) == wbJob.at = step
ActionGoes(step) == wbJob' = [wbJob EXCEPT !.at = step]
Readable(t) == t \in OpenPages /\ wbDoc[t] # "hung"

(* ----- The browser (external) ---------------------------------------------------- *)
WebUpset == wbUpsets < MaxUpsets /\ wbUpsets' = wbUpsets + 1
Shows(t, doc) == wbDoc' = [u \in OpenPages \cup {t} |-> IF u = t THEN doc ELSE wbDoc[u]]
UserOpens(t) ==
  /\ WebUpset /\ t \notin OpenPages /\ Shows(t, "other") /\ UNCHANGED <<wbSession, wbJob, wbNote, wbLast, wbJobs, wbDeaths>>
PageCloses(t) ==
  /\ WebUpset /\ t \in OpenPages /\ wbDoc' = [u \in OpenPages \ {t} |-> wbDoc[u]]
  /\ UNCHANGED <<wbSession, wbJob, wbNote, wbLast, wbJobs, wbDeaths>>
TabTurns(t, doc) ==
  /\ WebUpset /\ t \in OpenPages /\ Shows(t, doc) /\ UNCHANGED <<wbSession, wbJob, wbNote, wbLast, wbJobs, wbDeaths>>
PageSocketDies ==
  /\ wbSession.open /\ wbDeaths = 0 /\ wbDeaths' = 1 /\ wbSession' = [wbSession EXCEPT !.open = FALSE]
  /\ UNCHANGED <<wbDoc, wbJob, wbNote, wbLast, wbJobs, wbUpsets>>
PageLoads(doc) ==
  /\ wbJob.loading /\ wbJob.tab \in OpenPages /\ Shows(wbJob.tab, doc) /\ wbJob' = [wbJob EXCEPT !.loading = FALSE]
  /\ UNCHANGED <<wbSession, wbNote, wbLast, wbCounters>>

(* ----- acquire -------------------------------------------------------------------- *)
BeginJob(kind) ==
  /\ ActionAt("idle") /\ wbJobs < MaxWebJobs /\ wbJobs' = wbJobs + 1
  /\ wbJob' = [NoJob EXCEPT !.kind = kind, !.at = "acquire"] /\ wbNote' = FALSE
  /\ UNCHANGED <<wbDoc, wbSession, wbLast, wbUpsets, wbDeaths>>
Desync == wbNote' = TRUE /\ ActionGoes("recover") /\ UNCHANGED <<wbDoc, wbSession, wbLast, wbCounters>>
HasPage == wbSession.open /\ wbSession.target # 0
(* The target list: the endpoint is unreachable, or our target is not in it.      *)
Revalidate ==
  /\ ActionAt("acquire") /\ HasPage
  /\ IF wbSession.target \in OpenPages
     THEN ActionGoes("read") /\ UNCHANGED <<wbDoc, wbSession, wbNote, wbLast, wbCounters>>
     ELSE Desync
Regressed(doc) == doc = "blank" /\ wbSession.url \notin {"blank", "null"}
ObservePage ==
  /\ ActionAt("read")
  /\ IF ~wbSession.open \/ ~Readable(wbSession.target) \/ Regressed(wbDoc[wbSession.target]) THEN Desync
     ELSE /\ wbSession' = [wbSession EXCEPT !.url = wbDoc[wbSession.target]] /\ ActionGoes("ready")
          /\ UNCHANGED <<wbDoc, wbNote, wbLast, wbCounters>>
Attached(t, url) == [target |-> t, open |-> TRUE, url |-> url, attempts |-> 0]
(* freshAcquire without an open socket: the first page of the list, and no event  *)
(* that a result would carry.                                                     *)
FreshAcquire(t) ==
  /\ ActionAt("acquire") /\ ~HasPage /\ t \in OpenPages
  /\ wbSession' = Attached(t, IF Readable(t) THEN wbDoc[t] ELSE "null") /\ ActionGoes("ready")
  /\ UNCHANGED <<wbDoc, wbNote, wbLast, wbCounters>>
(* ensureCdpPage launches Chromium on about:blank when no endpoint answers.       *)
FreshLaunch(t) ==
  /\ ActionAt("acquire") /\ ~HasPage /\ OpenPages = {} /\ Shows(t, "blank")
  /\ wbSession' = Attached(t, "blank") /\ ActionGoes("ready") /\ UNCHANGED <<wbNote, wbLast, wbCounters>>
NoBrowser == ActionAt("acquire") /\ ~HasPage /\ OpenPages = {} /\ Desync

(* ----- recover -------------------------------------------------------------------- *)
Lost ==
  /\ ActionAt("recover") /\ wbSession.attempts >= MaxRecovery /\ wbSession' = NoSession
  /\ wbJob' = [wbJob EXCEPT !.at = "done", !.verdict = "error"] /\ UNCHANGED <<wbDoc, wbNote, wbLast, wbCounters>>
TryRecover ==
  /\ ActionAt("recover") /\ wbSession.attempts < MaxRecovery /\ ActionGoes("same")
  /\ wbSession' = [wbSession EXCEPT !.attempts = @ + 1, !.open = FALSE] /\ UNCHANGED <<wbDoc, wbNote, wbLast, wbCounters>>
Adopt(t) ==
  /\ wbSession' = Attached(t, "null") /\ wbNote' = TRUE /\ ActionGoes("ready") /\ UNCHANGED <<wbLast, wbCounters>>
ReconnectSame == ActionAt("same") /\ Readable(wbSession.target) /\ Adopt(wbSession.target) /\ UNCHANGED wbDoc
NotSame == ActionAt("same") /\ ~Readable(wbSession.target) /\ ActionGoes("other") /\ UNCHANGED <<wbDoc, wbSession, wbNote, wbLast, wbCounters>>
(* Pages that are not blank come first; each must evaluate.                       *)
AdoptOther(t) ==
  /\ ActionAt("other") /\ Readable(t) /\ Adopt(t) /\ UNCHANGED wbDoc
  /\ wbDoc[t] = "blank" => \A u \in OpenPages : Readable(u) => wbDoc[u] = "blank"
NoOther ==
  /\ ActionAt("other") /\ (\A t \in OpenPages : ~Readable(t)) /\ ActionGoes("launch")
  /\ UNCHANGED <<wbDoc, wbSession, wbNote, wbLast, wbCounters>>
Relaunch(t) == ActionAt("launch") /\ OpenPages = {} /\ Shows(t, "blank") /\ Adopt(t)
AttachFresh(t) == ActionAt("launch") /\ Readable(t) /\ Adopt(t) /\ UNCHANGED wbDoc
RelaunchFails ==
  /\ ActionAt("launch") /\ (\A t \in OpenPages : ~Readable(t)) /\ ActionGoes("recover")
  /\ UNCHANGED <<wbDoc, wbSession, wbNote, wbLast, wbCounters>>

(* ----- The actions ---------------------------------------------------------------- *)
ActionEnds(verdict) == wbJob' = [wbJob EXCEPT !.at = "done", !.verdict = verdict, !.loading = FALSE]
SessionWorks == ActionAt("ready") /\ wbSession.open /\ Readable(wbSession.target)
(* The page died after acquire: the error of the CDP is the result.               *)
PageLost == ActionAt("ready") /\ ~SessionWorks /\ ActionEnds("error") /\ UNCHANGED <<wbDoc, wbSession, wbNote, wbLast, wbCounters>>
OpenPage ==
  /\ SessionWorks /\ wbJob.kind = "open"
  /\ wbJob' = [wbJob EXCEPT !.at = "poll", !.tab = wbSession.target, !.loading = TRUE]
  /\ wbSession' = [wbSession EXCEPT !.url = "goal"] /\ UNCHANGED <<wbDoc, wbNote, wbLast, wbCounters>>
(* form_submit clicks, then drops the session: the outcome is read from the page  *)
(* the next acquire attaches to.                                                  *)
SubmitForm ==
  /\ SessionWorks /\ wbJob.kind = "submit" /\ wbJob.tab = 0
  /\ wbJob' = [wbJob EXCEPT !.at = "acquire", !.tab = wbSession.target, !.loading = TRUE,
                            !.origin = wbDoc[wbSession.target]]
  /\ wbSession' = NoSession /\ wbNote' = TRUE /\ UNCHANGED <<wbDoc, wbLast, wbCounters>>
AwaitOutcome ==
  /\ ActionAt("ready") /\ wbJob.kind = "submit" /\ wbJob.tab # 0 /\ ActionGoes("poll")
  /\ UNCHANGED <<wbDoc, wbSession, wbNote, wbLast, wbCounters>>

(* ----- verifyUrl, verifyPageTransition -------------------------------------------- *)
PolledTab == wbSession.target
CanRead == wbSession.open /\ Readable(PolledTab)
WebVerdict(v) == ActionAt("poll") /\ ActionEnds(v) /\ UNCHANGED <<wbDoc, wbSession, wbNote, wbLast, wbCounters>>
\* Mutant: a page that cannot be read is taken for one that is there.
HitUnread ==
  wbJob.kind = "open" /\ (CanRead => wbDoc[PolledTab] = "goal")
Hit ==
  /\ CanRead
  /\ IF wbJob.kind = "open" THEN wbDoc[PolledTab] = "goal" ELSE wbDoc[PolledTab] # wbJob.origin
PageDenied == CanRead /\ wbDoc[PolledTab] = "error" /\ wbJob.kind = "open"
VerifyHit == Hit /\ WebVerdict("SUCCESS")
VerifyDenied == PageDenied /\ WebVerdict("FAILURE")
PollOn ==
  /\ ActionAt("poll") /\ ~Hit /\ ~PageDenied /\ wbJob' = [wbJob EXCEPT !.seen = IF CanRead THEN "last" ELSE IF @ = "never" THEN @ ELSE "once"]
  /\ UNCHANGED <<wbDoc, wbSession, wbNote, wbLast, wbCounters>>
(* The window closes: negative evidence, or none.  verifyUrl wants the last read  *)
(* to have succeeded, verifyPageTransition any.                                   *)
BrowserCloses ==
  WebVerdict(IF wbJob.seen = "last" \/ (wbJob.kind = "submit" /\ wbJob.seen = "once") THEN "FAILURE" ELSE "UNKNOWN")
Finish ==
  /\ ActionAt("done") /\ wbJob' = NoJob /\ wbLast' = wbSession.target
  /\ UNCHANGED <<wbDoc, wbSession, wbNote, wbCounters>>

WebNext ==
  \/ \E t \in WebTabs : UserOpens(t) \/ PageCloses(t) \/ \E doc \in {"blank", "form", "hung"} : TabTurns(t, doc)
  \/ PageSocketDies \/ \E doc \in {"goal", "error"} : PageLoads(doc)
  \/ \E kind \in {"open", "submit"} : BeginJob(kind)
  \/ Revalidate \/ ObservePage \/ \E t \in WebTabs : FreshAcquire(t) \/ FreshLaunch(t)
  \/ NoBrowser \/ Lost \/ TryRecover \/ ReconnectSame \/ NotSame
  \/ \E t \in WebTabs : AdoptOther(t) \/ Relaunch(t) \/ AttachFresh(t)
  \/ NoOther \/ RelaunchFails \/ PageLost \/ OpenPage \/ SubmitForm \/ AwaitOutcome
  \/ VerifyHit \/ VerifyDenied \/ PollOn \/ BrowserCloses \/ Finish

WebSpec == WebInit /\ [][WebNext]_wbVars
-----------------------------------------------------------------------------
Switched == ActionAt("ready") /\ wbLast # 0 /\ wbSession.target # wbLast

\* "DESYNC: socket dead / target vanished": an action never works on another tab
\* than the one before it without a session event in its result.
SwitchIsNoted == Switched => wbNote

\* The same as long as no socket died.
SwitchIsNotedOnLiveSockets == wbDeaths = 0 /\ wbJob.tab = 0 => SwitchIsNoted

\* "UNKNOWN never becomes SUCCESS": a page reported open is on the screen of the
\* tab that was sent there when the report is made.
OpenIsSeen ==
  [][wbJob.verdict = "none" /\ wbJob'.verdict = "SUCCESS" /\ wbJob.kind = "open"
       => wbSession.target = wbJob.tab /\ wbJob.tab \in OpenPages /\ wbDoc[wbJob.tab] = "goal"]_wbVars

\* "Exhausted recovery throws and resets so the next mission starts clean": the
\* attempts never exceed the bound, and none are left when an action is over.
RecoveryIsBounded ==
  wbSession.attempts <= MaxRecovery /\ (wbJob.at \in {"idle", "ready", "done"} => wbSession.attempts = 0)
=============================================================================
