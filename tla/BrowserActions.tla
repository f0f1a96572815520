--------------------------- MODULE BrowserActions ---------------------------
(* The browser tool's actions on a tab (browser.ts): back, forward, refresh, *)
(* close_tab and open_new_tab.  Each asks the browser over the debugging     *)
(* socket and then polls what the browser really shows, while its pages go   *)
(* on navigating by themselves and the user closes tabs.  The session that   *)
(* the actions acquire, with its recovery, is that of WebAgent.              *)
EXTENDS Naturals, FiniteSets, Sequences, SequencesExt

CONSTANTS BaTabs,     \* tabs there can be, numbered
          BaUrls,     \* addresses
          MaxBaLoads, \* bound: documents loaded
          MaxBaJobs   \* bound: actions

VARIABLES
  baTabs, \* of each tab: open, hist, at (the history), doc (its document), want (the entry it is about to show)
  baCdp,  \* the tab the session is attached to, 0 without one
  baJob,  \* the action under way
  baDocs, \* documents loaded so far
  baJobs  \* actions so far

baVars == <<baTabs, baCdp, baJob, baDocs, baJobs>>

NoTab == [open |-> FALSE, hist |-> <<>>, at |-> 0, doc |-> 0, want |-> 0]
NewTab(url, doc) == [open |-> TRUE, hist |-> <<url>>, at |-> 1, doc |-> doc, want |-> 0]
NoAction == [act |-> "none", phase |-> "done", tab |-> 0, first |-> 0, from |-> 0, target |-> 0, url |-> 0, doc |-> 0, mark |-> 0, tries |-> 0, result |-> "none"]

BrowserInit ==
  /\ baTabs = [t \in BaTabs |-> IF t = 1 THEN NewTab(1, 1) ELSE NoTab]
  /\ baCdp = 0 /\ baJob = NoAction /\ baDocs = 1 /\ baJobs = 0

OpenTabs == {t \in BaTabs : baTabs[t].open}
Tab == baTabs[baJob.tab]
JobLive == Tab.open /\ baCdp = baJob.tab
JobEnds(result) == baJob' = [baJob EXCEPT !.phase = "done", !.result = result]
JobGoes(phase) == baJob' = [baJob EXCEPT !.phase = phase]
DocumentLoads == baDocs < MaxBaLoads /\ baDocs' = baDocs + 1

\* ---- the browser and its user
\* A page goes to another address: what was ahead in the history is dropped.
PageNavigates(t, u) ==
  /\ baTabs[t].open /\ DocumentLoads
  /\ LET hist == SubSeq(baTabs[t].hist, 1, baTabs[t].at) IN
     /\ Len(hist) < 3
     /\ baTabs' = [baTabs EXCEPT ![t] = [@ EXCEPT !.hist = Append(hist, u), !.at = Len(hist) + 1, !.doc = baDocs', !.want = 0]]
  /\ UNCHANGED <<baCdp, baJob, baJobs>>

\* What was asked of a tab is done: it shows the entry, in a new document.
TabShows(t) ==
  /\ baTabs[t].open /\ baTabs[t].want # 0 /\ DocumentLoads
  /\ baTabs' = [baTabs EXCEPT ![t] = [@ EXCEPT !.at = baTabs[t].want, !.doc = baDocs', !.want = 0]]
  /\ UNCHANGED <<baCdp, baJob, baJobs>>

TabCloses(t) == baTabs[t].open /\ baTabs' = [baTabs EXCEPT ![t] = NoTab] /\ UNCHANGED <<baCdp, baJob, baDocs, baJobs>>
SocketDies == baCdp # 0 /\ baCdp' = 0 /\ UNCHANGED <<baTabs, baJob, baDocs, baJobs>>

\* ---- the session
\* acquire: the tab attached to if it answers, else any.
Acquire(t) ==
  /\ baJob.phase = "done" /\ baJobs < MaxBaJobs /\ baJobs' = baJobs + 1
  /\ t \in OpenTabs /\ (baCdp \in OpenTabs => t = baCdp)

\* reacquire: the same tab if it can be had, else another.
Reacquire(t) == t \in OpenTabs /\ (baJob.tab \in OpenTabs => t = baJob.tab) /\ baCdp' = t

Begins(act, t, phase) ==
  [NoAction EXCEPT !.act = act, !.phase = phase, !.tab = t, !.first = t, !.from = baTabs[t].at, !.doc = baTabs[t].doc]

\* ---- back and forward
\* readHistory: without an entry that way the action fails.
BackOrForward(act, t) ==
  /\ Acquire(t) /\ baCdp' = t
  /\ LET target == IF act = "back" THEN baTabs[t].at - 1 ELSE baTabs[t].at + 1
         job == Begins(act, t, "navigate") IN
     baJob' = IF target \in DOMAIN baTabs[t].hist
              THEN [job EXCEPT !.target = target, !.url = baTabs[t].hist[target]]
              ELSE [job EXCEPT !.phase = "done", !.result = "impossible"]
  /\ UNCHANGED <<baTabs, baDocs>>

\* navigateToHistoryEntry; an entry dropped meanwhile, or a dead socket, fails it.
Navigate ==
  /\ baJob.phase = "navigate"
  /\ LET can == JobLive /\ baJob.target \in DOMAIN Tab.hist IN
     /\ baTabs' = IF can THEN [baTabs EXCEPT ![baJob.tab].want = baJob.target] ELSE baTabs
     /\ IF can THEN JobGoes("location") ELSE JobEnds("failed")
  /\ UNCHANGED <<baCdp, baDocs, baJobs>>

\* verifyUrl, up to its deadline; a page that cannot be observed is reacquired once.
LocationMatches == baJob.phase = "location" /\ JobLive /\ Tab.hist[Tab.at] = baJob.url /\ JobGoes("index") /\ UNCHANGED <<baTabs, baCdp, baDocs, baJobs>>
LocationDiffers == baJob.phase = "location" /\ JobLive /\ Tab.hist[Tab.at] # baJob.url /\ JobEnds("failed") /\ UNCHANGED <<baTabs, baCdp, baDocs, baJobs>>
LocationHidden(t) ==
  /\ baJob.phase = "location" /\ ~JobLive /\ baJob.tries = 0 /\ Reacquire(t)
  /\ baJob' = [baJob EXCEPT !.tries = 1, !.tab = t]
  /\ UNCHANGED <<baTabs, baDocs, baJobs>>
StaysHidden ==
  /\ baJob.phase = "location" /\ ~JobLive /\ (baJob.tries = 1 \/ OpenTabs = {})
  /\ JobEnds("unknown") /\ UNCHANGED <<baTabs, baCdp, baDocs, baJobs>>

\* The history must have moved there too.
IndexMatches == JobLive /\ Tab.at = baJob.target
IndexRead ==
  /\ baJob.phase = "index" /\ JobEnds(IF IndexMatches THEN "moved" ELSE "failed")
  /\ UNCHANGED <<baTabs, baCdp, baDocs, baJobs>>

\* ---- refresh
Refresh(t) == Acquire(t) /\ baCdp' = t /\ baJob' = Begins("refresh", t, "plant") /\ UNCHANGED <<baTabs, baDocs>>

\* The marker is planted in the document shown, or the action fails.
Planted(ok) == IF ok THEN baJob' = [baJob EXCEPT !.phase = "reload", !.mark = Tab.doc] ELSE JobEnds("unknown")
PlantMarker(ok) == baJob.phase = "plant" /\ (ok => JobLive) /\ Planted(ok) /\ UNCHANGED <<baTabs, baCdp, baDocs, baJobs>>

Reload ==
  /\ baJob.phase = "reload"
  /\ baTabs' = IF JobLive THEN [baTabs EXCEPT ![baJob.tab].want = Tab.at] ELSE baTabs
  /\ IF JobLive THEN JobGoes("marker") ELSE JobEnds("failed")
  /\ UNCHANGED <<baCdp, baDocs, baJobs>>

MarkerGone == baJob.phase = "marker" /\ JobLive /\ Tab.doc # baJob.mark /\ JobEnds("refreshed") /\ UNCHANGED <<baTabs, baCdp, baDocs, baJobs>>

\* ---- close_tab
\* closeTarget, which a page may hold up, and the session is released.
CloseTab(t, held) ==
  /\ Acquire(t) /\ baCdp' = 0
  /\ baJob' = Begins("close", t, "list")
  /\ baTabs' = IF held THEN baTabs ELSE [baTabs EXCEPT ![t] = NoTab]
  /\ UNCHANGED baDocs

\* One look at the list of pages, which may fail.
GoneFrom(listed) == listed /\ baJob.tab \notin OpenTabs
ListedWithout(listed) ==
  /\ baJob.act = "close" /\ baJob.phase = "list" /\ GoneFrom(listed)
  /\ JobEnds("closed") /\ UNCHANGED <<baTabs, baCdp, baDocs, baJobs>>

\* ---- open_new_tab
\* The new target becomes a tab; the session stays where it was.
CreateTarget(t, n, u) ==
  /\ Acquire(t) /\ baCdp' = t /\ n \notin OpenTabs /\ DocumentLoads
  /\ baTabs' = [baTabs EXCEPT ![n] = NewTab(u, baDocs')]
  /\ baJob' = [Begins("new", t, "list") EXCEPT !.target = n, !.url = u]
ListedWith ==
  /\ baJob.act = "new" /\ baJob.phase = "list"
  /\ baJob.target \in OpenTabs /\ baTabs[baJob.target].hist[baTabs[baJob.target].at] = baJob.url
  /\ JobEnds("opened") /\ UNCHANGED <<baTabs, baCdp, baDocs, baJobs>>

\* The deadline of a poll: what is to be seen was not.
Deadline == baJob.phase \in {"marker", "list"} /\ JobEnds("failed") /\ UNCHANGED <<baTabs, baCdp, baDocs, baJobs>>

BrowserNext ==
  \/ \E t \in BaTabs : \/ TabShows(t) \/ TabCloses(t) \/ LocationHidden(t) \/ Refresh(t)
                       \/ BackOrForward("back", t) \/ BackOrForward("forward", t)
                       \/ \E u \in BaUrls : PageNavigates(t, u)
                       \/ \E held \in BOOLEAN : CloseTab(t, held)
                       \/ \E n \in BaTabs, u \in BaUrls : CreateTarget(t, n, u)
  \/ SocketDies \/ Navigate \/ LocationMatches \/ LocationDiffers \/ StaysHidden \/ IndexRead
  \/ Reload \/ MarkerGone \/ ListedWith \/ Deadline
  \/ \E ok \in BOOLEAN : PlantMarker(ok) \/ ListedWithout(ok)

BrowserSpec == BrowserInit /\ [][BrowserNext]_baVars

\* ---- properties
\* "A same-URL entry still has to prove movement": a back or forward reported
\* as done has left the entry it began at, unless the session took another tab.
BackMoved ==
  [][baJob.phase = "index" /\ baJob'.result = "moved" /\ baJob.tab = baJob.first
       => baTabs[baJob.tab].at # baJob.from]_baVars

\* A refresh reported as done shows another document than the one it began at,
\* whether its reload or the page itself brought it.
FreshIsFresh ==
  [][baJob.phase = "marker" /\ baJob'.result = "refreshed" => baTabs[baJob.tab].doc # baJob.doc]_baVars

\* A tab reported as closed is no longer open, even when its page held the
\* closing up or the list of pages could not be had for a while.
ClosedIsGone == baJob.result = "closed" => ~baTabs[baJob.first].open
=============================================================================
