--------------------------- MODULE SystemSampler ---------------------------
(* What the server samples of its machine for whoever asks                    *)
(* (system-telemetry.ts): the network's throughput and the processes' use of  *)
(* the processor, each a difference to the last sample, which all callers     *)
(* share; and the walk over the X windows, one request after the other while  *)
(* windows come and go.  A request is one walk; several may be under way.     *)
EXTENDS Integers, FiniteSets, Sequences, SequencesExt

CONSTANTS TmPids,      \* process ids
          TmWindows,   \* window ids
          TmDisplays,  \* xDisplayCandidates, in order: numbers from 1
          TmWindowCap, \* MAX_WINDOWS
          MaxTmTime,   \* bound: the clock, and what a process or the network does in it
          MaxTmAsked,  \* bound: requests
          MaxTmWalks,  \* bound: walks at once
          MaxTmUpsets  \* bound: what displays, windows and processes do meanwhile

ASSUME SamplerAssumption ==
  /\ IsFiniteSet(TmDisplays) /\ TmDisplays # {} /\ TmDisplays = 1..Cardinality(TmDisplays)
  /\ IsFiniteSet(TmWindows) /\ TmWindowCap \in Nat

VARIABLES
  tmNow,     \* the clock
  tmBytes,   \* the interfaces' counters, added up; falls when an interface goes
  tmLastNet, \* lastNetSample, none at first
  tmRated,   \* history: bytes the rates reported so far stand for
  tmMoved,   \* history: bytes that went over the network: [all, first, last], at the samples
  tmMissed,  \* history: a counter fell, or two samples were of the same time
  tmProcs,   \* the processes: [born, ticks]
  tmSeen,    \* lastProcSamples: pid -> what was read of it
  tmBefore,  \* history: the processes at that sample
  tmTop,     \* history: the processor use of the newest report, pid -> ticks
  tmScreens, \* the displays that can be opened
  tmXTools,  \* xprop and xwininfo are installed
  tmOnScreen,\* the windows
  tmWalks,   \* requests under way
  tmAsked,   \* requests so far
  tmUpsets   \* what happened meanwhile

tmNetVars == <<tmBytes, tmLastNet, tmRated, tmMoved, tmMissed>>
tmProcVars == <<tmProcs, tmSeen, tmBefore, tmTop>>
tmScreenVars == <<tmScreens, tmXTools, tmOnScreen>>
samplerVars == <<tmNow, tmNetVars, tmProcVars, tmScreenVars, tmWalks, tmAsked, tmUpsets>>

NoSample == [at |-> -1, bytes |-> 0]
NoProcess == [born |-> 0, ticks |-> 0]
ThereNow == {p \in TmPids : tmProcs[p].born # 0}

SamplerInit ==
  /\ tmNow = 1 /\ tmBytes = 0 /\ tmLastNet = NoSample /\ tmRated = 0
  /\ tmMoved = [all |-> 0, first |-> 0, last |-> 0] /\ tmMissed = FALSE
  /\ tmProcs = [p \in TmPids |-> [born |-> 1, ticks |-> 0]] /\ tmSeen = <<>> /\ tmBefore = <<>> /\ tmTop = <<>>
  /\ tmScreens \in {{}, TmDisplays} /\ tmXTools \in BOOLEAN /\ tmOnScreen = TmWindows
  /\ tmWalks = <<>> /\ tmAsked = 0 /\ tmUpsets = 0
-----------------------------------------------------------------------------
(* The machine.                                                             *)
\* A moment passes: traffic, and processes that work.
MomentPasses(busy, traffic) ==
  /\ tmNow < MaxTmTime /\ tmNow' = tmNow + 1 /\ busy \subseteq ThereNow
  /\ tmBytes' = tmBytes + traffic /\ tmMoved' = [tmMoved EXCEPT !.all = @ + traffic]
  /\ tmProcs' = [p \in TmPids |-> IF p \in busy THEN [tmProcs[p] EXCEPT !.ticks = @ + 1] ELSE tmProcs[p]]
  /\ UNCHANGED <<tmLastNet, tmRated, tmMissed, tmSeen, tmBefore, tmTop, tmScreenVars, tmWalks, tmAsked, tmUpsets>>

TmUpset == tmUpsets < MaxTmUpsets /\ tmUpsets' = tmUpsets + 1
\* An interface goes, with its counter.
InterfaceGoes ==
  /\ TmUpset /\ tmBytes > 0 /\ tmBytes' = 0 /\ tmMissed' = TRUE
  /\ UNCHANGED <<tmNow, tmLastNet, tmRated, tmMoved, tmProcVars, tmScreenVars, tmWalks, tmAsked>>
\* A process ends, and its number may be given to another.
PidEnds(p, again) ==
  /\ TmUpset /\ p \in ThereNow
  /\ tmProcs' = [tmProcs EXCEPT ![p] = IF again THEN [born |-> tmProcs[p].born + 1, ticks |-> 0] ELSE NoProcess]
  /\ UNCHANGED <<tmNow, tmNetVars, tmSeen, tmBefore, tmTop, tmScreenVars, tmWalks, tmAsked>>
ScreenChanges ==
  /\ TmUpset
  /\ \/ \E w \in TmWindows : tmOnScreen' = tmOnScreen \ {w} /\ UNCHANGED tmScreens
     \/ \E d \in tmScreens : tmScreens' = tmScreens \ {d} /\ UNCHANGED tmOnScreen
  /\ UNCHANGED <<tmNow, tmNetVars, tmProcVars, tmXTools, tmWalks, tmAsked>>
-----------------------------------------------------------------------------
(* GET /api/system/network                                                  *)
SampleNetwork ==
  /\ tmAsked < MaxTmAsked /\ tmAsked' = tmAsked + 1
  /\ LET first == tmLastNet = NoSample
         growth == tmBytes - tmLastNet.bytes
         \* The rate times the time it is of.
         told == IF first \/ tmNow = tmLastNet.at \/ growth < 0 THEN 0 ELSE growth IN
     /\ tmRated' = tmRated + told
     /\ tmMissed' = (tmMissed \/ tmNow = tmLastNet.at)
     /\ tmMoved' = [tmMoved EXCEPT !.first = IF first THEN tmMoved.all ELSE @, !.last = tmMoved.all]
  /\ tmLastNet' = [at |-> tmNow, bytes |-> tmBytes]
  /\ UNCHANGED <<tmNow, tmBytes, tmProcVars, tmScreenVars, tmWalks, tmUpsets>>

(* GET /api/system/telemetry: the walk over the displays and windows, then  *)
(* what is read in one go.                                                  *)
NewWalk(d) == [d |-> d, at |-> "root", left |-> <<>>, listed |-> {}, windows |-> {}, refused |-> {}]
AskTelemetry ==
  /\ tmAsked < MaxTmAsked /\ tmAsked' = tmAsked + 1 /\ Len(tmWalks) < MaxTmWalks
  /\ tmWalks' = Append(tmWalks, NewWalk(1))
  /\ UNCHANGED <<tmNow, tmNetVars, tmProcVars, tmScreenVars, tmUpsets>>

WalkStep(i, w) ==
  /\ tmWalks' = [tmWalks EXCEPT ![i] = w]
  /\ UNCHANGED <<tmNow, tmNetVars, tmProcVars, tmScreenVars, tmAsked, tmUpsets>>
Opens(w) == w.d \in tmScreens /\ tmXTools
\* xprop -root: a display that cannot be opened gives way to the next, any other
\* failure ends the walk, as the last display does.
ReadRoot(i) ==
  LET w == tmWalks[i] IN
  /\ w.at = "root"
  /\ WalkStep(i, CASE Opens(w) -> [w EXCEPT !.at = "children"]
               [] ~tmXTools -> [w EXCEPT !.at = "failed"]
               [] OTHER -> IF w.d + 1 \in TmDisplays
                           THEN [NewWalk(w.d + 1) EXCEPT !.refused = w.refused \cup {w.d}]
                           ELSE [w EXCEPT !.at = "headless", !.refused = @ \cup {w.d}])
\* xwininfo -children, in the order they are stacked, of which the first
\* MAX_WINDOWS are looked at.
ReadChildren(i) ==
  LET w == tmWalks[i] IN
  /\ w.at = "children"
  /\ IF Opens(w)
     THEN \E ids \in SetToSeqs(tmOnScreen) :
            WalkStep(i, [w EXCEPT !.at = "windows", !.listed = tmOnScreen,
                                  !.left = SubSeq(ids, 1, IF Len(ids) < TmWindowCap THEN Len(ids) ELSE TmWindowCap)])
     ELSE WalkStep(i, [w EXCEPT !.at = "unlisted"])
\* xprop -id of the next: a window that has gone, or has neither class nor title,
\* is left out.
ReadWindow(i, named) ==
  LET w == tmWalks[i] IN
  /\ w.at = "windows" /\ w.left # <<>>
  /\ WalkStep(i, [w EXCEPT !.left = Tail(@),
                          !.windows = IF named /\ Opens(w) /\ Head(w.left) \in tmOnScreen THEN @ \cup {Head(w.left)} ELSE @])

\* The rest is read without a wait: the processes' ticks since the last sample,
\* of those that were in it and have not fewer than then.
SampleProcesses ==
  /\ tmSeen' = [p \in ThereNow |-> tmProcs[p].ticks] /\ tmBefore' = [p \in ThereNow |-> tmProcs[p]]
  /\ tmTop' = [p \in {q \in ThereNow \cap DOMAIN tmSeen : tmProcs[q].ticks >= tmSeen[q]} |-> tmProcs[p].ticks - tmSeen[p]]
AnswerTelemetry(i) ==
  /\ \/ tmWalks[i].at = "windows" /\ tmWalks[i].left = <<>>
     \/ tmWalks[i].at \in {"failed", "headless", "unlisted"}
  /\ SampleProcesses /\ tmWalks' = RemoveAt(tmWalks, i)
  /\ UNCHANGED <<tmNow, tmNetVars, tmProcs, tmScreenVars, tmAsked, tmUpsets>>

SamplerNext ==
  \/ \E busy \in SUBSET TmPids, traffic \in {0, 1} : MomentPasses(busy, traffic)
  \/ InterfaceGoes \/ ScreenChanges \/ SampleNetwork \/ AskTelemetry
  \/ \E p \in TmPids, again \in BOOLEAN : PidEnds(p, again)
  \/ \E i \in DOMAIN tmWalks : \/ ReadRoot(i) \/ ReadChildren(i) \/ AnswerTelemetry(i)
                             \/ \E named \in BOOLEAN : ReadWindow(i, named)

SamplerSpec == SamplerInit /\ [][SamplerNext]_samplerVars
-----------------------------------------------------------------------------
\* Whoever asks and how often, the rates together stand for the bytes that went
\* over the network between the first sample and the last: none is counted twice,
\* and none is left out unless a counter fell or two samples fell together.
CountedOnce ==
  /\ tmRated <= tmMoved.last - tmMoved.first
  /\ ~tmMissed => tmRated = tmMoved.last - tmMoved.first

\* The processor use told of a process is not more than it used since the sample
\* before, also when its number was another's then; without a sample before there
\* is nothing to tell.
UseIsOwn ==
  [][Len(tmWalks') < Len(tmWalks) =>
       \A p \in DOMAIN tmTop' :
         /\ p \in DOMAIN tmBefore
         /\ tmTop'[p] <= tmProcs[p].ticks - (IF tmBefore[p].born = tmProcs[p].born THEN tmBefore[p].ticks ELSE 0)]_samplerVars

\* The windows told are of one display, were listed there and are no more than the
\* cap; no display is told of only when every one was refused.
WalkIsHonest ==
  \A i \in DOMAIN tmWalks : LET w == tmWalks[i] IN
    /\ w.windows \subseteq w.listed /\ Cardinality(w.windows) + Len(w.left) <= TmWindowCap
    /\ w.at \in {"children", "windows", "unlisted"} => w.d \notin w.refused
    /\ w.at = "headless" => w.refused = TmDisplays
=============================================================================
