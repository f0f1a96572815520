----------------------------- MODULE ModelsPage -----------------------------
(* The models page (ModelsPage.tsx): what it shows of the server's runtime,     *)
(* deployments and cloud account, from refreshes and polls that may cross, and  *)
(* its buttons, which one key of the page, busy, is to keep one at a time.  A   *)
(* flow is an asynchronous function of the page, at the request it waits for;   *)
(* it goes on when the page is left, and then finds nobody.                     *)
EXTENDS Integers, FiniteSets, Sequences, SequencesExt

CONSTANTS MaxMpFlows, \* bound: flows under way
          MaxMpSteps, \* bound: buttons, polls, visits
          MaxMpNews   \* bound: changes of the server's runtime and deployments

VARIABLES
  mpNews,    \* the server's: how often runtime and deployments changed
  mpAccount, \* its cloud account is connected
  mpOpen,    \* the page is mounted
  mpShown,   \* runtimeStatus and deployments: the number of changes they show
  mpCloud,   \* cloudStatus: "unread", "connected" or "absent"
  mpFound,   \* the topology and the shapes that are there
  mpForm,    \* ociForm holds a private key
  mpBusy,    \* busy
  mpNotice,  \* notice: "none", "ok" or "err"
  mpSpins,   \* refreshing
  mpFlows,   \* the flows under way, oldest first
  mpUpset,   \* history: flows overlapped or one failed, and no undisturbed refresh since
  mpDone     \* what was done

mpServerVars == <<mpNews, mpAccount>>
mpViewVars == <<mpShown, mpCloud, mpFound, mpForm, mpNotice>>
modelsVars == <<mpServerVars, mpOpen, mpViewVars, mpBusy, mpSpins, mpFlows, mpUpset, mpDone>>

NotRead == -1
NoButton == "none"

\* The flows a button starts; "change" is install, start, stop, restart, pull,
\* cancel and, as far as the lock goes, the reading of the tunnel's key.
LockedFlows == {"change", "disconnect", "connect", "discover", "rediscover", "deploy"}
ButtonFlows == LockedFlows \cup {"logs"}
\* act's: their result is told and a refresh follows.
Acts == ButtonFlows \ {"connect", "discover"}
Reading == {"poll", "refresh"}

\* What a newly mounted page shows.
BlankPage ==
  /\ mpShown' = NotRead /\ mpCloud' = "unread" /\ mpFound' = {} /\ mpForm' = FALSE
  /\ mpNotice' = "none" /\ mpBusy' = NoButton

\* A flow that starts, and how it meets those under way: "any"; "read" when both
\* read for this page; "unlocked" when one is of the logs' button, which knows no
\* lock, or was met by it before.
Meets(f, new) ==
  {"any"}
  \cup (IF f.page /\ f.at \in Reading /\ new.page /\ new.at \in Reading THEN {"read"} ELSE {})
  \cup (IF f.page /\ f.key # NoButton /\ new.page /\ new.key # NoButton
           /\ ("logs" \in {f.key, new.key} \/ "unlocked" \in f.crossed) THEN {"unlocked"} ELSE {})
FlowOf(at, key) == [at |-> at, key |-> key, how |-> "none", news |-> 0, got |-> FALSE, page |-> TRUE, crossed |-> {}]
Started(flows, new) ==
  Append([i \in DOMAIN flows |-> [flows[i] EXCEPT !.crossed = @ \cup Meets(flows[i], new)]],
         [new EXCEPT !.crossed = @ \cup UNION {Meets(flows[i], new) : i \in DOMAIN flows}])
Starts(at, key) ==
  /\ Len(mpFlows) < MaxMpFlows /\ mpFlows' = Started(mpFlows, FlowOf(at, key))
  /\ mpUpset' = (mpUpset \/ mpFlows # <<>>)
CountsHere == mpDone < MaxMpSteps /\ mpDone' = mpDone + 1

ModelsInit ==
  /\ mpNews = 0 /\ mpOpen = FALSE
  /\ mpAccount = TRUE  \* connected before
  /\ mpShown = NotRead /\ mpCloud = "unread" /\ mpFound = {} /\ mpForm = FALSE /\ mpNotice = "none"
  /\ mpBusy = NoButton /\ mpSpins = FALSE
  /\ mpFlows = <<>> /\ mpUpset = FALSE /\ mpDone = 0
-----------------------------------------------------------------------------
OpenModels ==
  /\ CountsHere /\ ~mpOpen /\ mpOpen' = TRUE /\ BlankPage /\ mpSpins' = TRUE
  /\ Starts("refresh", NoButton) /\ UNCHANGED mpServerVars

\* The flows go on, and find nobody.
LeaveModels ==
  /\ CountsHere /\ mpOpen /\ mpOpen' = FALSE /\ BlankPage /\ mpSpins' = FALSE
  /\ mpFlows' = [i \in DOMAIN mpFlows |-> [mpFlows[i] EXCEPT !.page = FALSE]] /\ mpUpset' = (mpUpset \/ mpFlows # <<>>)
  /\ UNCHANGED mpServerVars

\* Every six seconds, whatever is under way.
PollModels ==
  /\ CountsHere /\ mpOpen /\ Starts("poll", NoButton)
  /\ UNCHANGED <<mpServerVars, mpOpen, mpViewVars, mpBusy, mpSpins>>

RefreshButton ==
  /\ CountsHere /\ mpOpen /\ ~mpSpins /\ mpSpins' = TRUE /\ Starts("refresh", NoButton)
  /\ UNCHANGED <<mpServerVars, mpOpen, mpViewVars, mpBusy>>

\* Which buttons are there, and not disabled.  The list of shapes and its DEPLOY
\* stay when the account is disconnected; LOGS is never disabled.
ButtonOffered(flow) ==
  /\ flow # "logs" => mpBusy = NoButton
  /\ CASE flow \in {"change", "logs"} -> mpShown # NotRead
       [] flow = "connect" -> mpCloud = "absent" /\ mpForm
       [] flow = "disconnect" -> mpCloud = "connected"
       [] flow = "rediscover" -> mpCloud = "connected" /\ mpFound = {}
       [] flow = "discover" -> mpCloud = "connected" /\ mpFound # {}
       [] flow = "deploy" -> mpFound = {"topology", "shapes"}

PressButton(flow) ==
  /\ CountsHere /\ mpOpen /\ ButtonOffered(flow) /\ mpBusy' = flow
  /\ mpNotice' = IF flow = "discover" THEN mpNotice ELSE "none"
  /\ Starts(flow, flow)
  /\ UNCHANGED <<mpServerVars, mpOpen, mpShown, mpCloud, mpFound, mpForm, mpSpins>>

TypeAccount ==
  /\ mpOpen /\ mpCloud = "absent" /\ ~mpForm /\ mpForm' = TRUE
  /\ UNCHANGED <<mpServerVars, mpOpen, mpShown, mpCloud, mpFound, mpNotice, mpBusy, mpSpins, mpFlows, mpUpset, mpDone>>
-----------------------------------------------------------------------------
(* The server.                                                               *)
ServerMoves ==
  /\ mpNews < MaxMpNews /\ mpNews' = mpNews + 1
  /\ UNCHANGED <<mpAccount, mpOpen, mpViewVars, mpBusy, mpSpins, mpFlows, mpUpset, mpDone>>

\* What only a connected account can answer.
InCloud == {"discover", "instances", "rediscover", "shapes", "quota", "deploy"}
\* What may change the server.
Changing == {"change", "connect", "disconnect", "deploy"}
\* A request is answered, refused ({ok: false}), or fails on the way back or forth.
ModelsServes(i, how, done) ==
  LET f == mpFlows[i] IN
  /\ f.how = "none" /\ (how # "failed" => done = (how = "ok"))
  /\ how # "ok" /\ done => f.at \in Changing
  /\ how = "refused" => f.at \in {"change", "deploy"}
  /\ done /\ f.at \in InCloud => mpAccount
  /\ mpAccount' = IF ~done THEN mpAccount
                  ELSE (mpAccount \/ f.at = "connect") /\ f.at # "disconnect"
  /\ mpNews' = IF done /\ f.at \in {"change", "deploy"} /\ mpNews < MaxMpNews THEN mpNews + 1 ELSE mpNews
  /\ mpFlows' = [mpFlows EXCEPT ![i].how = how, ![i].news = IF f.at \in Reading THEN mpNews ELSE 0,
                                ![i].got = f.at \in {"refresh", "connected"} /\ mpAccount]
  /\ UNCHANGED <<mpOpen, mpViewVars, mpBusy, mpSpins, mpUpset, mpDone>>
-----------------------------------------------------------------------------
(* A flow whose request is answered, one action per kind of request.         *)
AnsweredAt(i, ats) ==
  /\ i \in DOMAIN mpFlows /\ mpFlows[i].at \in ats /\ mpFlows[i].how # "none"
  /\ UNCHANGED <<mpServerVars, mpOpen, mpDone>>
  /\ mpUpset' = IF mpFlows[i].how = "failed" THEN TRUE
                ELSE mpUpset /\ ~(mpFlows[i].at = "refresh" /\ "any" \notin mpFlows[i].crossed)
FlowOk(i) == mpFlows[i].how = "ok"
GoneOn(i, at) ==
  mpFlows' = Started(RemoveAt(mpFlows, i), [mpFlows[i] EXCEPT !.at = at, !.how = "none"])
\* finally { setBusy(null) }, on the page if it is still there.
FlowEnds(i) ==
  /\ mpFlows' = RemoveAt(mpFlows, i)
  /\ mpBusy' = IF mpFlows[i].page /\ mpFlows[i].key # NoButton THEN NoButton ELSE mpBusy
Tells(i, notice) == mpNotice' = IF mpFlows[i].page THEN notice ELSE mpNotice
AsStatus(b) == IF b THEN "connected" ELSE "absent"
Sees(i, v, new) == v' = IF mpFlows[i].page /\ FlowOk(i) THEN new ELSE v

ActAnswered(i) ==
  /\ AnsweredAt(i, (Acts \ {"rediscover"}) \cup {"quota"})
  /\ Tells(i, IF FlowOk(i) THEN "ok" ELSE "err")
  /\ IF mpFlows[i].how = "failed"
     THEN FlowEnds(i) /\ UNCHANGED mpSpins
     ELSE /\ GoneOn(i, "refresh") /\ mpSpins' = (mpSpins \/ mpFlows[i].page) /\ UNCHANGED mpBusy
  /\ UNCHANGED <<mpShown, mpCloud, mpFound, mpForm>>

\* Nothing is taken unless all five answers came; then the recommendation is asked.
RefreshAnswered(i) ==
  /\ AnsweredAt(i, {"refresh"})
  /\ Sees(i, mpShown, mpFlows[i].news) /\ Sees(i, mpCloud, AsStatus(mpFlows[i].got))
  /\ IF FlowOk(i)
     THEN GoneOn(i, "recommend") /\ UNCHANGED <<mpBusy, mpNotice, mpSpins>>
     ELSE FlowEnds(i) /\ Tells(i, "err") /\ mpSpins' = (mpSpins /\ ~mpFlows[i].page)
  /\ UNCHANGED <<mpFound, mpForm>>

RecommendAnswered(i) ==
  /\ AnsweredAt(i, {"recommend"}) /\ FlowEnds(i) /\ mpSpins' = (mpSpins /\ ~mpFlows[i].page)
  /\ IF FlowOk(i) THEN UNCHANGED mpNotice ELSE Tells(i, "err")
  /\ UNCHANGED <<mpShown, mpCloud, mpFound, mpForm>>

PollAnswered(i) ==
  /\ AnsweredAt(i, {"poll"}) /\ FlowEnds(i) /\ Sees(i, mpShown, mpFlows[i].news)
  /\ UNCHANGED <<mpCloud, mpFound, mpForm, mpNotice, mpSpins>>

\* The form goes with the key it had, before the status is asked for.
ConnectAnswered(i) ==
  /\ AnsweredAt(i, {"connect"}) /\ Tells(i, IF FlowOk(i) THEN "ok" ELSE "err") /\ Sees(i, mpForm, FALSE)
  /\ IF FlowOk(i) THEN GoneOn(i, "connected") /\ UNCHANGED mpBusy ELSE FlowEnds(i)
  /\ UNCHANGED <<mpShown, mpCloud, mpFound, mpSpins>>
ConnectedAnswered(i) ==
  /\ AnsweredAt(i, {"connected"}) /\ FlowEnds(i) /\ Sees(i, mpCloud, AsStatus(mpFlows[i].got))
  /\ IF FlowOk(i) THEN UNCHANGED mpNotice ELSE Tells(i, "err")
  /\ UNCHANGED <<mpShown, mpFound, mpForm, mpSpins>>

\* loadCloudDiscovery: topology, shapes and quota or none of them, then the instances.
DiscoverAnswered(i) ==
  /\ AnsweredAt(i, {"discover"})
  /\ Sees(i, mpFound, {"topology", "shapes"})
  /\ IF FlowOk(i) THEN GoneOn(i, "instances") /\ UNCHANGED <<mpBusy, mpNotice>> ELSE FlowEnds(i) /\ Tells(i, "err")
  /\ UNCHANGED <<mpShown, mpCloud, mpForm, mpSpins>>
InstancesAnswered(i) ==
  /\ AnsweredAt(i, {"instances"}) /\ FlowEnds(i)
  /\ IF FlowOk(i) THEN UNCHANGED mpNotice ELSE Tells(i, "err")
  /\ UNCHANGED <<mpShown, mpCloud, mpFound, mpForm, mpSpins>>

\* The first discovery: the topology is kept although the shapes do not come.
RediscoverAnswered(i) ==
  /\ AnsweredAt(i, {"rediscover", "shapes"})
  /\ LET first == mpFlows[i].at = "rediscover" IN
     /\ Sees(i, mpFound, mpFound \cup {IF first THEN "topology" ELSE "shapes"})
     /\ IF FlowOk(i)
        THEN GoneOn(i, IF first THEN "shapes" ELSE "quota") /\ UNCHANGED <<mpBusy, mpNotice>>
        ELSE FlowEnds(i) /\ Tells(i, "err")
  /\ UNCHANGED <<mpShown, mpCloud, mpForm, mpSpins>>

ModelsNext ==
  \/ OpenModels \/ LeaveModels \/ PollModels \/ RefreshButton \/ TypeAccount \/ ServerMoves
  \/ \E flow \in ButtonFlows : PressButton(flow)
  \/ \E i \in DOMAIN mpFlows :
       \/ \E how \in {"ok", "refused", "failed"}, done \in BOOLEAN : ModelsServes(i, how, done)
       \/ ActAnswered(i) \/ RefreshAnswered(i) \/ RecommendAnswered(i) \/ PollAnswered(i)
       \/ ConnectAnswered(i) \/ ConnectedAnswered(i)
       \/ DiscoverAnswered(i) \/ InstancesAnswered(i) \/ RediscoverAnswered(i)

ModelsSpec == ModelsInit /\ [][ModelsNext]_modelsVars
-----------------------------------------------------------------------------
\* While an action runs on the page its buttons are locked with its key, unless
\* the logs were asked for meanwhile (their button knows no lock, and their end
\* opens it); and a lock belongs to an action that runs.
LockIsHeld ==
  /\ \A i \in DOMAIN mpFlows : LET f == mpFlows[i] IN f.page /\ f.key # NoButton /\ "unlocked" \notin f.crossed => mpBusy = f.key
  /\ mpBusy # NoButton => \E i \in DOMAIN mpFlows : mpFlows[i].page /\ mpFlows[i].key = mpBusy

\* With nothing under way the page shows whether the account is connected, as the
\* server has it: every action that changes it is followed by a read.  Otherwise two
\* flows overlapped or one failed, until a refresh that overlaps nothing.
CloudIsShown ==
  mpOpen /\ mpFlows = <<>> /\ ~mpUpset => mpCloud = AsStatus(mpAccount)

\* What a read that crossed no other brings is not older than what is shown.
ReadsGoForward ==
  [][mpOpen /\ mpOpen' /\ mpShown # mpShown' =>
       \A i \in DOMAIN mpFlows :
         mpFlows[i].page /\ mpFlows[i].at \in Reading /\ "read" \notin mpFlows[i].crossed => mpShown' >= mpShown]_modelsVars
=============================================================================
