--------------------------- MODULE MissionStore ---------------------------
(* Missions and their steps (utils/missions.ts), as functions on one
   mission or on the list of missions.

   A mission is [id, priority, status, steps]; a step is [status, level],
   where level is the verification stored with it: "VERIFIED" or "NONE"
   for everything less (PARTIAL, UNVERIFIED, nothing yet).  The status
   "skipped" is declared in the code and set nowhere.  The logs, progress
   and currentStepIndex are left out: nothing reads them back. *)
EXTENDS Naturals, SequencesExt

CONSTANTS
    MaxMissions,  \* MAX_MISSIONS, 100 in the code
    MaxSteps      \* MAX_STEPS, 50 in the code

MissionStatuses ==
    {"queued", "running", "paused", "completed", "failed", "cancelled"}

StepStatuses == {"pending", "running", "completed", "failed"}

MissionTerminal == {"completed", "failed", "cancelled"}

HasMission(ms, id) == \E i \in DOMAIN ms : ms[i].id = id

MissionAt(ms, id) == CHOOSE i \in DOMAIN ms : ms[i].id = id

MissionOf(ms, id) == ms[MissionAt(ms, id)]

\* The mission `m.id` replaced by m.
Put(ms, m) == [i \in DOMAIN ms |-> IF ms[i].id = m.id THEN m ELSE ms[i]]

StepsIn(m, status) == {k \in DOMAIN m.steps : m.steps[k].status = status}

\* The first pending step, or 0.
NextPendingStep(m) ==
    LET pending == StepsIn(m, "pending")
    IN  IF pending = {} THEN 0
                        ELSE CHOOSE k \in pending : \A j \in pending : k <= j

\* A new mission at the end of the list; over the limit the oldest goes,
\* whatever its status.
CreateMission(ms, id, priority, steps) ==
    LET all == Append(ms, [id |-> id, priority |-> priority, status |-> "queued",
                           steps |-> [k \in 1 .. steps |->
                                        [status |-> "pending", level |-> "NONE"]]])
    IN  IF Len(all) > MaxMissions THEN Tail(all) ELSE all

Startable(m) == m.status \notin MissionTerminal \cup {"paused"}

\* The mission runs and its next step with it; with no step left it is done.
StartOrResume(m) ==
    LET k == NextPendingStep(m)
    IN  IF ~Startable(m) THEN m
        ELSE IF k = 0 THEN [m EXCEPT !.status = "completed"]
        ELSE [m EXCEPT !.status = "running", !.steps[k].status = "running"]

\* The verdict of a mission of which no step is pending or running.
Verdict(m) == IF StepsIn(m, "failed") # {} THEN "failed" ELSE "completed"

\* Step k ends.  The mission ends with its last step, whatever the mission's
\* own status says by then.
SettleStep(m, k, success, level) ==
    LET settled == IF success
                      THEN [m EXCEPT !.steps[k] = [status |-> "completed", level |-> level]]
                      ELSE [m EXCEPT !.steps[k].status = "failed"]
        left == StepsIn(settled, "pending") \cup StepsIn(settled, "running")
    IN  IF left = {} THEN [settled EXCEPT !.status = Verdict(settled)] ELSE settled

\* The level the store keeps for the whole mission, from its completed steps.
Verification(m) ==
    LET done     == StepsIn(m, "completed")
        verified == {k \in done : m.steps[k].level = "VERIFIED"}
    IN  IF done = {} THEN "NONE"
        ELSE IF verified = done THEN "VERIFIED"
        ELSE IF verified # {} THEN "PARTIAL" ELSE "UNVERIFIED"

PauseMission(m)  == IF m.status \in MissionTerminal THEN m ELSE [m EXCEPT !.status = "paused"]
ResumeMission(m) == IF m.status = "paused" THEN [m EXCEPT !.status = "queued"] ELSE m
CancelMission(m) == IF m.status \in MissionTerminal THEN m ELSE [m EXCEPT !.status = "cancelled"]

\* Mutant: every step that did not complete is pending again.
RetryMissionUnfinished(m) ==
    IF StepsIn(m, "failed") = {} THEN m
    ELSE [m EXCEPT !.status = "queued",
                   !.steps = [k \in DOMAIN m.steps |->
                                IF m.steps[k].status # "completed"
                                   THEN [m.steps[k] EXCEPT !.status = "pending"]
                                   ELSE m.steps[k]]]

\* Mutant: every step is pending again.
RetryMissionAll(m) ==
    IF StepsIn(m, "failed") = {} THEN m
    ELSE [m EXCEPT !.status = "queued",
                   !.steps = [k \in DOMAIN m.steps |->
                                IF TRUE
                                   THEN [m.steps[k] EXCEPT !.status = "pending"]
                                   ELSE m.steps[k]]]

\* Failed steps are pending again, and only they.
RetryMission(m) ==
    IF StepsIn(m, "failed") = {} THEN m
    ELSE [m EXCEPT !.status = "queued",
                   !.steps = [k \in DOMAIN m.steps |->
                                IF m.steps[k].status = "failed"
                                   THEN [m.steps[k] EXCEPT !.status = "pending"]
                                   ELSE m.steps[k]]]

\* No two missions have one id.
RemoveMission(ms, id) == IF HasMission(ms, id) THEN RemoveAt(ms, MissionAt(ms, id)) ELSE ms

\* A restart: a mission that was running is paused; its steps are as saved.
LoadMissions(ms) ==
    [i \in DOMAIN ms |-> IF ms[i].status = "running"
                            THEN [ms[i] EXCEPT !.status = "paused"]
                            ELSE ms[i]]
=============================================================================
