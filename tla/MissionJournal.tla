---------------------------- MODULE MissionJournal ----------------------------
(* The mission journal (utils/mission-journal.ts): a bounded, persisted list   *)
(* of lines drawn from the agent's events, with the index that lets a later    *)
(* event of an action patch its line.  A process that dies loses its caches,   *)
(* and the file when it dies in the middle of a write.                         *)
EXTENDS Naturals, Sequences, FiniteSets

CONSTANTS
  JActions,     \* actions (step ids) of the runs
  JMissions,    \* missions whose progress is told
  MaxLines,     \* MAX_ENTRIES, 400
  MaxPlanned,     \* MAX_STEP_CACHE, 300
  MaxEvents,    \* bound: events told to the journal
  MaxEpochs     \* bound: lives of the process

ASSUME MaxLinesAssumption == MaxLines \in Nat \ {0}

VARIABLES
  jLines,    \* entries: kind, status, action, seq; ghost: born, the life it was written in
  jIndex,    \* actionEntries: by action, the seq of its line
  jPlanned,  \* plannedTasks, oldest first (a task per action here)
  jMissions, \* missionStatus, oldest first: mission, status
  jSeq,      \* the last sequence number
  jLoaded,   \* the file has been read
  jFile,     \* the lines of the last save, and whether it is torn
  jSaved,    \* ghost: the last save worked
  jActs,     \* environment: where each action is: "new", "gate", "running", "settled"
  jLife,     \* ghost: the number of this process
  jEvents    \* bound: events so far

journalVars == <<jLines, jIndex, jPlanned, jMissions, jSeq, jLoaded, jFile, jSaved, jActs, jLife, jEvents>>

TornFile == [torn |-> TRUE, lines |-> <<>>]
MStatus == {"running", "completed"}

JournalInit ==
  /\ jLines = <<>> /\ jIndex = <<>> /\ jPlanned = <<>> /\ jMissions = <<>> /\ jSeq = 0
  /\ jLoaded = FALSE /\ jFile = [torn |-> FALSE, lines |-> <<>>] /\ jSaved = TRUE
  /\ jActs = [a \in JActions |-> "new"] /\ jLife = 1 /\ jEvents = 0

(* load, on the first use: a file that does not parse is an empty journal.     *)
JournalLoaded(j) == IF j.loaded THEN j
  ELSE LET l == jFile.lines
       IN  [j EXCEPT !.loaded = TRUE, !.lines = l,
                     !.seq = IF l = <<>> THEN 0 ELSE l[Len(l)].seq]

Journal == [lines |-> jLines, index |-> jIndex, seq |-> jSeq, loaded |-> jLoaded]

(* append: over the limit the oldest line goes, and what points at it.         *)
\* Mutant: the index keeps what points at the line.
TrimmedList(j) == IF Len(j.lines) <= MaxLines THEN j ELSE [j EXCEPT !.lines = Tail(@)]
Trimmed(j) ==
  IF Len(j.lines) <= MaxLines THEN j
  ELSE [j EXCEPT !.lines = Tail(@),
                 !.index = [a \in {b \in DOMAIN @ : @[b] # Head(j.lines).seq} |-> @[a]]]
Appended(old, kind, status, a) ==
  LET j == JournalLoaded(old) IN
  Trimmed([j EXCEPT !.seq = @ + 1,
                    !.lines = Append(@, [kind |-> kind, status |-> status, action |-> a,
                                         seq |-> j.seq + 1, born |-> jLife])])
(* n lines of another kind, that no event ever patches; at most two.           *)
Log(old, n) ==
  LET Line(j) == Appended(j, "LOG", "INFO", "-")
  IN CASE n = 0 -> old [] n = 1 -> Line(old) [] n = 2 -> Line(Line(old))

(* patch: the line the index names, when it is still there.                    *)
Patched(j, a, status) ==
  [j EXCEPT !.lines = [i \in DOMAIN @ |-> IF @[i].seq = j.index[a]
                                          THEN [@[i] EXCEPT !.status = status] ELSE @[i]]]

(* save, after every change; a write that fails is logged.                     *)
Keep(j) ==
  /\ jLines' = j.lines /\ jIndex' = j.index /\ jSeq' = j.seq /\ jLoaded' = j.loaded
  /\ \E ok \in BOOLEAN : jSaved' = ok /\ jFile' = IF ok THEN [torn |-> FALSE, lines |-> j.lines] ELSE jFile
Event == jEvents < MaxEvents /\ jEvents' = jEvents + 1 /\ UNCHANGED jLife
Others == UNCHANGED <<jPlanned, jMissions>>

(* FIFO caches of at most MaxCache keys.                                       *)
Cached(s, x) == IF Len(s) < MaxPlanned THEN Append(s, x) ELSE Append(Tail(s), x)

-----------------------------------------------------------------------------
(* onTaskProgress: the plan of a task, at the first sight of it.               *)
TaskProgress(a) ==
  /\ Event /\ jActs[a] = "new" /\ a \notin {jPlanned[i] : i \in DOMAIN jPlanned}
  /\ jPlanned' = Cached(jPlanned, a) /\ Keep(Log(Journal, 1))
  /\ UNCHANGED <<jMissions, jActs>>

(* onConfirmationRequired                                                      *)
ConfirmationRequired(a) ==
  /\ Event /\ jActs[a] = "new" /\ jActs' = [jActs EXCEPT ![a] = "gate"]
  /\ Keep(Appended(Journal, "ACTION", "BLOCKED", a)) /\ Others

(* onToolExecution, "executing": announced more than once, one line.           *)
Indexed(x, a, n) == [b \in DOMAIN x \cup {a} |-> IF b = a THEN n ELSE x[b]]
ActionStarted(a) ==
  IF a \in DOMAIN jIndex THEN Patched(Journal, a, "RUNNING")
  ELSE LET j == Appended(Journal, "ACTION", "RUNNING", a)
       IN  [j EXCEPT !.index = Indexed(@, a, j.seq)]
Executing(a) ==
  /\ Event /\ jActs[a] # "settled" /\ jActs' = [jActs EXCEPT ![a] = "running"]
  /\ Keep(ActionStarted(a)) /\ Others

(* "retrying": the old transient path patches the line and adds one; a         *)
(* classified recovery (onDeterministicRecovery, onReplan) only adds one.      *)
Retrying(a) ==
  /\ Event /\ jActs[a] = "running" /\ UNCHANGED jActs
  /\ Keep(Log(IF a \in DOMAIN jIndex THEN Patched(Journal, a, "RECOVERED") ELSE Journal, 1))
  /\ Others
Recovering(a) ==
  /\ Event /\ jActs[a] = "running" /\ UNCHANGED jActs
  /\ Keep(Log(Journal, 1)) /\ Others

(* A settled state; what was observed and what verified it have lines too.     *)
SettlesAction(a, status, extra) ==
  /\ Event /\ jActs[a] # "settled" /\ jActs' = [jActs EXCEPT ![a] = "settled"]
  /\ status # "SKIPPED" => jActs[a] = "running"
  /\ Keep(Log(IF a \in DOMAIN jIndex THEN Patched(Journal, a, status)
              ELSE Appended(Journal, "ACTION", status, a), extra)) /\ Others

(* onMissionProgress: a line for a status that is not the last one told.       *)
MissionProgress(m, status) ==
  LET rest == SelectSeq(jMissions, LAMBDA r : r[1] # m) IN
  /\ Event /\ \A i \in DOMAIN jMissions : jMissions[i] # <<m, status>>
  /\ jMissions' = (IF Len(rest) = Len(jMissions) THEN Cached(jMissions, <<m, status>>)
                   ELSE [i \in DOMAIN jMissions |->
                           IF jMissions[i][1] = m THEN <<m, status>> ELSE jMissions[i]])
  /\ Keep(Log(Journal, 1)) /\ UNCHANGED <<jPlanned, jActs>>

(* The lines that stand for one event each: the router's two for a command,    *)
(* and one for a model's choice, an objective, a result, a memory, a browser   *)
(* session, an error or a task's end.                                          *)
CommandSeen == Event /\ Keep(Log(Journal, 2)) /\ Others /\ UNCHANGED jActs
EventSeen == Event /\ Keep(Log(Journal, 1)) /\ Others /\ UNCHANGED jActs

(* clear, and the end of the process.                                          *)
JournalClear ==
  /\ Event /\ Others /\ UNCHANGED jActs
  /\ Keep([JournalLoaded(Journal) EXCEPT !.lines = <<>>, !.index = <<>>])
JournalRestart ==
  /\ jLife < MaxEpochs /\ jLife' = jLife + 1 /\ jFile' \in {jFile, TornFile}
  /\ jLines' = <<>> /\ jIndex' = <<>> /\ jPlanned' = <<>> /\ jMissions' = <<>> /\ jSeq' = 0
  /\ jLoaded' = FALSE /\ jSaved' = TRUE /\ jActs' = [a \in JActions |-> "new"]
  /\ UNCHANGED jEvents
(* list, for a client or the page.                                             *)
JournalRead ==
  /\ ~jLoaded /\ jLines' = JournalLoaded(Journal).lines /\ jSeq' = JournalLoaded(Journal).seq /\ jLoaded' = TRUE
  /\ UNCHANGED <<jIndex, jPlanned, jMissions, jFile, jSaved, jActs, jLife, jEvents>>

JournalNext ==
  \/ \E a \in JActions :
       \/ TaskProgress(a) \/ ConfirmationRequired(a) \/ Executing(a) \/ Retrying(a) \/ Recovering(a)
       \/ \E s \in {"COMPLETED", "FAILED", "SKIPPED"}, extra \in {0, 2} : SettlesAction(a, s, extra)
  \/ \E m \in JMissions, s \in MStatus : MissionProgress(m, s)
  \/ CommandSeen \/ EventSeen \/ JournalClear \/ JournalRestart \/ JournalRead

JournalSpec == JournalInit /\ [][JournalNext]_journalVars
-----------------------------------------------------------------------------
\* The lines are in the order they were written, through restarts and trims
\* ("Monotonic sequence": load takes the greatest number up again), and every
\* entry of the index is the line of its action that a later event may patch.
JournalOrdered ==
  /\ Len(jLines) <= MaxLines
  /\ \A i \in 1 .. (Len(jLines) - 1) : jLines[i].seq < jLines[i + 1].seq
IndexExact ==
  \A a \in DOMAIN jIndex : \E i \in DOMAIN jLines :
     jLines[i].seq = jIndex[a] /\ jLines[i].action = a /\ jLines[i].status # "BLOCKED"

\* "ONE line per real action": in one life of the process an action has one
\* line beside the one of its gate, and it says RUNNING only while it runs.
OwnLines(a) == {i \in DOMAIN jLines : jLines[i].kind = "ACTION" /\ jLines[i].action = a
                                     /\ jLines[i].born = jLife /\ jLines[i].status # "BLOCKED"}
OneLinePerAction ==
  \A a \in JActions : /\ Cardinality(OwnLines(a)) <= 1
                      /\ \A i \in OwnLines(a) : jLines[i].status \in {"RUNNING", "RECOVERED"}
                                                  => jActs[a] = "running"

\* What a reader sees is what a restart will find, as long as the last save worked.
JournalDurable == jSaved /\ jLoaded => jFile.torn \/ jFile.lines = jLines

\* The journal is a faithful log: ordered, indexed by the lines that are there,
\* with one line an action, and on disk (mission-journal.ts).
JournalIsExact == JournalOrdered /\ IndexExact /\ OneLinePerAction /\ JournalDurable
=============================================================================
