----------------------------- MODULE ToolsProofs -----------------------------
(* The components of MCSuite that drive the user's machine, proved for every   *)
(* value of their constants: the verified tasks of the web tools (WebTasks),   *)
(* the browser session and its actions (WebAgent, BrowserActions), control of  *)
(* the computer, processes and the sampler (ComputerControl, ProcessTools,     *)
(* SystemSampler).                                                             *)
EXTENDS SuiteProofs

-----------------------------------------------------------------------------
(* The verified tasks of the web tools *)

\* Of a set of numbers up to k there is a last one.
LEMMA LastName ==
  ASSUME NEW k \in Nat, NEW S \in SUBSET (1..k), S # {}
  PROVE  \E x \in S : \A y \in S : y <= x
<1> DEFINE B == {b \in Nat : \A y \in S : y <= b}
<1>1. B \in SUBSET Nat /\ k \in B
  OBVIOUS
<1>2. PICK b \in B : \A a \in B : b <= a
  BY <1>1, FirstName
<1>3. b \in S
  <2> SUFFICES ASSUME b \notin S PROVE FALSE
    OBVIOUS
  <2>1. \A y \in S : y < b /\ y \in Nat /\ y >= 1
    BY <1>2
  <2>2. b \in Nat /\ b # 0
    <3>1. PICK y \in S : TRUE
      OBVIOUS
    <3> QED
      BY <1>1, <2>1, <3>1
  <2>3. b - 1 \in Nat /\ \A y \in S : y <= b - 1
    BY <2>1, <2>2
  <2> QED
    BY <1>2, <2>2, <2>3
<1> QED
  BY <1>2, <1>3

Kinds == {"none", "form", "download", "scroll", "play"}
TaskStages == {"idle", "fill", "click", "poll", "stable", "look", "search", "nav", "url", "video", "over"}
TaskResults == {"none", "success", "failure", "unknown", "found", "boundary", "max", "stuck"}

TasksTyped ==
  /\ wtTask \in [kind : Kinds, at : TaskStages, result : TaskResults]
  /\ wtForm \in [WtFields -> {"old", "wanted", "other"}] /\ wtFilled \in [n : Nat, ok : BOOLEAN]
  /\ \A n \in Files : wtDir[n] \in Nat
  /\ wtScan \in [before : SUBSET WtFiles, there : SUBSET WtFiles, pick : Nat, size : Nat, over : BOOLEAN]
  /\ wtScroll \in [top : Nat, height : Int, target : Nat, end : BOOLEAN]
  /\ (wtTask.result # "none" => wtTask.at = "over")
  /\ (wtTask.kind = "scroll" => wtTask.at \in {"look", "search", "over"})

\* What the fields done so far hold, while all went well.
FormFills ==
  /\ wtFilled.ok => \A f \in WtFields : f <= wtFilled.n => f \in wtMeddled \/ wtForm[f] = "wanted"
  /\ Succeeded("form") => wtFilled.ok /\ Field \notin WtFields

\* The scan before the click saw all there was, unless there was too much.
ScanIsWhole ==
  /\ Files \subseteq WtFiles /\ (~wtScan.over => Cardinality(Files) <= ScanCap)
  /\ wtTask.kind = "download" /\ wtTask.at \in {"poll", "stable", "over"} /\ ~wtScan.over
       => wtScan.before = wtScan.there
  /\ wtTask.kind = "download" /\ (wtTask.at = "stable" \/ wtTask.result = "success") => wtScan.pick \notin wtScan.before

\* The rows passed were looked at, and the last ones that were there are seen.
RowsAreSeen ==
  /\ wtScroll.height >= WtRows - 1 /\ (wtTask.at = "idle" => wtScroll.top = 0)
  /\ wtTask.kind = "scroll" /\ wtTask.at \in {"look", "search"} => wtScroll.target >= wtScroll.top
  /\ wtTask.kind = "scroll" /\ wtTask.at = "search" /\ wtScroll.end => wtScroll.top + View >= WtRows - 1
  /\ ScrollMissesNothing

TasksInv == TasksTyped /\ FormFills /\ ScanIsWhole /\ RowsAreSeen

LEMMA FieldsAreNumbers ==
  /\ \A f \in WtFields : f \in Nat /\ f >= 1
  /\ \A n \in WtFiles : n \in Nat /\ n >= 1
  /\ Cardinality(WtFiles) \in Nat
<1>1. Cardinality(WtFields) \in Nat /\ Cardinality(WtFiles) \in Nat
  BY WtAssumption, FS_CardinalityType
<1> QED
  BY <1>1, WtAssumption

LEMMA Moved ==
  ASSUME TasksTyped, NEW a \in TaskStages, TaskMoves(a)
  PROVE  /\ wtTask' \in [kind : Kinds, at : TaskStages, result : TaskResults]
         /\ wtTask'.kind = wtTask.kind /\ wtTask'.at = a /\ wtTask'.result = wtTask.result
BY DEF TasksTyped, TaskMoves

LEMMA Ended ==
  ASSUME TasksTyped, NEW r \in TaskResults, Results(r)
  PROVE  /\ wtTask' \in [kind : Kinds, at : TaskStages, result : TaskResults]
         /\ wtTask'.kind = wtTask.kind /\ wtTask'.at = "over" /\ wtTask'.result = r
<1>1. "over" \in TaskStages
  BY DEF TaskStages
<1> QED
  BY <1>1 DEF TasksTyped, Results

\* A scan returns all there is when that is within the cap.
LEMMA WholeScan ==
  ASSUME Files \subseteq WtFiles, Cardinality(Files) <= ScanCap
  PROVE  Scanned = Files
<1>1. IsFiniteSet(Files) /\ Cardinality(Files) \in Nat
  BY WtAssumption, FS_Subset, FS_CardinalityType
<1>2. ASSUME NEW n \in Files PROVE Cardinality({m \in Files : m <= n}) <= ScanCap
  <2>1. {m \in Files : m <= n} \in SUBSET Files
    OBVIOUS
  <2>2. /\ IsFiniteSet({m \in Files : m <= n})
        /\ Cardinality({m \in Files : m <= n}) <= Cardinality(Files)
    BY <1>1, <2>1, FS_Subset
  <2>3. Cardinality({m \in Files : m <= n}) \in Nat
    BY <2>2, FS_CardinalityType
  <2> QED
    BY <1>1, <2>2, <2>3, WtAssumption
<1> QED
  BY <1>2 DEF Scanned

LEMMA TasksBegin ==
  ASSUME TasksInit
  PROVE  TasksInv
<1>1. TasksTyped
  BY WtAssumption DEF TasksInit, TasksTyped, Files, Kinds, TaskStages, TaskResults
<1>2. FormFills
  <2>1. wtTask.result = "none" /\ wtFilled.n = 0 /\ wtFilled.ok
    BY DEF TasksInit
  <2> QED
    BY <2>1, FieldsAreNumbers DEF FormFills, Succeeded
<1>3. ScanIsWhole
  <2>1. Files = {} /\ Cardinality(Files) = 0
    BY FS_EmptySet DEF TasksInit, Files
  <2> QED
    BY <2>1, WtAssumption DEF TasksInit, ScanIsWhole
<1>4. RowsAreSeen
  BY WtAssumption DEF TasksInit, RowsAreSeen, ScrollMissesNothing, View
<1> QED
  BY <1>1, <1>2, <1>3, <1>4 DEF TasksInv

LEMMA TaskBegins ==
  ASSUME TasksInv, NEW k \in {"form", "download", "play"}, NEW a \in {"fill", "click", "nav"}, BeginTask(k, a)
  PROVE  TasksInv'
<1>1. wtTask.at = "idle" /\ wtTask' = [kind |-> k, at |-> a, result |-> "none"]
      /\ UNCHANGED <<wtForm, wtMeddled, wtFilled, wtDir, wtScan, wtScroll, wtVideo, wtSeen>>
  BY DEF BeginTask, wtFormVars, wtDirVars, wtPageVars
<1>2. TasksTyped'
  BY <1>1 DEF TasksInv, TasksTyped, Files, Kinds, TaskStages, TaskResults
<1>3. FormFills'
  BY <1>1 DEF TasksInv, FormFills, Succeeded
<1>4. ScanIsWhole'
  BY <1>1 DEF TasksInv, ScanIsWhole, Files
<1>5. RowsAreSeen'
  BY <1>1 DEF TasksInv, RowsAreSeen, ScrollMissesNothing
<1> QED
  BY <1>2, <1>3, <1>4, <1>5 DEF TasksInv

LEMMA ScrollBegins ==
  ASSUME TasksInv, NEW row \in 0 .. WtRows, BeginScroll(row)
  PROVE  TasksInv'
<1>1. wtTask.at = "idle" /\ wtTask' = [kind |-> "scroll", at |-> "look", result |-> "none"]
      /\ wtScroll' = [wtScroll EXCEPT !.target = row]
      /\ UNCHANGED <<wtForm, wtMeddled, wtFilled, wtDir, wtScan, wtVideo, wtSeen>>
  BY DEF BeginScroll, wtFormVars, wtDirVars
<1>2. row \in Nat
  BY WtAssumption
<1>3. TasksTyped'
  BY <1>1, <1>2 DEF TasksInv, TasksTyped, Files, Kinds, TaskStages, TaskResults
<1>4. FormFills'
  BY <1>1 DEF TasksInv, FormFills, Succeeded
<1>5. ScanIsWhole'
  BY <1>1 DEF TasksInv, ScanIsWhole, Files
<1>6. wtScroll'.target = row /\ wtScroll'.top = wtScroll.top /\ wtScroll'.height = wtScroll.height
  BY <1>1 DEF TasksInv, TasksTyped
<1>7. RowsAreSeen'
  BY <1>1, <1>2, <1>6 DEF TasksInv, RowsAreSeen, ScrollMissesNothing
<1> QED
  BY <1>3, <1>4, <1>5, <1>7 DEF TasksInv

LEMMA FormSteps ==
  ASSUME TasksInv, FormStep
  PROVE  TasksInv'
<1>1. TasksTyped /\ FormFills /\ ScanIsWhole /\ RowsAreSeen
  BY DEF TasksInv
<1>2. UNCHANGED <<wtDir, wtScan, wtScroll, wtVideo, wtSeen>>
  BY DEF FormStep, FillField, FieldMissed, EndForm, PageRewrites, wtDirVars, wtPageVars
<1>3. /\ wtTask' \in [kind : Kinds, at : TaskStages, result : TaskResults] /\ wtTask.kind = "form" /\ wtTask'.kind = "form"
      /\ \/ wtTask' = wtTask
         \/ wtTask'.at = "over" /\ wtTask'.result \in {"success", "failure"}
  <2>1. CASE EndForm
    <3>1. PICK r \in {"success", "failure"} : Results(r)
      BY <2>1 DEF EndForm
    <3>2. r \in TaskResults
      BY DEF TaskResults
    <3> QED
      BY <1>1, <2>1, <3>1, <3>2, Ended DEF EndForm, On
  <2>2. CASE ~EndForm
    BY <1>1, <2>2 DEF FormStep, FillField, FieldMissed, PageRewrites, PageUpset, On, TasksTyped
  <2> QED
    BY <2>1, <2>2
<1>4. /\ wtForm' \in [WtFields -> {"old", "wanted", "other"}]
      /\ wtFilled' \in [n : Nat, ok : BOOLEAN]
  <2>1. wtForm \in [WtFields -> {"old", "wanted", "other"}] /\ wtFilled.n \in Nat /\ wtFilled.ok \in BOOLEAN
        /\ wtFilled \in [n : Nat, ok : BOOLEAN]
    BY <1>1 DEF TasksTyped
  <2>2. Field \in Nat
    BY <2>1 DEF Field
  <2>3. \A h \in {"wanted", "other", "missed"} : CountedField(Field, h) \in [n : Nat, ok : BOOLEAN]
    BY <2>1, <2>2 DEF CountedField
  <2>4. CASE \E h \in Held : FillField(h)
    BY <2>1, <2>3, <2>4 DEF FillField, Held
  <2>5. CASE FieldMissed \/ EndForm
    BY <2>1, <2>3, <2>5 DEF FieldMissed, EndForm, wtFormVars
  <2>6. CASE \E f \in WtFields : PageRewrites(f)
    BY <2>1, <2>6 DEF PageRewrites
  <2> QED
    BY <2>4, <2>5, <2>6 DEF FormStep
<1>5. TasksTyped'
  BY <1>1, <1>2, <1>3, <1>4 DEF TasksTyped, Files
<1>6. FormFills'
  <2>1. ASSUME NEW h \in {"wanted", "other", "missed"}, NEW f \in WtFields, f = wtFilled.n + 1,
               wtFilled' = [n |-> f, ok |-> wtFilled.ok /\ h = "wanted"],
               wtForm' = wtForm \/ wtForm' = [wtForm EXCEPT ![f] = h],
               h = "wanted" => wtForm' = [wtForm EXCEPT ![f] = h],
               UNCHANGED <<wtMeddled, wtTask>>, On("form", "fill")
        PROVE  FormFills'
    <3>1. \A g \in WtFields : g \in Nat
      BY FieldsAreNumbers
    <3>2. ~Succeeded("form")'
      BY <2>1, <1>1 DEF TasksTyped, On, Succeeded
    <3>3. ASSUME wtFilled.ok, h = "wanted", NEW g \in WtFields, g <= f PROVE g \in wtMeddled \/ wtForm'[g] = "wanted"
      <4>1. CASE g = f
        BY <1>1, <2>1, <3>3, <4>1 DEF TasksTyped
      <4>2. CASE g # f
        <5>1. g <= wtFilled.n
          BY <1>1, <2>1, <3>1, <3>3, <4>2 DEF TasksTyped
        <5>2. wtForm'[g] = wtForm[g]
          BY <1>1, <2>1, <3>3, <4>2 DEF TasksTyped
        <5> QED
          BY <1>1, <3>3, <5>1, <5>2 DEF FormFills
      <4> QED
        BY <4>1, <4>2
    <3> QED
      BY <2>1, <3>2, <3>3 DEF FormFills
  <2>2. CASE \E h \in Held : FillField(h)
    BY <2>1, <2>2 DEF FillField, Held, CountedField, Field
  <2>3. CASE FieldMissed
    BY <2>1, <2>3 DEF FieldMissed, CountedField, Field
  <2>4. CASE EndForm
    <3>1. Results(IF wtFilled.ok THEN "success" ELSE "failure") /\ Field \notin WtFields /\ UNCHANGED <<wtForm, wtMeddled, wtFilled>>
      BY <2>4 DEF EndForm, wtFormVars
    <3>2. Succeeded("form")' => wtFilled.ok
      BY <1>1, <3>1 DEF Results, Succeeded, TasksTyped
    <3> QED
      BY <1>1, <3>1, <3>2 DEF FormFills, Field
  <2>5. ASSUME NEW f \in WtFields, PageRewrites(f) PROVE FormFills'
    <3>1. wtForm' = [wtForm EXCEPT ![f] = "other"] /\ wtMeddled' = wtMeddled \cup {f} /\ UNCHANGED <<wtFilled, wtTask>>
      BY <2>5 DEF PageRewrites, PageUpset
    <3>2. \A g \in WtFields : g # f => wtForm'[g] = wtForm[g]
      BY <1>1, <3>1 DEF TasksTyped
    <3> QED
      BY <1>1, <3>1, <3>2 DEF FormFills, Succeeded, Field
  <2> QED
    BY <2>2, <2>3, <2>4, <2>5 DEF FormStep
<1>7. ScanIsWhole'
  BY <1>1, <1>2, <1>3 DEF ScanIsWhole, Files
<1>8. RowsAreSeen'
  <2>1. wtTask'.at = "idle" => wtTask.at = "idle"
    BY <1>3
  <2>2. wtTask'.result = "boundary" => wtTask.result = "boundary"
    BY <1>3
  <2> QED
    BY <1>1, <1>2, <1>3, <2>1, <2>2 DEF RowsAreSeen, ScrollMissesNothing
<1> QED
  BY <1>5, <1>6, <1>7, <1>8 DEF TasksInv

\* A step of a download, or of any task but a form, leaves the form alone.
LEMMA OthersKept ==
  ASSUME TasksInv, wtTask'.kind = wtTask.kind,
         wtTask' \in [kind : Kinds, at : TaskStages, result : TaskResults],
         UNCHANGED <<wtForm, wtMeddled, wtFilled>>, wtTask.kind # "form"
  PROVE  FormFills'
BY DEF TasksInv, FormFills, Succeeded

LEMMA DownloadSteps ==
  ASSUME TasksInv, DownloadStep
  PROVE  TasksInv'
<1>1. TasksTyped /\ FormFills /\ ScanIsWhole /\ RowsAreSeen
  BY DEF TasksInv
<1>2. UNCHANGED <<wtForm, wtMeddled, wtFilled, wtScroll, wtVideo, wtSeen>> /\ wtTask.kind = "download"
  BY DEF DownloadStep, ClickDownload, PollDownload, DownloadTimesOut, CheckStable, FileDeleted, FileWritten, DiskChanges,
         On, wtFormVars, wtPageVars
<1>3. /\ wtTask' \in [kind : Kinds, at : TaskStages, result : TaskResults] /\ wtTask'.kind = "download"
      /\ \/ wtTask' = wtTask
         \/ wtTask'.at \in {"poll", "stable"} /\ wtTask'.result = wtTask.result /\ wtTask.at \in {"click", "poll"}
         \/ wtTask'.at = "over" /\ wtTask'.result \in {"success", "failure"}
  <2>1. CASE DownloadTimesOut \/ CheckStable
    <3>1. PICK r \in {"success", "failure"} : Results(r)
      BY <2>1 DEF DownloadTimesOut, CheckStable
    <3>2. r \in TaskResults
      BY DEF TaskResults
    <3> QED
      BY <1>1, <1>2, <3>1, <3>2, Ended
  <2>3. ASSUME NEW a \in {"poll", "stable"}, TaskMoves(a)
        PROVE  /\ wtTask' \in [kind : Kinds, at : TaskStages, result : TaskResults] /\ wtTask'.kind = "download"
               /\ wtTask'.at = a /\ wtTask'.result = wtTask.result
    <3>1. a \in TaskStages
      BY DEF TaskStages
    <3> QED
      BY <1>1, <1>2, <2>3, <3>1, Moved
  <2>4. CASE ClickDownload \/ (PollDownload /\ TaskMoves("stable"))
    <3>1. PICK a \in {"poll", "stable"} : TaskMoves(a)
      BY <2>4 DEF ClickDownload
    <3> QED
      BY <2>3, <2>4, <3>1 DEF ClickDownload, PollDownload, On
  <2>5. CASE wtTask' = wtTask
    BY <1>1, <1>2, <2>5 DEF TasksTyped
  <2>6. DownloadStep => DownloadTimesOut \/ CheckStable \/ ClickDownload \/ PollDownload \/ wtTask' = wtTask
    BY DEF DownloadStep, FileDeleted, FileWritten, DiskChanges, PageUpset
  <2>7. PollDownload => wtTask' = wtTask \/ TaskMoves("stable")
    BY DEF PollDownload
  <2> QED
    BY <2>1, <2>4, <2>5, <2>6, <2>7
<1>4. FormFills'
  BY <1>2, <1>3, OthersKept
<1>5. RowsAreSeen'
  <2>1. (wtTask'.at = "idle" => wtTask.at = "idle") /\ (wtTask'.result = "boundary" => wtTask.result = "boundary")
    BY <1>3
  <2> QED
    BY <1>1, <1>2, <1>3, <2>1 DEF RowsAreSeen, ScrollMissesNothing
<1>6. /\ wtScan \in [before : SUBSET WtFiles, there : SUBSET WtFiles, pick : Nat, size : Nat, over : BOOLEAN]
      /\ (wtTask.result # "none" => wtTask.at = "over")
  BY <1>1 DEF TasksTyped
<1>7. PICK bf \in SUBSET WtFiles, th \in SUBSET WtFiles, p \in Nat, z \in Nat, o \in BOOLEAN :
        wtScan = [before |-> bf, there |-> th, pick |-> p, size |-> z, over |-> o]
  BY <1>6
<1>8. /\ wtScan' \in [before : SUBSET WtFiles, there : SUBSET WtFiles, pick : Nat, size : Nat, over : BOOLEAN]
      /\ ScanIsWhole'
  <2>1. CASE ClickDownload
    <3>1. /\ wtScan' = [before |-> Scanned, there |-> Files, pick |-> p, size |-> z, over |-> o]
          /\ wtDir' = wtDir /\ wtTask.at = "click" /\ wtTask'.at = "poll" /\ wtTask'.result = "none"
      <4>1. wtScan' = [wtScan EXCEPT !.before = Scanned, !.there = Files]
        BY <2>1 DEF ClickDownload, SeenBefore
      <4>2. TaskMoves("poll") /\ "poll" \in TaskStages /\ wtTask.at = "click" /\ wtDir' = wtDir
        BY <2>1 DEF ClickDownload, TaskStages, On
      <4>3. wtTask'.at = "poll" /\ wtTask'.result = wtTask.result
        BY <1>1, <4>2, Moved
      <4> QED
        BY <1>6, <1>7, <4>1, <4>2, <4>3
    <3>2. Scanned \subseteq Files /\ Files \subseteq WtFiles
      BY <1>1 DEF Scanned, ScanIsWhole
    <3>3. ~o => Scanned = Files
      BY <1>1, <1>7, WholeScan DEF ScanIsWhole
    <3> QED
      BY <1>1, <1>7, <3>1, <3>2, <3>3 DEF ScanIsWhole, Files
  <2>2. ASSUME PollDownload, ~UNCHANGED <<wtScan, wtTask>>
        PROVE  /\ wtScan' \in [before : SUBSET WtFiles, there : SUBSET WtFiles, pick : Nat, size : Nat, over : BOOLEAN]
               /\ ScanIsWhole'
    <3> DEFINE top == CHOOSE n \in Fresh : \A m \in Fresh : m <= n
    <3>1. /\ Fresh # {} /\ wtDir[top] > 0 /\ TaskMoves("stable") /\ wtTask.at = "poll" /\ wtDir' = wtDir
          /\ wtScan' = [wtScan EXCEPT !.pick = top, !.size = wtDir[top]]
      BY <2>2 DEF PollDownload, On
    <3>2. wtTask'.at = "stable" /\ wtTask'.result = "none"
      <4>1. "stable" \in TaskStages
        BY DEF TaskStages
      <4> QED
        BY <1>1, <1>6, <3>1, <4>1, Moved
    <3>3. Fresh \in SUBSET (1 .. Cardinality(WtFiles))
      BY <1>1, WtAssumption DEF Fresh, Scanned, ScanIsWhole
    <3>4. \E n \in Fresh : \A m \in Fresh : m <= n
      BY <3>1, <3>3, FieldsAreNumbers, LastName
    <3>5. top \in Fresh
      BY <3>4
    <3>6. PICK n \in Fresh : n = top
      BY <3>5
    <3>7. n \in Nat /\ n \in Files /\ wtDir[n] \in Nat /\ n \notin bf
      BY <1>1, <1>7, <3>6, FieldsAreNumbers DEF Fresh, Scanned, ScanIsWhole, TasksTyped, Files
    <3>8. PICK q \in Nat : q = wtDir[n]
      BY <3>7
    <3>9. wtScan' = [before |-> bf, there |-> th, pick |-> n, size |-> q, over |-> o]
      BY <1>7, <3>1, <3>6, <3>8
    <3>10. /\ wtScan' \in [before : SUBSET WtFiles, there : SUBSET WtFiles, pick : Nat, size : Nat, over : BOOLEAN]
           /\ wtScan'.before = wtScan.before /\ wtScan'.there = wtScan.there /\ wtScan'.over = wtScan.over
           /\ wtScan'.pick \notin wtScan'.before
      BY <1>7, <3>7, <3>9
    <3> QED
      BY <1>1, <1>2, <1>3, <3>1, <3>2, <3>10 DEF ScanIsWhole, Files
  <2>3. CASE wtScan' = wtScan /\ wtDir' = wtDir /\ ~ClickDownload
    <3>1. CASE wtTask' = wtTask
      BY <1>1, <1>6, <2>3, <3>1 DEF ScanIsWhole, Files
    <3>2. CASE DownloadTimesOut
      <4>1. Results("failure") /\ "failure" \in TaskResults /\ wtTask.at = "poll"
        BY <3>2 DEF DownloadTimesOut, TaskResults, On
      <4>2. wtTask'.result = "failure" /\ wtTask'.at = "over"
        BY <1>1, <4>1, Ended
      <4> QED
        BY <1>1, <1>2, <1>6, <2>3, <4>1, <4>2 DEF ScanIsWhole, Files
    <3>3. CASE CheckStable
      <4>1. wtTask.at = "stable"
        BY <3>3 DEF CheckStable, On
      <4>2. wtScan.pick \notin wtScan.before
        BY <1>1, <1>2, <4>1 DEF ScanIsWhole
      <4>3. wtTask'.at = "over"
        BY <3>3 , <1>1 DEF CheckStable, Results, TasksTyped
      <4> QED
        BY <1>1, <1>2, <1>6, <2>3, <4>1, <4>2, <4>3 DEF ScanIsWhole, Files
    <3>4. CASE PollDownload
      BY <2>2, <2>3, <3>1, <3>4
    <3> QED
      BY <2>3, <3>1, <3>2, <3>3, <3>4 DEF DownloadStep, FileDeleted, FileWritten, DiskChanges, PageUpset
  <2>4. ASSUME NEW dir, DiskChanges(dir), DOMAIN dir \subseteq WtFiles
        PROVE  /\ wtScan' \in [before : SUBSET WtFiles, there : SUBSET WtFiles, pick : Nat, size : Nat, over : BOOLEAN]
               /\ ScanIsWhole'
    <3>1. /\ wtDir' = dir /\ wtTask' = wtTask /\ wtTask.at # "over"
          /\ wtScan' = [wtScan EXCEPT !.over = wtScan.over \/ Cardinality(DOMAIN dir) > ScanCap]
      BY <2>4 DEF DiskChanges, PageUpset
    <3>2. wtScan' = [before |-> bf, there |-> th, pick |-> p, size |-> z, over |-> (o \/ Cardinality(DOMAIN dir) > ScanCap)]
      BY <1>7, <3>1
    <3>3. IsFiniteSet(DOMAIN dir) /\ Cardinality(DOMAIN dir) \in Nat
      BY <2>4, WtAssumption, FS_Subset, FS_CardinalityType
    <3>4. ~(Cardinality(DOMAIN dir) > ScanCap) => Cardinality(DOMAIN dir) <= ScanCap
      BY <3>3, WtAssumption
    <3> QED
      BY <1>1, <1>7, <2>4, <3>1, <3>2, <3>4 DEF ScanIsWhole, Files
  <2>5. ASSUME NEW f \in WtFiles, FileDeleted(f) \/ \E t \in 0 .. 2 : FileWritten(f, t)
        PROVE  \E dir : DiskChanges(dir) /\ DOMAIN dir \subseteq WtFiles
    <3>1. Files \subseteq WtFiles
      BY <1>1 DEF ScanIsWhole
    <3>2. ASSUME FileDeleted(f) PROVE \E dir : DiskChanges(dir) /\ DOMAIN dir \subseteq WtFiles
      <4> DEFINE d == [m \in Files \ {f} |-> wtDir[m]]
      <4>1. DiskChanges(d) /\ DOMAIN d = Files \ {f}
        BY <3>2 DEF FileDeleted
      <4> QED
        BY <3>1, <4>1
    <3>3. ASSUME NEW t \in 0 .. 2, FileWritten(f, t) PROVE \E dir : DiskChanges(dir) /\ DOMAIN dir \subseteq WtFiles
      <4> DEFINE d == [m \in Files \cup {f} |-> IF m = f THEN t ELSE wtDir[m]]
      <4>1. DiskChanges(d) /\ DOMAIN d = Files \cup {f}
        BY <3>3 DEF FileWritten
      <4> QED
        BY <3>1, <4>1
    <3> QED
      BY <2>5, <3>2, <3>3
  <2>6. CASE \E f \in WtFiles : FileDeleted(f) \/ \E t \in 0 .. 2 : FileWritten(f, t)
    BY <2>4, <2>5, <2>6
  <2>7. CASE PollDownload
    <3>1. UNCHANGED <<wtScan, wtTask>> => wtScan' = wtScan /\ wtDir' = wtDir /\ ~ClickDownload
      BY <2>7 DEF PollDownload, ClickDownload, On
    <3> QED
      BY <2>2, <2>3, <2>7, <3>1
  <2>8. CASE DownloadTimesOut \/ CheckStable
    <3>1. wtScan' = wtScan /\ wtDir' = wtDir /\ ~ClickDownload
      BY <2>8 DEF DownloadTimesOut, CheckStable, ClickDownload, On, wtDirVars
    <3> QED
      BY <2>3, <3>1
  <2> QED
    BY <2>1, <2>6, <2>7, <2>8 DEF DownloadStep
<1>9. (\A n \in Files : wtDir[n] \in Nat)'
  <2>1. CASE wtDir' = wtDir
    BY <1>1, <2>1 DEF TasksTyped, Files
  <2>2. ASSUME NEW f \in WtFiles, FileDeleted(f) PROVE (\A n \in Files : wtDir[n] \in Nat)'
    <3>1. wtDir' = [m \in Files \ {f} |-> wtDir[m]]
      BY <2>2 DEF FileDeleted, DiskChanges
    <3> QED
      BY <1>1, <3>1 DEF TasksTyped, Files
  <2>3. ASSUME NEW f \in WtFiles, NEW t \in 0 .. 2, FileWritten(f, t) PROVE (\A n \in Files : wtDir[n] \in Nat)'
    <3>1. wtDir' = [m \in Files \cup {f} |-> IF m = f THEN t ELSE wtDir[m]]
      BY <2>3 DEF FileWritten, DiskChanges
    <3> QED
      BY <1>1, <3>1 DEF TasksTyped, Files
  <2> QED
    BY <2>1, <2>2, <2>3 DEF DownloadStep, ClickDownload, PollDownload, DownloadTimesOut, CheckStable, wtDirVars
<1>10. TasksTyped'
  BY <1>1, <1>2, <1>3, <1>8, <1>9 DEF TasksTyped
<1> QED
  BY <1>4, <1>5, <1>8, <1>10 DEF TasksInv

LEMMA ScrollSteps ==
  ASSUME TasksInv, ScrollStep
  PROVE  TasksInv'
<1>1. TasksTyped /\ FormFills /\ ScanIsWhole /\ RowsAreSeen
  BY DEF TasksInv
<1>2. UNCHANGED <<wtForm, wtMeddled, wtFilled, wtDir, wtScan, wtVideo, wtSeen>> /\ wtTask.kind = "scroll"
  BY DEF ScrollStep, ReadHeights, LookAndScroll, ScrollStuck, PageGrows, On, wtFormVars, wtDirVars, wtPageVars
<1>3. PICK t \in Nat, h \in Int, g \in Nat, e \in BOOLEAN :
        wtScroll = [top |-> t, height |-> h, target |-> g, end |-> e]
  BY <1>1 DEF TasksTyped
<1>4. /\ h >= WtRows - 1 /\ WtRows \in Nat
      /\ wtTask.at \in {"look", "search"} => g >= t
      /\ wtTask.at = "search" /\ e => t + 2 >= WtRows - 1
      /\ wtTask.at # "idle"
  BY <1>1, <1>2, <1>3, WtAssumption DEF RowsAreSeen, View, TasksTyped
<1>5. ASSUME NEW tt \in Nat, NEW h2 \in Int, NEW e2 \in BOOLEAN, NEW a \in {"look", "search"},
             wtScroll' = [top |-> tt, height |-> h2, target |-> g, end |-> e2],
             h2 >= WtRows - 1, g >= tt, a = "search" /\ e2 => tt + 2 >= WtRows - 1,
             wtTask' \in [kind : Kinds, at : TaskStages, result : TaskResults],
             wtTask'.kind = "scroll", wtTask'.at = a, wtTask'.result = "none"
      PROVE  TasksInv'
  <2>1. TasksTyped'
    BY <1>1, <1>2, <1>5 DEF TasksTyped, Files
  <2>2. FormFills'
    BY <1>1, <1>2, <1>5 DEF FormFills, Succeeded
  <2>3. ScanIsWhole'
    BY <1>1, <1>2, <1>5 DEF ScanIsWhole, Files
  <2>4. RowsAreSeen'
    BY <1>5 DEF RowsAreSeen, ScrollMissesNothing, View
  <2> QED
    BY <2>1, <2>2, <2>3, <2>4 DEF TasksInv
<1>6. ASSUME NEW tt \in Nat, NEW h2 \in Int, NEW e2 \in BOOLEAN, NEW r \in {"found", "boundary", "max", "stuck"},
             wtScroll' = [top |-> tt, height |-> h2, target |-> g, end |-> e2], Results(r),
             h2 >= WtRows - 1, r = "boundary" => g >= WtRows - 1
      PROVE  TasksInv'
  <2>0. /\ wtTask' \in [kind : Kinds, at : TaskStages, result : TaskResults]
        /\ wtTask'.kind = "scroll" /\ wtTask'.at = "over" /\ wtTask'.result = r
    <3>1. r \in TaskResults
      BY DEF TaskResults
    <3> QED
      BY <1>1, <1>2, <1>6, <3>1, Ended
  <2>1. TasksTyped'
    BY <1>1, <1>2, <1>6, <2>0 DEF TasksTyped, Files
  <2>2. FormFills'
    BY <1>1, <1>2, <2>0 DEF FormFills, Succeeded
  <2>3. ScanIsWhole'
    BY <1>1, <1>2, <2>0 DEF ScanIsWhole, Files
  <2>4. RowsAreSeen'
    BY <1>6, <2>0 DEF RowsAreSeen, ScrollMissesNothing, View
  <2> QED
    BY <2>1, <2>2, <2>3, <2>4 DEF TasksInv
<1>7. ASSUME wtTask.at # "over"
      PROVE  wtTask.result = "none"
  BY <1>1, <1>7 DEF TasksTyped
<1>8. CASE ReadHeights
  <2>1. PICK e2 \in BOOLEAN : e2 = AtBoundary /\ (e2 => t + 2 >= h)
    <3>1. AtBoundary <=> t + 2 >= h
      BY <1>3 DEF AtBoundary, View
    <3>2. AtBoundary = TRUE \/ AtBoundary = FALSE
      BY <1>3 DEF AtBoundary, View
    <3> QED
      BY Zenon, <3>1, <3>2
  <2>2. wtScroll' = [wtScroll EXCEPT !.end = e2] /\ TaskMoves("search") /\ "search" \in TaskStages /\ wtTask.at = "look"
    BY <1>8, <2>1 DEF ReadHeights, On, TaskStages
  <2>3. wtScroll' = [top |-> t, height |-> h, target |-> g, end |-> e2]
    BY <1>3, <2>2
  <2>4. /\ wtTask' \in [kind : Kinds, at : TaskStages, result : TaskResults]
        /\ wtTask'.kind = "scroll" /\ wtTask'.at = "search" /\ wtTask'.result = "none"
    BY <1>1, <1>2, <1>7, <2>2, Moved
  <2>5. e2 => t + 2 >= WtRows - 1
    BY <1>3, <1>4, <2>1
  <2> QED
    BY <1>4, <1>5, <2>2, <2>3, <2>4, <2>5
<1>9. CASE LookAndScroll /\ Look # "on"
  <2>1. Results(Look) /\ wtScroll' = wtScroll /\ wtTask.at = "search"
    BY <1>9 DEF LookAndScroll, On
  <2>2. PICK r \in {"found", "boundary", "max", "stuck"} : r = Look
    BY <1>9 DEF Look
  <2>3. r = "boundary" => g >= t + 2 /\ e
    BY <1>3, <1>4, <2>1, <2>2 DEF Look, Visible, View
  <2>4. r = "boundary" => g >= WtRows - 1
    BY <1>4, <2>1, <2>3
  <2> QED
    BY <1>3, <1>4, <1>6, <2>1, <2>2, <2>4
<1>10. CASE LookAndScroll /\ Look = "on"
  <2>1. wtTask.at = "search"
        /\ wtScroll' = [wtScroll EXCEPT !.top = IF AtBoundary THEN wtScroll.top ELSE Smaller(wtScroll.top + Step, wtScroll.height - View)]
        /\ (Results("max") \/ TaskMoves("look"))
    BY <1>10 DEF LookAndScroll, On
  <2>2. PICK tt \in Int : tt = IF AtBoundary THEN t ELSE Smaller(t + 2, h - 2)
    BY DEF Smaller
  <2>3. wtScroll' = [top |-> tt, height |-> h, target |-> g, end |-> e]
    BY <1>3, <2>1, <2>2 DEF Step, View
  <2>4. g >= t + 2
    BY <1>3, <1>4, <1>10, <2>1 DEF Look, Visible, View
  <2>5. tt \in Nat /\ g >= tt
    BY <1>3, <2>2, <2>4 DEF AtBoundary, Smaller, View
  <2>6. CASE Results("max")
    BY <1>4, <1>6, <2>3, <2>5, <2>6
  <2>7. CASE TaskMoves("look")
    <3>1. "look" \in TaskStages
      BY DEF TaskStages
    <3>2. /\ wtTask' \in [kind : Kinds, at : TaskStages, result : TaskResults]
          /\ wtTask'.kind = "scroll" /\ wtTask'.at = "look" /\ wtTask'.result = "none"
      BY <1>1, <1>2, <1>7, <2>1, <2>7, <3>1, Moved
    <3> QED
      BY <1>4, <1>5, <2>3, <2>5, <3>2
  <2> QED
    BY <2>1, <2>6, <2>7
<1>11. CASE ScrollStuck
  BY <1>3, <1>4, <1>6, <1>11 DEF ScrollStuck, wtPageVars
<1>12. CASE PageGrows
  <2>1. wtScroll' = [wtScroll EXCEPT !.height = wtScroll.height + 1] /\ wtTask' = wtTask /\ wtTask.at # "over"
    BY <1>12 DEF PageGrows, PageUpset
  <2>2. PICK h2 \in Int : h2 = h + 1
    OBVIOUS
  <2>3. wtScroll' = [top |-> t, height |-> h2, target |-> g, end |-> e] /\ h2 >= WtRows - 1
    BY <1>3, <1>4, <2>1, <2>2
  <2>4. wtTask' \in [kind : Kinds, at : TaskStages, result : TaskResults] /\ wtTask'.result = "none"
        /\ wtTask'.kind = "scroll"
    BY <1>1, <1>2, <1>7, <2>1 DEF TasksTyped
  <2>5. wtTask.at \in {"look", "search"}
    BY <1>1, <1>2, <1>4, <2>1 DEF TasksTyped
  <2> QED
    BY <1>4, <1>5, <2>1, <2>3, <2>4, <2>5
<1> QED
  BY <1>8, <1>9, <1>10, <1>11, <1>12 DEF ScrollStep

LEMMA PlaySteps ==
  ASSUME TasksInv, PlayStep
  PROVE  TasksInv'
<1>1. TasksTyped /\ FormFills /\ ScanIsWhole /\ RowsAreSeen
  BY DEF TasksInv
<1>2. UNCHANGED <<wtForm, wtMeddled, wtFilled, wtDir, wtScan, wtScroll>> /\ wtTask.kind = "play"
  BY DEF PlayStep, VerifySearchUrl, VerifyVideoUrl, VerifyPlaying, Round, NoResult, ClickResult, Closes, PageTurns,
         On, wtFormVars, wtDirVars, wtPageVars
<1>3. \/ wtTask' = wtTask
      \/ \E a \in {"search", "video", "url"} : TaskMoves(a) /\ wtTask.at # "over"
      \/ \E r \in {"success", "failure", "unknown"} : Results(r)
  BY DEF PlayStep, VerifySearchUrl, VerifyVideoUrl, VerifyPlaying, Round, NoResult, ClickResult, Closes, PageTurns,
         PageUpset, TaskVerdict, On
<1> DEFINE Goes == /\ wtTask' \in [kind : Kinds, at : TaskStages, result : TaskResults] /\ wtTask'.kind = "play"
                   /\ (wtTask'.result # "none" => wtTask'.at = "over")
                   /\ (wtTask'.at = "idle" => wtTask.at = "idle")
                   /\ (wtTask'.result = "boundary" => wtTask.result = "boundary")
<1>4. Goes
  <2>1. CASE wtTask' = wtTask
    BY <1>1, <1>2, <2>1 DEF TasksTyped
  <2>2. ASSUME NEW a \in {"search", "video", "url"}, TaskMoves(a), wtTask.at # "over"
        PROVE  Goes
    <3>1. a \in TaskStages
      BY DEF TaskStages
    <3>2. wtTask.result = "none"
      BY <1>1, <2>2 DEF TasksTyped
    <3> QED
      BY <1>1, <1>2, <2>2, <3>1, <3>2, Moved
  <2>3. ASSUME NEW r \in {"success", "failure", "unknown"}, Results(r)
        PROVE  Goes
    <3>1. r \in TaskResults
      BY DEF TaskResults
    <3> QED
      BY <1>1, <1>2, <2>3, <3>1, Ended
  <2> QED
    BY <1>3, <2>1, <2>2, <2>3
<1>5. TasksTyped'
  BY <1>1, <1>2, <1>4 DEF TasksTyped, Files
<1>6. FormFills'
  BY <1>1, <1>2, <1>4 DEF FormFills, Succeeded
<1>7. ScanIsWhole'
  BY <1>1, <1>2, <1>4 DEF ScanIsWhole, Files
<1>8. RowsAreSeen'
  BY <1>1, <1>2, <1>4 DEF RowsAreSeen, ScrollMissesNothing
<1> QED
  BY <1>5, <1>6, <1>7, <1>8 DEF TasksInv

LEMMA TasksStay ==
  ASSUME TasksInv, UNCHANGED wtVars
  PROVE  TasksInv'
<1>1. UNCHANGED <<wtTask, wtForm, wtMeddled, wtFilled, wtDir, wtScan, wtScroll>>
  BY DEF wtVars
<1>2. TasksTyped'
  BY <1>1 DEF TasksInv, TasksTyped, Files
<1>3. FormFills'
  BY <1>1 DEF TasksInv, FormFills, Succeeded, Field
<1>4. ScanIsWhole' /\ RowsAreSeen'
  BY <1>1 DEF TasksInv, ScanIsWhole, Files, RowsAreSeen, ScrollMissesNothing
<1> QED
  BY <1>2, <1>3, <1>4 DEF TasksInv

\* A check ends with what its last reads of the page showed.
LEMMA VerdictStep ==
  ASSUME TasksInv, [TasksNext]_wtVars, wtTask.at \in {"nav", "url", "video"}, wtTask'.at = "over"
  PROVE  CASE wtTask'.result = "success" -> wtVideo = "playing"
           [] wtTask'.result = "failure" -> wtSeen
           [] OTHER -> ~wtSeen
<1>1. TasksTyped
  BY DEF TasksInv
<1>2. wtTask' # wtTask /\ TasksNext
  BY DEF wtVars
<1>3. (\E c \in {"nav", "url", "video"} : Closes(c)) \/ VerifySearchUrl \/ VerifyVideoUrl \/ VerifyPlaying
  BY <1>2 DEF TasksNext, BeginTask, BeginScroll, FormStep, FillField, FieldMissed, EndForm, PageRewrites, PageUpset,
     DownloadStep, ClickDownload, PollDownload, DownloadTimesOut, CheckStable, FileDeleted, FileWritten, DiskChanges,
     ScrollStep, ReadHeights, LookAndScroll, ScrollStuck, PageGrows, PlayStep, NoResult, ClickResult, PageTurns, On
<1>4. CASE VerifySearchUrl \/ VerifyVideoUrl
  <2>1. PICK a \in {"search", "video"} : TaskMoves(a)
    BY <1>2, <1>4 DEF VerifySearchUrl, VerifyVideoUrl, Round
  <2>2. wtTask'.at = a
    BY <1>1, <2>1 DEF TasksTyped, TaskMoves
  <2> QED
    BY <2>2
<1>5. CASE VerifyPlaying
  <2>1. Results("success") /\ wtVideo = "playing"
    BY <1>2, <1>5 DEF VerifyPlaying, Round
  <2> QED
    BY <1>1, <2>1 DEF TasksTyped, Results
<1>6. CASE \E c \in {"nav", "url", "video"} : Closes(c)
  <2>1. TaskMoves("search") \/ Results(TaskVerdict)
    BY <1>6 DEF Closes
  <2>2. Results(TaskVerdict)
    BY <1>1, <2>1 DEF TaskMoves, TasksTyped
  <2>3. wtTask'.result = TaskVerdict
    BY <1>1, <2>2 DEF Results, TasksTyped
  <2> QED
    BY <2>3 DEF TaskVerdict
<1> QED
  BY <1>3, <1>4, <1>5, <1>6

\* Whatever the page's scripts, the browser and other programs do meanwhile, the
\* verified tasks of the web tools report what they saw: a form is filled where
\* every field was read back, a download is a file that was not there before, a
\* scroll that ends at the boundary passed every row, and a playback is confirmed
\* while it plays and denied only after a read (web-agent.ts, verification.ts).
THEOREM TasksAlwaysHonest == TasksSpec => TaskVerdictsHold
<1>1. TasksInit => TasksInv
  BY TasksBegin
<1>2. TasksInv /\ [TasksNext]_wtVars => TasksInv'
  <2> SUFFICES ASSUME TasksInv, [TasksNext]_wtVars PROVE TasksInv'
    OBVIOUS
  <2>1. CASE \E k \in {"form", "download", "play"}, a \in {"fill", "click", "nav"} : BeginTask(k, a)
    BY <2>1, TaskBegins
  <2>2. CASE \E row \in 0 .. WtRows : BeginScroll(row)
    BY <2>2, ScrollBegins
  <2>3. CASE FormStep \/ DownloadStep \/ ScrollStep \/ PlayStep
    BY <2>3, FormSteps, DownloadSteps, ScrollSteps, PlaySteps
  <2>4. CASE UNCHANGED wtVars
    BY <2>4, TasksStay
  <2> QED
    BY <2>1, <2>2, <2>3, <2>4 DEF TasksNext
<1>3. TasksInv => FilledIsHeld /\ DownloadIsNew /\ ScrollMissesNothing
  <2> SUFFICES ASSUME TasksInv PROVE FilledIsHeld /\ DownloadIsNew /\ ScrollMissesNothing
    OBVIOUS
  <2>1. ASSUME Succeeded("form"), NEW f \in WtFields PROVE f <= wtFilled.n
    <3>1. PICK c \in Nat : c = Cardinality(WtFields) /\ WtFields = 1 .. c
      BY WtAssumption, FS_CardinalityType
    <3>2. PICK n \in Nat : n = wtFilled.n
      BY DEF TasksInv, TasksTyped
    <3>3. n + 1 \notin 1 .. c
      BY <2>1, <3>1, <3>2 DEF TasksInv, FormFills, Field
    <3>4. f \in 1 .. c
      BY <3>1
    <3>5. f \in Nat /\ f <= n
      BY <3>3, <3>4
    <3> QED
      BY <3>2, <3>5
  <2>2. FilledIsHeld
    BY <2>1 DEF TasksInv, FormFills, FilledIsHeld
  <2>3. DownloadIsNew
    BY DEF TasksInv, TasksTyped, ScanIsWhole, DownloadIsNew, Succeeded
  <2>4. ScrollMissesNothing
    BY DEF TasksInv, RowsAreSeen
  <2> QED
    BY <2>2, <2>3, <2>4
<1>4. TasksInv /\ [TasksNext]_wtVars
        => [wtTask.at \in {"nav", "url", "video"} /\ wtTask'.at = "over"
              => CASE wtTask'.result = "success" -> wtVideo = "playing"
                   [] wtTask'.result = "failure" -> wtSeen
                   [] OTHER -> ~wtSeen]_wtVars
  BY VerdictStep
<1> QED
  BY <1>1, <1>2, <1>3, <1>4, PTL DEF TasksSpec, TaskVerdictsHold, VerdictIsObserved
-----------------------------------------------------------------------------
(* The browser session and the actions of the web agent *)

Recovering == {"recover", "same", "other", "launch"}
Settling == {"idle", "acquire", "read", "ready", "poll", "done"}

WebTyped ==
  /\ OpenPages \subseteq WebTabs
  /\ wbSession \in [target : WebTabs \cup {0}, open : BOOLEAN, url : {"null", "blank", "form", "error", "goal", "other", "hung"},
                    attempts : Nat]
  /\ wbJob \in [kind : {"none", "open", "submit"}, at : Recovering \cup Settling, tab : WebTabs \cup {0},
                origin : {"null", "blank", "form", "error", "goal", "other", "hung"}, seen : {"never", "once", "last"},
                loading : BOOLEAN, verdict : {"none", "error", "SUCCESS", "FAILURE", "UNKNOWN"}]
  /\ \A t \in OpenPages : wbDoc[t] \in {"blank", "form", "error", "goal", "other", "hung"}

\* Attempts are counted in a recovery only; it begins with a note of the change.
RecoveryIsNoted ==
  /\ wbSession.attempts <= MaxRecovery
  /\ wbJob.at \in Settling => wbSession.attempts = 0
  /\ wbJob.at \in Recovering => wbNote

\* Until it is acquired, the tab is the last one; without a dead socket it is
\* attached to for as long as there is one.
TabIsKept ==
  /\ wbJob.at = "idle" => wbJob.tab = 0
  /\ wbJob.at \in {"idle", "acquire", "read"} /\ wbJob.tab = 0 => wbLast = wbSession.target
  /\ wbJob.at = "ready" /\ wbJob.tab = 0 /\ wbDeaths = 0 => wbNote \/ wbLast \in {0, wbSession.target}
  /\ wbJob.at \in Settling /\ wbDeaths = 0 => (wbSession.open <=> wbSession.target # 0)
  /\ wbJob.at = "poll" /\ wbJob.kind = "open" => wbJob.tab = wbSession.target

WebInv == WebTyped /\ RecoveryIsNoted /\ TabIsKept

\* A step that moves nothing but the browser's pages.
LEMMA PagesMove ==
  ASSUME WebInv, OpenPages' \subseteq WebTabs, UNCHANGED <<wbSession, wbNote, wbLast, wbDeaths>>,
         (\A t \in OpenPages : wbDoc[t] \in {"blank", "form", "error", "goal", "other", "hung"})',
         wbJob' = wbJob \/ wbJob' = [wbJob EXCEPT !.loading = FALSE]
  PROVE  WebInv'
<1>1. wbJob' \in [kind : {"none", "open", "submit"}, at : Recovering \cup Settling, tab : WebTabs \cup {0},
                origin : {"null", "blank", "form", "error", "goal", "other", "hung"}, seen : {"never", "once", "last"},
                loading : BOOLEAN, verdict : {"none", "error", "SUCCESS", "FAILURE", "UNKNOWN"}]
      /\ wbJob'.at = wbJob.at /\ wbJob'.tab = wbJob.tab /\ wbJob'.kind = wbJob.kind
  BY DEF WebInv, WebTyped
<1> QED
  BY <1>1 DEF WebInv, WebTyped, RecoveryIsNoted, TabIsKept

\* The shape of a page that comes to be shown.
LEMMA PageShown ==
  ASSUME WebInv, NEW t \in WebTabs, NEW doc \in {"blank", "form", "error", "goal", "other", "hung"}, Shows(t, doc)
  PROVE  /\ OpenPages' = OpenPages \cup {t} /\ OpenPages' \subseteq WebTabs
         /\ (\A u \in OpenPages : wbDoc[u] \in {"blank", "form", "error", "goal", "other", "hung"})'
<1>1. OpenPages' = OpenPages \cup {t} /\ \A u \in OpenPages' : wbDoc'[u] = IF u = t THEN doc ELSE wbDoc[u]
  BY DEF Shows, OpenPages
<1> QED
  BY <1>1 DEF WebInv, WebTyped, OpenPages

LEMMA WebUpsets ==
  ASSUME WebInv,
         \/ \E t \in WebTabs : UserOpens(t) \/ PageCloses(t) \/ \E doc \in {"blank", "form", "hung"} : TabTurns(t, doc)
         \/ \E doc \in {"goal", "error"} : PageLoads(doc)
  PROVE  WebInv'
<1>1. ASSUME NEW t \in WebTabs, NEW doc \in {"blank", "form", "hung", "other"}, Shows(t, doc),
             UNCHANGED <<wbSession, wbJob, wbNote, wbLast, wbDeaths>>
      PROVE  WebInv'
  BY <1>1, PageShown, PagesMove
<1>2. ASSUME NEW t \in WebTabs, PageCloses(t) PROVE WebInv'
  <2>1. wbDoc' = [u \in OpenPages \ {t} |-> wbDoc[u]] /\ UNCHANGED <<wbSession, wbJob, wbNote, wbLast, wbDeaths>>
    BY <1>2 DEF PageCloses
  <2>2. OpenPages' \subseteq WebTabs /\ (\A u \in OpenPages : wbDoc[u] \in {"blank", "form", "error", "goal", "other", "hung"})'
    BY <2>1 DEF WebInv, WebTyped, OpenPages
  <2> QED
    BY <2>1, <2>2, PagesMove
<1>3. ASSUME NEW doc \in {"goal", "error"}, PageLoads(doc) PROVE WebInv'
  <2>1. /\ wbJob.tab \in WebTabs /\ Shows(wbJob.tab, doc) /\ wbJob' = [wbJob EXCEPT !.loading = FALSE]
        /\ UNCHANGED <<wbSession, wbNote, wbLast, wbDeaths>>
    BY <1>3 DEF PageLoads, wbCounters, WebInv, WebTyped
  <2> QED
    BY <2>1, PageShown, PagesMove
<1> QED
  BY <1>1, <1>2, <1>3 DEF UserOpens, TabTurns

\* A step of the action that goes to another point, or ends it.
LEMMA ActionWent ==
  ASSUME WebInv, NEW step \in Recovering \cup Settling, ActionGoes(step)
  PROVE  /\ wbJob' \in [kind : {"none", "open", "submit"}, at : Recovering \cup Settling, tab : WebTabs \cup {0},
                origin : {"null", "blank", "form", "error", "goal", "other", "hung"}, seen : {"never", "once", "last"},
                loading : BOOLEAN, verdict : {"none", "error", "SUCCESS", "FAILURE", "UNKNOWN"}]
         /\ wbJob'.at = step /\ wbJob'.tab = wbJob.tab /\ wbJob'.kind = wbJob.kind /\ wbJob'.verdict = wbJob.verdict
BY DEF WebInv, WebTyped, ActionGoes

LEMMA WebAcquires ==
  ASSUME WebInv,
         \/ Revalidate \/ ObservePage \/ NoBrowser
         \/ \E t \in WebTabs : FreshAcquire(t) \/ FreshLaunch(t)
  PROVE  WebInv'
<1> DEFINE Docs == {"null", "blank", "form", "error", "goal", "other", "hung"}
<1>1. ASSUME Desync, wbJob.at \in {"acquire", "read"} PROVE WebInv'
  <2>1. "recover" \in Recovering
    BY DEF Recovering
  <2>2. wbNote' = TRUE /\ ActionGoes("recover") /\ UNCHANGED <<wbDoc, wbSession, wbLast, wbDeaths>>
    BY <1>1 DEF Desync, wbCounters
  <2>3. wbJob'.at = "recover" /\ wbSession.attempts = 0
    BY <1>1, <2>1, <2>2, ActionWent DEF WebInv, RecoveryIsNoted, Settling
  <2> QED
    BY <2>1, <2>2, <2>3, ActionWent DEF WebInv, WebTyped, RecoveryIsNoted, TabIsKept, Settling, Recovering, OpenPages, MaxRecovery
<1>2. CASE Revalidate /\ ~Desync
  <2>1. ActionGoes("read") /\ "read" \in Settling /\ wbJob.at = "acquire"
        /\ UNCHANGED <<wbDoc, wbSession, wbNote, wbLast, wbDeaths>>
    BY <1>2 DEF Revalidate, ActionAt, wbCounters, Settling
  <2> QED
    BY <2>1, ActionWent DEF WebInv, WebTyped, RecoveryIsNoted, TabIsKept, Settling, Recovering, OpenPages
<1>3. CASE ObservePage /\ ~Desync
  <2>1. /\ ActionGoes("ready") /\ "ready" \in Settling /\ wbJob.at = "read" /\ Readable(wbSession.target)
        /\ wbSession' = [wbSession EXCEPT !.url = wbDoc[wbSession.target]]
        /\ UNCHANGED <<wbDoc, wbNote, wbLast, wbDeaths>>
    BY <1>3 DEF ObservePage, ActionAt, wbCounters, Settling
  <2>2. wbDoc[wbSession.target] \in Docs
    BY <2>1 DEF Readable, WebInv, WebTyped
  <2>3. /\ wbSession' \in [target : WebTabs \cup {0}, open : BOOLEAN, url : Docs, attempts : Nat]
        /\ wbSession'.target = wbSession.target /\ wbSession'.open = wbSession.open /\ wbSession'.attempts = wbSession.attempts
    BY <2>1, <2>2 DEF WebInv, WebTyped
  <2> QED
    BY <2>1, <2>3, ActionWent DEF WebInv, WebTyped, RecoveryIsNoted, TabIsKept, Settling, Recovering, OpenPages
<1>4. ASSUME NEW t \in WebTabs, NEW url \in Docs, wbSession' = Attached(t, url), ActionGoes("ready"), ActionAt("acquire"), ~HasPage,
             OpenPages' \subseteq WebTabs, (\A u \in OpenPages : wbDoc[u] \in {"blank", "form", "error", "goal", "other", "hung"})',
             UNCHANGED <<wbNote, wbLast, wbDeaths>>
      PROVE  WebInv'
  <2>1. "ready" \in Settling /\ "ready" \in Recovering \cup Settling
    BY DEF Settling
  <2>2. /\ wbJob'.at = "ready" /\ wbJob'.tab = wbJob.tab
        /\ WebTyped'
    BY <1>4, <2>1, ActionWent DEF WebTyped, Attached
  <2>3. RecoveryIsNoted'
    BY <1>4, <2>1, <2>2 DEF RecoveryIsNoted, Attached, MaxRecovery, Recovering, Settling
  <2>4. wbJob.tab = 0 /\ wbDeaths = 0 => wbLast = 0
    BY <1>4 DEF WebInv, WebTyped, TabIsKept, ActionAt, HasPage, Settling
  <2>5. TabIsKept'
    BY <1>4, <2>2, <2>4, WebTabsAssumption DEF TabIsKept, Attached
  <2> QED
    BY <2>2, <2>3, <2>5 DEF WebInv
<1>5. ASSUME NEW t \in WebTabs, FreshAcquire(t) PROVE WebInv'
  <2>1. PICK url \in Docs : wbSession' = Attached(t, url)
    <3>1. (IF Readable(t) THEN wbDoc[t] ELSE "null") \in Docs
      BY DEF WebInv, WebTyped, Readable
    <3> QED
      BY <1>5, <3>1 DEF FreshAcquire
  <2>2. UNCHANGED wbDoc
    BY <1>5 DEF FreshAcquire
  <2>3. OpenPages' \subseteq WebTabs /\ (\A u \in OpenPages : wbDoc[u] \in {"blank", "form", "error", "goal", "other", "hung"})'
    BY <2>2 DEF WebInv, WebTyped, OpenPages
  <2> QED
    BY <1>4, <1>5, <2>1, <2>3 DEF FreshAcquire, wbCounters
<1>6. ASSUME NEW t \in WebTabs, FreshLaunch(t) PROVE WebInv'
  <2>1. Shows(t, "blank") /\ wbSession' = Attached(t, "blank")
    BY <1>6 DEF FreshLaunch
  <2>2. OpenPages' \subseteq WebTabs /\ (\A u \in OpenPages : wbDoc[u] \in {"blank", "form", "error", "goal", "other", "hung"})'
    BY <2>1, PageShown
  <2> QED
    BY <1>4, <1>6, <2>1, <2>2 DEF FreshLaunch, wbCounters
<1>7. CASE NoBrowser
  BY <1>1, <1>7 DEF NoBrowser, ActionAt
<1>8. CASE (Revalidate \/ ObservePage) /\ Desync
  BY <1>1, <1>8 DEF Revalidate, ObservePage, ActionAt
<1> QED
  BY <1>2, <1>3, <1>5, <1>6, <1>7, <1>8

LEMMA WebRecovers ==
  ASSUME WebInv,
         \/ Lost \/ TryRecover \/ ReconnectSame \/ NotSame \/ NoOther \/ RelaunchFails
         \/ \E t \in WebTabs : AdoptOther(t) \/ Relaunch(t) \/ AttachFresh(t)
  PROVE  WebInv'
<1> DEFINE Docs == {"null", "blank", "form", "error", "goal", "other", "hung"}
<1>1. CASE NotSame \/ NoOther \/ RelaunchFails
  <2>1. PICK step \in Recovering : ActionGoes(step)
    BY <1>1 DEF NotSame, NoOther, RelaunchFails, Recovering
  <2>2. wbJob.at \in Recovering /\ UNCHANGED <<wbDoc, wbSession, wbNote, wbLast, wbDeaths>>
    BY <1>1 DEF NotSame, NoOther, RelaunchFails, ActionAt, Recovering, wbCounters
  <2>3. WebTyped' /\ wbJob'.at = step
    BY <2>1, <2>2, ActionWent DEF WebInv, WebTyped, OpenPages
  <2> QED
    BY <2>1, <2>2, <2>3 DEF WebInv, RecoveryIsNoted, TabIsKept, Recovering, Settling
<1>2. CASE Lost
  <2>1. /\ wbSession' = NoSession /\ wbJob' = [wbJob EXCEPT !.at = "done", !.verdict = "error"]
        /\ UNCHANGED <<wbDoc, wbNote, wbLast, wbDeaths>>
    BY <1>2 DEF Lost, wbCounters
  <2>2. wbJob'.at = "done" /\ WebTyped'
    BY <2>1 DEF WebInv, WebTyped, NoSession, OpenPages, Settling
  <2> QED
    BY <2>1, <2>2 DEF WebInv, RecoveryIsNoted, TabIsKept, NoSession, MaxRecovery, Recovering, Settling
<1>3. CASE TryRecover
  <2>1. /\ ActionGoes("same") /\ wbJob.at = "recover" /\ wbSession.attempts < 3 /\ "same" \in Recovering
        /\ wbSession' = [wbSession EXCEPT !.attempts = wbSession.attempts + 1, !.open = FALSE]
        /\ UNCHANGED <<wbDoc, wbNote, wbLast, wbDeaths>>
    BY <1>3 DEF TryRecover, ActionAt, wbCounters, MaxRecovery, Recovering
  <2>2. PICK n \in Nat : n = wbSession.attempts
    BY DEF WebInv, WebTyped
  <2>3. PICK k \in Nat : k = n + 1
    BY <2>2
  <2>4. /\ wbSession' \in [target : WebTabs \cup {0}, open : BOOLEAN, url : Docs, attempts : Nat]
        /\ wbSession'.attempts = k
    BY <2>1, <2>2, <2>3 DEF WebInv, WebTyped
  <2>5. k <= 3
    BY <2>1, <2>2, <2>3
  <2>6. wbJob'.at = "same" /\ WebTyped'
    BY <2>1, <2>4, ActionWent DEF WebInv, WebTyped, OpenPages
  <2> QED
    BY <2>1, <2>4, <2>5, <2>6 DEF WebInv, RecoveryIsNoted, TabIsKept, MaxRecovery, Recovering, Settling
<1>4. ASSUME NEW t \in WebTabs, Adopt(t), OpenPages' \subseteq WebTabs,
             (\A u \in OpenPages : wbDoc[u] \in {"blank", "form", "error", "goal", "other", "hung"})'
      PROVE  WebInv'
  <2>1. /\ wbSession' = Attached(t, "null") /\ wbNote' = TRUE /\ ActionGoes("ready") /\ "ready" \in Settling
        /\ UNCHANGED <<wbLast, wbDeaths>>
    BY <1>4 DEF Adopt, wbCounters, Settling
  <2>2. wbJob'.at = "ready" /\ WebTyped'
    BY <1>4, <2>1, ActionWent DEF WebTyped, Attached
  <2> QED
    BY <2>1, <2>2, WebTabsAssumption DEF WebInv, RecoveryIsNoted, TabIsKept, Attached, MaxRecovery, Recovering, Settling
<1>5. ASSUME NEW t, Readable(t), Adopt(t), UNCHANGED wbDoc PROVE WebInv'
  BY <1>4, <1>5 DEF Readable, WebInv, WebTyped, OpenPages
<1>6. ASSUME NEW t \in WebTabs, Relaunch(t) PROVE WebInv'
  <2>1. Shows(t, "blank") /\ Adopt(t)
    BY <1>6 DEF Relaunch
  <2> QED
    BY <1>4, <2>1, PageShown
<1> QED
  BY <1>1, <1>2, <1>3, <1>5, <1>6 DEF ReconnectSame, AdoptOther, AttachFresh

\* A step of the action that leaves the session as it is, outside a recovery.
LEMMA ActionSteps ==
  ASSUME WebInv, UNCHANGED <<wbDoc, wbSession, wbNote, wbDeaths>>,
         wbJob' \in [kind : {"none", "open", "submit"}, at : Recovering \cup Settling, tab : WebTabs \cup {0},
                origin : {"null", "blank", "form", "error", "goal", "other", "hung"}, seen : {"never", "once", "last"},
                loading : BOOLEAN, verdict : {"none", "error", "SUCCESS", "FAILURE", "UNKNOWN"}],
         wbJob.at \in Settling, wbJob'.at \in {"poll", "done", "idle"},
         wbJob'.at = "idle" => wbJob'.tab = 0 /\ wbLast' = wbSession.target,
         wbJob'.at = "poll" /\ wbJob'.kind = "open" => wbJob'.tab = wbSession.target
  PROVE  WebInv'
BY DEF WebInv, WebTyped, RecoveryIsNoted, TabIsKept, OpenPages, Recovering, Settling

LEMMA WebActs ==
  ASSUME WebInv,
         \/ \E kind \in {"open", "submit"} : BeginJob(kind)
         \/ PageLost \/ OpenPage \/ SubmitForm \/ AwaitOutcome
         \/ VerifyHit \/ VerifyDenied \/ PollOn \/ BrowserCloses \/ Finish \/ PageSocketDies
  PROVE  WebInv'
<1> DEFINE Docs == {"null", "blank", "form", "error", "goal", "other", "hung"}
           JobRecords == [kind : {"none", "open", "submit"}, at : Recovering \cup Settling, tab : WebTabs \cup {0},
                    origin : Docs, seen : {"never", "once", "last"},
                    loading : BOOLEAN, verdict : {"none", "error", "SUCCESS", "FAILURE", "UNKNOWN"}]
<1>0. wbJob \in JobRecords /\ Settling = {"idle", "acquire", "read", "ready", "poll", "done"}
  BY DEF WebInv, WebTyped, Settling
<1>9. PICK k \in {"none", "open", "submit"}, a \in Recovering \cup Settling, b \in WebTabs \cup {0}, og \in Docs,
           sn \in {"never", "once", "last"}, ld \in BOOLEAN, vd \in {"none", "error", "SUCCESS", "FAILURE", "UNKNOWN"} :
        wbJob = [kind |-> k, at |-> a, tab |-> b, origin |-> og, seen |-> sn, loading |-> ld, verdict |-> vd]
  BY <1>0
<1>1. ASSUME NEW kind \in {"open", "submit"}, BeginJob(kind) PROVE WebInv'
  <2>1. /\ wbJob.at = "idle" /\ wbJob' = [NoJob EXCEPT !.kind = kind, !.at = "acquire"] /\ wbNote' = FALSE
        /\ UNCHANGED <<wbDoc, wbSession, wbLast, wbDeaths>>
    BY <1>1 DEF BeginJob, ActionAt
  <2>2. wbJob' \in JobRecords /\ wbJob'.at = "acquire" /\ wbJob'.tab = 0
    BY <1>0, <2>1 DEF NoJob
  <2> QED
    BY <1>0, <2>1, <2>2 DEF WebInv, WebTyped, RecoveryIsNoted, TabIsKept, OpenPages, Recovering, Settling
<1>2. CASE PageLost \/ VerifyHit \/ VerifyDenied \/ BrowserCloses
  <2>1. PICK v \in {"error", "SUCCESS", "FAILURE", "UNKNOWN"} : ActionEnds(v)
    BY <1>2 DEF PageLost, VerifyHit, VerifyDenied, BrowserCloses, WebVerdict
  <2>2. wbJob.at \in {"ready", "poll"} /\ UNCHANGED <<wbDoc, wbSession, wbNote, wbLast, wbDeaths>>
    BY <1>2 DEF PageLost, VerifyHit, VerifyDenied, BrowserCloses, WebVerdict, ActionAt, wbCounters
  <2>4. wbJob' = [kind |-> k, at |-> "done", tab |-> b, origin |-> og, seen |-> sn, loading |-> FALSE, verdict |-> v]
    BY <1>9, <2>1 DEF ActionEnds
  <2>3. wbJob' \in JobRecords /\ wbJob'.at = "done"
    BY <1>0, <2>4
  <2> QED
    BY <1>0, <2>2, <2>3, ActionSteps
<1>3. CASE OpenPage
  <2>1. /\ wbJob.at = "ready" /\ wbSession.target \in OpenPages
        /\ wbJob' = [wbJob EXCEPT !.at = "poll", !.tab = wbSession.target, !.loading = TRUE]
        /\ wbSession' = [wbSession EXCEPT !.url = "goal"] /\ UNCHANGED <<wbDoc, wbNote, wbLast, wbDeaths>>
    BY <1>3 DEF OpenPage, SessionWorks, ActionAt, Readable, wbCounters
  <2>2. PICK t \in WebTabs : t = wbSession.target
    BY <2>1 DEF WebInv, WebTyped
  <2>3. wbJob' \in JobRecords /\ wbJob'.at = "poll" /\ wbJob'.tab = t
    BY <1>0, <2>1, <2>2
  <2>4. /\ wbSession' \in [target : WebTabs \cup {0}, open : BOOLEAN, url : Docs, attempts : Nat]
        /\ wbSession'.target = t /\ wbSession'.open = wbSession.open /\ wbSession'.attempts = wbSession.attempts
    BY <2>1, <2>2 DEF WebInv, WebTyped
  <2> QED
    BY <1>0, <2>1, <2>2, <2>3, <2>4 DEF WebInv, WebTyped, RecoveryIsNoted, TabIsKept, OpenPages, Recovering
<1>4. CASE SubmitForm
  <2>1. /\ wbJob.at = "ready" /\ wbSession.target \in OpenPages
        /\ wbJob' = [wbJob EXCEPT !.at = "acquire", !.tab = wbSession.target, !.loading = TRUE,
                                  !.origin = wbDoc[wbSession.target]]
        /\ wbSession' = NoSession /\ wbNote' = TRUE /\ UNCHANGED <<wbDoc, wbLast, wbDeaths>>
    BY <1>4 DEF SubmitForm, SessionWorks, ActionAt, Readable, wbCounters
  <2>2. PICK t \in WebTabs : t = wbSession.target
    BY <2>1 DEF WebInv, WebTyped
  <2>3. PICK doc \in Docs : doc = wbDoc[wbSession.target]
    BY <2>1 DEF WebInv, WebTyped
  <2>4. wbJob' = [wbJob EXCEPT !.at = "acquire", !.tab = t, !.loading = TRUE, !.origin = doc]
    BY <2>1, <2>2, <2>3
  <2>6. wbJob' = [kind |-> k, at |-> "acquire", tab |-> t, origin |-> doc, seen |-> sn, loading |-> TRUE, verdict |-> vd]
    BY <1>9, <2>4
  <2>5. wbJob' \in JobRecords /\ wbJob'.at = "acquire" /\ wbJob'.tab = t
    BY <1>0, <2>6
  <2> QED
    BY <1>0, <2>1, <2>2, <2>5, WebTabsAssumption DEF WebInv, WebTyped, RecoveryIsNoted, TabIsKept, NoSession, OpenPages, Recovering, MaxRecovery
<1>5. CASE AwaitOutcome
  <2>1. wbJob.at = "ready" /\ wbJob.kind = "submit" /\ ActionGoes("poll") /\ "poll" \in Settling
        /\ UNCHANGED <<wbDoc, wbSession, wbNote, wbLast, wbDeaths>>
    BY <1>5 DEF AwaitOutcome, ActionAt, Settling, wbCounters
  <2> QED
    BY <1>0, <2>1, ActionWent, ActionSteps
<1>6. CASE PollOn
  <2>1. PICK s \in {"never", "once", "last"} : wbJob' = [wbJob EXCEPT !.seen = s]
    <3>1. (IF CanRead THEN "last" ELSE IF wbJob.seen = "never" THEN wbJob.seen ELSE "once") \in {"never", "once", "last"}
      OBVIOUS
    <3> QED
      BY <1>6, <3>1 DEF PollOn
  <2>2. wbJob.at = "poll" /\ UNCHANGED <<wbDoc, wbSession, wbNote, wbLast, wbDeaths>>
    BY <1>6 DEF PollOn, ActionAt, wbCounters
  <2>3. wbJob' \in JobRecords /\ wbJob'.at = "poll" /\ wbJob'.kind = wbJob.kind /\ wbJob'.tab = wbJob.tab
    BY <1>0, <2>1, <2>2
  <2>4. wbJob.kind = "open" => wbJob.tab = wbSession.target
    BY <2>2 DEF WebInv, TabIsKept
  <2> QED
    BY <1>0, <2>2, <2>3, <2>4, ActionSteps
<1>7. CASE Finish
  <2>1. wbJob.at = "done" /\ wbJob' = NoJob /\ wbLast' = wbSession.target /\ UNCHANGED <<wbDoc, wbSession, wbNote, wbDeaths>>
    BY <1>7 DEF Finish, ActionAt, wbCounters
  <2>2. wbJob' \in JobRecords /\ wbJob'.at = "idle" /\ wbJob'.tab = 0
    BY <1>0, <2>1 DEF NoJob
  <2> QED
    BY <1>0, <2>1, <2>2, ActionSteps
<1>8. CASE PageSocketDies
  <2>1. /\ wbSession' = [wbSession EXCEPT !.open = FALSE] /\ wbDeaths' = 1
        /\ UNCHANGED <<wbDoc, wbJob, wbNote, wbLast>>
    BY <1>8 DEF PageSocketDies
  <2>2. /\ wbSession' \in [target : WebTabs \cup {0}, open : BOOLEAN, url : Docs, attempts : Nat]
        /\ wbSession'.target = wbSession.target /\ wbSession'.attempts = wbSession.attempts
    BY <2>1 DEF WebInv, WebTyped
  <2> QED
    BY <2>1, <2>2 DEF WebInv, WebTyped, RecoveryIsNoted, TabIsKept, OpenPages
<1> QED
  BY <1>1, <1>2, <1>3, <1>4, <1>5, <1>6, <1>7, <1>8

\* A page is reported open when it is on the screen of the tab sent there.
LEMMA OpenStep ==
  ASSUME WebInv, [WebNext]_wbVars, wbJob.verdict = "none", wbJob'.verdict = "SUCCESS", wbJob.kind = "open"
  PROVE  wbSession.target = wbJob.tab /\ wbJob.tab \in OpenPages /\ wbDoc[wbJob.tab] = "goal"
<1>0. WebTyped
  BY DEF WebInv
<1>1. wbJob' # wbJob /\ WebNext
  BY DEF wbVars
<1>2. ASSUME NEW step, ActionGoes(step) PROVE FALSE
  BY <1>0, <1>2 DEF ActionGoes, WebTyped
<1>3. ASSUME NEW v, ActionEnds(v) PROVE v = "SUCCESS"
  BY <1>0, <1>3 DEF ActionEnds, WebTyped
<1>4. /\ ~(\E doc \in {"goal", "error"} : PageLoads(doc)) /\ ~OpenPage /\ ~SubmitForm /\ ~PollOn
      /\ ~(\E kind \in {"open", "submit"} : BeginJob(kind)) /\ ~Lost /\ ~Finish
  <2>1. ASSUME wbJob'.verdict = wbJob.verdict PROVE FALSE
    BY <2>1
  <2>2. ~(\E doc \in {"goal", "error"} : PageLoads(doc))
    BY <1>0, <2>1 DEF PageLoads, WebTyped
  <2>3. ~OpenPage /\ ~PollOn
    BY <1>0, <2>1 DEF OpenPage, PollOn, WebTyped
  <2>4. ~SubmitForm
    BY DEF SubmitForm
  <2>5. ~(\E kind \in {"open", "submit"} : BeginJob(kind)) /\ ~Finish
    <3>1. Finish => wbJob'.verdict = "none"
      BY DEF Finish, NoJob
    <3>2. ASSUME NEW kind \in {"open", "submit"}, BeginJob(kind) PROVE wbJob'.verdict = "none"
      BY <3>2 DEF BeginJob, NoJob
    <3> QED
      BY <3>1, <3>2
  <2>6. ~Lost
    BY <1>0 DEF Lost, WebTyped
  <2> QED
    BY <2>2, <2>3, <2>4, <2>5, <2>6
<1>5. VerifyHit \/ VerifyDenied \/ BrowserCloses \/ PageLost
  BY <1>1, <1>2, <1>4 DEF WebNext, UserOpens, PageCloses, TabTurns, PageSocketDies, Revalidate, ObservePage, Desync,
     FreshAcquire, FreshLaunch, NoBrowser, TryRecover, ReconnectSame, NotSame, AdoptOther, Relaunch, AttachFresh, Adopt,
     NoOther, RelaunchFails, AwaitOutcome
<1>6. VerifyHit
  BY <1>3, <1>5 DEF VerifyDenied, BrowserCloses, PageLost, WebVerdict
<1>7. wbJob.at = "poll" /\ CanRead /\ wbDoc[wbSession.target] = "goal"
  BY <1>6 DEF VerifyHit, WebVerdict, ActionAt, Hit, PolledTab
<1> QED
  BY <1>7 DEF CanRead, Readable, PolledTab, WebInv, TabIsKept

LEMMA WebKeeps ==
  ASSUME WebInv, [WebNext]_wbVars
  PROVE  WebInv'
<1>1. CASE UNCHANGED wbVars
  <2>1. UNCHANGED <<wbDoc, wbSession, wbJob, wbNote, wbLast, wbDeaths>>
    BY <1>1 DEF wbVars
  <2> QED
    BY <2>1 DEF WebInv, WebTyped, RecoveryIsNoted, TabIsKept, OpenPages
<1>2. CASE WebNext
  BY <1>2, WebUpsets, WebAcquires, WebRecovers, WebActs DEF WebNext
<1> QED
  BY <1>1, <1>2

LEMMA WebBegins ==
  ASSUME WebInit
  PROVE  WebInv
<1>1. WebTyped
  BY DEF WebInit, WebTyped, NoSession, NoJob, OpenPages, Settling
<1>2. RecoveryIsNoted /\ TabIsKept
  BY DEF WebInit, RecoveryIsNoted, TabIsKept, NoSession, NoJob, MaxRecovery, Recovering
<1> QED
  BY <1>1, <1>2 DEF WebInv

\* The session's part of BrowserTellsTheTruth: an action works on the tab of the
\* one before or says that it does not, recovery is bounded and begins anew, and
\* a page is reported open when it is (browser-session.ts, web-agent.ts).
LEMMA WebHonest == WebSpec => [](SwitchIsNotedOnLiveSockets /\ RecoveryIsBounded) /\ OpenIsSeen
<1>1. WebInit => WebInv
  BY WebBegins
<1>2. WebInv /\ [WebNext]_wbVars => WebInv'
  BY WebKeeps
<1>3. WebInv => SwitchIsNotedOnLiveSockets /\ RecoveryIsBounded
  BY DEF WebInv, WebTyped, RecoveryIsNoted, TabIsKept, SwitchIsNotedOnLiveSockets, SwitchIsNoted, Switched,
     ActionAt, RecoveryIsBounded, Settling
<1>4. WebInv /\ [WebNext]_wbVars
        => [wbJob.verdict = "none" /\ wbJob'.verdict = "SUCCESS" /\ wbJob.kind = "open"
              => wbSession.target = wbJob.tab /\ wbJob.tab \in OpenPages /\ wbDoc[wbJob.tab] = "goal"]_wbVars
  BY OpenStep
<1> QED
  BY <1>1, <1>2, <1>3, <1>4, PTL DEF WebSpec, OpenIsSeen

-----------------------------------------------------------------------------
(* The browser tool's actions on a tab *)

BaEntries == BaUrls \cup {1}
TabRecords == [open : BOOLEAN, hist : Seq(BaEntries), at : Nat, doc : Nat, want : Nat]
TabFits(r, docs) == r \in TabRecords /\ r.at <= Len(r.hist) /\ r.want <= Len(r.hist) /\ r.doc <= docs
TabsFit == baDocs \in Nat /\ DOMAIN baTabs = BaTabs /\ baTabs = [t \in BaTabs |-> baTabs[t]] /\ \A t \in BaTabs : TabFits(baTabs[t], baDocs)

ActionRecords ==
  [act : {"none", "back", "forward", "refresh", "close", "new"},
   phase : {"done", "navigate", "location", "index", "plant", "reload", "marker", "list"},
   tab : BaTabs \cup {0}, first : BaTabs \cup {0}, from : Nat, target : Int \cup BaTabs, url : BaEntries \cup {0},
   doc : Nat, mark : Nat, tries : Nat,
   result : {"none", "impossible", "failed", "unknown", "moved", "refreshed", "closed", "opened"}]

\* An action under way is on a tab and has no result yet; a move leads to another
\* entry; documents only get newer, and the marked one is no older than the first.
ActionFits ==
  /\ baJob \in ActionRecords
  /\ baJob.phase # "done" => baJob.tab \in BaTabs /\ baJob.first \in BaTabs /\ baJob.result = "none"
  /\ baJob.phase \in {"navigate", "location", "index"} => baJob.target # baJob.from
  /\ baJob.phase \in {"plant", "reload", "marker"} /\ Tab.open => Tab.doc >= baJob.doc
  /\ baJob.phase \in {"reload", "marker"} => baJob.mark >= baJob.doc /\ (Tab.open => Tab.doc >= baJob.mark)
  /\ baJob.act = "close" /\ baJob.phase = "list" => baJob.tab = baJob.first
  /\ baJob.result = "closed" => baJob.first \in BaTabs /\ ~baTabs[baJob.first].open

BrowserInv == TabsFit /\ ActionFits

LEMMA OneTabFits ==
  ASSUME TabsFit, NEW t \in BaTabs, NEW r, baTabs' = [baTabs EXCEPT ![t] = r],
         baDocs' \in Nat, baDocs' >= baDocs, TabFits(r, baDocs')
  PROVE  TabsFit' /\ baTabs'[t] = r /\ \A u \in BaTabs : u # t => baTabs'[u] = baTabs[u]
<1>1. DOMAIN baTabs' = BaTabs /\ baTabs'[t] = r /\ \A u \in BaTabs : u # t => baTabs'[u] = baTabs[u]
  BY DEF TabsFit
<1>2. ASSUME NEW u \in BaTabs PROVE TabFits(baTabs'[u], baDocs')
  <2>1. CASE u = t
    BY <1>1, <2>1
  <2>2. CASE u # t
    BY <1>1, <2>2 DEF TabsFit, TabFits, TabRecords
  <2> QED
    BY <2>1, <2>2
<1>3. baTabs' = [u \in BaTabs |-> baTabs'[u]]
  BY <1>1 DEF TabsFit
<1> QED
  BY <1>1, <1>2, <1>3 DEF TabsFit

\* The browser moves: no tab opens and no document is replaced by an older one.
LEMMA PagesGoOn ==
  ASSUME BrowserInv, UNCHANGED baJob, TabsFit',
         \A t \in BaTabs : baTabs'[t].open => baTabs[t].open /\ baTabs'[t].doc >= baTabs[t].doc
  PROVE  BrowserInv'
<1>1. \A t \in BaTabs : baTabs[t].doc \in Nat /\ baTabs'[t].doc \in Nat
  BY DEF BrowserInv, TabsFit, TabFits, TabRecords
<1>2. baJob.doc \in Nat /\ baJob.mark \in Nat
  BY DEF BrowserInv, ActionFits, ActionRecords
<1>3. ActionFits'
  BY <1>1, <1>2 DEF BrowserInv, ActionFits, Tab
<1> QED
  BY <1>3 DEF BrowserInv

LEMMA BrowserMoves ==
  ASSUME BrowserInv,
         \/ \E t \in BaTabs : TabShows(t) \/ TabCloses(t) \/ \E u \in BaUrls : PageNavigates(t, u)
         \/ SocketDies
  PROVE  BrowserInv'
<1>0. TabsFit
  BY DEF BrowserInv
<1>5. \A v \in BaTabs : baTabs[v].doc \in Nat /\ baTabs[v].doc <= baDocs
  BY <1>0 DEF TabsFit, TabFits, TabRecords
<1>1. ASSUME NEW t \in BaTabs, NEW u \in BaUrls, PageNavigates(t, u) PROVE BrowserInv'
  <2>1. PICK h \in Seq(BaEntries), at \in Nat, d \in Nat, w \in Nat, o \in BOOLEAN :
          baTabs[t] = [open |-> o, hist |-> h, at |-> at, doc |-> d, want |-> w] /\ at <= Len(h) /\ d <= baDocs
    BY <1>0 DEF TabsFit, TabFits, TabRecords
  <2>2. PICK s : s = SubSeq(h, 1, at)
    OBVIOUS
  <2>3. s \in Seq(BaEntries)
    <3>1. \A i \in 1 .. at : h[i] \in BaEntries
      BY <2>1
    <3> QED
      BY <2>2, <3>1, SubSeqProperties
  <2>4. PICK more \in Seq(BaEntries) : more = Append(s, u) /\ Len(more) = Len(s) + 1
    <3>1. u \in BaEntries
      BY DEF BaEntries
    <3> QED
      BY <2>3, <3>1, AppendProperties
  <2>5. PICK k \in Nat : k = Len(more)
    BY <2>4
  <2>6. baDocs' \in Nat /\ baDocs' = baDocs + 1 /\ baTabs[t].open /\ baDocs \in Nat
    <3>1. baDocs \in Nat
      BY <1>0 DEF TabsFit
    <3>2. baDocs' = baDocs + 1 /\ baTabs[t].open
      BY <1>1 DEF PageNavigates, DocumentLoads
    <3> QED
      BY <3>1, <3>2
  <2>7. PICK n \in Nat : n = baDocs'
    BY <2>6
  <2>8. baTabs' = [baTabs EXCEPT ![t] = [baTabs[t] EXCEPT !.hist = more, !.at = k, !.doc = n, !.want = 0]]
    <3>1. SubSeq(baTabs[t].hist, 1, baTabs[t].at) = s
      BY <2>1, <2>2
    <3>2. k = Len(s) + 1
      BY <2>4, <2>5
    <3> QED
      BY <1>1, <2>4, <2>7, <3>1, <3>2 DEF PageNavigates
  <2>9. PICK r : r = [baTabs[t] EXCEPT !.hist = more, !.at = k, !.doc = n, !.want = 0]
    OBVIOUS
  <2>10. /\ TabsFit' /\ baTabs'[t].doc = n
         /\ \A v \in BaTabs : v # t => baTabs'[v] = baTabs[v]
    <3>1. baTabs[t] \in TabRecords
      BY <1>0 DEF TabsFit, TabFits
    <3>2. r \in TabRecords /\ r.hist = more /\ r.at = k /\ r.doc = n /\ r.want = 0
      BY <2>9, <3>1 DEF TabRecords
    <3>3. TabFits(r, baDocs')
      BY <2>5, <2>7, <3>2 DEF TabFits
    <3>4. baTabs' = [baTabs EXCEPT ![t] = r] /\ baDocs' >= baDocs
      BY <2>6, <2>8, <2>9
    <3>5. TabsFit' /\ baTabs'[t] = r /\ \A v \in BaTabs : v # t => baTabs'[v] = baTabs[v]
      BY <1>0, <2>6, <3>3, <3>4, OneTabFits
    <3> QED
      BY <3>2, <3>5
  <2>11. ASSUME NEW v \in BaTabs, baTabs'[v].open PROVE baTabs[v].open /\ baTabs'[v].doc >= baTabs[v].doc
    <3>1. CASE v = t
      BY <1>5, <2>6, <2>7, <2>10, <3>1
    <3>2. CASE v # t
      BY <1>5, <2>10, <2>11, <3>2
    <3> QED
      BY <3>1, <3>2
  <2> QED
    BY <1>1, <2>10, <2>11, PagesGoOn DEF PageNavigates
<1>2. ASSUME NEW t \in BaTabs, TabShows(t) PROVE BrowserInv'
  <2>1. PICK h \in Seq(BaEntries), at \in Nat, d \in Nat, w \in Nat, o \in BOOLEAN :
          baTabs[t] = [open |-> o, hist |-> h, at |-> at, doc |-> d, want |-> w] /\ w <= Len(h) /\ d <= baDocs
    BY <1>0 DEF TabsFit, TabFits, TabRecords
  <2>6. baDocs' \in Nat /\ baDocs' = baDocs + 1 /\ baTabs[t].open /\ baDocs \in Nat
    <3>1. baDocs \in Nat
      BY <1>0 DEF TabsFit
    <3>2. baDocs' = baDocs + 1 /\ baTabs[t].open
      BY <1>2 DEF TabShows, DocumentLoads
    <3> QED
      BY <3>1, <3>2
  <2>7. PICK n \in Nat : n = baDocs'
    BY <2>6
  <2>8. baTabs' = [baTabs EXCEPT ![t] = [baTabs[t] EXCEPT !.hist = h, !.at = w, !.doc = n, !.want = 0]]
    <3>1. baTabs' = [baTabs EXCEPT ![t] = [baTabs[t] EXCEPT !.at = baTabs[t].want, !.doc = baDocs', !.want = 0]]
      BY <1>2 DEF TabShows
    <3>2. baTabs[t].want = w /\ baTabs[t].hist = h /\ baTabs[t] \in TabRecords
      BY <1>0, <2>1 DEF TabsFit, TabFits
    <3>3. [baTabs[t] EXCEPT !.at = w, !.doc = n, !.want = 0] = [baTabs[t] EXCEPT !.hist = h, !.at = w, !.doc = n, !.want = 0]
      BY <3>2 DEF TabRecords
    <3> QED
      BY <2>7, <3>1, <3>2, <3>3
  <2>9. PICK r : r = [baTabs[t] EXCEPT !.hist = h, !.at = w, !.doc = n, !.want = 0]
    OBVIOUS
  <2>10. /\ TabsFit' /\ baTabs'[t].doc = n
         /\ \A v \in BaTabs : v # t => baTabs'[v] = baTabs[v]
    <3>1. baTabs[t] \in TabRecords
      BY <1>0 DEF TabsFit, TabFits
    <3>2. r \in TabRecords /\ r.hist = h /\ r.at = w /\ r.doc = n /\ r.want = 0
      BY <2>9, <3>1 DEF TabRecords
    <3>3. TabFits(r, baDocs')
      BY <2>1, <2>7, <3>2 DEF TabFits
    <3>4. baTabs' = [baTabs EXCEPT ![t] = r] /\ baDocs' >= baDocs
      BY <2>6, <2>8, <2>9
    <3>5. TabsFit' /\ baTabs'[t] = r /\ \A v \in BaTabs : v # t => baTabs'[v] = baTabs[v]
      BY <1>0, <2>6, <3>3, <3>4, OneTabFits
    <3> QED
      BY <3>2, <3>5
  <2>11. ASSUME NEW v \in BaTabs, baTabs'[v].open PROVE baTabs[v].open /\ baTabs'[v].doc >= baTabs[v].doc
    <3>1. CASE v = t
      BY <1>5, <2>6, <2>7, <2>10, <3>1
    <3>2. CASE v # t
      BY <1>5, <2>10, <2>11, <3>2
    <3> QED
      BY <3>1, <3>2
  <2> QED
    BY <1>2, <2>10, <2>11, PagesGoOn DEF TabShows
<1>3. ASSUME NEW t \in BaTabs, TabCloses(t) PROVE BrowserInv'
  <2>1. TabFits(NoTab, baDocs')
    BY <1>0, <1>3 DEF TabFits, TabRecords, NoTab, TabCloses, TabsFit
  <2>2. TabsFit' /\ baTabs'[t] = NoTab /\ \A v \in BaTabs : v # t => baTabs'[v] = baTabs[v]
    BY <1>0, <1>3, <2>1, OneTabFits DEF TabCloses, TabsFit
  <2>3. ASSUME NEW v \in BaTabs, baTabs'[v].open PROVE baTabs[v].open /\ baTabs'[v].doc >= baTabs[v].doc
    <3>1. ~NoTab.open
      BY DEF NoTab
    <3>2. v # t
      BY <2>2, <2>3, <3>1
    <3> QED
      BY <1>5, <2>2, <2>3, <3>2
  <2> QED
    BY <1>3, <2>2, <2>3, PagesGoOn DEF TabCloses
<1>4. CASE SocketDies
  <2>1. UNCHANGED <<baTabs, baDocs, baJob>>
    BY <1>4 DEF SocketDies
  <2>2. TabsFit' /\ \A v \in BaTabs : baTabs'[v].doc >= baTabs[v].doc
    BY <1>0, <2>1 DEF TabsFit, TabFits, TabRecords
  <2> QED
    BY <2>1, <2>2, PagesGoOn
<1> QED
  BY <1>1, <1>2, <1>3, <1>4

\* What is asked of a tab is what it shows next.
LEMMA WantedFits ==
  ASSUME BrowserInv, NEW t \in BaTabs, NEW w \in Nat, w <= Len(baTabs[t].hist),
         baTabs' = [baTabs EXCEPT ![t].want = w], UNCHANGED baDocs
  PROVE  TabsFit' /\ \A v \in BaTabs : baTabs'[v].open = baTabs[v].open /\ baTabs'[v].doc = baTabs[v].doc
<1>0. TabsFit
  BY DEF BrowserInv
<1>1. PICK h \in Seq(BaEntries), at \in Nat, d \in Nat, z \in Nat, o \in BOOLEAN :
        baTabs[t] = [open |-> o, hist |-> h, at |-> at, doc |-> d, want |-> z] /\ at <= Len(h) /\ d <= baDocs
  BY <1>0 DEF TabsFit, TabFits, TabRecords
<1>2. baTabs' = [baTabs EXCEPT ![t] = [open |-> o, hist |-> h, at |-> at, doc |-> d, want |-> w]]
  <2>1. PICK b : b = baTabs[t] /\ b = [open |-> o, hist |-> h, at |-> at, doc |-> d, want |-> z]
    BY <1>1
  <2>2. [b EXCEPT !.want = w] = [open |-> o, hist |-> h, at |-> at, doc |-> d, want |-> w]
    BY <2>1
  <2>3. baTabs' = [baTabs EXCEPT ![t] = [baTabs[t] EXCEPT !.want = w]]
    OBVIOUS
  <2> QED
    BY <2>1, <2>2, <2>3
<1>3. TabFits([open |-> o, hist |-> h, at |-> at, doc |-> d, want |-> w], baDocs')
  BY <1>1 DEF TabFits, TabRecords
<1>4. /\ TabsFit' /\ baTabs'[t] = [open |-> o, hist |-> h, at |-> at, doc |-> d, want |-> w]
      /\ \A v \in BaTabs : v # t => baTabs'[v] = baTabs[v]
  <2>1. PICK r : r = [open |-> o, hist |-> h, at |-> at, doc |-> d, want |-> w]
    OBVIOUS
  <2>2. baTabs' = [baTabs EXCEPT ![t] = r] /\ TabFits(r, baDocs')
    BY <1>2, <1>3, <2>1
  <2>3. baDocs' \in Nat /\ baDocs' >= baDocs
    BY <1>0 DEF TabsFit
  <2>4. TabsFit' /\ baTabs'[t] = r /\ \A v \in BaTabs : v # t => baTabs'[v] = baTabs[v]
    BY <1>0, <2>2, <2>3, OneTabFits
  <2> QED
    BY <2>1, <2>4
<1> QED
  BY <1>1, <1>4

\* An action that ends, with something other than a tab that was closed.
LEMMA EndsFit ==
  ASSUME BrowserInv, TabsFit', NEW r \in {"failed", "unknown", "moved", "refreshed", "opened"}, JobEnds(r)
  PROVE  BrowserInv'
<1>1. baJob' \in ActionRecords /\ baJob'.phase = "done" /\ baJob'.result = r
  BY DEF BrowserInv, ActionFits, ActionRecords, JobEnds
<1> QED
  BY <1>1 DEF BrowserInv, ActionFits

LEMMA Begun ==
  ASSUME BrowserInv, NEW t \in BaTabs, NEW act \in {"back", "forward", "refresh", "close", "new"},
         NEW phase \in {"navigate", "plant", "list"}, NEW job, job = Begins(act, t, phase)
  PROVE  /\ job \in ActionRecords
         /\ job.act = act /\ job.phase = phase /\ job.tab = t /\ job.first = t /\ job.from = baTabs[t].at
         /\ job.doc = baTabs[t].doc /\ job.result = "none"
<1>1. PICK f \in Nat, d \in Nat : f = baTabs[t].at /\ d = baTabs[t].doc
  BY DEF BrowserInv, TabsFit, TabFits, TabRecords
<1>2. NoAction \in ActionRecords /\ NoAction.result = "none"
  BY DEF NoAction, ActionRecords
<1>3. job = [NoAction EXCEPT !.act = act, !.phase = phase, !.tab = t, !.first = t, !.from = f, !.doc = d]
  BY <1>1 DEF Begins
<1>4. NoAction = [act |-> "none", phase |-> "done", tab |-> 0, first |-> 0, from |-> 0, target |-> 0, url |-> 0, doc |-> 0, mark |-> 0,
                  tries |-> 0, result |-> "none"]
  BY DEF NoAction
<1>5. job = [act |-> act, phase |-> phase, tab |-> t, first |-> t, from |-> f, target |-> 0, url |-> 0, doc |-> d, mark |-> 0,
             tries |-> 0, result |-> "none"]
  BY <1>3, <1>4
<1> QED
  BY <1>1, <1>5 DEF ActionRecords

LEMMA ActionsBegin ==
  ASSUME BrowserInv, NEW t \in BaTabs,
         \/ Refresh(t) \/ BackOrForward("back", t) \/ BackOrForward("forward", t)
         \/ \E held \in BOOLEAN : CloseTab(t, held)
         \/ \E n \in BaTabs, u \in BaUrls : CreateTarget(t, n, u)
  PROVE  BrowserInv'
<1>0. TabsFit /\ \A v \in BaTabs : baTabs[v].doc \in Nat /\ baTabs[v].at \in Nat
  BY DEF BrowserInv, TabsFit, TabFits, TabRecords
<1>1. CASE Refresh(t)
  <2>1. baJob' = Begins("refresh", t, "plant") /\ UNCHANGED <<baTabs, baDocs>>
    BY <1>1 DEF Refresh
  <2>2. /\ baJob' \in ActionRecords /\ baJob'.phase = "plant" /\ baJob'.tab = t /\ baJob'.first = t /\ baJob'.act = "refresh"
        /\ baJob'.doc = baTabs[t].doc /\ baJob'.result = "none"
    BY <2>1, Begun
  <2>3. TabsFit'
    BY <1>0, <2>1 DEF TabsFit
  <2> QED
    BY <1>0, <2>1, <2>2, <2>3 DEF BrowserInv, ActionFits, Tab
<1>2. ASSUME NEW act \in {"back", "forward"}, BackOrForward(act, t) PROVE BrowserInv'
  <2>1. PICK job : job = Begins(act, t, "navigate")
    OBVIOUS
  <2>2. /\ job \in ActionRecords /\ job.phase = "navigate" /\ job.tab = t /\ job.first = t /\ job.act = act
        /\ job.from = baTabs[t].at /\ job.result = "none"
    BY <2>1, Begun
  <2>3. PICK n \in Int : n = IF act = "back" THEN baTabs[t].at - 1 ELSE baTabs[t].at + 1
    BY <1>0
  <2>4. /\ baJob' = (IF n \in DOMAIN baTabs[t].hist THEN [job EXCEPT !.target = n, !.url = baTabs[t].hist[n]]
                     ELSE [job EXCEPT !.phase = "done", !.result = "impossible"])
        /\ UNCHANGED <<baTabs, baDocs>>
    BY <1>2, <2>1, <2>3 DEF BackOrForward
  <2>5. n # job.from
    BY <1>0, <2>2, <2>3
  <2>6. TabsFit'
    BY <1>0, <2>4 DEF TabsFit
  <2>7. CASE n \in DOMAIN baTabs[t].hist
    <3>1. PICK u \in BaEntries : u = baTabs[t].hist[n]
      BY <1>0, <2>7 DEF TabsFit, TabFits, TabRecords
    <3>2. baJob' = [job EXCEPT !.target = n, !.url = u]
      BY <2>4, <2>7, <3>1
    <3>3. /\ baJob' \in ActionRecords /\ baJob'.phase = "navigate" /\ baJob'.tab = t /\ baJob'.first = t /\ baJob'.act = act
          /\ baJob'.from = job.from /\ baJob'.result = "none" /\ baJob'.target = n
      BY <2>2, <3>2 DEF ActionRecords
    <3> QED
      BY <2>5, <2>6, <3>3 DEF BrowserInv, ActionFits
  <2>8. CASE n \notin DOMAIN baTabs[t].hist
    <3>1. baJob' = [job EXCEPT !.phase = "done", !.result = "impossible"]
      BY <2>4, <2>8
    <3>2. baJob' \in ActionRecords /\ baJob'.phase = "done" /\ baJob'.result = "impossible"
      BY <2>2, <3>1 DEF ActionRecords
    <3> QED
      BY <2>6, <3>2 DEF BrowserInv, ActionFits
  <2> QED
    BY <2>7, <2>8
<1>3. ASSUME NEW held \in BOOLEAN, CloseTab(t, held) PROVE BrowserInv'
  <2>1. baJob' = Begins("close", t, "list") /\ UNCHANGED baDocs /\ (baTabs' = baTabs \/ baTabs' = [baTabs EXCEPT ![t] = NoTab])
    BY <1>3 DEF CloseTab
  <2>2. /\ baJob' \in ActionRecords /\ baJob'.phase = "list" /\ baJob'.tab = t /\ baJob'.first = t /\ baJob'.act = "close"
        /\ baJob'.result = "none"
    BY <2>1, Begun
  <2>3. TabsFit'
    <3>1. CASE baTabs' = baTabs
      BY <1>0, <2>1, <3>1 DEF TabsFit
    <3>2. CASE baTabs' = [baTabs EXCEPT ![t] = NoTab]
      <4>1. TabFits(NoTab, baDocs') /\ baDocs' \in Nat /\ baDocs' >= baDocs
        BY <1>0, <2>1 DEF TabFits, TabRecords, NoTab, TabsFit
      <4> QED
        BY <1>0, <3>2, <4>1, OneTabFits
    <3> QED
      BY <2>1, <3>1, <3>2
  <2> QED
    BY <2>2, <2>3 DEF BrowserInv, ActionFits
<1>4. ASSUME NEW n \in BaTabs, NEW u \in BaUrls, CreateTarget(t, n, u) PROVE BrowserInv'
  <2>1. PICK job : job = Begins("new", t, "list")
    OBVIOUS
  <2>2. /\ job \in ActionRecords /\ job.phase = "list" /\ job.tab = t /\ job.first = t /\ job.act = "new"
        /\ job.result = "none"
    BY <2>1, Begun
  <2>3. baJob' = [job EXCEPT !.target = n, !.url = u] /\ baTabs' = [baTabs EXCEPT ![n] = NewTab(u, baDocs')] /\ baDocs' = baDocs + 1
    BY <1>4, <2>1 DEF CreateTarget, DocumentLoads
  <2>4. /\ baJob' \in ActionRecords /\ baJob'.phase = "list" /\ baJob'.tab = t /\ baJob'.first = t /\ baJob'.act = "new"
        /\ baJob'.result = "none"
    BY <2>2, <2>3 DEF ActionRecords, BaEntries
  <2>5. TabsFit'
    <3>1. PICK d \in Nat : d = baDocs' /\ d >= baDocs
      BY <1>0, <2>3 DEF TabsFit
    <3>2. <<u>> \in Seq(BaEntries) /\ Len(<<u>>) = 1
      BY DEF BaEntries
    <3>3. PICK s \in Seq(BaEntries) : s = <<u>> /\ Len(s) = 1
      BY <3>2
    <3>4. NewTab(u, baDocs') = [open |-> TRUE, hist |-> s, at |-> 1, doc |-> d, want |-> 0]
      BY <3>1, <3>3 DEF NewTab
    <3>5. PICK r : r = [open |-> TRUE, hist |-> s, at |-> 1, doc |-> d, want |-> 0]
      OBVIOUS
    <3>6. TabFits(r, baDocs')
      BY <3>1, <3>3, <3>5 DEF TabFits, TabRecords
    <3> QED
      BY <1>0, <2>3, <3>1, <3>4, <3>5, <3>6, OneTabFits
  <2> QED
    BY <2>4, <2>5 DEF BrowserInv, ActionFits
<1> QED
  BY <1>1, <1>2, <1>3, <1>4

LEMMA ActionsGoOn ==
  ASSUME BrowserInv,
         \/ Navigate \/ LocationMatches \/ LocationDiffers \/ StaysHidden \/ IndexRead
         \/ Reload \/ MarkerGone \/ ListedWith \/ Deadline
         \/ \E t \in BaTabs : LocationHidden(t)
         \/ \E ok \in BOOLEAN : PlantMarker(ok) \/ ListedWithout(ok)
  PROVE  BrowserInv'
<1>0. /\ TabsFit /\ ActionFits /\ baJob \in ActionRecords
      /\ \A v \in BaTabs : baTabs[v].doc \in Nat /\ baTabs[v].at \in Nat /\ baTabs[v].at <= Len(baTabs[v].hist)
      /\ baJob.phase # "done" => baJob.tab \in BaTabs /\ baJob.first \in BaTabs /\ baJob.result = "none"
  BY DEF BrowserInv, ActionFits, TabsFit, TabFits, TabRecords
<1>1. UNCHANGED <<baTabs, baDocs>> => TabsFit'
  BY <1>0 DEF TabsFit
<1>2. ASSUME NEW phase \in {"location", "index", "marker"}, JobGoes(phase)
      PROVE  /\ baJob' \in ActionRecords /\ baJob'.phase = phase /\ baJob'.act = baJob.act /\ baJob'.tab = baJob.tab
             /\ baJob'.first = baJob.first /\ baJob'.target = baJob.target /\ baJob'.from = baJob.from
             /\ baJob'.doc = baJob.doc /\ baJob'.mark = baJob.mark /\ baJob'.result = baJob.result
  BY <1>0, <1>2 DEF JobGoes, ActionRecords
<1>3. CASE \E r \in {"failed", "unknown", "moved", "refreshed", "opened"} : JobEnds(r) /\ UNCHANGED <<baTabs, baDocs>>
  BY <1>1, <1>3, EndsFit
<1>4. CASE Navigate /\ JobGoes("location")
  <2>1. /\ baJob.phase = "navigate" /\ UNCHANGED baDocs
        /\ baTabs' = baTabs \/ (baTabs' = [baTabs EXCEPT ![baJob.tab].want = baJob.target] /\ baJob.target \in DOMAIN baTabs[baJob.tab].hist)
    BY <1>4 DEF Navigate, Tab
  <2>2. PICK t \in BaTabs : t = baJob.tab
    BY <1>0, <2>1
  <2>3. TabsFit'
    <3>1. ASSUME baTabs' = [baTabs EXCEPT ![t].want = baJob.target], baJob.target \in DOMAIN baTabs[t].hist
          PROVE  TabsFit'
      <4>1. PICK w \in Nat : w = baJob.target /\ w <= Len(baTabs[t].hist)
        BY <1>0, <3>1 DEF TabsFit, TabFits, TabRecords
      <4> QED
        BY <2>1, <3>1, <4>1, WantedFits
    <3> QED
      BY <1>1, <2>1, <2>2, <3>1
  <2>4. baJob.target # baJob.from
    BY <1>0, <2>1 DEF ActionFits
  <2> QED
    BY <1>0, <1>2, <1>4, <2>1, <2>3, <2>4 DEF BrowserInv, ActionFits
<1>5. CASE Navigate /\ JobEnds("failed")
  <2>1. UNCHANGED <<baTabs, baDocs>>
    <3>1. JobGoes("location") \/ UNCHANGED baTabs
      BY <1>5 DEF Navigate
    <3>2. ~JobGoes("location")
      BY <1>0, <1>5 DEF JobGoes, JobEnds, ActionRecords
    <3> QED
      BY <1>5, <3>1, <3>2 DEF Navigate
  <2> QED
    BY <1>3, <1>5, <2>1
<1>6. CASE LocationMatches
  <2>1. baJob.phase = "location" /\ JobGoes("index") /\ UNCHANGED <<baTabs, baDocs>>
    BY <1>6 DEF LocationMatches
  <2>2. baJob.target # baJob.from
    BY <1>0, <2>1 DEF ActionFits
  <2> QED
    BY <1>0, <1>1, <1>2, <2>1, <2>2 DEF BrowserInv, ActionFits
<1>7. ASSUME NEW t \in BaTabs, LocationHidden(t) PROVE BrowserInv'
  <2>1. baJob.phase = "location" /\ baJob' = [baJob EXCEPT !.tries = 1, !.tab = t] /\ UNCHANGED <<baTabs, baDocs>>
    BY <1>7 DEF LocationHidden
  <2>2. /\ baJob' \in ActionRecords /\ baJob'.phase = baJob.phase /\ baJob'.tab = t
        /\ baJob'.first = baJob.first /\ baJob'.target = baJob.target /\ baJob'.from = baJob.from /\ baJob'.result = baJob.result
    BY <1>0, <2>1 DEF ActionRecords
  <2>3. baJob.target # baJob.from
    BY <1>0, <2>1 DEF ActionFits
  <2> QED
    BY <1>0, <1>1, <2>1, <2>2, <2>3 DEF BrowserInv, ActionFits
<1>8. ASSUME NEW ok \in BOOLEAN, PlantMarker(ok), ok PROVE BrowserInv'
  <2>1. /\ baJob.phase = "plant" /\ JobLive /\ baJob' = [baJob EXCEPT !.phase = "reload", !.mark = Tab.doc]
        /\ UNCHANGED <<baTabs, baDocs>>
    BY <1>8 DEF PlantMarker, Planted
  <2>2. PICK d \in Nat : d = Tab.doc
    BY <1>0, <2>1 DEF Tab
  <2>3. baJob' = [baJob EXCEPT !.phase = "reload", !.mark = d]
    BY <2>1, <2>2
  <2>4. /\ baJob' \in ActionRecords /\ baJob'.phase = "reload" /\ baJob'.tab = baJob.tab /\ baJob'.mark = d
        /\ baJob'.first = baJob.first /\ baJob'.doc = baJob.doc /\ baJob'.result = baJob.result
    BY <1>0, <2>3 DEF ActionRecords
  <2>5. d >= baJob.doc
    BY <1>0, <2>1, <2>2 DEF ActionFits, JobLive
  <2> QED
    BY <1>0, <1>1, <2>1, <2>2, <2>4, <2>5 DEF BrowserInv, ActionFits, Tab
<1>9. CASE Reload /\ JobGoes("marker")
  <2>1. /\ baJob.phase = "reload" /\ UNCHANGED baDocs
        /\ baTabs' = baTabs \/ baTabs' = [baTabs EXCEPT ![baJob.tab].want = Tab.at]
    BY <1>9 DEF Reload
  <2>2. PICK t \in BaTabs : t = baJob.tab
    BY <1>0, <2>1
  <2>3. TabsFit' /\ \A v \in BaTabs : baTabs'[v].open = baTabs[v].open /\ baTabs'[v].doc = baTabs[v].doc
    <3>1. CASE baTabs' = [baTabs EXCEPT ![t].want = baTabs[t].at]
      <4>1. PICK w \in Nat : w = baTabs[t].at /\ w <= Len(baTabs[t].hist)
        BY <1>0
      <4>2. baTabs' = [baTabs EXCEPT ![t].want = w]
        BY <3>1, <4>1
      <4> QED
        BY <2>1, <4>1, <4>2, WantedFits
    <3> QED
      BY <1>1, <2>1, <2>2, <3>1 DEF Tab
  <2>4. baJob.mark >= baJob.doc /\ (baTabs[t].open => baTabs[t].doc >= baJob.mark /\ baTabs[t].doc >= baJob.doc)
    BY <1>0, <2>1, <2>2 DEF ActionFits, Tab
  <2> QED
    BY <1>0, <1>2, <1>9, <2>1, <2>2, <2>3, <2>4 DEF BrowserInv, ActionFits, Tab
<1>10. CASE Reload /\ JobEnds("failed")
  <2>1. UNCHANGED <<baTabs, baDocs>>
    <3>1. JobGoes("marker") \/ UNCHANGED baTabs
      BY <1>10 DEF Reload
    <3>2. ~JobGoes("marker")
      BY <1>0, <1>10 DEF JobGoes, JobEnds, ActionRecords
    <3> QED
      BY <1>10, <3>1, <3>2 DEF Reload
  <2> QED
    BY <1>3, <1>10, <2>1
<1>11. ASSUME NEW ok \in BOOLEAN, ListedWithout(ok) PROVE BrowserInv'
  <2>1. baJob.act = "close" /\ baJob.phase = "list" /\ baJob.tab \notin OpenTabs /\ JobEnds("closed") /\ UNCHANGED <<baTabs, baDocs>>
    BY <1>11 DEF ListedWithout, GoneFrom
  <2>2. baJob.tab = baJob.first /\ baJob.first \in BaTabs /\ ~baTabs[baJob.first].open
    BY <1>0, <2>1 DEF ActionFits, OpenTabs
  <2>3. baJob' \in ActionRecords /\ baJob'.phase = "done" /\ baJob'.first = baJob.first
    BY <1>0, <2>1 DEF JobEnds, ActionRecords
  <2> QED
    BY <1>1, <2>1, <2>2, <2>3 DEF BrowserInv, ActionFits
<1>12. CASE LocationDiffers \/ StaysHidden \/ MarkerGone \/ ListedWith \/ Deadline
  BY <1>3, <1>12 DEF LocationDiffers, StaysHidden, MarkerGone, ListedWith, Deadline
<1>13. CASE IndexRead
  BY <1>3, <1>13 DEF IndexRead
<1>14. ASSUME NEW ok \in BOOLEAN, PlantMarker(ok), ~ok PROVE BrowserInv'
  BY <1>3, <1>14 DEF PlantMarker, Planted
<1>15. Navigate => JobGoes("location") \/ JobEnds("failed")
  BY DEF Navigate
<1>16. Reload => JobGoes("marker") \/ JobEnds("failed")
  BY DEF Reload
<1> QED
  BY <1>4, <1>5, <1>6, <1>7, <1>8, <1>9, <1>10, <1>11, <1>12, <1>13, <1>14, <1>15, <1>16

LEMMA BrowserKeeps ==
  ASSUME BrowserInv, [BrowserNext]_baVars
  PROVE  BrowserInv'
<1>1. CASE UNCHANGED baVars
  <2>1. UNCHANGED <<baTabs, baDocs, baJob>>
    BY <1>1 DEF baVars
  <2> QED
    BY <2>1 DEF BrowserInv, TabsFit, ActionFits, Tab
<1>2. CASE BrowserNext
  BY <1>2, BrowserMoves, ActionsBegin, ActionsGoOn DEF BrowserNext
<1> QED
  BY <1>1, <1>2

LEMMA BrowserBegins ==
  ASSUME BrowserInit
  PROVE  BrowserInv
<1>1. PICK s \in Seq(BaEntries) : s = <<1>> /\ Len(s) = 1
  <2>1. <<1>> \in Seq(BaEntries) /\ Len(<<1>>) = 1
    BY DEF BaEntries
  <2> QED
    BY <2>1
<1>2. PICK e \in Seq(BaEntries) : e = << >> /\ Len(e) = 0
  <2>1. << >> \in Seq(BaEntries) /\ Len(<< >>) = 0
    OBVIOUS
  <2> QED
    BY <2>1
<1>3. TabFits(NewTab(1, 1), 1)
  <2>1. NewTab(1, 1) = [open |-> TRUE, hist |-> s, at |-> 1, doc |-> 1, want |-> 0]
    BY <1>1 DEF NewTab
  <2>2. PICK r : r = [open |-> TRUE, hist |-> s, at |-> 1, doc |-> 1, want |-> 0]
    OBVIOUS
  <2>3. TabFits(r, 1)
    BY <1>1, <2>2 DEF TabFits, TabRecords
  <2> QED
    BY <2>1, <2>2, <2>3
<1>4. TabFits(NoTab, 1)
  <2>1. NoTab = [open |-> FALSE, hist |-> e, at |-> 0, doc |-> 0, want |-> 0]
    BY <1>2 DEF NoTab
  <2>2. PICK r : r = [open |-> FALSE, hist |-> e, at |-> 0, doc |-> 0, want |-> 0]
    OBVIOUS
  <2>3. TabFits(r, 1)
    BY <1>2, <2>2 DEF TabFits, TabRecords
  <2> QED
    BY <2>1, <2>2, <2>3
<1>5. TabsFit
  <2>1. baDocs = 1 /\ DOMAIN baTabs = BaTabs /\ \A t \in BaTabs : baTabs[t] \in {NewTab(1, 1), NoTab}
    BY DEF BrowserInit
  <2>2. baTabs = [t \in BaTabs |-> baTabs[t]]
    BY DEF BrowserInit
  <2>3. \A t \in BaTabs : TabFits(baTabs[t], 1)
    BY <1>3, <1>4, <2>1
  <2> QED
    BY <2>1, <2>2, <2>3 DEF TabsFit
<1>6. baJob \in ActionRecords /\ baJob.phase = "done" /\ baJob.result = "none"
  BY DEF BrowserInit, NoAction, ActionRecords
<1> QED
  BY <1>5, <1>6 DEF BrowserInv, ActionFits

\* Only an action that ends has a result, the one it ends with.
LEMMA ResultIsGiven ==
  ASSUME BrowserInv, [BrowserNext]_baVars, baJob.phase \in {"index", "marker"}, baJob'.result \in {"moved", "refreshed"}
  PROVE  \/ baJob.phase = "index" /\ IndexMatches /\ baJob'.result = "moved"
         \/ baJob.phase = "marker" /\ MarkerGone /\ baJob'.result = "refreshed"
<1>0. baJob \in ActionRecords /\ baJob.result = "none"
  BY DEF BrowserInv, ActionFits
<1>1. baJob' # baJob
  BY <1>0
<1>2. ASSUME NEW r \in {"failed", "moved", "refreshed"}, JobEnds(r) PROVE baJob'.result = r
  BY <1>0, <1>2 DEF JobEnds, ActionRecords
<1>3. \/ IndexRead \/ MarkerGone \/ Deadline
  BY <1>1 DEF BrowserNext, baVars, TabShows, TabCloses, LocationHidden, Refresh, Acquire, BackOrForward, PageNavigates, CloseTab,
     CreateTarget, SocketDies, Navigate, LocationMatches, LocationDiffers, StaysHidden, Reload, ListedWith, PlantMarker, ListedWithout
<1>4. CASE IndexRead
  <2>1. baJob.phase = "index" /\ ((JobEnds("moved") /\ IndexMatches) \/ JobEnds("failed"))
    BY <1>4 DEF IndexRead
  <2> QED
    BY <1>2, <2>1
<1>5. CASE MarkerGone
  BY <1>2, <1>5 DEF MarkerGone
<1>6. CASE Deadline
  BY <1>2, <1>6 DEF Deadline
<1> QED
  BY <1>3, <1>4, <1>5, <1>6

\* What the tools that work in the browser report as done was seen there.
THEOREM BrowserAlwaysTrue == WebSpec /\ BrowserSpec => BrowserTellsTheTruth
<1>1. BrowserInit => BrowserInv
  BY BrowserBegins
<1>2. BrowserInv /\ [BrowserNext]_baVars => BrowserInv'
  BY BrowserKeeps
<1>3. BrowserInv => ClosedIsGone
  BY DEF BrowserInv, ActionFits, ClosedIsGone
<1>4. BrowserInv /\ [BrowserNext]_baVars
        => [baJob.phase = "index" /\ baJob'.result = "moved" /\ baJob.tab = baJob.first
              => baTabs[baJob.tab].at # baJob.from]_baVars
  <2> SUFFICES ASSUME BrowserInv, [BrowserNext]_baVars, baJob.phase = "index", baJob'.result = "moved"
               PROVE  baTabs[baJob.tab].at # baJob.from
    OBVIOUS
  <2>1. IndexMatches
    BY ResultIsGiven
  <2> QED
    BY <2>1 DEF IndexMatches, Tab, BrowserInv, ActionFits
<1>5. BrowserInv /\ [BrowserNext]_baVars
        => [baJob.phase = "marker" /\ baJob'.result = "refreshed" => baTabs[baJob.tab].doc # baJob.doc]_baVars
  <2> SUFFICES ASSUME BrowserInv, [BrowserNext]_baVars, baJob.phase = "marker", baJob'.result = "refreshed"
               PROVE  baTabs[baJob.tab].doc # baJob.doc
    OBVIOUS
  <2>1. JobLive /\ Tab.doc # baJob.mark
    BY ResultIsGiven DEF MarkerGone
  <2>2. baJob.mark >= baJob.doc /\ Tab.doc >= baJob.mark
    BY <2>1 DEF JobLive, BrowserInv, ActionFits
  <2>3. baJob.mark \in Nat /\ baJob.doc \in Nat
    BY DEF BrowserInv, ActionFits, ActionRecords
  <2>4. Tab.doc \in Nat
    BY DEF BrowserInv, ActionFits, TabsFit, TabFits, TabRecords, Tab
  <2> QED
    BY <2>1, <2>2, <2>3, <2>4 DEF Tab
<1>6. WebSpec => [](SwitchIsNotedOnLiveSockets /\ RecoveryIsBounded) /\ OpenIsSeen
  BY WebHonest
<1> QED
  BY <1>1, <1>2, <1>3, <1>4, <1>5, <1>6, PTL DEF BrowserSpec, BrowserTellsTheTruth, BackMoved, FreshIsFresh
-----------------------------------------------------------------------------
(* Desktop input and sound *)

CcSteps == {"idle", "bounds", "go", "travel", "press", "read", "gone", "see", "alive", "listen", "over"}
CcKinds == {"none", "type", "close", "focus", "launch", "volume"} \cup Pointing
CcTaskRecords ==
  [kind : CcKinds, at : CcSteps, x : Nat, stops : Nat, hit : Int, seen : Nat, target : CcWindows \cup {0},
   verdict : {"none", "refused", "unverified", "failed", "verified"}]

ControlTyped ==
  /\ ccWidth \in Nat \ {0} /\ ccPointer \in Nat /\ ccPointer < ccWidth /\ ccJogs \in Nat /\ ccUpsets \in Nat
  /\ ccTask \in CcTaskRecords /\ (ccTask.at # "over" => ccTask.verdict = "none")
  /\ DOMAIN ccWins \subseteq CcWindows /\ ccActive \in {0} \cup DOMAIN ccWins

\* A pointer that nobody moved is where it was sent, as far as the screen goes, and
\* one that somebody moved once does not look right after a click that was not.
ClicksLand ==
  ccTask.kind \in Clicks =>
    /\ ccTask.at \in {"press", "read"} /\ ccJogs = 0 => ccPointer = Clamp(ccTask.x)
    /\ ccTask.at = "read" /\ ccJogs = 0 => ccTask.hit = ccPointer
    /\ ccTask.at = "read" /\ ccJogs <= 1 => Far(ccPointer, ccTask.x) \/ ~Far(ccTask.hit, ccTask.x)
    /\ ccTask.verdict = "verified" /\ ccJogs <= 1 => ~Far(ccTask.hit, ccTask.x)

\* While nobody else touches the desktop, the windows are those that were counted
\* or the one to close is gone.
ClosesShow ==
  ccTask.kind = "close" /\ ccUpsets = 0 =>
    /\ ccTask.at = "gone" => ccTask.target \notin DOMAIN ccWins \/ ccTask.seen = Cardinality(Found)
    /\ ccTask.verdict = "verified" => ccTask.target \notin DOMAIN ccWins

ControlInv == ControlTyped /\ ClicksLand /\ ClosesShow

\* A request that goes to its next command, or ends.
LEMMA TaskWent ==
  ASSUME ControlInv, NEW step \in CcSteps, To(step)
  PROVE  /\ ccTask' \in CcTaskRecords /\ ccTask'.at = step /\ ccTask'.kind = ccTask.kind /\ ccTask'.x = ccTask.x
         /\ ccTask'.hit = ccTask.hit /\ ccTask'.seen = ccTask.seen /\ ccTask'.target = ccTask.target
         /\ ccTask'.verdict = ccTask.verdict
BY DEF ControlInv, ControlTyped, To, CcTaskRecords

LEMMA TaskEnded ==
  ASSUME ControlInv, NEW v \in {"refused", "unverified", "failed", "verified"}, ControlEnds(v)
  PROVE  /\ ccTask' \in CcTaskRecords /\ ccTask'.at = "over" /\ ccTask'.kind = ccTask.kind /\ ccTask'.x = ccTask.x
         /\ ccTask'.hit = ccTask.hit /\ ccTask'.seen = ccTask.seen /\ ccTask'.target = ccTask.target
         /\ ccTask'.verdict = v
BY DEF ControlInv, ControlTyped, ControlEnds, CcTaskRecords, CcSteps

LEMMA DesktopKeeps ==
  ASSUME ControlInv, Desktop
  PROVE  ControlInv'
<1>1. ASSUME NEW x \in CcPoints, UserMoves(x) PROVE ControlInv'
  <2>1. /\ x \in Nat /\ x < ccWidth /\ ccPointer' = x /\ ccJogs' = ccJogs + 1 /\ ccUpsets' = ccUpsets + 1
        /\ UNCHANGED <<ccTask, ccWidth, ccWins, ccActive>>
    BY <1>1, ControlAssumption DEF UserMoves, DesktopUpset, ccScreen, ccDesk
  <2>2. ControlTyped'
    BY <2>1 DEF ControlInv, ControlTyped
  <2>3. ccTask.x \in Nat /\ ccTask.hit \in Int /\ ccWidth \in Nat /\ ccJogs \in Nat
    BY DEF ControlInv, ControlTyped, CcTaskRecords
  <2>4. ClicksLand'
    BY <2>1, <2>3 DEF ControlInv, ClicksLand, ControlTyped, Clamp, Far, Tol
  <2>5. ClosesShow'
    BY <2>1 DEF ControlInv, ControlTyped, ClosesShow
  <2> QED
    BY <2>2, <2>4, <2>5 DEF ControlInv
<1>2. ASSUME NEW w \in CcWidths, ScreenTurns(w) PROVE ControlInv'
  <2>1. /\ w \in Nat \ {0} /\ ccWidth' = w /\ ccPointer' = (IF ccPointer < w THEN ccPointer ELSE w - 1)
        /\ ccJogs' = ccJogs + 1 /\ ccUpsets' = ccUpsets + 1 /\ UNCHANGED <<ccTask, ccWins, ccActive>>
    BY <1>2, ControlAssumption DEF ScreenTurns, DesktopUpset, ccDesk
  <2>2. ControlTyped'
    BY <2>1 DEF ControlInv, ControlTyped
  <2>3. ccTask.x \in Nat /\ ccTask.hit \in Int /\ ccWidth \in Nat /\ ccJogs \in Nat
    BY DEF ControlInv, ControlTyped, CcTaskRecords
  <2>4. ClicksLand'
    BY <2>1, <2>3 DEF ControlInv, ClicksLand, ControlTyped, Clamp, Far, Tol
  <2>5. ClosesShow'
    BY <2>1 DEF ControlInv, ControlTyped, ClosesShow
  <2> QED
    BY <2>2, <2>4, <2>5 DEF ControlInv
<1>3. ASSUME UNCHANGED <<ccWidth, ccPointer, ccTask, ccJogs>>, ccUpsets' = ccUpsets + 1, DOMAIN ccWins' \subseteq DOMAIN ccWins,
             ccActive' \in {0} \cup DOMAIN ccWins'
      PROVE  ControlInv'
  <2>1. ControlTyped'
    BY <1>3 DEF ControlInv, ControlTyped
  <2>2. ClicksLand'
    BY <1>3 DEF ControlInv, ClicksLand, Clamp
  <2>3. ClosesShow'
    BY <1>3 DEF ControlInv, ControlTyped, ClosesShow
  <2> QED
    BY <2>1, <2>2, <2>3 DEF ControlInv
<1>4. CASE BoundsExpire
  <2>1. UNCHANGED <<ccWidth, ccPointer, ccTask, ccJogs, ccUpsets, ccWins, ccActive>>
    BY <1>4 DEF BoundsExpire, ccDesk, ccCounts
  <2> QED
    BY <2>1 DEF ControlInv, ControlTyped, ClicksLand, ClosesShow, Clamp, Found
<1>5. CASE ReadBackGoes \/ (\E a \in {"none", "others"} : AppTurns(a)) \/ \E s \in {1, 2} : SinkTurns(s)
  BY <1>3, <1>5 DEF ReadBackGoes, AppTurns, SinkTurns, DesktopUpset, ccDesk, ccScreen, ControlInv, ControlTyped
<1>6. ASSUME NEW w \in CcWindows, WindowCloses(w) PROVE ControlInv'
  <2>1. DOMAIN ccWins' = DOMAIN ccWins \ {w} /\ ccActive' = (IF ccActive = w THEN 0 ELSE ccActive)
    BY <1>6 DEF WindowCloses
  <2>2. UNCHANGED <<ccWidth, ccPointer, ccTask, ccJogs>> /\ ccUpsets' = ccUpsets + 1
    BY <1>6 DEF WindowCloses, DesktopUpset, ccScreen
  <2> QED
    BY <1>3, <2>1, <2>2 DEF ControlInv, ControlTyped
<1>7. ASSUME NEW w \in CcWindows, Activates(w) PROVE ControlInv'
  BY <1>3, <1>7 DEF Activates, DesktopUpset, ccScreen
<1> QED
  BY <1>1, <1>2, <1>4, <1>5, <1>6, <1>7 DEF Desktop

LEMMA ControlStarts ==
  ASSUME ControlInv,
         \/ Reported \/ (\E k \in Pointing, x \in CcPoints : BeginControl(k, x))
         \/ (\E k \in {"type", "close", "focus", "launch"} : BeginControl(k, 1)) \/ \E x \in {0, 1} : BeginControl("volume", x)
  PROVE  ControlInv'
<1>1. ASSUME NEW k \in CcKinds, NEW x \in Nat, BeginControl(k, x) PROVE ControlInv'
  <2>1. PICK step \in {"bounds", "go"} : step = IF k \in Pointing THEN "bounds" ELSE "go"
    OBVIOUS
  <2>2. ccTask' = [NoTask EXCEPT !.kind = k, !.x = x, !.at = step]
    BY <1>1, <2>1 DEF BeginControl
  <2>3. ccTask' = [kind |-> k, at |-> step, x |-> x, stops |-> 0, hit |-> -1, seen |-> 0, target |-> 0, verdict |-> "none"]
    BY <2>2 DEF NoTask, NoHit
  <2>4. ccTask' \in CcTaskRecords /\ ccTask'.at \in {"bounds", "go"} /\ ccTask'.verdict = "none"
    BY <2>3 DEF CcTaskRecords, CcSteps
  <2>5. ccJogs' = 0 /\ UNCHANGED <<ccWidth, ccPointer, ccUpsets, ccWins, ccActive>>
    BY <1>1 DEF BeginControl, ccScreen, ccDesk
  <2> QED
    BY <2>4, <2>5 DEF ControlInv, ControlTyped, ClicksLand, ClosesShow
<1>2. CASE Reported
  <2>1. ccTask' = [kind |-> "none", at |-> "idle", x |-> 0, stops |-> 0, hit |-> -1, seen |-> 0, target |-> 0, verdict |-> "none"]
        /\ UNCHANGED <<ccWidth, ccPointer, ccUpsets, ccWins, ccActive, ccJogs>>
    BY <1>2 DEF Reported, NoTask, NoHit, ccScreen, ccDesk, ccCounts
  <2>2. ccTask' \in CcTaskRecords /\ ccTask'.at = "idle" /\ ccTask'.verdict = "none" /\ ccTask'.kind = "none"
    BY <2>1 DEF CcTaskRecords, CcSteps, CcKinds
  <2> QED
    BY <2>1, <2>2 DEF ControlInv, ControlTyped, ClicksLand, ClosesShow, Clicks
<1>3. Pointing \subseteq CcKinds /\ {"type", "close", "focus", "launch", "volume"} \subseteq CcKinds
  BY DEF CcKinds
<1> QED
  BY <1>1, <1>2, <1>3, ControlAssumption

LEMMA MouseKeeps ==
  ASSUME ControlInv, CheckOnScreen \/ (\E via \in BOOLEAN : Travel(via)) \/ Press \/ ReadPointer \/ SendKeys
  PROVE  ControlInv'
<1>0. /\ ccTask \in CcTaskRecords /\ ccTask.x \in Nat /\ ccTask.hit \in Int /\ ccWidth \in Nat \ {0} /\ ccPointer \in Nat
      /\ ccJogs \in Nat /\ ccPointer < ccWidth
  BY DEF ControlInv, ControlTyped, CcTaskRecords
<1>1. \A n \in Nat : Clamp(n) \in Nat /\ Clamp(n) < ccWidth
  BY <1>0 DEF Clamp
<1>2. Clicks \subseteq Pointing /\ "close" \notin Pointing /\ "close" \notin Clicks
  BY DEF Clicks, Pointing
<1>3. CASE CheckOnScreen
  <2>1. /\ ccTask.at = "bounds" /\ UNCHANGED <<ccWidth, ccPointer, ccJogs, ccUpsets, ccWins, ccActive>>
        /\ (To("press") /\ ccTask.kind = "double") \/ To("travel") \/ ControlEnds("refused")
    BY <1>3 DEF CheckOnScreen, ControlAt, ccDesk, ccCounts
  <2>2. /\ ccTask' \in CcTaskRecords /\ ccTask'.kind = ccTask.kind
        /\ \/ ccTask'.at = "press" /\ ccTask.kind = "double" /\ ccTask'.verdict = "none"
           \/ ccTask'.at = "travel" /\ ccTask'.verdict = "none"
           \/ ccTask'.at = "over" /\ ccTask'.verdict = "refused"
    BY <2>1, TaskWent, TaskEnded DEF CcSteps, ControlInv, ControlTyped
  <2> QED
    BY <2>1, <2>2 DEF ControlInv, ControlTyped, ClicksLand, ClosesShow, Clicks
<1>4. ASSUME NEW via \in BOOLEAN, Travel(via) PROVE ControlInv'
  <2>1. ccTask.at = "travel" /\ ccTask.kind \in Pointing /\ ccTask.verdict = "none"
        /\ UNCHANGED <<ccWidth, ccJogs, ccUpsets, ccWins, ccActive>>
    BY <1>4 DEF Travel, ControlAt, ccScreen, ccDesk, ccCounts, ControlInv, ControlTyped
  <2>2. CASE via
    <3>1. (ccPointer + ccTask.x) \div 2 \in Nat
      BY <1>0
    <3>2. ccPointer' = Clamp((ccPointer + ccTask.x) \div 2) /\ ccTask' = [ccTask EXCEPT !.stops = 1]
      BY <1>4, <2>2 DEF Travel
    <3>3. ccPointer' \in Nat /\ ccPointer' < ccWidth
      BY <1>1, <3>1, <3>2
    <3>4. ccTask' \in CcTaskRecords /\ ccTask'.at = "travel" /\ ccTask'.kind = ccTask.kind /\ ccTask'.verdict = "none"
      BY <1>0, <2>1, <3>2 DEF CcTaskRecords
    <3> QED
      BY <2>1, <3>3, <3>4 DEF ControlInv, ControlTyped, ClicksLand, ClosesShow
  <2>3. CASE ~via
    <3>1. ccPointer' = Clamp(ccTask.x) /\ ((To("read") /\ ccTask.kind = "move") \/ To("press"))
      BY <1>4, <2>3 DEF Travel
    <3>2. ccPointer' \in Nat /\ ccPointer' < ccWidth
      BY <1>0, <1>1, <3>1
    <3>3. /\ ccTask' \in CcTaskRecords /\ ccTask'.kind = ccTask.kind /\ ccTask'.verdict = "none" /\ ccTask'.x = ccTask.x
          /\ (ccTask'.at = "read" /\ ccTask.kind = "move") \/ ccTask'.at = "press"
      BY <2>1, <3>1, TaskWent DEF CcSteps
    <3>4. ccTask.kind # "close" /\ (ccTask.kind = "move" => ccTask.kind \notin Clicks)
      BY <1>2, <2>1 DEF Clicks
    <3>5. Clamp(ccTask.x)' = Clamp(ccTask.x)
      BY <2>1, <3>3 DEF Clamp
    <3> QED
      BY <2>1, <3>1, <3>2, <3>3, <3>4, <3>5 DEF ControlInv, ControlTyped, ClicksLand, ClosesShow
  <2> QED
    BY <2>2, <2>3
<1>5. CASE Press
  <2>1. /\ ccTask.at = "press" /\ ccTask.kind \in Pointing /\ ccTask.verdict = "none" /\ ccTask.kind # "close"
        /\ UNCHANGED <<ccWidth, ccJogs, ccUpsets, ccWins, ccActive>>
        /\ ccPointer' = (IF ccTask.kind = "double" THEN Clamp(ccTask.x) ELSE ccPointer)
        /\ ccTask' = [ccTask EXCEPT !.hit = ccPointer', !.at = "read"]
    BY <1>2, <1>5 DEF Press, ControlAt, ccScreen, ccDesk, ccCounts, ControlInv, ControlTyped
  <2>2. ccPointer' \in Nat /\ ccPointer' < ccWidth
    BY <1>0, <1>1, <2>1
  <2>3. /\ ccTask' \in CcTaskRecords /\ ccTask'.at = "read" /\ ccTask'.kind = ccTask.kind /\ ccTask'.verdict = "none"
        /\ ccTask'.hit = ccPointer' /\ ccTask'.x = ccTask.x
    <3>1. PICK p \in Nat : p = ccPointer'
      BY <2>2
    <3>2. ccTask' = [ccTask EXCEPT !.hit = p, !.at = "read"]
      BY <2>1, <3>1
    <3>3. "read" \in CcSteps /\ p \in Int
      BY DEF CcSteps
    <3>4. ccTask' \in CcTaskRecords
      BY <1>0, <3>2, <3>3 DEF CcTaskRecords
    <3>5. ccTask'.at = "read" /\ ccTask'.kind = ccTask.kind /\ ccTask'.verdict = ccTask.verdict /\ ccTask'.hit = p /\ ccTask'.x = ccTask.x
      BY <1>0, <3>2 DEF CcTaskRecords
    <3> QED
      BY <2>1, <3>1, <3>4, <3>5
  <2>4. ccTask.kind \in Clicks => ccPointer' = ccPointer
    BY <2>1 DEF Clicks
  <2>5. Clamp(ccTask.x)' = Clamp(ccTask.x)
    BY <2>1, <2>3 DEF Clamp
  <2> QED
    BY <2>1, <2>2, <2>3, <2>4, <2>5 DEF ControlInv, ControlTyped, ClicksLand, ClosesShow
<1>6. CASE ReadPointer
  <2>1. /\ ccTask.at = "read" /\ ccTask.kind \in Pointing /\ ccTask.kind # "close"
        /\ UNCHANGED <<ccWidth, ccPointer, ccJogs, ccUpsets, ccWins, ccActive>>
        /\ \/ ControlEnds("unverified")
           \/ ControlEnds("failed")
           \/ ControlEnds("verified") /\ ~Far(ccPointer, ccTask.x)
    BY <1>2, <1>6 DEF ReadPointer, PointVerdict, ControlAt, ccScreen, ccDesk, ccCounts
  <2>2. /\ ccTask' \in CcTaskRecords /\ ccTask'.at = "over" /\ ccTask'.kind = ccTask.kind /\ ccTask'.hit = ccTask.hit
        /\ ccTask'.x = ccTask.x /\ (ccTask'.verdict = "verified" => ~Far(ccPointer, ccTask.x))
    BY <2>1, TaskEnded
  <2>3. Far(ccTask.hit, ccTask.x)' <=> Far(ccTask.hit, ccTask.x)
    BY <2>2 DEF Far
  <2> QED
    BY <2>1, <2>2, <2>3 DEF ControlInv, ControlTyped, ClicksLand, ClosesShow
<1>7. CASE SendKeys
  <2>1. ControlEnds("unverified") /\ UNCHANGED <<ccWidth, ccPointer, ccJogs, ccUpsets, ccWins, ccActive>>
    BY <1>7 DEF SendKeys, ccScreen, ccDesk, ccCounts
  <2>2. ccTask' \in CcTaskRecords /\ ccTask'.at = "over" /\ ccTask'.verdict = "unverified"
    BY <2>1, TaskEnded
  <2> QED
    BY <2>1, <2>2 DEF ControlInv, ControlTyped, ClicksLand, ClosesShow
<1> QED
  BY <1>3, <1>4, <1>5, <1>6, <1>7

LEMMA WindowsKeep ==
  ASSUME ControlInv, CloseWindow \/ SeeGone \/ NotSeenGone \/ FocusWindow \/ SeeFocus
  PROVE  ControlInv'
<1>0. ccTask \in CcTaskRecords /\ Found \subseteq DOMAIN ccWins /\ ccTask.kind \in {"close", "focus"} /\ ccTask.kind \notin Clicks
  BY DEF ControlInv, ControlTyped, Found, CloseWindow, SeeGone, NotSeenGone, FocusWindow, SeeFocus, ControlAt, Clicks
<1>1. IsFiniteSet(Found) /\ Cardinality(Found) \in Nat
  BY <1>0, ControlAssumption, FS_Subset, FS_CardinalityType DEF ControlInv, ControlTyped
<1>2. CASE CloseWindow /\ Found # {}
  <2>1. PICK w \in Found, obeys \in BOOLEAN :
          /\ ccTask' = [ccTask EXCEPT !.at = "gone", !.seen = Cardinality(Found), !.target = w]
          /\ IF obeys THEN ccWins' = [v \in DOMAIN ccWins \ {w} |-> ccWins[v]] /\ ccActive' = (IF ccActive = w THEN 0 ELSE ccActive)
             ELSE UNCHANGED <<ccWins, ccActive>>
    BY <1>2 DEF CloseWindow
  <2>2. ccTask.at = "go" /\ ccTask.verdict = "none" /\ UNCHANGED <<ccWidth, ccPointer, ccJogs, ccUpsets>>
    BY <1>2 DEF CloseWindow, ControlAt, ccScreen, ccCounts, ControlInv, ControlTyped
  <2>3. PICK n \in Nat : n = Cardinality(Found)
    BY <1>1
  <2>4. ccTask' = [ccTask EXCEPT !.at = "gone", !.seen = n, !.target = w]
    BY <2>1, <2>3
  <2>5. w \in CcWindows \cup {0} /\ "gone" \in CcSteps
    BY <1>0 DEF ControlInv, ControlTyped, CcSteps
  <2>6. ccTask' \in CcTaskRecords
    BY <1>0, <2>4, <2>5 DEF CcTaskRecords
  <2>7. /\ ccTask'.at = "gone" /\ ccTask'.kind = ccTask.kind /\ ccTask'.verdict = "none"
        /\ ccTask'.seen = n /\ ccTask'.target = w
    BY <1>0, <2>2, <2>4 DEF CcTaskRecords
  <2>8. /\ DOMAIN ccWins' \subseteq DOMAIN ccWins /\ ccActive' \in {0} \cup DOMAIN ccWins'
        /\ w \notin DOMAIN ccWins' \/ Found' = Found
    <3>1. CASE obeys
      BY <2>1, <3>1 DEF ControlInv, ControlTyped
    <3>2. CASE ~obeys
      BY <2>1, <3>2 DEF ControlInv, ControlTyped, Found
    <3> QED
      BY <3>1, <3>2
  <2> QED
    BY <1>0, <2>2, <2>3, <2>6, <2>7, <2>8 DEF ControlInv, ControlTyped, ClicksLand, ClosesShow
<1>3. ASSUME NEW v \in {"unverified", "failed", "verified"}, ControlEnds(v), UNCHANGED <<ccWidth, ccPointer, ccJogs, ccUpsets, ccWins, ccActive>>,
             ccTask.kind = "close" /\ v = "verified" /\ ccUpsets = 0 => ccTask.target \notin DOMAIN ccWins
      PROVE  ControlInv'
  <2>1. /\ ccTask' \in CcTaskRecords /\ ccTask'.at = "over" /\ ccTask'.kind = ccTask.kind /\ ccTask'.target = ccTask.target
        /\ ccTask'.verdict = v
    BY <1>3, TaskEnded
  <2> QED
    BY <1>0, <1>3, <2>1 DEF ControlInv, ControlTyped, ClicksLand, ClosesShow
<1>4. CASE SeeGone
  <2>1. /\ ccTask.kind = "close" /\ ccTask.at = "gone" /\ Cardinality(Found) < ccTask.seen /\ ControlEnds("verified")
        /\ UNCHANGED <<ccWidth, ccPointer, ccJogs, ccUpsets, ccWins, ccActive>>
    BY <1>4 DEF SeeGone, ControlAt, Fewer, ccScreen, ccDesk, ccCounts
  <2>2. ccTask.seen # Cardinality(Found)
    BY <1>1, <2>1
  <2> QED
    BY <1>3, <2>1, <2>2 DEF ControlInv, ClosesShow
<1>5. CASE NotSeenGone \/ SeeFocus
  <2>1. /\ UNCHANGED <<ccWidth, ccPointer, ccJogs, ccUpsets, ccWins, ccActive>>
        /\ ControlEnds("failed") \/ (ccTask.kind = "focus" /\ \E v \in {"unverified", "failed", "verified"} : ControlEnds(v))
    BY <1>5 DEF NotSeenGone, SeeFocus, ControlAt, ccScreen, ccDesk, ccCounts
  <2> QED
    BY <1>3, <2>1
<1>6. CASE CloseWindow /\ Found = {}
  <2>1. ControlEnds("failed") /\ UNCHANGED <<ccWidth, ccPointer, ccJogs, ccUpsets, ccWins, ccActive>>
    BY <1>6 DEF CloseWindow, ccScreen, ccCounts
  <2> QED
    BY <1>3, <2>1
<1>7. CASE FocusWindow /\ Found = {}
  <2>1. ControlEnds("failed") /\ UNCHANGED <<ccWidth, ccPointer, ccJogs, ccUpsets, ccWins, ccActive>>
    BY <1>7 DEF FocusWindow, ccScreen, ccCounts
  <2> QED
    BY <1>3, <2>1
<1>8. CASE FocusWindow /\ Found # {}
  <2>1. /\ To("see") /\ ccTask.kind = "focus" /\ ccTask.at = "go" /\ ccActive' \in Found \cup {ccActive}
        /\ UNCHANGED <<ccWidth, ccPointer, ccJogs, ccUpsets, ccWins>>
    BY <1>8 DEF FocusWindow, ControlAt, ccScreen, ccCounts
  <2>2. /\ ccTask' \in CcTaskRecords /\ ccTask'.at = "see" /\ ccTask'.kind = "focus" /\ ccTask'.verdict = "none"
    BY <2>1, TaskWent DEF CcSteps, ControlInv, ControlTyped
  <2> QED
    BY <1>0, <2>1, <2>2 DEF ControlInv, ControlTyped, ClicksLand, ClosesShow
<1> QED
  BY <1>2, <1>4, <1>5, <1>6, <1>7, <1>8

LEMMA LaunchKeeps ==
  ASSUME ControlInv, (\E o \in {"runs", "dies", "refused"} : LaunchApp(o)) \/ SeeAlive \/ SetVolume \/ ReadVolume
  PROVE  ControlInv'
<1>0. ccTask.kind \in {"launch", "volume"} /\ ccTask.kind \notin Clicks /\ ccTask.at # "over"
  BY DEF LaunchApp, SeeAlive, SetVolume, ReadVolume, ControlAt, Clicks
<1>1. /\ UNCHANGED <<ccWidth, ccPointer, ccJogs, ccUpsets, ccWins, ccActive>>
      /\ (\E step \in {"alive", "listen"} : To(step)) \/ \E v \in {"failed", "verified"} : ControlEnds(v)
  <2>1. CASE SeeAlive \/ ReadVolume
    BY <2>1 DEF SeeAlive, ReadVolume, LevelVerdict, ccScreen, ccDesk, ccCounts
  <2>2. CASE SetVolume
    BY <2>2 DEF SetVolume, ccScreen, ccCounts
  <2>3. ASSUME NEW o \in {"runs", "dies", "refused"}, LaunchApp(o)
        PROVE  /\ UNCHANGED <<ccWidth, ccPointer, ccJogs, ccUpsets, ccWins, ccActive>>
               /\ To("alive") \/ ControlEnds("failed")
    BY <2>3 DEF LaunchApp, ccScreen, ccCounts
  <2> QED
    BY <2>1, <2>2, <2>3
<1>2. /\ ccTask' \in CcTaskRecords /\ ccTask'.kind = ccTask.kind /\ (ccTask'.at # "over" => ccTask'.verdict = "none")
      /\ ccTask'.at \notin {"gone", "press", "read"}
  <2>1. ASSUME NEW step \in {"alive", "listen"}, To(step)
        PROVE  /\ ccTask' \in CcTaskRecords /\ ccTask'.kind = ccTask.kind /\ ccTask'.at = step /\ ccTask'.verdict = "none"
    BY <1>0, <2>1, TaskWent DEF CcSteps, ControlInv, ControlTyped
  <2>2. ASSUME NEW v \in {"failed", "verified"}, ControlEnds(v)
        PROVE  /\ ccTask' \in CcTaskRecords /\ ccTask'.kind = ccTask.kind /\ ccTask'.at = "over"
    BY <2>2, TaskEnded
  <2> QED
    BY <1>1, <2>1, <2>2
<1> QED
  BY <1>0, <1>1, <1>2 DEF ControlInv, ControlTyped, ClicksLand, ClosesShow

\* What is reported as verified was looked at in that step.
LEMMA VerifiedStep ==
  ASSUME ControlInv, [ControlNext]_ccVars, ccTask.at # "over", ccTask'.at = "over", ccTask'.verdict = "verified"
  PROVE  CASE ccTask.kind = "focus" -> ccActive \in Found
           [] ccTask.kind = "launch" -> ccApp # "none"
           [] ccTask.kind = "volume" -> ccSinks.default = ListedWindow => ccSinks.level[ListedWindow] = ccTask.x
           [] OTHER -> TRUE
<1>0. ccTask \in CcTaskRecords /\ ccTask' # ccTask /\ ccActive \in {0} \cup DOMAIN ccWins
  BY DEF ControlInv, ControlTyped
<1>1. ASSUME NEW v \in {"refused", "unverified", "failed", "verified"}, ControlEnds(v) PROVE v = "verified"
  BY <1>1, TaskEnded
<1>2. ASSUME NEW step \in CcSteps, To(step) PROVE step = "over"
  BY <1>2, TaskWent
<1>3. CASE ccTask.kind = "focus"
  <2>1. ASSUME NEW k \in CcKinds, NEW x, BeginControl(k, x) PROVE FALSE
    <3>1. PICK step \in {"bounds", "go"} : step = IF k \in Pointing THEN "bounds" ELSE "go"
      OBVIOUS
    <3>2. ccTask' = [NoTask EXCEPT !.kind = k, !.x = x, !.at = step]
      BY <2>1, <3>1 DEF BeginControl
    <3>3. ccTask'.at = step
      BY <3>2 DEF NoTask
    <3> QED
      BY <3>3
  <2>2. FocusWindow \/ SeeFocus
    BY <1>0, <1>3, <2>1 DEF ControlNext, ccVars, Desktop, UserMoves, ScreenTurns, ReadBackGoes, BoundsExpire, WindowCloses, Activates,
       AppTurns, SinkTurns, DesktopUpset, Reported, CheckOnScreen, Travel, Press, ReadPointer, SendKeys, CloseWindow, SeeGone,
       NotSeenGone, LaunchApp, SeeAlive, SetVolume, ReadVolume, ControlAt, CcKinds, Pointing, Clicks
  <2>3. ~FocusWindow
    <3>1. FocusWindow => To("see") \/ ControlEnds("failed")
      BY DEF FocusWindow
    <3> QED
      BY <1>1, <1>2, <3>1 DEF CcSteps
  <2>4. ccActive # 0 /\ ccWins[ccActive] = "asked"
    BY <1>1, <2>2, <2>3 DEF SeeFocus
  <2> QED
    BY <1>0, <1>3, <2>4 DEF Found
<1>4. CASE ccTask.kind \in {"launch", "volume"}
  <2>1. ASSUME NEW k \in CcKinds, NEW x, BeginControl(k, x) PROVE FALSE
    <3>1. PICK step \in {"bounds", "go"} : step = IF k \in Pointing THEN "bounds" ELSE "go"
      OBVIOUS
    <3>2. ccTask' = [NoTask EXCEPT !.kind = k, !.x = x, !.at = step]
      BY <2>1, <3>1 DEF BeginControl
    <3>3. ccTask'.at = step
      BY <3>2 DEF NoTask
    <3> QED
      BY <3>3
  <2>2. (\E o \in {"runs", "dies", "refused"} : LaunchApp(o)) \/ SeeAlive \/ SetVolume \/ ReadVolume
    BY <1>0, <1>4, <2>1 DEF ControlNext, ccVars, Desktop, UserMoves, ScreenTurns, ReadBackGoes, BoundsExpire, WindowCloses, Activates,
       AppTurns, SinkTurns, DesktopUpset, Reported, CheckOnScreen, Travel, Press, ReadPointer, SendKeys, CloseWindow, SeeGone,
       NotSeenGone, FocusWindow, SeeFocus, ControlAt, CcKinds, Pointing, Clicks
  <2>3. ASSUME NEW o \in {"runs", "dies", "refused"}, LaunchApp(o) PROVE FALSE
    <3>1. To("alive") \/ ControlEnds("failed")
      BY <2>3 DEF LaunchApp
    <3> QED
      BY <1>1, <1>2, <3>1 DEF CcSteps
  <2>4. ~SetVolume
    <3>1. SetVolume => To("listen")
      BY DEF SetVolume
    <3> QED
      BY <1>2, <3>1 DEF CcSteps
  <2>5. CASE SeeAlive
    BY <1>1, <2>5 DEF SeeAlive, Alive, ControlAt
  <2>6. CASE ReadVolume
    BY <1>1, <2>6 DEF ReadVolume, LevelVerdict, ControlAt
  <2> QED
    BY <2>2, <2>3, <2>4, <2>5, <2>6
<1> QED
  BY <1>3, <1>4

\* The part of MachineTellsTheTruth that is about pointer, windows, programs and
\* sound (computer-control.ts, system-audio.ts).
LEMMA ControlHonest == ControlSpec => [](VerifiedClickHit /\ VerifiedCloseClosed) /\ VerifiedWasSeen
<1>1. ControlInit => ControlInv
  <2> SUFFICES ASSUME ControlInit PROVE ControlInv
    OBVIOUS
  <2>1. ccTask = [kind |-> "none", at |-> "idle", x |-> 0, stops |-> 0, hit |-> -1, seen |-> 0, target |-> 0, verdict |-> "none"]
    BY DEF ControlInit, NoTask, NoHit
  <2>2. ccTask \in CcTaskRecords /\ ccTask.verdict = "none" /\ ccTask.kind = "none"
    BY <2>1 DEF CcTaskRecords, CcSteps, CcKinds
  <2> QED
    BY <2>2 DEF ControlInit, ControlInv, ControlTyped, ClicksLand, ClosesShow, Clicks
<1>2. ControlInv /\ [ControlNext]_ccVars => ControlInv'
  <2>1. ASSUME ControlInv, UNCHANGED ccVars PROVE ControlInv'
    BY <2>1 DEF ccVars, ControlInv, ControlTyped, ClicksLand, ClosesShow, Clamp, Found
  <2>2. ASSUME ControlInv, ControlNext PROVE ControlInv'
    BY <2>2, DesktopKeeps, ControlStarts, MouseKeeps, WindowsKeep, LaunchKeeps DEF ControlNext
  <2> QED
    BY <2>1, <2>2
<1>3. ControlInv => VerifiedClickHit /\ VerifiedCloseClosed
  BY DEF ControlInv, ClicksLand, ClosesShow, VerifiedClickHit, VerifiedCloseClosed, VerifiedOf
<1>4. ControlInv /\ [ControlNext]_ccVars
        => [ccTask.at # "over" /\ ccTask'.at = "over" /\ ccTask'.verdict = "verified"
              => CASE ccTask.kind = "focus" -> ccActive \in Found
                   [] ccTask.kind = "launch" -> ccApp # "none"
                   [] ccTask.kind = "volume" -> ccSinks.default = ListedWindow => ccSinks.level[ListedWindow] = ccTask.x
                   [] OTHER -> TRUE]_ccVars
  BY VerifiedStep
<1> QED
  BY <1>1, <1>2, <1>3, <1>4, PTL DEF ControlSpec, VerifiedWasSeen

-----------------------------------------------------------------------------
(* The machine's processes *)

PtSteps == {"none", "observe", "term", "poll", "kill", "success", "failed"}
KillRecords == [step : PtSteps, pid : PtPids \cup {0}, force : BOOLEAN, who : Nat, escalated : BOOLEAN, blind : BOOLEAN]

\* A process has a number of its own, which no process started later has.
NumbersAreOwn ==
  /\ ptStarted \in Nat /\ DOMAIN ptWho = PtPids
  /\ \A p \in PtPids : ptWho[p] \in Nat /\ ptWho[p] <= ptStarted
  /\ \A p, q \in PtPids : p # q /\ ptWho[p] # 0 => ptWho[p] # ptWho[q]

\* The process that was observed runs behind the pid asked for or no more.
ObservedIsKept ==
  /\ ptKill \in KillRecords /\ ptKill.who <= ptStarted
  /\ ptKill.step \notin {"none", "success", "failed"} => ptKill.pid \in PtPids
  /\ ptKill.step \in {"term", "poll", "kill"} => ptKill.who # 0 /\ \A p \in PtPids : p # ptKill.pid => ptWho[p] # ptKill.who
  /\ ptKill.step = "success" /\ ~ptKill.blind => ptKill.who # 0 /\ \A p \in PtPids : ptWho[p] # ptKill.who

ShellsInv ==
  \A s \in PtShells :
    /\ ptShell[s] = "runs" /\ s \notin ptOpen => s \in ptHit
    /\ ptShell[s] = "runs" /\ s \in ptOpen => s \in ptHeld

ProcessInv == NumbersAreOwn /\ ObservedIsKept /\ ShellsInv /\ DOMAIN ptShell = PtShells

LEMMA PidsMove ==
  ASSUME ProcessInv, NEW p \in PtPids, ProcessStarts(p) \/ ProcessEnds(p), UNCHANGED <<ptKillVars, ptShellVars>>
  PROVE  ProcessInv'
<1>0. NumbersAreOwn /\ ObservedIsKept
  BY DEF ProcessInv
<1>1. PICK n \in Nat : ptWho' = [ptWho EXCEPT ![p] = n] /\ (n # 0 => ptStarted' = ptStarted + 1 /\ n = ptStarted + 1)
                       /\ (n = 0 => ptStarted' = ptStarted)
  BY <1>0 DEF ProcessStarts, ProcessEnds, NumbersAreOwn
<1>2. DOMAIN ptWho' = PtPids /\ ptWho'[p] = n /\ \A q \in PtPids : q # p => ptWho'[q] = ptWho[q]
  BY <1>0, <1>1 DEF NumbersAreOwn
<1>3. NumbersAreOwn'
  BY <1>0, <1>1, <1>2 DEF NumbersAreOwn
<1>4. UNCHANGED ptKill /\ ptKill.who \in Nat /\ ptStarted' >= ptStarted /\ (n = ptKill.who => n = 0)
  BY <1>0, <1>1 DEF ptKillVars, ObservedIsKept, KillRecords, NumbersAreOwn
<1>5. ObservedIsKept'
  BY <1>0, <1>1, <1>2, <1>4 DEF ObservedIsKept, NumbersAreOwn
<1> QED
  BY <1>3, <1>5 DEF ProcessInv, ShellsInv, ptShellVars

\* A pid that is emptied, or none is.
LEMMA SignalHits ==
  ASSUME ProcessInv, ptWho' = ptWho \/ (ptKill.pid \in PtPids /\ ptWho' = [ptWho EXCEPT ![ptKill.pid] = 0]), UNCHANGED ptStarted
  PROVE  NumbersAreOwn' /\ \A p \in PtPids : ptWho'[p] = ptWho[p] \/ ptWho'[p] = 0
<1>1. DOMAIN ptWho' = PtPids /\ \A p \in PtPids : ptWho'[p] = ptWho[p] \/ ptWho'[p] = 0
  BY DEF ProcessInv, NumbersAreOwn
<1> QED
  BY <1>1 DEF ProcessInv, NumbersAreOwn

LEMMA KillGoesOn ==
  ASSUME ProcessInv, KillMoves
  PROVE  ProcessInv'
<1>0. NumbersAreOwn /\ ObservedIsKept /\ ptKill \in KillRecords /\ UNCHANGED <<ptStarted, ptShell, ptOpen, ptHeld, ptHit>>
  BY DEF ProcessInv, KillMoves, ObservedIsKept, ptShellVars
<1>1. ShellsInv' /\ DOMAIN ptShell' = PtShells
  BY <1>0 DEF ProcessInv, ShellsInv
<1>2. ASSUME NEW step \in PtSteps, KillStep(step)
      PROVE  /\ ptKill' \in KillRecords /\ ptKill'.step = step /\ ptKill'.pid = ptKill.pid /\ ptKill'.who = ptKill.who
             /\ ptKill'.blind = ptKill.blind
  BY <1>0, <1>2 DEF KillStep, KillRecords
<1>3. ASSUME KillStep("failed"), UNCHANGED ptWho PROVE ProcessInv'
  <2>1. ptKill' \in KillRecords /\ ptKill'.step = "failed" /\ ptKill'.who = ptKill.who
    BY <1>2, <1>3 DEF PtSteps
  <2>2. ObservedIsKept'
    BY <1>0, <2>1 DEF ObservedIsKept
  <2> QED
    BY <1>0, <1>1, <1>3, <2>2 DEF ProcessInv, NumbersAreOwn
<1>4. ASSUME NEW p \in PtPids, NEW force \in BOOLEAN, KillAsked(p, force) PROVE ProcessInv'
  <2>1. ptKill' = [step |-> "observe", pid |-> p, force |-> force, who |-> 0, escalated |-> FALSE, blind |-> FALSE]
        /\ UNCHANGED ptWho
    BY <1>4 DEF KillAsked, NoKill
  <2>2. ptKill' \in KillRecords /\ ptKill'.step = "observe" /\ ptKill'.who = 0 /\ ptKill'.pid = p
    BY <2>1 DEF KillRecords, PtSteps
  <2>3. ObservedIsKept'
    BY <1>0, <2>2 DEF ObservedIsKept, NumbersAreOwn
  <2> QED
    BY <1>0, <1>1, <2>1, <2>3 DEF ProcessInv, NumbersAreOwn
<1>5. CASE ObserveProcess /\ ~KillStep("failed")
  <2>1. /\ ptKill.step = "observe" /\ ptKill.pid \in PtPids /\ UNCHANGED ptWho
        /\ ptKill' = [ptKill EXCEPT !.step = IF ptWho[ptKill.pid] = 0 THEN "failed" ELSE "term", !.who = ptWho[ptKill.pid]]
    BY <1>0, <1>5 DEF ObserveProcess, Unhurt, ObservedIsKept
  <2>2. PICK n \in Nat, step \in {"failed", "term"} :
          /\ n = ptWho[ptKill.pid] /\ n <= ptStarted /\ step = IF n = 0 THEN "failed" ELSE "term"
          /\ ptKill' = [ptKill EXCEPT !.step = step, !.who = n]
    BY <1>0, <2>1 DEF NumbersAreOwn
  <2>3. ptKill' \in KillRecords /\ ptKill'.step = step /\ ptKill'.who = n /\ ptKill'.pid = ptKill.pid
    BY <1>0, <2>2 DEF KillRecords, PtSteps
  <2>4. n # 0 => \A p \in PtPids : p # ptKill.pid => ptWho[p] # n
    BY <1>0, <2>1, <2>2 DEF NumbersAreOwn
  <2>5. ObservedIsKept'
    BY <1>0, <2>1, <2>2, <2>3, <2>4 DEF ObservedIsKept
  <2> QED
    BY <1>0, <1>1, <2>1, <2>5 DEF ProcessInv, NumbersAreOwn
<1>6. ASSUME ptKill.step \in {"term", "kill"}, ptWho' \in {ptWho, [ptWho EXCEPT ![ptKill.pid] = 0]},
             ptKill' \in KillRecords, ptKill'.step = "poll", ptKill'.pid = ptKill.pid, ptKill'.who = ptKill.who
      PROVE  ProcessInv'
  <2>1. NumbersAreOwn' /\ \A p \in PtPids : ptWho'[p] = ptWho[p] \/ ptWho'[p] = 0
    BY <1>0, <1>6, SignalHits DEF ObservedIsKept
  <2>2. ObservedIsKept'
    BY <1>0, <1>6, <2>1 DEF ObservedIsKept
  <2> QED
    BY <1>1, <2>1, <2>2 DEF ProcessInv
<1>7. CASE Term
  <2>1. \/ KillStep("failed") /\ UNCHANGED ptWho
        \/ ptKill.step = "term" /\ KillStep("poll") /\ ptWho' \in {ptWho, [ptWho EXCEPT ![ptKill.pid] = 0]}
    BY <1>7 DEF Term, Signal, Unhurt
  <2> QED
    BY <1>2, <1>3, <1>6, <2>1 DEF PtSteps
<1>8. CASE Escalate
  <2>1. \/ KillStep("failed") /\ UNCHANGED ptWho
        \/ /\ ptKill.step = "kill" /\ ptKill' = [ptKill EXCEPT !.step = "poll", !.escalated = TRUE]
           /\ ptWho' \in {ptWho, [ptWho EXCEPT ![ptKill.pid] = 0]}
    BY <1>8 DEF Escalate, Signal, Unhurt
  <2>2. CASE ptKill' = [ptKill EXCEPT !.step = "poll", !.escalated = TRUE]
    <3>1. ptKill' \in KillRecords /\ ptKill'.step = "poll" /\ ptKill'.pid = ptKill.pid /\ ptKill'.who = ptKill.who
      BY <1>0, <2>2 DEF KillRecords, PtSteps
    <3> QED
      BY <1>3, <1>6, <2>1, <3>1
  <2> QED
    BY <1>3, <2>1, <2>2
<1>9. CASE PollProcess
  <2>1. ptKill.step = "poll" /\ UNCHANGED ptWho /\ ptKill.pid \in PtPids
    BY <1>0, <1>9 DEF PollProcess, Unhurt, ObservedIsKept
  <2>2. CASE Gone /\ KillStep("success")
    <3>1. ptKill' \in KillRecords /\ ptKill'.step = "success" /\ ptKill'.who = ptKill.who
      BY <1>2, <2>2 DEF PtSteps
    <3>2. ObservedIsKept'
      BY <1>0, <2>1, <2>2, <3>1 DEF ObservedIsKept, Gone
    <3> QED
      BY <1>0, <1>1, <2>1, <3>2 DEF ProcessInv, NumbersAreOwn
  <2>3. CASE ptKill' = [ptKill EXCEPT !.step = "success", !.blind = TRUE]
    <3>1. ptKill' \in KillRecords /\ ptKill'.step = "success" /\ ptKill'.blind /\ ptKill'.who = ptKill.who
      BY <1>0, <2>3 DEF KillRecords, PtSteps
    <3>2. ObservedIsKept'
      BY <1>0, <3>1 DEF ObservedIsKept
    <3> QED
      BY <1>0, <1>1, <2>1, <3>2 DEF ProcessInv, NumbersAreOwn
  <2>4. CASE KillStep("kill")
    <3>1. ptKill' \in KillRecords /\ ptKill'.step = "kill" /\ ptKill'.who = ptKill.who /\ ptKill'.pid = ptKill.pid
      BY <1>2, <2>4 DEF PtSteps
    <3>2. ObservedIsKept'
      BY <1>0, <2>1, <3>1 DEF ObservedIsKept
    <3> QED
      BY <1>0, <1>1, <2>1, <3>2 DEF ProcessInv, NumbersAreOwn
  <2> QED
    BY <1>3, <1>9, <2>1, <2>2, <2>3, <2>4 DEF PollProcess
<1>10. CASE ObserveProcess /\ KillStep("failed")
  BY <1>3, <1>10 DEF ObserveProcess, Unhurt
<1> QED
  BY <1>4, <1>5, <1>7, <1>8, <1>9, <1>10 DEF KillMoves

LEMMA ShellsGoOn ==
  ASSUME ProcessInv, ShellMoves
  PROVE  ProcessInv'
<1>1. NumbersAreOwn' /\ ObservedIsKept'
  BY DEF ProcessInv, NumbersAreOwn, ObservedIsKept, ShellMoves, ptKillVars
<1>2. CASE ShutdownShells
  BY <1>1, <1>2 DEF ProcessInv, ShellsInv, ShutdownShells
<1>3. ASSUME NEW s \in PtShells, ShellOpens(s) \/ ShellExits(s) \/ SocketCloses(s) PROVE ProcessInv'
  <2>1. DOMAIN ptShell' = PtShells
    BY <1>3 DEF ShellOpens, ShellExits, SocketCloses, ProcessInv
  <2>2. ShellsInv'
    <3>1. CASE ShellOpens(s)
      BY <3>1 DEF ShellOpens, ProcessInv, ShellsInv
    <3>2. CASE ShellExits(s)
      BY <3>2 DEF ShellExits, ProcessInv, ShellsInv
    <3>3. CASE SocketCloses(s)
      BY <3>3 DEF SocketCloses, HungUp, ProcessInv, ShellsInv
    <3> QED
      BY <1>3, <3>1, <3>2, <3>3
  <2> QED
    BY <1>1, <2>1, <2>2 DEF ProcessInv
<1> QED
  BY <1>2, <1>3 DEF ShellMoves

\* The part of MachineTellsTheTruth that is about processes and shells
\* (process-control.ts, terminal-stream.ts).
LEMMA ProcessHonest == ProcessSpec => [](KillIsSeen /\ ShellsAreTold)
<1>1. ProcessInit => ProcessInv
  <2> SUFFICES ASSUME ProcessInit PROVE ProcessInv
    OBVIOUS
  <2>1. ptKill \in KillRecords /\ ptKill.step = "none" /\ ptKill.who = 0
    BY DEF ProcessInit, NoKill, KillRecords, PtSteps
  <2>2. ObservedIsKept
    BY <2>1 DEF ObservedIsKept, ProcessInit
  <2> QED
    BY <2>2 DEF ProcessInit, ProcessInv, NumbersAreOwn, ShellsInv
<1>2. ProcessInv /\ [ProcessNext]_ptVars => ProcessInv'
  <2>1. ASSUME ProcessInv, UNCHANGED ptVars PROVE ProcessInv'
    BY <2>1 DEF ptVars, ProcessInv, NumbersAreOwn, ObservedIsKept, ShellsInv
  <2>2. ASSUME ProcessInv, ProcessNext PROVE ProcessInv'
    BY <2>2, PidsMove, KillGoesOn, ShellsGoOn DEF ProcessNext
  <2> QED
    BY <2>1, <2>2
<1>3. ProcessInv => KillIsSeen /\ ShellsAreTold
  BY DEF ProcessInv, ObservedIsKept, ShellsInv, KillIsSeen, ShellsAreTold
<1> QED
  BY <1>1, <1>2, <1>3, PTL DEF ProcessSpec

-----------------------------------------------------------------------------
(* What is sampled of the machine *)

\* The sample kept is of the counter when it was told of last.
NetFits ==
  /\ tmNow \in Nat /\ tmBytes \in Nat /\ tmRated \in Nat /\ tmMissed \in BOOLEAN
  /\ tmMoved \in [all : Nat, first : Nat, last : Nat] /\ tmMoved.last <= tmMoved.all
  /\ tmLastNet \in [at : Int, bytes : Nat]
  /\ tmLastNet = NoSample => tmRated = 0 /\ tmMoved.first = 0 /\ tmMoved.last = 0
  /\ tmLastNet # NoSample => tmBytes - tmLastNet.bytes <= tmMoved.all - tmMoved.last
  /\ tmLastNet # NoSample /\ ~tmMissed => tmBytes - tmLastNet.bytes = tmMoved.all - tmMoved.last
  /\ CountedOnce

UseFits ==
  /\ DOMAIN tmProcs = TmPids /\ \A p \in TmPids : tmProcs[p] \in [born : Nat, ticks : Nat]
  /\ DOMAIN tmSeen = DOMAIN tmBefore
  /\ \A p \in DOMAIN tmSeen : tmSeen[p] \in Nat /\ tmBefore[p].ticks = tmSeen[p]

WalkRecords ==
  [d : TmDisplays, at : {"root", "children", "windows", "failed", "headless", "unlisted"}, left : Seq(TmWindows),
   listed : SUBSET TmWindows, windows : SUBSET TmWindows, refused : SUBSET TmDisplays]

\* The displays before the one walked over were refused, and the windows there now
\* were there when they were listed.
WalkFits(w, there) ==
  /\ w.windows \subseteq w.listed /\ Cardinality(w.windows) + Len(w.left) <= TmWindowCap
  /\ w.at \in {"root", "children"} => w.windows = {}
  /\ w.at # "headless" => w.refused = 1..(w.d - 1)
  /\ w.at = "headless" => w.refused = TmDisplays
  /\ w.at = "windows" => there \subseteq w.listed
FittingWalks(there) == {w \in WalkRecords : WalkFits(w, there)}
WalksFit == tmOnScreen \subseteq TmWindows /\ tmWalks \in Seq(FittingWalks(tmOnScreen))

SamplerInv == NetFits /\ UseFits /\ WalksFit

LEMMA FewerWindowsFit ==
  ASSUME NEW there, NEW now, now \subseteq there, NEW walks \in Seq(FittingWalks(there))
  PROVE  walks \in Seq(FittingWalks(now))
<1>1. FittingWalks(there) \subseteq FittingWalks(now)
  BY DEF FittingWalks, WalkFits
<1> QED
  BY <1>1

LEMMA NetworkSampled ==
  ASSUME SamplerInv, SampleNetwork
  PROVE  SamplerInv'
<1>0. NetFits
  BY DEF SamplerInv
<1>1. PICK a \in Nat, f \in Nat, l \in Nat : tmMoved = [all |-> a, first |-> f, last |-> l]
  BY <1>0 DEF NetFits
<1>2. PICK at \in Int, b \in Nat : tmLastNet = [at |-> at, bytes |-> b]
  BY <1>0 DEF NetFits
<1>3. /\ l <= a /\ tmNow \in Nat /\ tmBytes \in Nat /\ tmRated \in Nat /\ tmMissed \in BOOLEAN
      /\ tmRated <= l - f /\ (~tmMissed => tmRated = l - f)
      /\ tmLastNet = NoSample => tmRated = 0 /\ f = 0 /\ l = 0 /\ at = -1
      /\ tmLastNet # NoSample => tmBytes - b <= a - l /\ (~tmMissed => tmBytes - b = a - l)
  BY <1>0, <1>1, <1>2 DEF NetFits, CountedOnce, NoSample
<1>4. tmLastNet' = [at |-> tmNow, bytes |-> tmBytes] /\ UNCHANGED <<tmNow, tmBytes>>
  BY DEF SampleNetwork
<1>5. tmLastNet' # NoSample
  BY <1>3, <1>4 DEF NoSample
<1>6. tmMissed' \in BOOLEAN /\ (~tmMissed' => ~tmMissed /\ tmNow # at)
  <2>1. tmMissed' = (tmMissed \/ tmNow = at)
    BY <1>2 DEF SampleNetwork
  <2> QED
    BY <2>1
<1>7. ASSUME NEW n \in Nat, NEW g \in Nat, tmRated' = n, tmMoved' = [all |-> a, first |-> g, last |-> a],
             n <= a - g, ~tmMissed' => n = a - g
      PROVE  NetFits'
  <2>1. CountedOnce'
    BY <1>7 DEF CountedOnce
  <2>2. tmMoved' \in [all : Nat, first : Nat, last : Nat] /\ tmMoved'.last = a /\ tmMoved'.all = a
    BY <1>7
  <2>3. tmLastNet' \in [at : Int, bytes : Nat] /\ tmLastNet'.bytes = tmBytes'
    BY <1>3, <1>4
  <2>4. tmBytes' - tmLastNet'.bytes = 0 /\ tmMoved'.all - tmMoved'.last = 0
    BY <1>3, <1>4, <2>2, <2>3
  <2> QED
    BY <1>3, <1>4, <1>5, <1>6, <1>7, <2>1, <2>2, <2>3, <2>4 DEF NetFits
<1>8. ASSUME tmLastNet = NoSample PROVE NetFits'
  <2>1. tmRated' = 0
    BY <1>3, <1>8 DEF SampleNetwork
  <2>2. tmMoved' = [all |-> a, first |-> a, last |-> a]
    BY <1>1, <1>8 DEF SampleNetwork
  <2> QED
    BY <1>7, <2>1, <2>2
<1>9. ASSUME tmLastNet # NoSample PROVE NetFits'
  <2>1. PICK told \in Nat : /\ tmRated' = tmRated + told
                            /\ told = IF tmNow = at \/ tmBytes - b < 0 THEN 0 ELSE tmBytes - b
    <3>1. PICK growth \in Int : growth = tmBytes - b
      BY <1>3
    <3>2. tmRated' = tmRated + (IF tmNow = at \/ growth < 0 THEN 0 ELSE growth)
      BY <1>2, <1>9, <3>1 DEF SampleNetwork
    <3> QED
      BY <3>1, <3>2
  <2>2. tmMoved' = [all |-> a, first |-> f, last |-> a]
    BY <1>1, <1>9 DEF SampleNetwork
  <2>3. tmRated + told <= a - f
    BY <1>3, <1>9, <2>1
  <2>4. ~tmMissed' => tmRated + told = a - f
    BY <1>3, <1>6, <1>9, <2>1
  <2>5. tmRated + told \in Nat
    BY <1>3, <2>1
  <2> QED
    BY <1>7, <2>1, <2>2, <2>3, <2>4, <2>5
<1>10. NetFits'
  BY <1>8, <1>9
<1>11. UseFits' /\ WalksFit'
  BY DEF SampleNetwork, SamplerInv, UseFits, WalksFit, tmProcVars, tmScreenVars
<1> QED
  BY <1>10, <1>11 DEF SamplerInv

LEMMA MachineGoesOn ==
  ASSUME SamplerInv,
         \/ \E busy \in SUBSET TmPids, traffic \in {0, 1} : MomentPasses(busy, traffic)
         \/ InterfaceGoes \/ ScreenChanges
         \/ \E p \in TmPids, again \in BOOLEAN : PidEnds(p, again)
  PROVE  SamplerInv'
<1>0. NetFits /\ UseFits /\ WalksFit
  BY DEF SamplerInv
<1>1. PICK a \in Nat, f \in Nat, l \in Nat : tmMoved = [all |-> a, first |-> f, last |-> l]
  BY <1>0 DEF NetFits
<1>2. PICK at \in Int, b \in Nat : tmLastNet = [at |-> at, bytes |-> b]
  BY <1>0 DEF NetFits
<1>3. /\ l <= a /\ tmNow \in Nat /\ tmBytes \in Nat /\ tmRated \in Nat /\ tmMissed \in BOOLEAN
      /\ tmRated <= l - f /\ (~tmMissed => tmRated = l - f)
      /\ tmLastNet = NoSample => tmRated = 0 /\ f = 0 /\ l = 0
      /\ tmLastNet # NoSample => tmBytes - b <= a - l /\ (~tmMissed => tmBytes - b = a - l)
  BY <1>0, <1>1, <1>2 DEF NetFits, CountedOnce
<1>4. ASSUME NEW busy \in SUBSET TmPids, NEW traffic \in {0, 1}, MomentPasses(busy, traffic) PROVE SamplerInv'
  <2>1. /\ tmNow' = tmNow + 1 /\ tmBytes' = tmBytes + traffic /\ UNCHANGED <<tmLastNet, tmRated, tmMissed, tmSeen, tmBefore>>
        /\ tmMoved' = [all |-> a + traffic, first |-> f, last |-> l]
    BY <1>1, <1>4 DEF MomentPasses
  <2>2. CountedOnce'
    BY <1>3, <2>1 DEF CountedOnce
  <2>3. NetFits'
    BY <1>2, <1>3, <2>1, <2>2 DEF NetFits
  <2>4. ASSUME NEW p \in TmPids PROVE tmProcs'[p] \in [born : Nat, ticks : Nat]
    <3>1. tmProcs'[p] = IF p \in busy THEN [tmProcs[p] EXCEPT !.ticks = @ + 1] ELSE tmProcs[p]
      BY <1>4 DEF MomentPasses
    <3>2. tmProcs[p] \in [born : Nat, ticks : Nat]
      BY <1>0 DEF UseFits
    <3> QED
      BY <3>1, <3>2
  <2>5. DOMAIN tmProcs' = TmPids
    BY <1>4 DEF MomentPasses
  <2>6. UseFits'
    BY <1>0, <2>1, <2>4, <2>5 DEF UseFits
  <2>7. WalksFit'
    BY <1>0, <1>4 DEF MomentPasses, WalksFit, tmScreenVars
  <2> QED
    BY <2>3, <2>6, <2>7 DEF SamplerInv
<1>5. CASE InterfaceGoes
  <2>1. tmBytes' = 0 /\ tmMissed' = TRUE /\ tmBytes > 0 /\ UNCHANGED <<tmNow, tmLastNet, tmRated, tmMoved>>
    BY <1>5 DEF InterfaceGoes
  <2>2. CountedOnce'
    BY <1>1, <1>3, <2>1 DEF CountedOnce
  <2>3. NetFits'
    BY <1>1, <1>2, <1>3, <2>1, <2>2 DEF NetFits
  <2>4. UseFits' /\ WalksFit'
    BY <1>0, <1>5 DEF InterfaceGoes, UseFits, WalksFit, tmProcVars, tmScreenVars
  <2> QED
    BY <2>3, <2>4 DEF SamplerInv
<1>6. CASE ScreenChanges
  <2>1. NetFits' /\ UseFits'
    BY <1>0, <1>6 DEF ScreenChanges, NetFits, CountedOnce, UseFits, tmNetVars, tmProcVars
  <2>2. tmOnScreen' \subseteq tmOnScreen /\ tmWalks' = tmWalks
    BY <1>6 DEF ScreenChanges
  <2>3. tmWalks \in Seq(FittingWalks(tmOnScreen')) /\ tmOnScreen' \subseteq TmWindows
    BY <1>0, <2>2, FewerWindowsFit DEF WalksFit
  <2>4. WalksFit'
    BY <2>2, <2>3 DEF WalksFit
  <2> QED
    BY <2>1, <2>4 DEF SamplerInv
<1>7. ASSUME NEW p \in TmPids, NEW again \in BOOLEAN, PidEnds(p, again) PROVE SamplerInv'
  <2>1. NetFits' /\ WalksFit' /\ UNCHANGED <<tmSeen, tmBefore>>
    BY <1>0, <1>7 DEF PidEnds, NetFits, CountedOnce, WalksFit, tmNetVars, tmScreenVars
  <2>2. PICK r : r = IF again THEN [born |-> tmProcs[p].born + 1, ticks |-> 0] ELSE NoProcess
    OBVIOUS
  <2>3. r \in [born : Nat, ticks : Nat]
    BY <1>0, <2>2 DEF NoProcess, UseFits
  <2>4. tmProcs' = [tmProcs EXCEPT ![p] = r]
    BY <1>7, <2>2 DEF PidEnds
  <2>5. UseFits'
    BY <1>0, <2>1, <2>3, <2>4 DEF UseFits
  <2> QED
    BY <2>1, <2>5 DEF SamplerInv
<1> QED
  BY <1>4, <1>5, <1>6, <1>7

\* A walk that goes on stays a walk that fits.
LEMMA WalkGoesOn ==
  ASSUME SamplerInv, NEW i \in DOMAIN tmWalks, NEW w \in FittingWalks(tmOnScreen), WalkStep(i, w), tmNow' = tmNow
  PROVE  SamplerInv' /\ Len(tmWalks') = Len(tmWalks)
<1>1. tmWalks \in Seq(FittingWalks(tmOnScreen)) /\ tmOnScreen' = tmOnScreen
  BY DEF SamplerInv, WalksFit, WalkStep, tmScreenVars
<1>2. tmWalks' = [tmWalks EXCEPT ![i] = w]
  BY DEF WalkStep
<1>3. tmWalks' \in Seq(FittingWalks(tmOnScreen)) /\ Len(tmWalks') = Len(tmWalks)
  BY <1>1, <1>2
<1>4. WalksFit'
  BY <1>1, <1>3 DEF SamplerInv, WalksFit
<1>5. NetFits' /\ UseFits'
  BY DEF WalkStep, SamplerInv, NetFits, CountedOnce, UseFits, tmNetVars, tmProcVars
<1> QED
  BY <1>3, <1>4, <1>5 DEF SamplerInv

LEMMA RootRead ==
  ASSUME SamplerInv, NEW i \in DOMAIN tmWalks, ReadRoot(i)
  PROVE  SamplerInv' /\ Len(tmWalks') = Len(tmWalks)
<1>1. PICK w \in WalkRecords : w = tmWalks[i] /\ WalkFits(w, tmOnScreen)
  BY DEF SamplerInv, WalksFit, FittingWalks
<1>2. PICK top \in Nat : TmDisplays = 1..top
  BY SamplerAssumption, FS_CardinalityType
<1>3. w.at = "root" /\ w.d \in 1..top /\ w.windows = {} /\ w.refused = 1..(w.d - 1)
  BY <1>1, <1>2 DEF ReadRoot, WalkFits, WalkRecords
<1>4. PICK x : /\ WalkStep(i, x)
               /\ x = CASE Opens(w) -> [w EXCEPT !.at = "children"]
                        [] ~tmXTools -> [w EXCEPT !.at = "failed"]
                        [] OTHER -> IF w.d + 1 \in TmDisplays
                                    THEN [NewWalk(w.d + 1) EXCEPT !.refused = w.refused \cup {w.d}]
                                    ELSE [w EXCEPT !.at = "headless", !.refused = w.refused \cup {w.d}]
  BY <1>1 DEF ReadRoot
<1>5. tmNow' = tmNow
  BY <1>4 DEF WalkStep
<1>6. x \in FittingWalks(tmOnScreen)
  <2>1. ASSUME NEW at \in {"children", "failed"}, x = [w EXCEPT !.at = at] PROVE x \in FittingWalks(tmOnScreen)
    <3>1. /\ x \in WalkRecords /\ x.at = at /\ x.d = w.d /\ x.left = w.left /\ x.listed = w.listed /\ x.windows = w.windows
          /\ x.refused = w.refused
      BY <2>1 DEF WalkRecords
    <3> QED
      BY <1>1, <1>3, <3>1 DEF FittingWalks, WalkFits
  <2>2. ASSUME w.d + 1 \in TmDisplays, x = [NewWalk(w.d + 1) EXCEPT !.refused = w.refused \cup {w.d}]
        PROVE  x \in FittingWalks(tmOnScreen)
    <3>1. PICK e \in Seq(TmWindows) : e = << >> /\ Len(e) = 0
      <4>1. << >> \in Seq(TmWindows) /\ Len(<< >>) = 0
        OBVIOUS
      <4> QED
        BY <4>1
    <3>2. PICK d \in TmDisplays, none \in SUBSET TmWindows, gone \in SUBSET TmDisplays :
            d = w.d + 1 /\ none = {} /\ gone = w.refused \cup {w.d}
      <4>1. w.refused \cup {w.d} \in SUBSET TmDisplays
        BY <1>2, <1>3
      <4>2. {} \in SUBSET TmWindows
        OBVIOUS
      <4> QED
        BY <2>2, <4>1, <4>2
    <3>3. x = [d |-> d, at |-> "root", left |-> e, listed |-> none, windows |-> none, refused |-> gone]
      BY <2>2, <3>1, <3>2 DEF NewWalk
    <3>4. x \in WalkRecords
      BY <3>3 DEF WalkRecords
    <3>5. gone = 1..(d - 1)
      BY <1>2, <1>3, <3>2
    <3>6. Cardinality(none) = 0
      BY <3>2, FS_EmptySet
    <3>7. WalkFits(x, tmOnScreen)
      BY <3>1, <3>2, <3>3, <3>5, <3>6, SamplerAssumption DEF WalkFits
    <3> QED
      BY <3>4, <3>7 DEF FittingWalks
  <2>3. ASSUME w.d + 1 \notin TmDisplays, x = [w EXCEPT !.at = "headless", !.refused = w.refused \cup {w.d}]
        PROVE  x \in FittingWalks(tmOnScreen)
    <3>1. w.refused \cup {w.d} = TmDisplays
      BY <1>2, <1>3, <2>3
    <3>2. PICK gone \in SUBSET TmDisplays : gone = TmDisplays
      OBVIOUS
    <3>3. x = [w EXCEPT !.at = "headless", !.refused = gone]
      BY <2>3, <3>1, <3>2
    <3>4. x \in WalkRecords
      BY <3>3 DEF WalkRecords
    <3>5. x.at = "headless" /\ x.refused = gone /\ x.left = w.left /\ x.listed = w.listed /\ x.windows = w.windows
      BY <3>3 DEF WalkRecords
    <3> QED
      BY <1>1, <3>2, <3>4, <3>5 DEF FittingWalks, WalkFits
  <2> QED
    BY <1>4, <2>1, <2>2, <2>3
<1> QED
  BY <1>4, <1>5, <1>6, WalkGoesOn

LEMMA ChildrenRead ==
  ASSUME SamplerInv, NEW i \in DOMAIN tmWalks, ReadChildren(i)
  PROVE  SamplerInv' /\ Len(tmWalks') = Len(tmWalks)
<1>1. PICK w \in WalkRecords : w = tmWalks[i] /\ WalkFits(w, tmOnScreen)
  BY DEF SamplerInv, WalksFit, FittingWalks
<1>2. w.at = "children" /\ w.windows = {} /\ Cardinality(w.windows) = 0
  BY <1>1, FS_EmptySet DEF ReadChildren, WalkFits
<1>3. tmOnScreen \subseteq TmWindows /\ IsFiniteSet(tmOnScreen) /\ Cardinality(tmOnScreen) \in Nat
  BY SamplerAssumption, FS_Subset, FS_CardinalityType DEF SamplerInv, WalksFit
<1>4. CASE Opens(w)
  <2>1. PICK ids \in SetToSeqs(tmOnScreen) :
          WalkStep(i, [w EXCEPT !.at = "windows", !.listed = tmOnScreen,
                                !.left = SubSeq(ids, 1, IF Len(ids) < TmWindowCap THEN Len(ids) ELSE TmWindowCap)])
    BY <1>1, <1>4 DEF ReadChildren
  <2>2. ids \in Seq(TmWindows)
    BY <1>3 DEF SetToSeqs
  <2>3. PICK k \in Nat : k = (IF Len(ids) < TmWindowCap THEN Len(ids) ELSE TmWindowCap) /\ k <= Len(ids) /\ k <= TmWindowCap
    BY <2>2, SamplerAssumption
  <2>4. SubSeq(ids, 1, k) \in Seq(TmWindows) /\ Len(SubSeq(ids, 1, k)) = k
    <3>1. \A j \in 1..k : ids[j] \in TmWindows
      BY <2>2, <2>3
    <3>2. 1 \in Int /\ k \in Int
      OBVIOUS
    <3>3. SubSeq(ids, 1, k) \in Seq(TmWindows) /\ Len(SubSeq(ids, 1, k)) = IF 1 <= k THEN k - 1 + 1 ELSE 0
      BY <3>1, <3>2, SubSeqProperties
    <3> QED
      BY <3>3
  <2>5. PICK ls \in Seq(TmWindows), on \in SUBSET TmWindows : ls = SubSeq(ids, 1, k) /\ Len(ls) = k /\ on = tmOnScreen
    BY <1>3, <2>4
  <2>6. PICK x : x = [w EXCEPT !.at = "windows", !.listed = on, !.left = ls]
    OBVIOUS
  <2>7. WalkStep(i, x)
    BY <2>1, <2>3, <2>5, <2>6
  <2>8. PICK v \in WalkRecords : v = [w EXCEPT !.at = "windows"]
    BY DEF WalkRecords
  <2>9. PICK u \in WalkRecords : u = [v EXCEPT !.listed = on]
    BY DEF WalkRecords
  <2>10. x = [u EXCEPT !.left = ls]
    BY <2>6, <2>8, <2>9 DEF WalkRecords
  <2>11. x \in WalkRecords
    BY <2>10 DEF WalkRecords
  <2>12. x.at = "windows" /\ x.listed = on /\ x.left = ls /\ x.windows = w.windows /\ x.refused = w.refused /\ x.d = w.d
    BY <2>6 DEF WalkRecords
  <2>13. WalkFits(x, tmOnScreen)
    BY <1>1, <1>2, <2>3, <2>5, <2>12, SamplerAssumption DEF WalkFits
  <2>14. tmNow' = tmNow
    BY <2>7 DEF WalkStep
  <2> QED
    BY <2>7, <2>11, <2>13, <2>14, WalkGoesOn DEF FittingWalks
<1>5. CASE ~Opens(w)
  <2>1. PICK x : x = [w EXCEPT !.at = "unlisted"] /\ WalkStep(i, x) /\ tmNow' = tmNow
    BY <1>1, <1>5 DEF ReadChildren, WalkStep
  <2>2. /\ x \in WalkRecords /\ x.at = "unlisted" /\ x.d = w.d /\ x.left = w.left /\ x.listed = w.listed /\ x.windows = w.windows
        /\ x.refused = w.refused
    BY <2>1 DEF WalkRecords
  <2>3. WalkFits(x, tmOnScreen)
    BY <1>1, <1>2, <2>2 DEF WalkFits
  <2> QED
    BY <2>1, <2>2, <2>3, WalkGoesOn DEF FittingWalks
<1> QED
  BY <1>4, <1>5

LEMMA WindowRead ==
  ASSUME SamplerInv, NEW i \in DOMAIN tmWalks, NEW named \in BOOLEAN, ReadWindow(i, named)
  PROVE  SamplerInv' /\ Len(tmWalks') = Len(tmWalks)
<1>1. PICK w \in WalkRecords : w = tmWalks[i] /\ WalkFits(w, tmOnScreen)
  BY DEF SamplerInv, WalksFit, FittingWalks
<1>2. w.at = "windows" /\ w.left # << >> /\ w.left \in Seq(TmWindows) /\ w.windows \in SUBSET TmWindows /\ tmOnScreen \subseteq w.listed
  BY <1>1 DEF ReadWindow, WalkFits, WalkRecords
<1>3. PICK h \in TmWindows, ls \in Seq(TmWindows) : h = Head(w.left) /\ ls = Tail(w.left) /\ Len(ls) = Len(w.left) - 1
  BY <1>2, HeadTailProperties
<1>4. IsFiniteSet(w.windows) /\ Cardinality(w.windows) \in Nat
  BY <1>2, SamplerAssumption, FS_Subset, FS_CardinalityType
<1>5. PICK shown \in SUBSET TmWindows :
        /\ shown = IF named /\ Opens(w) /\ h \in tmOnScreen THEN w.windows \cup {h} ELSE w.windows
        /\ shown \subseteq w.listed /\ Cardinality(shown) <= Cardinality(w.windows) + 1 /\ Cardinality(shown) \in Nat
  <2>1. Cardinality(w.windows \cup {h}) \in {Cardinality(w.windows), Cardinality(w.windows) + 1}
    BY <1>4, FS_AddElement
  <2> QED
    BY <1>1, <1>2, <1>4, <2>1 DEF WalkFits
<1>6. PICK x : x = [w EXCEPT !.left = ls, !.windows = shown] /\ WalkStep(i, x) /\ tmNow' = tmNow
  BY <1>1, <1>3, <1>5 DEF ReadWindow, WalkStep
<1>7. PICK v \in WalkRecords : v = [w EXCEPT !.left = ls]
  BY DEF WalkRecords
<1>8. x = [v EXCEPT !.windows = shown]
  BY <1>6, <1>7 DEF WalkRecords
<1>9. x \in WalkRecords
  BY <1>8 DEF WalkRecords
<1>10. x.at = w.at /\ x.d = w.d /\ x.left = ls /\ x.listed = w.listed /\ x.windows = shown /\ x.refused = w.refused
  BY <1>6 DEF WalkRecords
<1>11. Cardinality(shown) + Len(ls) <= TmWindowCap
  <2>1. Len(w.left) \in Nat /\ Cardinality(w.windows) + Len(w.left) <= TmWindowCap
    BY <1>1, <1>2 DEF WalkFits
  <2> QED
    BY <1>3, <1>4, <1>5, <2>1, SamplerAssumption
<1>12. WalkFits(x, tmOnScreen)
  BY <1>1, <1>2, <1>5, <1>10, <1>11 DEF WalkFits
<1> QED
  BY <1>6, <1>9, <1>12, WalkGoesOn DEF FittingWalks

LEMMA TelemetryAsked ==
  ASSUME SamplerInv, AskTelemetry
  PROVE  SamplerInv' /\ Len(tmWalks') = Len(tmWalks) + 1
<1>1. tmWalks \in Seq(FittingWalks(tmOnScreen)) /\ tmOnScreen' = tmOnScreen /\ tmWalks' = Append(tmWalks, NewWalk(1))
  BY DEF SamplerInv, WalksFit, AskTelemetry, tmScreenVars
<1>2. PICK e \in Seq(TmWindows) : e = << >> /\ Len(e) = 0
  <2>1. << >> \in Seq(TmWindows) /\ Len(<< >>) = 0
    OBVIOUS
  <2> QED
    BY <2>1
<1>3. PICK d \in TmDisplays : d = 1
  <2>1. Cardinality(TmDisplays) \in Nat /\ TmDisplays # {} /\ TmDisplays = 1..Cardinality(TmDisplays)
    BY SamplerAssumption, FS_CardinalityType
  <2> QED
    BY <2>1
<1>4. PICK none \in SUBSET TmWindows : none = {} /\ Cardinality(none) = 0
  BY FS_EmptySet
<1>5. PICK gone \in SUBSET TmDisplays : gone = {}
  OBVIOUS
<1>6. PICK x : x = [d |-> d, at |-> "root", left |-> e, listed |-> none, windows |-> none, refused |-> gone]
  OBVIOUS
<1>7. NewWalk(1) = x
  BY <1>2, <1>3, <1>4, <1>5, <1>6 DEF NewWalk
<1>8. x \in WalkRecords
  BY <1>6 DEF WalkRecords
<1>9. gone = 1..(d - 1)
  BY <1>3, <1>5
<1>10. WalkFits(x, tmOnScreen)
  BY <1>2, <1>4, <1>6, <1>9, SamplerAssumption DEF WalkFits
<1>11. tmWalks' \in Seq(FittingWalks(tmOnScreen)) /\ Len(tmWalks') = Len(tmWalks) + 1
  BY <1>1, <1>7, <1>8, <1>10 DEF FittingWalks
<1>12. WalksFit'
  BY <1>1, <1>11 DEF SamplerInv, WalksFit
<1>13. NetFits' /\ UseFits'
  BY DEF AskTelemetry, SamplerInv, NetFits, CountedOnce, UseFits, tmNetVars, tmProcVars
<1> QED
  BY <1>11, <1>12, <1>13 DEF SamplerInv

\* What is answered of a process is its use since the sample before.
LEMMA TelemetryAnswered ==
  ASSUME SamplerInv, NEW i \in DOMAIN tmWalks, AnswerTelemetry(i)
  PROVE  /\ SamplerInv'
         /\ \A p \in DOMAIN tmTop' :
              /\ p \in DOMAIN tmBefore
              /\ tmTop'[p] <= tmProcs[p].ticks - (IF tmBefore[p].born = tmProcs[p].born THEN tmBefore[p].ticks ELSE 0)
<1>1. PICK walks : walks = FittingWalks(tmOnScreen)
  OBVIOUS
<1>2. tmWalks \in Seq(walks) /\ i \in 1..Len(tmWalks) /\ Len(tmWalks) \in Nat
  BY <1>1 DEF SamplerInv, WalksFit
<1>3. RemoveAt(tmWalks, i) \in Seq(walks)
  <2>1. SubSeq(tmWalks, 1, i - 1) \in Seq(walks)
    <3>1. \A j \in 1..(i - 1) : tmWalks[j] \in walks
      BY <1>2
    <3>2. 1 \in Int /\ i - 1 \in Int
      BY <1>2
    <3> QED
      BY <3>1, <3>2, SubSeqProperties
  <2>2. SubSeq(tmWalks, i + 1, Len(tmWalks)) \in Seq(walks)
    <3>1. \A j \in (i + 1)..Len(tmWalks) : tmWalks[j] \in walks
      BY <1>2
    <3>2. i + 1 \in Int /\ Len(tmWalks) \in Int
      BY <1>2
    <3> QED
      BY <3>1, <3>2, SubSeqProperties
  <2> QED
    BY <2>1, <2>2, ConcatProperties DEF RemoveAt
<1>4. WalksFit'
  <2>1. tmWalks' = RemoveAt(tmWalks, i) /\ tmOnScreen' = tmOnScreen
    BY DEF AnswerTelemetry, tmScreenVars
  <2> QED
    BY <1>1, <1>3, <2>1 DEF SamplerInv, WalksFit
<1>5. NetFits'
  BY DEF AnswerTelemetry, SamplerInv, NetFits, CountedOnce, tmNetVars
<1>6. /\ tmSeen' = [p \in ThereNow |-> tmProcs[p].ticks] /\ tmBefore' = [p \in ThereNow |-> tmProcs[p]] /\ UNCHANGED tmProcs
      /\ tmTop' = [p \in {q \in ThereNow \cap DOMAIN tmSeen : tmProcs[q].ticks >= tmSeen[q]} |-> tmProcs[p].ticks - tmSeen[p]]
  BY DEF AnswerTelemetry, SampleProcesses
<1>7. ThereNow \subseteq TmPids /\ \A p \in TmPids : tmProcs[p].ticks \in Nat /\ tmProcs[p].born \in Nat
  BY DEF ThereNow, SamplerInv, UseFits
<1>8. UseFits'
  <2>1. DOMAIN tmSeen' = ThereNow /\ DOMAIN tmBefore' = ThereNow
    BY <1>6
  <2>2. \A p \in ThereNow : tmSeen'[p] = tmProcs[p].ticks /\ tmBefore'[p] = tmProcs[p]
    BY <1>6
  <2> QED
    BY <1>6, <1>7, <2>1, <2>2 DEF SamplerInv, UseFits
<1>9. ASSUME NEW p \in DOMAIN tmTop'
      PROVE  /\ p \in DOMAIN tmBefore
             /\ tmTop'[p] <= tmProcs[p].ticks - (IF tmBefore[p].born = tmProcs[p].born THEN tmBefore[p].ticks ELSE 0)
  <2>1. p \in TmPids /\ p \in DOMAIN tmSeen /\ tmTop'[p] = tmProcs[p].ticks - tmSeen[p]
    BY <1>6, <1>7, <1>9
  <2>2. p \in DOMAIN tmBefore /\ tmSeen[p] \in Nat /\ tmBefore[p].ticks = tmSeen[p] /\ tmProcs[p].ticks \in Nat
    BY <1>7, <2>1 DEF SamplerInv, UseFits
  <2> QED
    BY <2>1, <2>2
<1> QED
  BY <1>4, <1>5, <1>8, <1>9 DEF SamplerInv

LEMMA SamplerKeeps ==
  ASSUME SamplerInv, [SamplerNext]_samplerVars
  PROVE  /\ SamplerInv'
         /\ Len(tmWalks') < Len(tmWalks) => \E i \in DOMAIN tmWalks : AnswerTelemetry(i)
<1>0. Len(tmWalks) \in Nat
  BY DEF SamplerInv, WalksFit
<1>1. CASE UNCHANGED samplerVars
  <2>1. UNCHANGED <<tmNow, tmBytes, tmLastNet, tmRated, tmMoved, tmMissed, tmProcs, tmSeen, tmBefore, tmOnScreen, tmWalks>>
    BY <1>1 DEF samplerVars, tmNetVars, tmProcVars, tmScreenVars
  <2> QED
    BY <1>0, <2>1 DEF SamplerInv, NetFits, CountedOnce, UseFits, WalksFit
<1>2. CASE \/ \E busy \in SUBSET TmPids, traffic \in {0, 1} : MomentPasses(busy, traffic)
           \/ InterfaceGoes \/ ScreenChanges
           \/ \E p \in TmPids, again \in BOOLEAN : PidEnds(p, again)
  <2>1. tmWalks' = tmWalks
    BY <1>2 DEF MomentPasses, InterfaceGoes, ScreenChanges, PidEnds
  <2> QED
    BY <1>0, <1>2, <2>1, MachineGoesOn
<1>3. CASE SampleNetwork
  <2>1. tmWalks' = tmWalks
    BY <1>3 DEF SampleNetwork
  <2> QED
    BY <1>0, <1>3, <2>1, NetworkSampled
<1>4. CASE AskTelemetry
  BY <1>0, <1>4, TelemetryAsked
<1>5. ASSUME NEW i \in DOMAIN tmWalks, ReadRoot(i) \/ ReadChildren(i) \/ \E named \in BOOLEAN : ReadWindow(i, named)
      PROVE  SamplerInv' /\ Len(tmWalks') = Len(tmWalks)
  BY <1>5, RootRead, ChildrenRead, WindowRead
<1>6. ASSUME NEW i \in DOMAIN tmWalks, AnswerTelemetry(i) PROVE SamplerInv'
  BY <1>6, TelemetryAnswered
<1> QED
  BY <1>0, <1>1, <1>2, <1>3, <1>4, <1>5, <1>6 DEF SamplerNext

LEMMA SamplerBegins ==
  ASSUME SamplerInit
  PROVE  SamplerInv
<1>1. NetFits
  <2>1. tmMoved = [all |-> 0, first |-> 0, last |-> 0] /\ tmRated = 0 /\ tmMissed = FALSE /\ tmNow = 1 /\ tmBytes = 0
        /\ tmLastNet = NoSample
    BY DEF SamplerInit
  <2>2. tmLastNet \in [at : Int, bytes : Nat]
    BY <2>1 DEF NoSample
  <2>3. CountedOnce
    BY <2>1 DEF CountedOnce
  <2>4. tmMoved \in [all : Nat, first : Nat, last : Nat] /\ tmMoved.all = 0 /\ tmMoved.first = 0 /\ tmMoved.last = 0
    BY <2>1
  <2>5. tmNow \in Nat /\ tmBytes \in Nat /\ tmRated \in Nat /\ tmMissed \in BOOLEAN /\ tmRated = 0 /\ tmLastNet = NoSample
    BY <2>1
  <2> QED
    BY <2>2, <2>3, <2>4, <2>5 DEF NetFits
<1>2. UseFits
  <2>1. \A p \in TmPids : tmProcs[p] = [born |-> 1, ticks |-> 0]
    BY DEF SamplerInit
  <2>2. DOMAIN tmProcs = TmPids /\ DOMAIN tmSeen = {} /\ DOMAIN tmBefore = {}
    BY DEF SamplerInit
  <2> QED
    BY <2>1, <2>2 DEF UseFits
<1>3. WalksFit
  BY DEF SamplerInit, WalksFit
<1> QED
  BY <1>1, <1>2, <1>3 DEF SamplerInv

\* The part of MachineTellsTheTruth that is about what is sampled
\* (system-telemetry.ts).
LEMMA SamplerHonest == SamplerSpec => [](CountedOnce /\ WalkIsHonest) /\ UseIsOwn
<1>1. SamplerInit => SamplerInv
  BY SamplerBegins
<1>2. SamplerInv /\ [SamplerNext]_samplerVars => SamplerInv'
  BY SamplerKeeps
<1>3. SamplerInv => CountedOnce /\ WalkIsHonest
  <2> SUFFICES ASSUME SamplerInv PROVE WalkIsHonest
    BY DEF SamplerInv, NetFits
  <2>1. ASSUME NEW i \in DOMAIN tmWalks
        PROVE  LET w == tmWalks[i] IN
                 /\ w.windows \subseteq w.listed /\ Cardinality(w.windows) + Len(w.left) <= TmWindowCap
                 /\ w.at \in {"children", "windows", "unlisted"} => w.d \notin w.refused
                 /\ w.at = "headless" => w.refused = TmDisplays
    <3>1. PICK w \in WalkRecords : w = tmWalks[i] /\ WalkFits(w, tmOnScreen)
      BY DEF SamplerInv, WalksFit, FittingWalks
    <3>2. w.d \in Int
      <4>1. PICK top \in Nat : TmDisplays = 1..top
        BY SamplerAssumption, FS_CardinalityType
      <4> QED
        BY <4>1 DEF WalkRecords
    <3>3. w.d \notin 1..(w.d - 1)
      BY <3>2
    <3> QED
      BY <3>1, <3>3 DEF WalkFits
  <2> QED
    BY <2>1 DEF WalkIsHonest
<1>4. SamplerInv /\ [SamplerNext]_samplerVars
        => [Len(tmWalks') < Len(tmWalks) =>
              \A p \in DOMAIN tmTop' :
                /\ p \in DOMAIN tmBefore
                /\ tmTop'[p] <= tmProcs[p].ticks - (IF tmBefore[p].born = tmProcs[p].born THEN tmBefore[p].ticks ELSE 0)]_samplerVars
  BY SamplerKeeps, TelemetryAnswered
<1> QED
  BY <1>1, <1>2, <1>3, <1>4, PTL DEF SamplerSpec, UseIsOwn

\* What the tools that work on the machine report as verified was seen there, and
\* what is sampled of it is its own (computer-control.ts, process-control.ts,
\* terminal-stream.ts, system-telemetry.ts).
THEOREM MachineAlwaysTrue == ControlSpec /\ ProcessSpec /\ SamplerSpec => MachineTellsTheTruth
BY ControlHonest, ProcessHonest, SamplerHonest, PTL DEF MachineTellsTheTruth
==============================================================================
