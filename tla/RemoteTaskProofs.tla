--------------------------- MODULE RemoteTaskProofs ---------------------------
(***************************************************************************)
(* RemoteTask proved for every finite set of tasks and any number of turns,*)
(* tool calls and connections: what the Body shows is what the Brain       *)
(* decided, one action of a task is under way at a time, and the two ends  *)
(* together implement TaskPromise.                                         *)
(***************************************************************************)
EXTENDS RemoteTask, SequenceTheorems, FunctionTheorems, FiniteSetTheorems, TLAPS

-----------------------------------------------------------------------------
(* The inductive invariant *)

BodyFrames ==
    [type : {"ready"}]
    \cup [type : {"task_update", "task_complete", "task_failed", "error"}, task : Tasks]
    \cup [type : {"task_action"}, act : Actions]
BrainFrames ==
    [type : {"task_start", "task_cancel"}, task : Tasks]
    \cup [type : {"action_result"}, act : Actions,
          outcome : {"allowed", "failed", "denied", "rejected"}]

FramesOK ==
    /\ toBody \in Seq(BodyFrames)
    /\ toBrain \in [Conns -> Seq(BrainFrames)]

\* An action frame the Body has not handled, and a result the Brain has not.
OnWire(a) == \E i \in DOMAIN toBody : toBody[i].type = "task_action" /\ toBody[i].act = a
Answered(a) ==
    \E g \in Conns : \E i \in DOMAIN toBrain[g] :
      toBrain[g][i].type = "action_result" /\ toBrain[g][i].act = a

\* The running task has no outcome yet, and its calls stay within its turns.
SessionOpen ==
    session # NoSession =>
      /\ outcome[session.task] = "none"
      /\ session.at = "chat" => session.n <= (session.turn - 1) * MaxCalls
      /\ session.at = "await" =>
           session.n >= 1 /\ session.n + session.left <= session.turn * MaxCalls

\* What the Brain knows of a task came from the Body.
TasksAreUsed ==
    /\ \A t \in Tasks : outcome[t] # "none" => t \in used
    /\ session # NoSession => session.task \in used
    /\ \A g \in Conns : \A i \in DOMAIN toBrain[g] :
         toBrain[g][i].type = "task_start" => toBrain[g][i].task \in used

\* An action not requested yet is not known to anybody.
Requested(a) ==
    \/ outcome[a.task] # "none"
    \/ session # NoSession /\ session.task = a.task /\ a.n <= session.n
FreshIsUnknown ==
    \A a \in Actions : ~Requested(a) => doing[a] = "none" /\ ~OnWire(a) /\ ~Answered(a)

\* An action travels to the Body once, and is answered after that.
SentOnce ==
    \A i \in DOMAIN toBody : toBody[i].type = "task_action" =>
      /\ doing[toBody[i].act] = "none"
      /\ \A j \in DOMAIN toBody :
           toBody[j].type = "task_action" /\ toBody[j].act = toBody[i].act => j = i
AnsweredIsDone == \A a \in Actions : Answered(a) => doing[a] = "done" /\ ~OnWire(a)

\* What is under way is awaited, or its task was given up.
AttendedTo ==
    \A a \in Actions : OnWire(a) \/ doing[a] \in {"prompt", "running"} =>
      \/ session.at = "await" /\ a = Awaited
      \/ outcome[a.task] \in {"failed", "cancelled"}

\* Of one task there is one of those, and none once it is completed.
OneUnderWay ==
    \A a, b \in Actions :
      /\ a.task = b.task
      /\ OnWire(a) \/ doing[a] \in {"prompt", "running"}
      /\ OnWire(b) \/ doing[b] \in {"prompt", "running"}
      => a = b

\* A completion under way is true and the last word on its task.
About(f, t) ==
    \/ f.type \in {"task_update", "task_complete", "task_failed"} /\ f.task = t
    \/ f.type = "task_action" /\ f.act.task = t
LastWord ==
    \A i \in DOMAIN toBody : toBody[i].type = "task_complete" =>
      /\ outcome[toBody[i].task] = "completed"
      /\ \A j \in DOMAIN toBody : j > i => ~About(toBody[j], toBody[i].task)
ShownIsLast ==
    task # NoTask /\ task.state = "completed" =>
      \A i \in DOMAIN toBody : ~About(toBody[i], task.id)

\* The part of it about frames and actions ...
Busy(a) == OnWire(a) \/ doing[a] \in {"prompt", "running"}
WireInv ==
    /\ FramesOK /\ TasksAreUsed /\ FreshIsUnknown /\ SentOnce /\ AnsweredIsDone
    /\ AttendedTo /\ OneUnderWay /\ LastWord /\ ShownIsLast /\ NeverFakeCompletion

\* ... and the whole.  The ids drawn so far are finitely many, and so are the
\* prompts that clearing the task denies one by one.
TaskInv == WireInv /\ StaysReachable /\ SessionOpen /\ IsFiniteSet(used)

-----------------------------------------------------------------------------
(* Sequences of frames *)

LEMMA TailFacts ==
    ASSUME NEW S, NEW s \in Seq(S), s # << >>
    PROVE  /\ Tail(s) \in Seq(S) /\ Head(s) = s[1] /\ Head(s) \in S /\ 1 \in DOMAIN s
           /\ \A i \in DOMAIN Tail(s) :
                i + 1 \in DOMAIN s /\ i + 1 # 1 /\ Tail(s)[i] = s[i + 1]
           /\ \A i, j \in DOMAIN Tail(s) : (j > i => j + 1 > i + 1) /\ (i + 1 = j + 1 => i = j)
           /\ \A i \in DOMAIN Tail(s) : i + 1 > 1
OBVIOUS

LEMMA ConcatFacts ==
    ASSUME NEW S, NEW s \in Seq(S), NEW f \in Seq(S)
    PROVE  /\ s \o f \in Seq(S)
           /\ \A i \in DOMAIN s : i \in DOMAIN (s \o f) /\ (s \o f)[i] = s[i]
           /\ \A i \in DOMAIN (s \o f) : i \notin DOMAIN s =>
                /\ i - Len(s) \in DOMAIN f /\ (s \o f)[i] = f[i - Len(s)]
                /\ \A j \in DOMAIN (s \o f) : j > i => j \notin DOMAIN s /\ j - Len(s) > i - Len(s)
<1> DEFINE c == s \o f
<1>1. /\ Len(s) \in Nat /\ Len(f) \in Nat
      /\ DOMAIN s = 1..Len(s) /\ DOMAIN f = 1..Len(f) /\ DOMAIN c = 1..(Len(s) + Len(f))
      /\ \A i \in 1..(Len(s) + Len(f)) : c[i] = IF i <= Len(s) THEN s[i] ELSE f[i - Len(s)]
  BY ConcatProperties
<1>2. c \in Seq(S)
  OBVIOUS
<1> HIDE DEF c
<1> QED
  BY <1>1, <1>2 DEF c

\* What a frame of the Brain's queues can become: nothing new appears there.
Fewer ==
    /\ toBrain' \in [Conns -> Seq(BrainFrames)]
    /\ \A g \in Conns : \A i \in DOMAIN toBrain'[g] :
         \E j \in DOMAIN toBrain[g] : toBrain'[g][i] = toBrain[g][j]

LEMMA FewerAnswers ==
    ASSUME Fewer, NEW a, Answered(a)'
    PROVE  Answered(a)
BY DEF Fewer, Answered

-----------------------------------------------------------------------------
(* What a step of the Brain does to the frames and actions *)

\* A frame that says nothing of a task's course, or nothing at all.
LEMMA BrainStands ==
    ASSUME WireInv, TypeOK, Fewer,
           UNCHANGED <<task, doing, used, session, outcome>>,
           NEW f \in Seq(BodyFrames), \A i \in DOMAIN f : f[i].type = "error",
           toBody' = toBody \/ toBody' = toBody \o f
    PROVE  WireInv'
<1>1. /\ toBody \in Seq(BodyFrames) /\ toBody' \in Seq(BodyFrames)
      /\ \A i \in DOMAIN toBody : i \in DOMAIN toBody' /\ toBody'[i] = toBody[i]
      /\ \A i \in DOMAIN toBody' : i \notin DOMAIN toBody => toBody'[i].type = "error"
  <2>1. CASE toBody' = toBody
    BY <2>1 DEF WireInv, FramesOK
  <2>2. CASE toBody' = toBody \o f
    BY <2>2, ConcatFacts DEF WireInv, FramesOK
  <2> QED
    BY <2>1, <2>2
<1>2. \A i \in DOMAIN toBody' : toBody'[i].type # "error" => i \in DOMAIN toBody /\ toBody'[i] = toBody[i]
  BY <1>1
<1>3. \A a : OnWire(a)' => OnWire(a)
  BY <1>2 DEF OnWire
<1>4. \A a : Answered(a)' => Answered(a)
  BY FewerAnswers
<1>5. FramesOK' /\ TasksAreUsed'
  BY <1>1 DEF WireInv, FramesOK, TasksAreUsed, Fewer
<1>6. FreshIsUnknown'
  BY <1>3, <1>4 DEF WireInv, FreshIsUnknown, Requested
<1>7. SentOnce' /\ AnsweredIsDone'
  BY <1>2, <1>3, <1>4 DEF WireInv, SentOnce, AnsweredIsDone
<1>8. AttendedTo' /\ OneUnderWay'
  BY <1>3 DEF WireInv, AttendedTo, OneUnderWay, Awaited
<1>9. LastWord'
  BY SMTT(30), <1>1, <1>2 DEF WireInv, LastWord, About
<1>10. ShownIsLast' /\ NeverFakeCompletion'
  BY <1>1, <1>2 DEF WireInv, ShownIsLast, NeverFakeCompletion, About
<1> QED
  BY <1>5, <1>6, <1>7, <1>8, <1>9, <1>10 DEF WireInv

\* The outcome of a task, the running one or one that is refused at its start.
LEMMA BrainEndsTask ==
    ASSUME WireInv, TypeOK, Fewer, UNCHANGED <<task, doing, used>>,
           NEW t \in Tasks, NEW o \in Outcomes, outcome[t] = "none", t \in used,
           session # NoSession => session.task = t,
           session' = NoSession, outcome' = [outcome EXCEPT ![t] = o],
           o = "completed" => \A a \in Actions : a.task = t => ~Busy(a),
           NEW f \in Seq(BodyFrames),
           \A i \in DOMAIN f :
             /\ f[i].type \in {"task_update", "task_failed", "task_complete"} /\ f[i].task = t
             /\ f[i].type = "task_complete" => o = "completed" /\ \A j \in DOMAIN f : ~(j > i),
           toBody' = toBody \/ toBody' = toBody \o f
    PROVE  WireInv'
<1>1. /\ toBody \in Seq(BodyFrames) /\ toBody' \in Seq(BodyFrames)
      /\ \A i \in DOMAIN toBody : i \in DOMAIN toBody' /\ toBody'[i] = toBody[i]
      /\ \A i \in DOMAIN toBody' : i \notin DOMAIN toBody =>
           /\ toBody'[i].type \in {"task_update", "task_failed", "task_complete"}
           /\ toBody'[i].task = t
           /\ toBody'[i].type = "task_complete" =>
                o = "completed" /\ \A j \in DOMAIN toBody' : ~(j > i)
  <2>1. CASE toBody' = toBody
    BY <2>1 DEF WireInv, FramesOK
  <2>2. CASE toBody' = toBody \o f
    BY <2>2, ConcatFacts DEF WireInv, FramesOK
  <2> QED
    BY <2>1, <2>2
<1>2. /\ \A a : OnWire(a)' => OnWire(a)
      /\ \A a : Answered(a)' => Answered(a)
  BY <1>1, FewerAnswers DEF OnWire
<1>3. /\ outcome'[t] = o /\ o # "none"
      /\ \A u \in Tasks : u # t => outcome'[u] = outcome[u]
      /\ \A a \in Actions : a.task \in Tasks
  BY DEF TypeOK, Outcomes, Actions
<1>4. FramesOK' /\ TasksAreUsed'
  BY <1>1, <1>3 DEF WireInv, FramesOK, TasksAreUsed, Fewer
<1>5. FreshIsUnknown'
  BY <1>2, <1>3 DEF WireInv, FreshIsUnknown, Requested
<1>6. SentOnce' /\ AnsweredIsDone'
  BY <1>1, <1>2 DEF WireInv, SentOnce, AnsweredIsDone
<1>7. AttendedTo'
  <2> SUFFICES ASSUME NEW a \in Actions, Busy(a)
               PROVE  outcome'[a.task] \in {"failed", "cancelled"}
    BY <1>2 DEF AttendedTo, Busy
  <2>1. CASE outcome[a.task] \in {"failed", "cancelled"}
    BY <1>3, <2>1
  <2>2. CASE session.at = "await" /\ a = Awaited
    <3>1. a.task = t
      BY <2>2 DEF Awaited, NoSession
    <3> QED
      BY <1>3, <3>1 DEF Outcomes
  <2> QED
    BY <2>1, <2>2 DEF WireInv, AttendedTo, Busy
<1>8. OneUnderWay'
  BY <1>2 DEF WireInv, OneUnderWay
<1>9. LastWord'
  <2> SUFFICES ASSUME NEW i \in DOMAIN toBody', toBody'[i].type = "task_complete"
               PROVE  /\ outcome'[toBody'[i].task] = "completed"
                      /\ \A j \in DOMAIN toBody' : j > i => ~About(toBody'[j], toBody'[i].task)
    BY DEF LastWord
  <2>1. CASE i \in DOMAIN toBody
    <3>1. /\ toBody'[i] = toBody[i] /\ outcome[toBody[i].task] = "completed"
          /\ \A j \in DOMAIN toBody : j > i => ~About(toBody[j], toBody[i].task)
      BY <1>1, <2>1 DEF WireInv, LastWord
    <3>2. toBody[i].task \in Tasks /\ toBody[i].task # t
      BY <1>1, <2>1, <3>1 DEF BodyFrames
    <3> QED
      BY <1>1, <1>3, <3>1, <3>2 DEF About
  <2>2. CASE i \notin DOMAIN toBody
    BY <1>1, <1>3, <2>2
  <2> QED
    BY <2>1, <2>2
<1>10. ShownIsLast' /\ NeverFakeCompletion'
  <2> SUFFICES ASSUME task # NoTask, task.state = "completed"
               PROVE  /\ \A i \in DOMAIN toBody' : ~About(toBody'[i], task.id)
                      /\ outcome'[task.id] = "completed"
    BY DEF ShownIsLast, NeverFakeCompletion
  <2>1. task.id \in Tasks /\ outcome[task.id] = "completed" /\ task.id # t
    BY DEF WireInv, NeverFakeCompletion, TypeOK
  <2> QED
    BY <1>1, <1>3, <2>1 DEF WireInv, ShownIsLast, About
<1> QED
  BY <1>4, <1>5, <1>6, <1>7, <1>8, <1>9, <1>10 DEF WireInv

\* The next model call or the next action of a task none of whose actions is
\* under way.
LEMMA BrainGoesOn ==
    ASSUME WireInv, TypeOK, Fewer, UNCHANGED <<task, doing, used, outcome>>,
           NEW t \in Tasks, outcome[t] = "none", t \in used,
           session # NoSession => session.task = t /\ session.n <= session'.n,
           session # NoSession => session.n \in Nat,
           session' # NoSession, session'.task = t, session'.n \in Nat,
           \A a \in Actions : a.task = t => ~Busy(a),
           NEW x \in BodyFrames,
           \/ x.type = "task_update" /\ x.task = t
           \/ /\ x.type = "task_action" /\ x.act = Awaited' /\ session'.at = "await"
              /\ ~Requested(x.act),
           toBody' = toBody \/ toBody' = toBody \o <<x>>
    PROVE  WireInv'
<1>1. /\ toBody \in Seq(BodyFrames) /\ toBody' \in Seq(BodyFrames)
      /\ \A i \in DOMAIN toBody : i \in DOMAIN toBody' /\ toBody'[i] = toBody[i]
      /\ \A i \in DOMAIN toBody' : i \notin DOMAIN toBody =>
           toBody'[i] = x /\ \A j \in DOMAIN toBody' : j \notin DOMAIN toBody => i = j
  <2>1. CASE toBody' = toBody
    BY <2>1 DEF WireInv, FramesOK
  <2>2. CASE toBody' = toBody \o <<x>>
    BY <2>2 DEF WireInv, FramesOK
  <2> QED
    BY <2>1, <2>2
<1>2. x.type = "task_action" => x.act \in Actions /\ x.act.task = t /\ x.act.n = session'.n
  BY DEF BodyFrames, Awaited
<1>3. /\ \A a : OnWire(a)' => OnWire(a) \/ (x.type = "task_action" /\ a = x.act)
      /\ \A a : Answered(a)' => Answered(a)
  BY <1>1, FewerAnswers DEF OnWire
<1>4. \A a \in Actions : Requested(a) => Requested(a)'
  BY DEF Requested, Actions
<1>5. x.type = "task_action" =>
        /\ doing[x.act] = "none" /\ ~OnWire(x.act) /\ ~Answered(x.act) /\ Requested(x.act)'
  BY <1>2 DEF WireInv, FreshIsUnknown, Requested
<1>6. FramesOK' /\ TasksAreUsed'
  BY <1>1 DEF WireInv, FramesOK, TasksAreUsed, Fewer
<1>7. FreshIsUnknown'
  BY <1>3, <1>4, <1>5 DEF WireInv, FreshIsUnknown
<1>8. SentOnce'
  <2> SUFFICES ASSUME NEW i \in DOMAIN toBody', toBody'[i].type = "task_action"
               PROVE  /\ doing[toBody'[i].act] = "none"
                      /\ \A j \in DOMAIN toBody' :
                           toBody'[j].type = "task_action" /\ toBody'[j].act = toBody'[i].act => j = i
    BY DEF SentOnce
  <2>1. CASE i \in DOMAIN toBody
    BY <1>1, <1>5, <2>1 DEF WireInv, SentOnce, OnWire
  <2>2. CASE i \notin DOMAIN toBody
    BY <1>1, <1>5, <2>2 DEF OnWire
  <2> QED
    BY <2>1, <2>2
<1>9. AnsweredIsDone'
  BY <1>3, <1>5 DEF WireInv, AnsweredIsDone
<1>10. \A a \in Actions : Busy(a)' => (Busy(a) /\ a.task # t) \/ (x.type = "task_action" /\ a = x.act)
  BY <1>3 DEF Busy
<1>11. AttendedTo'
  <2> SUFFICES ASSUME NEW a \in Actions, Busy(a)'
               PROVE  \/ session'.at = "await" /\ a = Awaited'
                      \/ outcome[a.task] \in {"failed", "cancelled"}
    BY DEF AttendedTo, Busy
  <2>1. CASE Busy(a) /\ a.task # t
    <3>1. ~(session.at = "await" /\ a = Awaited)
      BY <2>1 DEF Awaited, NoSession
    <3> QED
      BY <2>1, <3>1 DEF WireInv, AttendedTo, Busy
  <2>2. CASE x.type = "task_action" /\ a = x.act
    BY <2>2
  <2> QED
    BY <1>10, <2>1, <2>2
<1>12. OneUnderWay'
  <2> SUFFICES ASSUME NEW a \in Actions, NEW b \in Actions, a.task = b.task, Busy(a)', Busy(b)'
               PROVE  a = b
    BY DEF OneUnderWay, Busy
  <2> QED
    BY <1>2, <1>10 DEF WireInv, OneUnderWay, Busy
<1>13. LastWord'
  <2> SUFFICES ASSUME NEW i \in DOMAIN toBody', toBody'[i].type = "task_complete"
               PROVE  /\ outcome[toBody'[i].task] = "completed"
                      /\ \A j \in DOMAIN toBody' : j > i => ~About(toBody'[j], toBody'[i].task)
    BY DEF LastWord
  <2>1. i \in DOMAIN toBody
    BY <1>1
  <2>2. /\ toBody'[i] = toBody[i] /\ outcome[toBody[i].task] = "completed"
        /\ \A j \in DOMAIN toBody : j > i => ~About(toBody[j], toBody[i].task)
    BY <1>1, <2>1 DEF WireInv, LastWord
  <2>3. toBody[i].task # t
    BY <2>2
  <2> QED
    BY <1>1, <1>2, <2>2, <2>3 DEF About
<1>14. ShownIsLast' /\ NeverFakeCompletion'
  BY <1>1, <1>2 DEF WireInv, ShownIsLast, NeverFakeCompletion, About
<1> QED
  BY <1>6, <1>7, <1>8, <1>9, <1>11, <1>12, <1>13, <1>14 DEF WireInv

-----------------------------------------------------------------------------
(* The driver *)

\* What the driver's operations keep; the sockets are not theirs.
DriverInv ==
    /\ WireInv /\ SessionOpen /\ AwaitedIsPending
    /\ session \in Sessions /\ pendingActions \subseteq Actions
    /\ outcome \in [Tasks -> Outcomes \cup {"none"}]

LEMMA TurnBounds ==
    /\ MaxTurns \in Nat /\ MaxCalls \in Nat /\ MaxTurns >= 1 /\ MaxCalls >= 1
    /\ MaxTurns * MaxCalls \in Nat
    /\ \A k \in 1..MaxTurns :
         /\ k * MaxCalls \in Nat /\ (k - 1) * MaxCalls \in Nat
         /\ k * MaxCalls = (k - 1) * MaxCalls + MaxCalls
         /\ k * MaxCalls <= MaxTurns * MaxCalls
         /\ (k + 1 - 1) * MaxCalls = k * MaxCalls
<1>1. MaxTurns \in Nat /\ MaxCalls \in Nat /\ MaxTurns >= 1 /\ MaxCalls >= 1
  BY BoundsAssumption
<1>2. MaxTurns * MaxCalls \in Nat
  BY <1>1
<1>3. ASSUME NEW k \in 1..MaxTurns
      PROVE  /\ k * MaxCalls \in Nat /\ (k - 1) * MaxCalls \in Nat
             /\ k * MaxCalls = (k - 1) * MaxCalls + MaxCalls
             /\ k * MaxCalls <= MaxTurns * MaxCalls
             /\ (k + 1 - 1) * MaxCalls = k * MaxCalls
  BY <1>1
<1> QED
  BY <1>1, <1>2, <1>3

\* The fields of a running session.
LEMMA SessionFacts ==
    ASSUME session \in Sessions, session # NoSession
    PROVE  /\ session.at \in {"chat", "await"} /\ session.task \in Tasks
           /\ session.turn \in 1..MaxTurns /\ session.left \in 0..(MaxCalls - 1)
           /\ session.n \in 0..(MaxTurns * MaxCalls)
           /\ session.left \in Nat /\ session.n \in Nat /\ session.turn \in Nat
BY TurnBounds DEF Sessions

\* In a model call, and when the awaited action was answered, nothing of the
\* task is under way.
LEMMA NothingBusy ==
    ASSUME DriverInv, session # NoSession,
           session.at = "chat" \/ Answered(Awaited)
    PROVE  \A a \in Actions : a.task = session.task => ~Busy(a)
<1> SUFFICES ASSUME NEW a \in Actions, a.task = session.task, Busy(a) PROVE FALSE
  OBVIOUS
<1>1. outcome[a.task] = "none"
  BY DEF DriverInv, SessionOpen
<1>2. session.at = "await" /\ a = Awaited
  BY <1>1 DEF DriverInv, WireInv, AttendedTo, Busy
<1>3. Answered(a)
  BY <1>2
<1> QED
  BY <1>3 DEF DriverInv, WireInv, AnsweredIsDone, Busy

LEMMA FinishKeeps ==
    ASSUME DriverInv, TypeOK, Fewer, UNCHANGED <<task, doing, used>>,
           session # NoSession, NEW o \in {"completed", "failed"}, Finish(o),
           o = "completed" => \A a \in Actions : a.task = session.task => ~Busy(a),
           pendingActions' \subseteq Actions
    PROVE  DriverInv'
<1> DEFINE t == session.task
           x == Frame(IF o = "completed" THEN "task_complete" ELSE "task_failed", t)
           f == <<x>>
<1>1. /\ t \in Tasks /\ outcome[t] = "none" /\ t \in used
      /\ session' = NoSession /\ outcome' = [outcome EXCEPT ![t] = o]
      /\ o \in Outcomes
  BY SessionFacts DEF DriverInv, SessionOpen, WireInv, TasksAreUsed, Finish, Outcomes
<1>2. /\ x \in BodyFrames /\ x.task = t /\ x.type \in {"task_failed", "task_complete"}
      /\ x.type = "task_complete" => o = "completed"
  BY <1>1 DEF Frame, BodyFrames
<1>3. toBody' = toBody \/ toBody' = toBody \o f
  BY DEF Finish, Tell
<1> HIDE DEF x
<1>4. f \in Seq(BodyFrames) /\ DOMAIN f = {1} /\ f[1] = x
  BY <1>2
<1> HIDE DEF f
<1>5. \A i \in DOMAIN f :
        /\ f[i].type \in {"task_update", "task_failed", "task_complete"} /\ f[i].task = t
        /\ f[i].type = "task_complete" => o = "completed" /\ \A j \in DOMAIN f : ~(j > i)
  BY <1>2, <1>4
<1> HIDE DEF t
<1>6. WireInv'
  BY <1>1, <1>3, <1>4, <1>5, BrainEndsTask DEF DriverInv, t
<1>7. SessionOpen' /\ AwaitedIsPending'
  BY <1>1 DEF SessionOpen, AwaitedIsPending, NoSession
<1>8. session' \in Sessions /\ outcome' \in [Tasks -> Outcomes \cup {"none"}]
  BY <1>1 DEF Sessions, DriverInv
<1> QED
  BY <1>6, <1>7, <1>8 DEF DriverInv

LEMMA RequestKeeps ==
    ASSUME DriverInv, TypeOK, Fewer, UNCHANGED <<task, doing, used>>,
           session # NoSession, NEW s, NEW rest \in SUBSET Actions,
           s = [at |-> session.at, task |-> session.task, turn |-> session.turn,
                left |-> s.left, n |-> session.n + 1],
           s.left \in 0..(MaxCalls - 1),
           session.n + 1 + s.left <= session.turn * MaxCalls,
           \A a \in Actions : a.task = session.task => ~Busy(a),
           Request(s, rest)
    PROVE  DriverInv'
<1> DEFINE t == session.task
           a == [task |-> s.task, n |-> s.n]
           x == ActionFrame(a)
<1>1. /\ t \in Tasks /\ outcome[t] = "none" /\ t \in used
      /\ s.task = t /\ s.n = session.n + 1 /\ s.turn = session.turn
      /\ session.n \in Nat /\ session.turn \in 1..MaxTurns
  BY SessionFacts DEF DriverInv, SessionOpen, WireInv, TasksAreUsed
<1>2. s.n \in 1..(MaxTurns * MaxCalls) /\ s.n \in Nat /\ s.left \in Nat
  BY <1>1, TurnBounds
<1>3. a \in Actions /\ a.task = t /\ a.n = s.n
  BY <1>1, <1>2 DEF Actions
<1>4. CASE peer \in open
  <2>1. /\ pendingActions' = rest \cup {a} /\ session' = [s EXCEPT !.at = "await"]
        /\ toBody' = toBody \/ toBody' = toBody \o <<x>>
        /\ outcome' = outcome
    BY <1>4 DEF Request, Tell
  <2>2. /\ session' = [at |-> "await", task |-> t, turn |-> session.turn,
                       left |-> s.left, n |-> session.n + 1]
    BY <2>1
  <2>3. /\ session' \in Sessions /\ session' # NoSession /\ session'.at = "await"
        /\ session'.task = t /\ session'.n = s.n /\ session'.left = s.left
        /\ session'.turn = session.turn
    BY <1>1, <1>2, <2>2 DEF Sessions, NoSession
  <2>4. Awaited' = a
    BY <1>1, <2>3 DEF Awaited
  <2>5. x \in BodyFrames /\ x.type = "task_action" /\ x.act = a
    BY <1>3 DEF BodyFrames, ActionFrame
  <2>6. ~Requested(a)
    BY <1>1, <1>3 DEF Requested
  <2> HIDE DEF a, x, t
  <2>7. session # NoSession => session.task = t /\ session.n <= session'.n
    BY <1>1, <2>3 DEF t
  <2>8. WireInv'
    BY <1>1, <1>2, <2>1, <2>3, <2>4, <2>5, <2>6, <2>7, BrainGoesOn DEF DriverInv, t
  <2>9. SessionOpen'
    BY <1>1, <1>2, <2>1, <2>3 DEF SessionOpen
  <2>10. AwaitedIsPending' /\ pendingActions' \subseteq Actions
    BY <1>3, <2>1, <2>4 DEF AwaitedIsPending
  <2> QED
    BY <2>1, <2>3, <2>8, <2>9, <2>10 DEF DriverInv
<1>5. CASE peer \notin open
  BY <1>5, FinishKeeps DEF Request
<1> QED
  BY <1>4, <1>5

LEMMA NextTurnKeeps ==
    ASSUME DriverInv, TypeOK, Fewer, UNCHANGED <<task, doing, used>>,
           session # NoSession, session.at = "await", session.left = 0,
           \A a \in Actions : a.task = session.task => ~Busy(a),
           pendingActions' \subseteq Actions, NextTurn
    PROVE  DriverInv'
<1> DEFINE t == session.task
           x == Frame("task_update", t)
<1>1. /\ t \in Tasks /\ outcome[t] = "none" /\ t \in used
      /\ session.n \in Nat /\ session.turn \in 1..MaxTurns
      /\ session.n <= session.turn * MaxCalls
      /\ session.n \in 0..(MaxTurns * MaxCalls) /\ session.left \in 0..(MaxCalls - 1)
  BY SessionFacts, TurnBounds DEF DriverInv, SessionOpen, WireInv, TasksAreUsed
<1>2. CASE session.turn = MaxTurns
  BY <1>2, FinishKeeps DEF NextTurn
<1>3. CASE session.turn # MaxTurns
  <2>1. /\ session' = [session EXCEPT !.at = "chat", !.turn = session.turn + 1]
        /\ toBody' = toBody \/ toBody' = toBody \o <<x>>
        /\ outcome' = outcome
    BY <1>3 DEF NextTurn, Tell
  <2>2. session' = [at |-> "chat", task |-> t, turn |-> session.turn + 1,
                    left |-> session.left, n |-> session.n]
    BY <2>1 DEF DriverInv, Sessions, NoSession
  <2>3. session.turn + 1 \in 1..MaxTurns
    BY <1>1, <1>3, TurnBounds
  <2>4. /\ session' \in Sessions /\ session' # NoSession /\ session'.at = "chat"
        /\ session'.task = t /\ session'.n = session.n /\ session'.turn = session.turn + 1
    BY <1>1, <2>2, <2>3 DEF Sessions, NoSession
  <2>5. x \in BodyFrames /\ x.type = "task_update" /\ x.task = t
    BY <1>1 DEF BodyFrames, Frame
  <2> HIDE DEF x, t
  <2>6. session # NoSession => session.task = t /\ session.n <= session'.n
    BY <1>1, <2>4 DEF t
  <2>7. WireInv'
    BY <1>1, <2>1, <2>4, <2>5, <2>6, BrainGoesOn DEF DriverInv, t
  <2>8. SessionOpen'
    BY <1>1, <2>1, <2>4, TurnBounds DEF SessionOpen
  <2>9. AwaitedIsPending'
    BY <2>4 DEF AwaitedIsPending
  <2> QED
    BY <2>1, <2>4, <2>7, <2>8, <2>9 DEF DriverInv
<1> QED
  BY <1>2, <1>3

LEMMA AfterResultKeeps ==
    ASSUME DriverInv, TypeOK, Fewer, UNCHANGED <<task, doing, used>>,
           session # NoSession, session.at = "await",
           NEW rest \in SUBSET Actions,
           NEW result \in {"allowed", "denied", "rejected", "failed", "timeout"},
           result \in {"allowed", "denied"} =>
             \A a \in Actions : a.task = session.task => ~Busy(a),
           AfterResult(result, rest)
    PROVE  DriverInv'
<1>1. /\ session.n + session.left <= session.turn * MaxCalls
      /\ session.left \in 0..(MaxCalls - 1) /\ session.n \in Nat
      /\ session.turn \in 1..MaxTurns
  BY SessionFacts DEF DriverInv, SessionOpen
<1>2. CASE result = "allowed" /\ session.left > 0
  <2> DEFINE s == NextCall
  <2>1. s = [at |-> session.at, task |-> session.task, turn |-> session.turn,
             left |-> session.left - 1, n |-> session.n + 1]
    <3>1. session \in [at : {"chat", "await"}, task : Tasks, turn : 1..MaxTurns,
                       left : 0..(MaxCalls - 1), n : 0..(MaxTurns * MaxCalls)]
      BY DEF DriverInv, Sessions
    <3>2. s = [[session EXCEPT !.left = session.left - 1] EXCEPT !.n = session.n + 1]
      BY DEF NextCall
    <3> QED
      BY <3>1, <3>2
  <2>2. s.left = session.left - 1
    BY <2>1
  <2>3. session.left - 1 \in 0..(MaxCalls - 1) /\ session.n + 1 + (session.left - 1) <= session.turn * MaxCalls
    <3> DEFINE b == session.turn * MaxCalls
    <3>1. b \in Nat /\ session.n + session.left <= b
      BY <1>1, TurnBounds
    <3> HIDE DEF b
    <3>2. session.left - 1 \in 0..(MaxCalls - 1) /\ session.n + 1 + (session.left - 1) <= b
      BY <1>1, <1>2, <3>1, TurnBounds
    <3> QED
      BY <3>2 DEF b
  <2>4. Request(s, rest)
    BY <1>2 DEF AfterResult
  <2> HIDE DEF s
  <2> QED
    BY <1>2, <2>1, <2>2, <2>3, <2>4, RequestKeeps
<1>3. CASE result = "allowed" /\ ~(session.left > 0)
  <2>1. session.left = 0 /\ NextTurn /\ pendingActions' = rest
    BY <1>1, <1>3, TurnBounds DEF AfterResult
  <2> QED
    BY <1>3, <2>1, NextTurnKeeps
<1>4. CASE result # "allowed"
  <2>1. /\ pendingActions' = rest
        /\ result = "denied" => Finish("completed")
        /\ result # "denied" => Finish("failed")
    BY <1>4 DEF AfterResult
  <2> QED
    BY <2>1, FinishKeeps
<1> QED
  BY <1>2, <1>3, <1>4

-----------------------------------------------------------------------------
(* The Brain's actions *)

LEMMA InterruptKeeps ==
    ASSUME DriverInv, TypeOK, Fewer, UNCHANGED <<task, doing, used, toBody>>, Interrupt
    PROVE  DriverInv'
<1> DEFINE t == session.task
<1>0. << >> \in Seq(BodyFrames) /\ \A i \in DOMAIN << >> : FALSE
  OBVIOUS
<1>1. CASE session = NoSession
  <2>1. UNCHANGED <<session, outcome, pendingActions>>
    BY <1>1 DEF Interrupt, NoSession
  <2>2. WireInv'
    BY <1>0, <2>1, BrainStands DEF DriverInv
  <2> QED
    BY <2>1, <2>2 DEF DriverInv, SessionOpen, AwaitedIsPending, Awaited
<1>2. CASE session # NoSession /\ session.at = "await"
  <2>1. /\ session' = NoSession /\ outcome' = [outcome EXCEPT ![t] = "failed"]
        /\ pendingActions' \subseteq Actions
    BY <1>2 DEF Interrupt, DriverInv
  <2>2. t \in Tasks /\ outcome[t] = "none" /\ t \in used /\ "failed" \in Outcomes
    BY <1>2, SessionFacts DEF DriverInv, SessionOpen, WireInv, TasksAreUsed, Outcomes
  <2>3. WireInv'
    BY <1>0, <2>1, <2>2, BrainEndsTask DEF DriverInv
  <2>4. SessionOpen' /\ AwaitedIsPending' /\ session' \in Sessions
    BY <2>1 DEF SessionOpen, AwaitedIsPending, NoSession, Sessions
  <2> QED
    BY <2>1, <2>2, <2>3, <2>4 DEF DriverInv
<1>3. CASE session # NoSession /\ session.at # "await"
  <2>1. session.at = "chat"
    BY <1>3, SessionFacts DEF DriverInv
  <2>2. UNCHANGED <<session, outcome>> /\ pendingActions' \subseteq Actions
    BY <1>3, <2>1 DEF Interrupt, DriverInv
  <2>3. WireInv'
    BY <1>0, <2>2, BrainStands DEF DriverInv
  <2> QED
    BY <2>1, <2>2, <2>3 DEF DriverInv, SessionOpen, AwaitedIsPending
<1> QED
  BY <1>1, <1>2, <1>3

LEMMA TaskStartKeeps ==
    ASSUME DriverInv, TypeOK, Fewer, UNCHANGED <<task, doing, used, pendingActions>>,
           NEW t \in Tasks, t \in used, TaskStart(t)
    PROVE  DriverInv'
<1>1. CASE session # NoSession \/ outcome[t] # "none"
  <2> DEFINE x == Frame("error", t)
  <2>1. UNCHANGED <<session, outcome>> /\ (toBody' = toBody \/ toBody' = toBody \o <<x>>)
    BY <1>1 DEF TaskStart, Tell
  <2>2. x \in BodyFrames /\ x.type = "error"
    BY DEF Frame, BodyFrames
  <2> HIDE DEF x
  <2>3. <<x>> \in Seq(BodyFrames) /\ \A i \in DOMAIN <<x>> : <<x>>[i].type = "error"
    BY <2>2
  <2>4. WireInv'
    BY <2>1, <2>3, BrainStands DEF DriverInv
  <2> QED
    BY <2>1, <2>4 DEF DriverInv, SessionOpen, AwaitedIsPending, Awaited
<1>2. CASE session = NoSession /\ outcome[t] = "none"
  <2>1. \A a \in Actions : a.task = t => ~Requested(a)
    BY <1>2 DEF Requested
  <2>2. \A a \in Actions : a.task = t => ~Busy(a)
    BY <2>1 DEF DriverInv, WireInv, FreshIsUnknown, Busy
  <2>3. ASSUME session' = [at |-> "chat", task |-> t, turn |-> 1, left |-> 0, n |-> 0],
               Tell(<<Frame("task_update", t)>>), UNCHANGED outcome
        PROVE  DriverInv'
    <3> DEFINE x == Frame("task_update", t)
    <3>1. toBody' = toBody \/ toBody' = toBody \o <<x>>
      BY <2>3 DEF Tell
    <3>2. x \in BodyFrames /\ x.type = "task_update" /\ x.task = t
      BY DEF Frame, BodyFrames
    <3>3. /\ session'.at = "chat" /\ session'.task = t /\ session'.n = 0 /\ session'.turn = 1
          /\ session' # NoSession /\ session'.n \in Nat
      BY <2>3 DEF NoSession
    <3>4. session' \in Sessions
      <4>1. 1 \in 1..MaxTurns /\ 0 \in 0..(MaxCalls - 1) /\ 0 \in 0..(MaxTurns * MaxCalls)
        BY TurnBounds
      <4> QED
        BY <2>3, <4>1 DEF Sessions
    <3> HIDE DEF x
    <3>5. WireInv'
      BY <1>2, <2>2, <2>3, <3>1, <3>2, <3>3, BrainGoesOn DEF DriverInv
    <3>6. SessionOpen'
      <4>1. (1 - 1) * MaxCalls = 0
        BY TurnBounds
      <4> QED
        BY <1>2, <2>3, <3>3, <4>1 DEF SessionOpen
    <3>7. AwaitedIsPending'
      BY <3>3 DEF AwaitedIsPending
    <3> QED
      BY <2>3, <3>4, <3>5, <3>6, <3>7 DEF DriverInv
  <2>4. ASSUME outcome' = [outcome EXCEPT ![t] = "failed"],
               Tell(<<Frame("task_failed", t)>>), UNCHANGED session
        PROVE  DriverInv'
    <3> DEFINE x == Frame("task_failed", t)
    <3>1. toBody' = toBody \/ toBody' = toBody \o <<x>>
      BY <2>4 DEF Tell
    <3>2. x \in BodyFrames /\ x.type = "task_failed" /\ x.task = t
      BY DEF Frame, BodyFrames
    <3> HIDE DEF x
    <3>3. <<x>> \in Seq(BodyFrames) /\ \A i \in DOMAIN <<x>> : <<x>>[i] = x
      BY <3>2
    <3>4. "failed" \in Outcomes /\ "failed" # "completed"
      BY DEF Outcomes
    <3>5. WireInv'
      BY <1>2, <2>4, <3>1, <3>2, <3>3, <3>4, BrainEndsTask DEF DriverInv
    <3> QED
      BY <1>2, <2>4, <3>4, <3>5 DEF DriverInv, SessionOpen, AwaitedIsPending, NoSession
  <2> QED
    BY <1>2, <2>3, <2>4 DEF TaskStart
<1> QED
  BY <1>1, <1>2

LEMMA TaskCancelKeeps ==
    ASSUME DriverInv, TypeOK, Fewer, UNCHANGED <<task, doing, used>>,
           NEW t \in Tasks, TaskCancel(t)
    PROVE  DriverInv'
<1>1. CASE session = NoSession \/ t # session.task
  <2> DEFINE x == Frame("error", t)
  <2>1. /\ UNCHANGED <<session, outcome, pendingActions>>
        /\ toBody' = toBody \/ toBody' = toBody \o <<x>>
    BY <1>1 DEF TaskCancel, Tell
  <2>2. x \in BodyFrames /\ x.type = "error"
    BY DEF Frame, BodyFrames
  <2> HIDE DEF x
  <2>3. <<x>> \in Seq(BodyFrames) /\ \A i \in DOMAIN <<x>> : <<x>>[i].type = "error"
    BY <2>2
  <2>4. WireInv'
    BY <2>1, <2>3, BrainStands DEF DriverInv
  <2> QED
    BY <2>1, <2>4 DEF DriverInv, SessionOpen, AwaitedIsPending, Awaited
<1>2. CASE session # NoSession /\ t = session.task
  <2> DEFINE x == Frame("task_update", t)
             y == Frame("task_failed", t)
  <2>1. /\ session' = NoSession /\ outcome' = [outcome EXCEPT ![t] = "cancelled"]
        /\ pendingActions' \subseteq Actions
        /\ toBody' = toBody \/ toBody' = toBody \o <<x, y>>
    BY <1>2 DEF TaskCancel, Tell, DriverInv
  <2>2. /\ x \in BodyFrames /\ x.type = "task_update" /\ x.task = t
        /\ y \in BodyFrames /\ y.type = "task_failed" /\ y.task = t
    BY DEF Frame, BodyFrames
  <2> HIDE DEF x, y
  <2>3. <<x, y>> \in Seq(BodyFrames) /\ \A i \in DOMAIN <<x, y>> : <<x, y>>[i] \in {x, y}
    BY <2>2
  <2>4. outcome[t] = "none" /\ t \in used /\ "cancelled" \in Outcomes
    BY <1>2 DEF DriverInv, SessionOpen, WireInv, TasksAreUsed, Outcomes
  <2>5. WireInv'
    BY <1>2, <2>1, <2>2, <2>3, <2>4, BrainEndsTask DEF DriverInv
  <2>6. SessionOpen' /\ AwaitedIsPending' /\ session' \in Sessions
    BY <2>1 DEF SessionOpen, AwaitedIsPending, NoSession, Sessions
  <2> QED
    BY <2>1, <2>4, <2>5, <2>6 DEF DriverInv
<1> QED
  BY <1>1, <1>2

LEMMA ActionResultKeeps ==
    ASSUME DriverInv, TypeOK, Fewer, UNCHANGED <<task, doing, used>>,
           NEW a \in Actions, NEW o \in {"allowed", "failed", "denied", "rejected"},
           Answered(a), ActionResult(a, o)
    PROVE  DriverInv'
<1>1. CASE session.at = "await" /\ a = Awaited /\ a \in pendingActions
  <2>1. session # NoSession /\ AfterResult(o, pendingActions \ {a})
    BY <1>1 DEF ActionResult, NoSession
  <2>2. \A b \in Actions : b.task = session.task => ~Busy(b)
    BY <1>1, <2>1, NothingBusy
  <2> QED
    BY <1>1, <2>1, <2>2, AfterResultKeeps DEF DriverInv
<1>2. CASE ~(session.at = "await" /\ a = Awaited /\ a \in pendingActions)
  <2>1. pendingActions' = pendingActions \ {a} /\ UNCHANGED <<session, outcome, toBody>>
    BY <1>2 DEF ActionResult
  <2>2. << >> \in Seq(BodyFrames) /\ \A i \in DOMAIN << >> : FALSE
    OBVIOUS
  <2>3. WireInv'
    BY <2>1, <2>2, BrainStands DEF DriverInv
  <2>4. AwaitedIsPending'
    BY <1>2, <2>1 DEF DriverInv, AwaitedIsPending, Awaited
  <2> QED
    BY <2>1, <2>3, <2>4 DEF DriverInv, SessionOpen
<1> QED
  BY <1>1, <1>2

\* The driver's part and the rest of the invariant, put together.
LEMMA DriverIsEnough ==
    ASSUME TaskInv, DriverInv', UNCHANGED <<task, phase, bodyConn, doing, used, conns>>,
           peer' \in 0..MaxConns, open' \subseteq sockets', sockets' \subseteq Conns,
           up' \subseteq Conns, PeerIsCurrent'
    PROVE  TaskInv'
BY DEF TaskInv, StaysReachable, TypeOK, DriverInv

LEMMA TaskInvFacts ==
    ASSUME TaskInv
    PROVE  /\ DriverInv /\ TypeOK /\ WireInv /\ PeerIsCurrent
           /\ UNCHANGED toBrain => Fewer
           /\ \A g \in Conns : toBrain' = [toBrain EXCEPT ![g] = << >>] => Fewer
           /\ \A g \in Conns :
                toBrain[g] # << >> /\ toBrain' = [toBrain EXCEPT ![g] = Tail(toBrain[g])] => Fewer
<1>1. DriverInv /\ TypeOK /\ WireInv /\ PeerIsCurrent
  BY DEF TaskInv, StaysReachable, TypeOK, DriverInv
<1>2. toBrain \in [Conns -> Seq(BrainFrames)]
  BY <1>1 DEF WireInv, FramesOK
<1>3. UNCHANGED toBrain => Fewer
  BY <1>2 DEF Fewer
<1>4. ASSUME NEW g \in Conns, toBrain' = [toBrain EXCEPT ![g] = << >>]
      PROVE  Fewer
  BY <1>2, <1>4 DEF Fewer
<1>5. ASSUME NEW g \in Conns, toBrain[g] # << >>,
             toBrain' = [toBrain EXCEPT ![g] = Tail(toBrain[g])]
      PROVE  Fewer
  <2>1. /\ toBrain[g] \in Seq(BrainFrames) /\ Tail(toBrain[g]) \in Seq(BrainFrames)
        /\ \A i \in DOMAIN Tail(toBrain[g]) :
             \E j \in DOMAIN toBrain[g] : Tail(toBrain[g])[i] = toBrain[g][j]
    BY <1>2, <1>5, TailFacts
  <2>2. toBrain' \in [Conns -> Seq(BrainFrames)]
    BY <1>2, <1>5, <2>1
  <2>3. \A h \in Conns : toBrain'[h] = IF h = g THEN Tail(toBrain[g]) ELSE toBrain[h]
    BY <1>2, <1>5
  <2> QED
    BY <2>1, <2>2, <2>3 DEF Fewer
<1> QED
  BY <1>1, <1>3, <1>4, <1>5

LEMMA ChatReturnsKeeps ==
    ASSUME TaskInv, ChatReturns
    PROVE  TaskInv'
<1>0. /\ UNCHANGED <<task, phase, bodyConn, doing, used, peer, open, sockets, conns, up>>
      /\ UNCHANGED toBrain /\ session.at = "chat"
  BY DEF ChatReturns, bodyVars
<1>1. /\ DriverInv /\ TypeOK /\ Fewer /\ session # NoSession
      /\ UNCHANGED <<task, phase, bodyConn, doing, used, peer, open, sockets, conns, up>>
  BY <1>0, TaskInvFacts DEF NoSession
<1>2. \A a \in Actions : a.task = session.task => ~Busy(a)
  BY <1>1, NothingBusy DEF ChatReturns
<1>3. session.n <= (session.turn - 1) * MaxCalls /\ session.n \in Nat /\ session.turn \in 1..MaxTurns
  BY <1>1, SessionFacts DEF ChatReturns, DriverInv, SessionOpen
<1>4. ASSUME NEW k \in 1..MaxCalls,
             Request([session EXCEPT !.left = k - 1, !.n = @ + 1], pendingActions)
      PROVE  DriverInv'
  <2> DEFINE s == [session EXCEPT !.left = k - 1, !.n = @ + 1]
  <2>1. session \in [at : {"chat", "await"}, task : Tasks, turn : 1..MaxTurns,
                     left : 0..(MaxCalls - 1), n : 0..(MaxTurns * MaxCalls)]
    BY <1>1 DEF DriverInv, Sessions
  <2>2. s = [[session EXCEPT !.left = k - 1] EXCEPT !.n = session.n + 1]
    OBVIOUS
  <2> HIDE DEF s
  <2>3. s = [at |-> session.at, task |-> session.task, turn |-> session.turn,
             left |-> k - 1, n |-> session.n + 1]
    BY <2>1, <2>2
  <2>4. s.left = k - 1
    BY <2>3
  <2>5. k - 1 \in 0..(MaxCalls - 1) /\ session.n + 1 + (k - 1) <= session.turn * MaxCalls
    <3> DEFINE b == session.turn * MaxCalls
               c == (session.turn - 1) * MaxCalls
    <3>1. b \in Nat /\ c \in Nat /\ b = c + MaxCalls /\ session.n <= c
      BY <1>3, TurnBounds
    <3> HIDE DEF b, c
    <3>2. k - 1 \in 0..(MaxCalls - 1) /\ session.n + 1 + (k - 1) <= b
      BY <1>3, <3>1, TurnBounds
    <3> QED
      BY <3>2 DEF b
  <2>6. Request(s, pendingActions) /\ pendingActions \in SUBSET Actions
    BY <1>1, <1>4 DEF DriverInv, s
  <2> QED
    BY <1>1, <1>2, <2>3, <2>4, <2>5, <2>6, RequestKeeps
<1>5. ASSUME NEW o \in {"completed", "failed"}, Finish(o), UNCHANGED pendingActions
      PROVE  DriverInv'
  <2>1. pendingActions' \subseteq Actions
    BY <1>1, <1>5 DEF DriverInv
  <2> QED
    BY <1>1, <1>2, <1>5, <2>1, FinishKeeps
<1>6. DriverInv'
  BY <1>4, <1>5 DEF ChatReturns
<1>7. PeerIsCurrent'
  BY <1>1, TaskInvFacts DEF PeerIsCurrent
<1> QED
  BY <1>1, <1>6, <1>7, DriverIsEnough DEF TypeOK

LEMMA ActionTimeoutKeeps ==
    ASSUME TaskInv, ActionTimeout
    PROVE  TaskInv'
<1>1. /\ DriverInv /\ TypeOK /\ Fewer /\ session # NoSession /\ session.at = "await"
      /\ UNCHANGED <<task, phase, bodyConn, doing, used, peer, open, sockets, conns, up>>
  BY TaskInvFacts DEF ActionTimeout, bodyVars, NoSession
<1>2. AfterResult("timeout", pendingActions) /\ pendingActions \in SUBSET Actions
  BY <1>1 DEF ActionTimeout, DriverInv
<1>3. DriverInv'
  BY <1>1, <1>2, AfterResultKeeps
<1>4. PeerIsCurrent'
  BY <1>1, TaskInvFacts DEF PeerIsCurrent
<1> QED
  BY <1>1, <1>3, <1>4, DriverIsEnough DEF TypeOK

LEMMA BrainReceivesKeeps ==
    ASSUME TaskInv, NEW g \in Conns, BrainReceives(g)
    PROVE  TaskInv'
<1> DEFINE f == Head(toBrain[g])
<1>1. /\ DriverInv /\ TypeOK /\ WireInv
      /\ UNCHANGED <<task, phase, bodyConn, doing, used, peer, open, sockets, conns, up>>
      /\ toBrain[g] # << >> /\ toBrain' = [toBrain EXCEPT ![g] = Tail(toBrain[g])]
  BY TaskInvFacts DEF BrainReceives, bodyVars
<1>2. Fewer
  BY <1>1, TaskInvFacts
<1>3. f \in BrainFrames /\ 1 \in DOMAIN toBrain[g] /\ f = toBrain[g][1]
  <2>1. toBrain[g] \in Seq(BrainFrames)
    BY <1>1 DEF WireInv, FramesOK
  <2> QED
    BY <1>1, <2>1, TailFacts
<1>4. /\ f.type = "task_start" => TaskStart(f.task) /\ UNCHANGED pendingActions
      /\ f.type = "task_cancel" => TaskCancel(f.task)
      /\ f.type = "action_result" => ActionResult(f.act, f.outcome)
  BY DEF BrainReceives
<1> HIDE DEF f
<1>5. CASE f.type = "task_start"
  <2>1. f.task \in Tasks /\ f.task \in used
    BY <1>1, <1>3, <1>5 DEF BrainFrames, WireInv, TasksAreUsed
  <2> QED
    BY <1>1, <1>2, <1>4, <1>5, <2>1, TaskStartKeeps, DriverIsEnough, TaskInvFacts
       DEF TypeOK, PeerIsCurrent
<1>6. CASE f.type = "task_cancel"
  <2>1. f.task \in Tasks
    BY <1>3, <1>6 DEF BrainFrames
  <2> QED
    BY <1>1, <1>2, <1>4, <1>6, <2>1, TaskCancelKeeps, DriverIsEnough, TaskInvFacts
       DEF TypeOK, PeerIsCurrent
<1>7. CASE f.type = "action_result"
  <2>1. f.act \in Actions /\ f.outcome \in {"allowed", "failed", "denied", "rejected"} /\ Answered(f.act)
    BY <1>3, <1>7 DEF BrainFrames, Answered
  <2> QED
    BY <1>1, <1>2, <1>4, <1>7, <2>1, ActionResultKeeps, DriverIsEnough, TaskInvFacts
       DEF TypeOK, PeerIsCurrent
<1> QED
  BY <1>3, <1>5, <1>6, <1>7 DEF BrainFrames

LEMMA HandleDisconnectKeeps ==
    ASSUME DriverInv, TypeOK, Fewer, UNCHANGED <<task, doing, used, toBody>>,
           NEW g, HandleDisconnect(g)
    PROVE  DriverInv' /\ peer' = IF peer = g THEN 0 ELSE peer
<1>1. CASE peer = g
  BY <1>1, InterruptKeeps DEF HandleDisconnect
<1>2. CASE peer # g
  <2>1. UNCHANGED <<peer, session, outcome, pendingActions>>
    BY <1>2 DEF HandleDisconnect
  <2>2. << >> \in Seq(BodyFrames) /\ \A i \in DOMAIN << >> : FALSE
    OBVIOUS
  <2>3. WireInv'
    BY <2>1, <2>2, BrainStands DEF DriverInv
  <2> QED
    BY <1>2, <2>1, <2>3 DEF DriverInv, SessionOpen, AwaitedIsPending, Awaited
<1> QED
  BY <1>1, <1>2

LEMMA BrainSeesCloseKeeps ==
    ASSUME TaskInv, NEW g \in Conns, BrainSeesClose(g)
    PROVE  TaskInv'
<1>1. /\ DriverInv /\ TypeOK /\ PeerIsCurrent /\ g \notin up
      /\ UNCHANGED <<task, phase, bodyConn, doing, used, conns, up, toBody>>
      /\ sockets' = sockets \ {g} /\ open' = open \ {g} /\ HandleDisconnect(g)
      /\ toBrain' = [toBrain EXCEPT ![g] = << >>]
  BY TaskInvFacts DEF BrainSeesClose, bodyVars
<1>2. Fewer
  BY <1>1, TaskInvFacts
<1>3. DriverInv' /\ peer' = IF peer = g THEN 0 ELSE peer
  BY <1>1, <1>2, HandleDisconnectKeeps
<1>4. PeerIsCurrent' /\ peer' \in 0..MaxConns
  BY <1>1, <1>3, BoundsAssumption DEF PeerIsCurrent, TypeOK
<1> QED
  BY <1>1, <1>3, <1>4, DriverIsEnough DEF TypeOK

LEMMA HeartbeatTimeoutKeeps ==
    ASSUME TaskInv, HeartbeatTimeout
    PROVE  TaskInv'
<1>1. /\ DriverInv /\ TypeOK /\ PeerIsCurrent /\ peer \notin up
      /\ UNCHANGED <<task, phase, bodyConn, doing, used, sockets, conns, up, toBrain, toBody>>
      /\ open' = open \ {peer} /\ HandleDisconnect(peer)
  BY TaskInvFacts DEF HeartbeatTimeout, bodyVars, netVars
<1>2. Fewer
  BY <1>1, TaskInvFacts
<1>3. DriverInv' /\ peer' = 0
  BY <1>1, <1>2, HandleDisconnectKeeps
<1>4. PeerIsCurrent' /\ peer' \in 0..MaxConns
  BY <1>1, <1>3, BoundsAssumption DEF PeerIsCurrent, TypeOK
<1> QED
  BY <1>1, <1>3, <1>4, DriverIsEnough DEF TypeOK

LEMMA BrainRestartKeeps ==
    ASSUME TaskInv, BrainRestart
    PROVE  TaskInv'
<1>1. /\ DriverInv /\ TypeOK /\ WireInv
      /\ UNCHANGED <<task, phase, bodyConn, doing, used, conns, toBody>>
      /\ peer' = 0 /\ open' = {} /\ sockets' = {} /\ up' = {}
      /\ toBrain' = [g \in Conns |-> << >>]
      /\ session' = NoSession /\ pendingActions' = {}
      /\ outcome' = IF session = NoSession THEN outcome
                    ELSE [outcome EXCEPT ![session.task] = "failed"]
  BY TaskInvFacts DEF BrainRestart, bodyVars
<1>2. << >> \in Seq(BodyFrames) /\ << >> \in Seq(BrainFrames) /\ \A i \in DOMAIN << >> : FALSE
  OBVIOUS
<1>3. Fewer
  BY <1>1, <1>2 DEF Fewer
<1>6. WireInv'
  <2>1. CASE session = NoSession
    BY <1>1, <1>2, <1>3, <2>1, BrainStands
  <2>2. CASE session # NoSession
    <3>1. /\ session.task \in Tasks /\ outcome[session.task] = "none" /\ session.task \in used
          /\ "failed" \in Outcomes
      BY <1>1, <2>2, SessionFacts DEF DriverInv, SessionOpen, WireInv, TasksAreUsed, Outcomes
    <3> QED
      BY <1>1, <1>2, <1>3, <2>2, <3>1, BrainEndsTask
  <2> QED
    BY <2>1, <2>2
<1>7. SessionOpen' /\ AwaitedIsPending' /\ session' \in Sessions
  BY <1>1 DEF SessionOpen, AwaitedIsPending, NoSession, Sessions
<1>8. outcome' \in [Tasks -> Outcomes \cup {"none"}]
  BY <1>1 DEF DriverInv, Outcomes
<1>9. DriverInv' /\ PeerIsCurrent' /\ peer' \in 0..MaxConns
  BY <1>1, <1>6, <1>7, <1>8, BoundsAssumption DEF DriverInv, PeerIsCurrent
<1> QED
  BY <1>1, <1>9, DriverIsEnough DEF TypeOK

-----------------------------------------------------------------------------
(* What a step of the Body does to the frames and actions *)

\* What the Body does about an action changes when it handles its frame, and
\* then until it is done.
Moved(a) ==
    /\ doing'[a] # doing[a]
    /\ doing'[a] # "none"
    /\ \/ doing[a] \in {"prompt", "running"}
       \/ /\ toBody # << >> /\ toBody' = Tail(toBody)
          /\ Head(toBody).type = "task_action" /\ Head(toBody).act = a

\* A frame the Body sends: of a task of its own, or about an action just done.
Said(f) ==
    \/ f.type = "task_start" /\ f.task \in used'
    \/ f.type = "task_cancel"
    \/ f.type = "action_result" /\ doing'[f.act] = "done" /\ doing[f.act] # "done"

LEMMA BodyKeeps ==
    ASSUME WireInv, TypeOK, UNCHANGED <<session, outcome>>, used \subseteq used',
           FramesOK',
           \/ toBody' = toBody
           \/ toBody # << >> /\ toBody' = Tail(toBody)
           \/ \A i \in DOMAIN toBody' : toBody'[i].type = "ready",
           \A a \in Actions : doing'[a] = doing[a] \/ Moved(a),
           \A g \in Conns : \A i \in DOMAIN toBrain'[g] :
             Said(toBrain'[g][i]) \/ \E j \in DOMAIN toBrain[g] : toBrain'[g][i] = toBrain[g][j],
           task' # NoTask /\ task'.state = "completed" =>
             \/ task' = task
             \/ /\ toBody # << >> /\ toBody' = Tail(toBody)
                /\ Head(toBody).type = "task_complete" /\ Head(toBody).task = task'.id
    PROVE  WireInv'
<1>1. PICK k \in {0, 1} :
        /\ \A i \in DOMAIN toBody' :
             toBody'[i].type = "ready" \/ (i + k \in DOMAIN toBody /\ toBody'[i] = toBody[i + k])
        /\ toBody # << >> /\ toBody' = Tail(toBody) =>
             k = 1 /\ 1 \in DOMAIN toBody /\ Head(toBody) = toBody[1]
  <2>1. toBody \in Seq(BodyFrames)
    BY DEF WireInv, FramesOK
  <2>2. CASE toBody # << >> /\ toBody' = Tail(toBody)
    BY <2>1, <2>2, TailFacts
  <2>3. CASE ~(toBody # << >> /\ toBody' = Tail(toBody))
    BY <2>1, <2>3
  <2> QED
    BY <2>2, <2>3
<1>2. DOMAIN toBody' \subseteq Nat \ {0} /\ DOMAIN toBody \subseteq Nat \ {0}
  BY DEF WireInv, FramesOK
<1>3. \A a \in Actions : OnWire(a)' => OnWire(a)
  BY <1>1 DEF OnWire
<1>4. \A a \in Actions : doing'[a] # doing[a] => Moved(a) /\ Busy(a) /\ ~OnWire(a)'
  <2> SUFFICES ASSUME NEW a \in Actions, Moved(a) PROVE Busy(a) /\ ~OnWire(a)'
    OBVIOUS
  <2>1. CASE doing[a] \in {"prompt", "running"}
    <3>1. ~OnWire(a)
      BY <2>1 DEF WireInv, SentOnce, OnWire
    <3> QED
      BY <1>3, <2>1, <3>1 DEF Busy
  <2>2. CASE /\ toBody # << >> /\ toBody' = Tail(toBody)
             /\ Head(toBody).type = "task_action" /\ Head(toBody).act = a
    <3>1. \A j \in DOMAIN toBody :
            toBody[j].type = "task_action" /\ toBody[j].act = a => j = 1
      BY <1>1, <2>2 DEF WireInv, SentOnce
    <3>2. ~OnWire(a)'
      BY <1>1, <1>2, <2>2, <3>1 DEF OnWire
    <3> QED
      BY <1>1, <2>2, <3>2 DEF Busy, OnWire
  <2> QED
    BY <2>1, <2>2 DEF Moved
<1>5. \A a \in Actions : Busy(a)' => Busy(a)
  BY <1>3, <1>4 DEF Busy
<1>6. \A a \in Actions : Answered(a)' =>
        Answered(a) \/ (doing'[a] = "done" /\ doing[a] # "done")
  BY DEF Answered, Said
<1>7. TasksAreUsed'
  BY DEF WireInv, TasksAreUsed, Said
<1>8. FreshIsUnknown'
  <2> SUFFICES ASSUME NEW a \in Actions, ~Requested(a)
               PROVE  doing'[a] = "none" /\ ~OnWire(a)' /\ ~Answered(a)'
    BY DEF FreshIsUnknown, Requested
  <2>1. doing[a] = "none" /\ ~OnWire(a) /\ ~Answered(a)
    BY DEF WireInv, FreshIsUnknown
  <2> QED
    BY <1>3, <1>4, <1>6, <2>1 DEF Busy
<1>9. SentOnce'
  <2> SUFFICES ASSUME NEW i \in DOMAIN toBody', toBody'[i].type = "task_action"
               PROVE  /\ doing'[toBody'[i].act] = "none"
                      /\ \A j \in DOMAIN toBody' :
                           toBody'[j].type = "task_action" /\ toBody'[j].act = toBody'[i].act => j = i
    BY DEF SentOnce
  <2> DEFINE a == toBody'[i].act
  <2>0. /\ i + k \in DOMAIN toBody /\ toBody'[i] = toBody[i + k]
    BY <1>1
  <2>1. doing[a] = "none"
    BY <2>0 DEF WireInv, SentOnce
  <2>3. toBody'[i] \in BodyFrames
    BY DEF FramesOK
  <2>4. a \in Actions
    BY <2>3 DEF BodyFrames
  <2>5. \A b \in Actions : b = a => OnWire(b)'
    BY DEF OnWire
  <2>6. doing'[a] = doing[a]
    BY <1>4, <2>4, <2>5
  <2>2. ASSUME NEW j \in DOMAIN toBody', toBody'[j].type = "task_action",
               toBody'[j].act = toBody'[i].act
        PROVE  j = i
    <3>1. j + k \in DOMAIN toBody /\ toBody'[j] = toBody[j + k]
      BY <1>1, <2>2
    <3>2. j + k = i + k
      BY <2>0, <2>2, <3>1 DEF WireInv, SentOnce
    <3> QED
      BY <1>2, <3>2
  <2> QED
    BY <2>1, <2>2, <2>6
<1>10. AnsweredIsDone'
  <2> SUFFICES ASSUME NEW a \in Actions, Answered(a)' PROVE doing'[a] = "done" /\ ~OnWire(a)'
    BY DEF AnsweredIsDone
  <2>1. CASE Answered(a)
    BY <1>3, <1>4, <2>1 DEF WireInv, AnsweredIsDone, Busy
  <2>2. CASE doing'[a] = "done" /\ doing[a] # "done"
    BY <1>4, <2>2
  <2> QED
    BY <1>6, <2>1, <2>2
<1>11. AttendedTo' /\ OneUnderWay'
  BY <1>5 DEF WireInv, AttendedTo, OneUnderWay, Awaited, Busy
<1>12. LastWord'
  <2> SUFFICES ASSUME NEW i \in DOMAIN toBody', toBody'[i].type = "task_complete"
               PROVE  /\ outcome[toBody'[i].task] = "completed"
                      /\ \A j \in DOMAIN toBody' : j > i => ~About(toBody'[j], toBody'[i].task)
    BY DEF LastWord
  <2>1. /\ i + k \in DOMAIN toBody /\ toBody'[i] = toBody[i + k]
        /\ outcome[toBody'[i].task] = "completed"
        /\ \A j \in DOMAIN toBody : j > i + k => ~About(toBody[j], toBody'[i].task)
    BY <1>1 DEF WireInv, LastWord
  <2>2. ASSUME NEW j \in DOMAIN toBody', j > i
        PROVE  ~About(toBody'[j], toBody'[i].task)
    <3>1. j + k > i + k
      BY <1>2, <2>2
    <3> QED
      BY <1>1, <2>1, <3>1 DEF About
  <2> QED
    BY <2>1, <2>2
<1>13. ShownIsLast' /\ NeverFakeCompletion'
  <2> SUFFICES ASSUME task' # NoTask, task'.state = "completed"
               PROVE  /\ \A i \in DOMAIN toBody' : ~About(toBody'[i], task'.id)
                      /\ outcome[task'.id] = "completed"
    BY DEF ShownIsLast, NeverFakeCompletion
  <2>1. CASE task' = task
    BY <1>1, <2>1 DEF WireInv, ShownIsLast, NeverFakeCompletion, About
  <2>2. CASE /\ toBody # << >> /\ toBody' = Tail(toBody)
             /\ Head(toBody).type = "task_complete" /\ Head(toBody).task = task'.id
    <3>1. /\ outcome[task'.id] = "completed" /\ k = 1
          /\ \A j \in DOMAIN toBody : j > 1 => ~About(toBody[j], task'.id)
      BY <1>1, <2>2 DEF WireInv, LastWord
    <3>2. \A i \in DOMAIN toBody' : i + k > 1
      BY <1>2, <3>1
    <3> QED
      BY <1>1, <3>1, <3>2 DEF About
  <2> QED
    BY <2>1, <2>2
<1> QED
  BY <1>7, <1>8, <1>9, <1>10, <1>11, <1>12, <1>13 DEF WireInv

\* What the Body's socket accepts reaches the end of the queue, or is lost.
LEMMA ReportFacts ==
    ASSUME TypeOK, FramesOK, NEW f \in Seq(BrainFrames), Report(f)
    PROVE  /\ toBrain' \in [Conns -> Seq(BrainFrames)]
           /\ \A g \in Conns : \A i \in DOMAIN toBrain'[g] :
                \/ \E j \in DOMAIN f : toBrain'[g][i] = f[j]
                \/ \E j \in DOMAIN toBrain[g] : toBrain'[g][i] = toBrain[g][j]
<1>1. CASE bodyConn \in up
  <2> DEFINE q == toBrain[bodyConn]
  <2>1. bodyConn \in Conns /\ q \in Seq(BrainFrames)
    BY <1>1 DEF TypeOK, FramesOK
  <2>2. toBrain' = [toBrain EXCEPT ![bodyConn] = q \o f]
    BY <1>1 DEF Report
  <2>3. /\ q \o f \in Seq(BrainFrames)
        /\ \A i \in DOMAIN (q \o f) :
             (\E j \in DOMAIN f : (q \o f)[i] = f[j]) \/ \E j \in DOMAIN q : (q \o f)[i] = q[j]
    BY <2>1, ConcatFacts
  <2>4. /\ toBrain' \in [Conns -> Seq(BrainFrames)] /\ toBrain'[bodyConn] = q \o f
        /\ \A g \in Conns : g # bodyConn => toBrain'[g] = toBrain[g]
    BY <2>1, <2>2, <2>3 DEF FramesOK
  <2>5. SUFFICES ASSUME NEW g \in Conns, NEW i \in DOMAIN toBrain'[g]
                PROVE  \/ \E j \in DOMAIN f : toBrain'[g][i] = f[j]
                       \/ \E j \in DOMAIN toBrain[g] : toBrain'[g][i] = toBrain[g][j]
    BY <2>4
  <2>6. CASE g = bodyConn
    <3>1. toBrain'[g] = q \o f /\ toBrain[g] = q
      BY <2>4, <2>6
    <3> HIDE DEF q
    <3> QED
      BY <2>3, <3>1
  <2>7. CASE g # bodyConn
    BY <2>4, <2>7
  <2> QED
    BY <2>6, <2>7
<1>2. CASE bodyConn \notin up
  BY <1>2 DEF Report, FramesOK
<1> QED
  BY <1>1, <1>2

-----------------------------------------------------------------------------
(* The Body's actions, the connections and the user *)

\* The Body's part and the rest of the invariant, put together.
LEMMA BodyIsEnough ==
    ASSUME TaskInv, WireInv', UNCHANGED <<session, outcome, pendingActions>>,
           IsFiniteSet(used'), used' \subseteq Tasks,
           UNCHANGED task \/ task' = NoTask
             \/ task' \in [id : Tasks, state : {"active", "completed", "error", "interrupted"}],
           phase' \in {"ready", "down"},
           doing' \in [Actions -> {"none", "prompt", "running", "done"}],
           \/ /\ UNCHANGED <<conns, peer, open, sockets>> /\ up' \subseteq up
              /\ bodyConn' = bodyConn \/ bodyConn' = 0
           \/ Connect
    PROVE  TaskInv'
<1>1. AwaitedIsPending' /\ SessionOpen'
  BY DEF TaskInv, StaysReachable, AwaitedIsPending, Awaited, SessionOpen
<1>2. /\ bodyConn' \in 0..MaxConns /\ peer' \in 0..MaxConns /\ conns' \in 0..MaxConns
      /\ open' \subseteq sockets' /\ sockets' \subseteq Conns /\ up' \subseteq Conns
      /\ PeerIsCurrent'
  <2>1. CASE UNCHANGED <<conns, peer, open, sockets>> /\ up' \subseteq up
             /\ (bodyConn' = bodyConn \/ bodyConn' = 0)
    <3>1. 0 \notin Conns /\ 0 \in 0..MaxConns
      BY BoundsAssumption DEF Conns
    <3> QED
      BY <2>1, <3>1 DEF TaskInv, StaysReachable, TypeOK, PeerIsCurrent
  <2>2. CASE Connect
    <3>1. conns + 1 \in 1..MaxConns
      BY <2>2, BoundsAssumption DEF Connect, TaskInv, StaysReachable, TypeOK
    <3> QED
      BY <2>2, <3>1, BoundsAssumption
         DEF Connect, TaskInv, StaysReachable, TypeOK, PeerIsCurrent, Conns
  <2> QED
    BY <2>1, <2>2
<1> QED
  BY <1>1, <1>2 DEF TaskInv, StaysReachable, TypeOK

LEMMA TaskTypes ==
    ASSUME TypeOK, NEW t,
           NEW state \in {"active", "completed", "error", "interrupted"}, Mirror(t, state)
    PROVE  /\ \/ UNCHANGED task
              \/ task' \in [id : Tasks, state : {"active", "completed", "error", "interrupted"}]
           /\ task' # NoTask /\ task'.state = "completed" =>
                task' = task \/ (state = "completed" /\ task'.id = t)
<1>1. CASE task # NoTask /\ task.id = t
  <2>1. /\ task \in [id : Tasks, state : {"active", "completed", "error", "interrupted"}]
        /\ task' = [task EXCEPT !.state = state]
    BY <1>1 DEF TypeOK, Mirror
  <2>2. task' = [id |-> t, state |-> state] /\ t \in Tasks
    BY <1>1, <2>1
  <2> QED
    BY <2>2
<1>2. CASE ~(task # NoTask /\ task.id = t)
  BY <1>2 DEF Mirror
<1> QED
  BY <1>1, <1>2

LEMMA ExecuteTypes ==
    ASSUME TypeOK, NEW a \in Actions, Execute(a)
    PROVE  /\ \/ UNCHANGED task
              \/ task' \in [id : Tasks, state : {"active", "completed", "error", "interrupted"}]
           /\ task' # NoTask /\ task'.state = "completed" => task' = task
           /\ doing' \in [Actions -> {"none", "prompt", "running", "done"}]
           /\ doing'[a] = "running" /\ \A b \in Actions : b # a => doing'[b] = doing[b]
<1>1. Mirror(a.task, "active")
  BY DEF Execute, Mirror
<1> QED
  BY <1>1, TaskTypes DEF Execute, TypeOK

LEMMA BodyReceivesKeeps ==
    ASSUME TaskInv, BodyReceives
    PROVE  TaskInv'
<1> DEFINE f == Head(toBody)
<1>1. /\ WireInv /\ TypeOK /\ FramesOK /\ toBody # << >> /\ toBody' = Tail(toBody)
      /\ UNCHANGED <<bodyConn, used, peer, open, sockets, session, pendingActions, outcome, conns, up>>
      /\ IsFiniteSet(used)
  BY DEF BodyReceives, TaskInv, StaysReachable, WireInv, brainVars
<1>2. f \in BodyFrames /\ toBody' \in Seq(BodyFrames)
  BY <1>1, TailFacts DEF FramesOK
<1>3. /\ f.type = "ready" => phase' = "ready" /\ UNCHANGED <<task, doing, toBrain>>
      /\ f.type = "task_update" => Mirror(f.task, "active") /\ UNCHANGED <<phase, doing, toBrain>>
      /\ f.type = "task_complete" => Mirror(f.task, "completed") /\ UNCHANGED <<phase, doing, toBrain>>
      /\ f.type = "task_failed" => Mirror(f.task, "error") /\ UNCHANGED <<phase, doing, toBrain>>
      /\ f.type = "error" => UNCHANGED <<task, phase, doing, toBrain>>
      /\ f.type = "task_action" =>
           /\ UNCHANGED phase
           /\ \/ Execute(f.act) /\ UNCHANGED toBrain
              \/ /\ doing' = [doing EXCEPT ![f.act] = "prompt"]
                 /\ UNCHANGED <<task, toBrain>>
              \/ /\ doing' = [doing EXCEPT ![f.act] = "done"]
                 /\ Report(<<ResultFrame(f.act, "rejected")>>)
                 /\ UNCHANGED task
  BY DEF BodyReceives
<1> HIDE DEF f
<1>4. CASE f.type # "task_action"
  <2>1. /\ phase' \in {"ready", "down"} /\ UNCHANGED <<doing, toBrain>>
        /\ \/ UNCHANGED task
           \/ task' \in [id : Tasks, state : {"active", "completed", "error", "interrupted"}]
        /\ task' # NoTask /\ task'.state = "completed" =>
             task' = task \/ (f.type = "task_complete" /\ f.task = task'.id)
    BY <1>1, <1>2, <1>3, <1>4, TaskTypes DEF BodyFrames, TypeOK
  <2>2. FramesOK'
    BY <1>1, <1>2, <2>1 DEF FramesOK
  <2>3. WireInv'
    BY <1>1, <2>1, <2>2, BodyKeeps DEF f
  <2> QED
    BY <1>1, <2>1, <2>3, BodyIsEnough DEF TypeOK
<1>5. CASE f.type = "task_action"
  <2> DEFINE a == f.act
             r == <<ResultFrame(a, "rejected")>>
  <2>1. a \in Actions /\ doing[a] = "none"
    <3>1. f = toBody[1] /\ 1 \in DOMAIN toBody
      BY <1>1, TailFacts DEF FramesOK, f
    <3> QED
      BY <1>2, <1>5, <3>1 DEF WireInv, SentOnce, BodyFrames, TaskInv
  <2>2. /\ phase' = phase
        /\ \/ UNCHANGED task
           \/ task' \in [id : Tasks, state : {"active", "completed", "error", "interrupted"}]
        /\ task' # NoTask /\ task'.state = "completed" => task' = task
        /\ doing' \in [Actions -> {"none", "prompt", "running", "done"}]
        /\ doing'[a] # "none" /\ \A b \in Actions : b # a => doing'[b] = doing[b]
        /\ UNCHANGED toBrain \/ (doing'[a] = "done" /\ Report(r))
    <3>1. CASE Execute(a) /\ UNCHANGED toBrain
      BY <1>1, <1>3, <1>5, <2>1, <3>1, ExecuteTypes
    <3>2. CASE doing' = [doing EXCEPT ![a] = "prompt"] /\ UNCHANGED <<task, toBrain>>
      BY <1>1, <1>3, <1>5, <2>1, <3>2 DEF TypeOK
    <3>3. CASE doing' = [doing EXCEPT ![a] = "done"] /\ Report(r) /\ UNCHANGED task
      BY <1>1, <1>3, <1>5, <2>1, <3>3 DEF TypeOK
    <3> QED
      BY <1>3, <1>5, <3>1, <3>2, <3>3
  <2>3. /\ toBrain' \in [Conns -> Seq(BrainFrames)]
        /\ \A g \in Conns : \A i \in DOMAIN toBrain'[g] :
             Said(toBrain'[g][i]) \/ \E j \in DOMAIN toBrain[g] : toBrain'[g][i] = toBrain[g][j]
    <3>1. CASE UNCHANGED toBrain
      BY <1>1, <3>1 DEF FramesOK
    <3>2. CASE doing'[a] = "done" /\ Report(r)
      <4>1. ResultFrame(a, "rejected") \in BrainFrames /\ Said(ResultFrame(a, "rejected"))
        BY <2>1, <3>2 DEF ResultFrame, BrainFrames, Said
      <4>2. r \in Seq(BrainFrames) /\ \A j \in DOMAIN r : Said(r[j])
        BY <4>1
      <4> HIDE DEF r
      <4> QED
        BY <1>1, <3>2, <4>2, ReportFacts
    <3> QED
      BY <2>2, <3>1, <3>2
  <2>4. \A b \in Actions : doing'[b] = doing[b] \/ Moved(b)
    BY <1>1, <1>5, <2>1, <2>2 DEF Moved, f
  <2>5. FramesOK'
    BY <1>2, <2>3 DEF FramesOK
  <2>6. WireInv'
    BY <1>1, <2>2, <2>3, <2>4, <2>5, BodyKeeps
  <2> QED
    BY <1>1, <2>2, <2>6, BodyIsEnough DEF TypeOK
<1> QED
  BY <1>4, <1>5

LEMMA BodyFacts ==
    ASSUME TaskInv
    PROVE  /\ WireInv /\ TypeOK /\ FramesOK /\ IsFiniteSet(used) /\ used \subseteq Tasks
           /\ UNCHANGED <<toBody, toBrain>> => FramesOK'
           /\ \A g \in Conns : \A i \in DOMAIN toBrain[g] :
                \E j \in DOMAIN toBrain[g] : toBrain[g][i] = toBrain[g][j]
BY DEF TaskInv, StaysReachable, WireInv, FramesOK, TypeOK

LEMMA ApproveKeeps ==
    ASSUME TaskInv, NEW a \in Actions, Approve(a)
    PROVE  TaskInv'
<1>1. /\ doing[a] = "prompt" /\ Execute(a)
      /\ UNCHANGED <<phase, bodyConn, used, peer, open, sockets, session, pendingActions, outcome,
                     conns, up, toBrain, toBody>>
  BY DEF Approve, brainVars, netVars
<1>2. /\ \/ UNCHANGED task
         \/ task' \in [id : Tasks, state : {"active", "completed", "error", "interrupted"}]
      /\ task' # NoTask /\ task'.state = "completed" => task' = task
      /\ doing' \in [Actions -> {"none", "prompt", "running", "done"}]
      /\ doing'[a] = "running" /\ \A b \in Actions : b # a => doing'[b] = doing[b]
  BY <1>1, BodyFacts, ExecuteTypes
<1>3. \A b \in Actions : doing'[b] = doing[b] \/ Moved(b)
  BY <1>1, <1>2 DEF Moved
<1>4. WireInv'
  BY <1>1, <1>2, <1>3, BodyFacts, BodyKeeps
<1> QED
  BY <1>1, <1>2, <1>4, BodyFacts, BodyIsEnough DEF TypeOK

LEMMA AnswerKeeps ==
    ASSUME TaskInv, NEW a \in Actions, doing[a] \in {"prompt", "running"},
           doing' = [doing EXCEPT ![a] = "done"],
           NEW o \in {"allowed", "failed", "denied"}, Report(<<ResultFrame(a, o)>>),
           UNCHANGED <<task, phase, bodyConn, used, peer, open, sockets, session,
                       pendingActions, outcome, conns, up, toBody>>
    PROVE  TaskInv'
<1> DEFINE x == ResultFrame(a, o)
           r == <<x>>
<1>1. /\ doing' \in [Actions -> {"none", "prompt", "running", "done"}]
      /\ doing'[a] = "done" /\ \A b \in Actions : b # a => doing'[b] = doing[b]
  BY BodyFacts DEF TypeOK
<1>2. \A b \in Actions : doing'[b] = doing[b] \/ Moved(b)
  BY <1>1 DEF Moved
<1>3. x \in BrainFrames /\ Said(x)
  BY <1>1 DEF ResultFrame, BrainFrames, Said
<1> HIDE DEF x
<1>4. r \in Seq(BrainFrames) /\ \A j \in DOMAIN r : Said(r[j])
  BY <1>3
<1>5. Report(r)
  BY DEF x
<1> HIDE DEF r
<1>6. /\ toBrain' \in [Conns -> Seq(BrainFrames)]
      /\ \A g \in Conns : \A i \in DOMAIN toBrain'[g] :
           Said(toBrain'[g][i]) \/ \E j \in DOMAIN toBrain[g] : toBrain'[g][i] = toBrain[g][j]
  <2>1. /\ toBrain' \in [Conns -> Seq(BrainFrames)]
        /\ \A g \in Conns : \A i \in DOMAIN toBrain'[g] :
             \/ \E j \in DOMAIN r : toBrain'[g][i] = r[j]
             \/ \E j \in DOMAIN toBrain[g] : toBrain'[g][i] = toBrain[g][j]
    BY <1>4, <1>5, BodyFacts, ReportFacts
  <2> QED
    BY <1>4, <2>1
<1>7. FramesOK'
  BY <1>6, BodyFacts DEF FramesOK
<1>8. WireInv'
  BY <1>1, <1>2, <1>6, <1>7, BodyFacts, BodyKeeps
<1> QED
  BY <1>1, <1>8, BodyFacts, BodyIsEnough DEF TypeOK

LEMMA DenyKeeps ==
    ASSUME TaskInv, NEW a \in Actions, Deny(a)
    PROVE  TaskInv'
BY AnswerKeeps DEF Deny, brainVars

LEMMA ToolReturnsKeeps ==
    ASSUME TaskInv, NEW a \in Actions, ToolReturns(a)
    PROVE  TaskInv'
BY AnswerKeeps DEF ToolReturns, brainVars

\* A frame about a task of the Body's own.
LEMMA TellKeeps ==
    ASSUME TaskInv, NEW x \in BrainFrames, Said(x), Report(<<x>>),
           UNCHANGED <<phase, bodyConn, doing, peer, open, sockets, session,
                       pendingActions, outcome, conns, up, toBody>>,
           used \subseteq used', used' \subseteq Tasks, IsFiniteSet(used'),
           \/ UNCHANGED task
           \/ /\ task' \in [id : Tasks, state : {"active", "completed", "error", "interrupted"}]
              /\ task'.state # "completed"
    PROVE  TaskInv'
<1> DEFINE r == <<x>>
<1>1. r \in Seq(BrainFrames) /\ Report(r) /\ \A j \in DOMAIN r : Said(r[j])
  OBVIOUS
<1> HIDE DEF r
<1>2. /\ toBrain' \in [Conns -> Seq(BrainFrames)]
      /\ \A g \in Conns : \A i \in DOMAIN toBrain'[g] :
           Said(toBrain'[g][i]) \/ \E j \in DOMAIN toBrain[g] : toBrain'[g][i] = toBrain[g][j]
  BY <1>1, BodyFacts, ReportFacts
<1>3. FramesOK'
  BY <1>2, BodyFacts DEF FramesOK
<1>4. WireInv'
  BY <1>2, <1>3, BodyFacts, BodyKeeps
<1> QED
  BY <1>4, BodyFacts, BodyIsEnough DEF TypeOK

LEMMA SendMessageKeeps ==
    ASSUME TaskInv, NEW t \in Tasks, SendMessage(t)
    PROVE  TaskInv'
<1> DEFINE x == Frame("task_start", t)
<1>1. /\ used' = used \cup {t} /\ task' = [id |-> t, state |-> "active"] /\ Report(<<x>>)
      /\ UNCHANGED <<phase, bodyConn, doing, peer, open, sockets, session,
                     pendingActions, outcome, conns, up, toBody>>
  BY DEF SendMessage, brainVars
<1>2. x \in BrainFrames /\ Said(x)
  BY <1>1 DEF Frame, BrainFrames, Said
<1> HIDE DEF x
<1>3. IsFiniteSet(used') /\ used' \subseteq Tasks
  BY <1>1, BodyFacts, FS_AddElement
<1>4. /\ task' \in [id : Tasks, state : {"active", "completed", "error", "interrupted"}]
      /\ task'.state # "completed"
  BY <1>1
<1> QED
  BY <1>1, <1>2, <1>3, <1>4, TellKeeps

LEMMA StopTaskKeeps ==
    ASSUME TaskInv, StopTask
    PROVE  TaskInv'
<1> DEFINE x == Frame("task_cancel", task.id)
<1>1. /\ task # NoTask /\ Report(<<x>>)
      /\ UNCHANGED <<task, used, phase, bodyConn, doing, peer, open, sockets, session,
                     pendingActions, outcome, conns, up, toBody>>
  BY DEF StopTask, brainVars, bodyVars
<1>2. task.id \in Tasks
  BY <1>1, BodyFacts DEF TypeOK
<1>3. x \in BrainFrames /\ Said(x)
  BY <1>2 DEF Frame, BrainFrames, Said
<1> HIDE DEF x
<1> QED
  BY <1>1, <1>3, BodyFacts, TellKeeps

\* The prompts are at most one for each task the Body ever named.
LEMMA PromptsAreFinite ==
    ASSUME TaskInv
    PROVE  IsFiniteSet({a \in Actions : doing[a] = "prompt"})
<1> DEFINE P == {a \in Actions : doing[a] = "prompt"}
           F == [a \in P |-> a.task]
<1>1. \A a \in P : a.task \in used
  <2> TAKE a \in P
  <2>1. Requested(a)
    BY BodyFacts DEF WireInv, FreshIsUnknown
  <2> QED
    BY <2>1, BodyFacts DEF WireInv, TasksAreUsed, Requested, Actions
<1>2. \A a, b \in P : F[a] = F[b] => a = b
  BY BodyFacts DEF WireInv, OneUnderWay
<1>3. F \in [P -> used]
  BY <1>1
<1> HIDE DEF P
<1>4. F \in Injection(P, used)
  BY <1>2, <1>3, Fun_IsInj
<1> HIDE DEF F
<1>5. IsFiniteSet(P)
  BY <1>4, BodyFacts, FS_Injection
<1> QED
  BY <1>5 DEF P

LEMMA SetToSeqFacts ==
    ASSUME NEW S, IsFiniteSet(S)
    PROVE  SetToSeq(S) \in Seq(S)
<1>1. PICK f : f \in Bijection(1..Cardinality(S), S)
  BY FS_CardinalityType DEF ExistsBijection
<1>2. f \in [1..Cardinality(S) -> S] /\ \A a, b \in 1..Cardinality(S) : f[a] = f[b] => a = b
  BY <1>1, Fun_BijectionProperties
<1>3. IsInjective(f)
  BY <1>2 DEF IsInjective
<1>4. SetToSeq(S) \in [1..Cardinality(S) -> S]
  BY <1>2, <1>3 DEF SetToSeq
<1>5. Cardinality(S) \in Nat
  BY FS_CardinalityType
<1> QED
  BY <1>4, <1>5

LEMMA ClearTaskFacts ==
    ASSUME TaskInv, NEW down \in BOOLEAN, ClearTask(down)
    PROVE  /\ task' = NoTask
           /\ doing' \in [Actions -> {"none", "prompt", "running", "done"}]
           /\ \A a \in Actions : doing'[a] = doing[a] \/ Moved(a)
           /\ toBrain' \in [Conns -> Seq(BrainFrames)]
           /\ \A g \in Conns : \A i \in DOMAIN toBrain'[g] :
                Said(toBrain'[g][i]) \/ \E j \in DOMAIN toBrain[g] : toBrain'[g][i] = toBrain[g][j]
<1> DEFINE P == {a \in Actions : doing[a] = "prompt"}
           s == SetToSeq(P)
           r == [i \in DOMAIN s |-> ResultFrame(s[i], "denied")]
<1>1. /\ task' = NoTask
      /\ doing' = [a \in Actions |-> IF a \in P THEN "done" ELSE doing[a]]
      /\ IF down THEN UNCHANGED toBrain ELSE Report(r)
  BY DEF ClearTask
<1>2. /\ doing' \in [Actions -> {"none", "prompt", "running", "done"}]
      /\ \A a \in Actions : doing'[a] = doing[a] \/ Moved(a)
      /\ \A a \in P : a \in Actions /\ doing'[a] = "done" /\ doing[a] # "done"
  BY <1>1, BodyFacts DEF TypeOK, Moved
<1>3. CASE down
  BY <1>1, <1>2, <1>3, BodyFacts DEF FramesOK
<1>4. CASE ~down
  <2>1. s \in Seq(P)
    BY PromptsAreFinite, SetToSeqFacts
  <2> HIDE DEF P, s
  <2>2. \A a \in P : ResultFrame(a, "denied") \in BrainFrames /\ Said(ResultFrame(a, "denied"))
    BY <1>2 DEF ResultFrame, BrainFrames, Said
  <2>3. \A i \in DOMAIN s : s[i] \in P
    BY <2>1
  <2>4. r \in [1..Len(s) -> BrainFrames] /\ Len(s) \in Nat
    BY <2>1, <2>2, <2>3
  <2>5. r \in Seq(BrainFrames) /\ \A j \in DOMAIN r : Said(r[j])
    BY <2>2, <2>3, <2>4
  <2> HIDE DEF r
  <2> QED
    BY <1>1, <1>2, <1>4, <2>5, BodyFacts, ReportFacts
<1> QED
  BY <1>3, <1>4

LEMMA ClearHistoryKeeps ==
    ASSUME TaskInv, ClearHistory
    PROVE  TaskInv'
<1>1. /\ ClearTask(bodyConn = 0) /\ (bodyConn = 0) \in BOOLEAN
      /\ UNCHANGED <<phase, bodyConn, used, peer, open, sockets, session,
                     pendingActions, outcome, conns, up, toBody>>
  BY DEF ClearHistory, brainVars
<1>2. FramesOK'
  BY <1>1, ClearTaskFacts, BodyFacts DEF FramesOK
<1>3. WireInv'
  BY <1>1, <1>2, ClearTaskFacts, BodyFacts, BodyKeeps
<1> QED
  BY <1>1, <1>3, ClearTaskFacts, BodyFacts, BodyIsEnough DEF TypeOK

LEMMA DisconnectKeeps ==
    ASSUME TaskInv, Disconnect
    PROVE  TaskInv'
<1>1. /\ ClearTask(TRUE) /\ toBody' = << >> /\ bodyConn' = 0 /\ phase' = "down"
      /\ up' = up \ {bodyConn}
      /\ UNCHANGED <<used, peer, open, sockets, session, pendingActions, outcome, conns>>
  BY DEF Disconnect, brainVars
<1>2. FramesOK' /\ \A i \in DOMAIN toBody' : toBody'[i].type = "ready"
  <2>1. << >> \in Seq(BodyFrames) /\ DOMAIN << >> = {}
    OBVIOUS
  <2> QED
    BY <1>1, <2>1, ClearTaskFacts DEF FramesOK
<1>3. WireInv'
  BY <1>1, <1>2, ClearTaskFacts, BodyFacts, BodyKeeps
<1> QED
  BY <1>1, <1>3, ClearTaskFacts, BodyFacts, BodyIsEnough DEF TypeOK

LEMMA BodySeesCloseKeeps ==
    ASSUME TaskInv, BodySeesClose
    PROVE  TaskInv'
<1>1. /\ toBody' = << >> /\ bodyConn' = 0 /\ phase' = "down"
      /\ UNCHANGED <<doing, used, peer, open, sockets, session, pendingActions, outcome,
                     conns, up, toBrain>>
  BY DEF BodySeesClose, brainVars
<1>2. FramesOK' /\ \A i \in DOMAIN toBody' : toBody'[i].type = "ready"
  <2>1. << >> \in Seq(BodyFrames) /\ DOMAIN << >> = {}
    OBVIOUS
  <2> QED
    BY <1>1, <2>1, BodyFacts DEF FramesOK
<1>3. \/ UNCHANGED task
      \/ /\ task' \in [id : Tasks, state : {"active", "completed", "error", "interrupted"}]
         /\ task'.state # "completed"
  <2>1. CASE phase = "ready" /\ Active
    <3>1. /\ task \in [id : Tasks, state : {"active", "completed", "error", "interrupted"}]
          /\ task' = [task EXCEPT !.state = "interrupted"]
      BY <2>1, BodyFacts DEF BodySeesClose, Active, TypeOK
    <3> QED
      BY <3>1
  <2>2. CASE ~(phase = "ready" /\ Active)
    BY <2>2 DEF BodySeesClose
  <2> QED
    BY <2>1, <2>2
<1>4. WireInv'
  BY <1>1, <1>2, <1>3, BodyFacts, BodyKeeps
<1> QED
  BY <1>1, <1>3, <1>4, BodyFacts, BodyIsEnough DEF TypeOK

LEMMA ConnectKeeps ==
    ASSUME TaskInv, Connect
    PROVE  TaskInv'
<1>1. /\ toBody' = <<[type |-> "ready"]>>
      /\ UNCHANGED <<task, phase, doing, used, session, pendingActions, outcome, toBrain>>
  BY DEF Connect
<1>2. FramesOK' /\ \A i \in DOMAIN toBody' : toBody'[i].type = "ready"
  <2>1. [type |-> "ready"] \in BodyFrames
    BY DEF BodyFrames
  <2> QED
    BY <1>1, <2>1, BodyFacts DEF FramesOK
<1>3. WireInv'
  BY <1>1, <1>2, BodyFacts, BodyKeeps
<1> QED
  BY <1>1, <1>3, BodyFacts, BodyIsEnough DEF TypeOK

LEMMA LinkFailsKeeps ==
    ASSUME TaskInv, LinkFails
    PROVE  TaskInv'
<1>1. /\ up' = up \ {bodyConn}
      /\ UNCHANGED <<task, phase, bodyConn, doing, used, peer, open, sockets, session,
                     pendingActions, outcome, conns, toBrain, toBody>>
  BY DEF LinkFails, bodyVars, brainVars
<1>2. FramesOK'
  BY <1>1, BodyFacts
<1>3. WireInv'
  BY <1>1, <1>2, BodyFacts, BodyKeeps
<1> QED
  BY <1>1, <1>3, BodyFacts, BodyIsEnough DEF TypeOK

-----------------------------------------------------------------------------
(* The theorems *)

LEMMA InitHolds == Init => TaskInv
<1> SUFFICES ASSUME Init PROVE TaskInv
  OBVIOUS
<1>1. /\ << >> \in Seq(BodyFrames) /\ << >> \in Seq(BrainFrames) /\ DOMAIN << >> = {}
  OBVIOUS
<1>2. \A a \in Actions : ~OnWire(a) /\ ~Answered(a) /\ doing[a] = "none"
  BY <1>1 DEF Init, OnWire, Answered
<1>3. FramesOK /\ SentOnce /\ LastWord /\ ShownIsLast /\ NeverFakeCompletion
  BY <1>1 DEF Init, FramesOK, SentOnce, LastWord, ShownIsLast, NeverFakeCompletion
<1>4. TasksAreUsed /\ SessionOpen /\ AwaitedIsPending
  BY <1>1 DEF Init, TasksAreUsed, SessionOpen, AwaitedIsPending, NoSession
<1>5. FreshIsUnknown /\ AnsweredIsDone /\ AttendedTo /\ OneUnderWay
  BY <1>2 DEF FreshIsUnknown, AnsweredIsDone, AttendedTo, OneUnderWay
<1>6. TypeOK /\ PeerIsCurrent
  BY BoundsAssumption DEF Init, TypeOK, PeerIsCurrent, Sessions
<1>7. IsFiniteSet(used)
  BY FS_EmptySet DEF Init
<1> QED
  BY <1>3, <1>4, <1>5, <1>6, <1>7 DEF TaskInv, WireInv, StaysReachable

LEMMA StepHolds == TaskInv /\ [Next]_vars => TaskInv'
<1> SUFFICES ASSUME TaskInv, [Next]_vars PROVE TaskInv'
  OBVIOUS
<1>1. CASE UNCHANGED vars
  <2>1. /\ UNCHANGED <<task, phase, bodyConn, doing, used, peer, open, sockets, session>>
        /\ UNCHANGED <<pendingActions, outcome, conns, up, toBrain, toBody>>
    BY <1>1 DEF vars, bodyVars, brainVars, netVars
  <2>2. WireInv'
    BY <2>1, BodyFacts, BodyKeeps
  <2> QED
    BY <2>1, <2>2, BodyFacts, BodyIsEnough DEF TypeOK
<1>2. CASE ChatReturns \/ ActionTimeout
  BY <1>2, ChatReturnsKeeps, ActionTimeoutKeeps
<1>3. CASE \E g \in Conns : BrainReceives(g) \/ BrainSeesClose(g)
  BY <1>3, BrainReceivesKeeps, BrainSeesCloseKeeps
<1>4. CASE HeartbeatTimeout \/ BrainRestart
  BY <1>4, HeartbeatTimeoutKeeps, BrainRestartKeeps
<1>5. CASE Connect \/ LinkFails \/ BodySeesClose \/ BodyReceives
  BY <1>5, ConnectKeeps, LinkFailsKeeps, BodySeesCloseKeeps, BodyReceivesKeeps
<1>6. CASE \E a \in Actions : Approve(a) \/ Deny(a) \/ ToolReturns(a)
  BY <1>6, ApproveKeeps, DenyKeeps, ToolReturnsKeeps
<1>7. CASE User
  BY <1>7, SendMessageKeeps, StopTaskKeeps, ClearHistoryKeeps, DisconnectKeeps DEF User
<1> QED
  BY <1>1, <1>2, <1>3, <1>4, <1>5, <1>6, <1>7 DEF Next

\* The inductive invariant holds in every state (brain-runtime.ts and
\* remote-brain.ts over any drops, replacements and restarts).
THEOREM TaskInvAlways == Spec => []TaskInv
<1>1. Init => TaskInv
  BY InitHolds
<1>2. TaskInv /\ [Next]_vars => TaskInv'
  BY StepHolds
<1> QED
  BY <1>1, <1>2, PTL DEF Spec

\* The Body shows a task completed only if the Brain completed it (onLinkClosed,
\* handleTaskComplete): never a frame too late or a link too short.
THEOREM NeverFakes == Spec => []NeverFakeCompletion
<1>1. TaskInv => NeverFakeCompletion
  BY DEF TaskInv, WireInv
<1> QED
  BY <1>1, TaskInvAlways, PTL

\* One action of a task at a time, none once it is completed (LLMTaskDriver.run).
THEOREM OneStep == Spec => []OneStepAtATime
<1>1. TaskInv => OneStepAtATime
  <2> SUFFICES ASSUME TaskInv PROVE OneStepAtATime
    OBVIOUS
  <2>1. \A a \in Actions : UnderWay(a) => Busy(a)
    BY DEF UnderWay, Busy, OnWire, ActionFrame
  <2>2. SerialPerTask
    BY <2>1 DEF SerialPerTask, TaskInv, WireInv, OneUnderWay, Busy
  <2>3. CompletedLeavesNothing
    <3> SUFFICES ASSUME NEW a \in Actions, outcome[a.task] = "completed", Busy(a) PROVE FALSE
      BY <2>1 DEF CompletedLeavesNothing
    <3>1. session.at = "await" /\ a = Awaited
      BY DEF TaskInv, WireInv, AttendedTo, Busy
    <3>2. outcome[a.task] = "none"
      BY <3>1 DEF TaskInv, SessionOpen, Awaited, NoSession
    <3> QED
      BY <3>2
  <2> QED
    BY <2>2, <2>3 DEF OneStepAtATime
<1> QED
  BY <1>1, TaskInvAlways, PTL

\* What the driver waits for is on the Brain's books, and the Body's live link is
\* the one the Brain answers on (handleDisconnect, enterReady).
THEOREM AlwaysReachable == Spec => []StaysReachable
<1>1. TaskInv => StaysReachable
  BY DEF TaskInv
<1> QED
  BY <1>1, TaskInvAlways, PTL

-----------------------------------------------------------------------------
(* The refinement: what a step does to the Brain's verdicts *)

Stands(t) == outcome'[t] = outcome[t] /\
    ((session' # NoSession /\ session'.task = t) <=> (session # NoSession /\ session.task = t))

\* The Brain decides nothing, starts a task, or ends the one it runs or starts.
VerdictsStay == \A t \in Tasks : Stands(t)
TaskStarts(t) ==
    /\ session = NoSession /\ outcome[t] = "none" /\ UNCHANGED outcome
    /\ session' # NoSession /\ session'.task = t
TaskEnds(t, o) ==
    /\ outcome[t] = "none" /\ (session # NoSession => session.task = t)
    /\ session' = NoSession /\ outcome' = [outcome EXCEPT ![t] = o]
Course ==
    \/ VerdictsStay
    \/ \E t \in Tasks : TaskStarts(t) \/ \E o \in Outcomes : TaskEnds(t, o)

LEMMA CourseIsPromised ==
    ASSUME TaskInv, Course, UNCHANGED task
    PROVE  [Promise!Next]_(Promise!vars)
<1>1. /\ outcome \in [Tasks -> Outcomes \cup {"none"}]
      /\ session # NoSession => session.task \in Tasks /\ outcome[session.task] = "none"
  BY SessionFacts DEF TaskInv, StaysReachable, TypeOK, SessionOpen
<1>2. /\ status = [t \in Tasks |->
             IF outcome[t] # "none" THEN outcome[t]
             ELSE IF session # NoSession /\ session.task = t THEN "running" ELSE "new"]
      /\ status' = [t \in Tasks |->
             IF outcome'[t] # "none" THEN outcome'[t]
             ELSE IF session' # NoSession /\ session'.task = t THEN "running" ELSE "new"]
  BY DEF status
<1>3. CASE VerdictsStay
  <2>1. status' = status
    BY <1>2, <1>3 DEF VerdictsStay, Stands
  <2> QED
    BY <2>1 DEF Promise!vars
<1>4. ASSUME NEW t \in Tasks, TaskStarts(t)
      PROVE  Promise!Start(t)
  <2>1. status[t] = "new" /\ \A u \in Tasks : status[u] # "running"
    BY <1>1, <1>2, <1>4 DEF TaskStarts, Outcomes
  <2>2. status' = [status EXCEPT ![t] = "running"]
    BY <1>1, <1>2, <1>4 DEF TaskStarts
  <2> QED
    BY <2>1, <2>2 DEF Promise!Start
<1>5. ASSUME NEW t \in Tasks, NEW o \in Outcomes, TaskEnds(t, o)
      PROVE  Promise!End(t, o)
  <2>1. \/ status[t] = "running"
        \/ status[t] = "new" /\ \A u \in Tasks : status[u] # "running"
    BY <1>1, <1>2, <1>5 DEF TaskEnds, Outcomes
  <2>2. \A u \in Tasks : outcome'[u] = IF u = t THEN o ELSE outcome[u]
    BY <1>1, <1>5 DEF TaskEnds
  <2>3. o # "none"
    BY DEF Outcomes
  <2>4. status' = [status EXCEPT ![t] = o]
    BY <1>1, <1>2, <1>5, <2>2, <2>3 DEF TaskEnds
  <2> QED
    BY <2>1, <2>4 DEF Promise!End
<1> QED
  BY <1>3, <1>4, <1>5 DEF Course, Promise!Next, Promise!Outcomes, Outcomes

LEMMA FinishCourse ==
    ASSUME TaskInv, session # NoSession, NEW o \in Outcomes, Finish(o)
    PROVE  Course
<1>1. session.task \in Tasks /\ outcome[session.task] = "none"
  BY SessionFacts DEF TaskInv, StaysReachable, TypeOK, SessionOpen
<1>2. TaskEnds(session.task, o)
  BY <1>1 DEF Finish, TaskEnds
<1> QED
  BY <1>1, <1>2 DEF Course

LEMMA RequestCourse ==
    ASSUME TaskInv, session # NoSession, NEW s, NEW rest, Request(s, rest),
           s = [at |-> session.at, task |-> session.task, turn |-> session.turn,
                left |-> s.left, n |-> session.n + 1]
    PROVE  Course
<1>1. CASE peer \in open
  <2>1. session' = [s EXCEPT !.at = "await"] /\ UNCHANGED outcome
    BY <1>1 DEF Request
  <2>2. session' = [at |-> "await", task |-> session.task, turn |-> session.turn,
                    left |-> s.left, n |-> session.n + 1]
    BY <2>1
  <2>3. session'.at = "await" /\ session'.task = session.task /\ session' # NoSession
    BY <2>2 DEF NoSession
  <2> QED
    BY <2>1, <2>3 DEF Course, VerdictsStay, Stands
<1>2. CASE peer \notin open
  BY <1>2, FinishCourse DEF Request, Outcomes
<1> QED
  BY <1>1, <1>2

LEMMA NextTurnCourse ==
    ASSUME TaskInv, session # NoSession, NextTurn
    PROVE  Course
<1>1. CASE session.turn = MaxTurns
  BY <1>1, FinishCourse DEF NextTurn, Outcomes
<1>2. CASE session.turn # MaxTurns
  <2>1. session' = [session EXCEPT !.at = "chat", !.turn = session.turn + 1] /\ UNCHANGED outcome
    BY <1>2 DEF NextTurn
  <2>2. session' = [at |-> "chat", task |-> session.task, turn |-> session.turn + 1,
                    left |-> session.left, n |-> session.n]
    BY <2>1 DEF TaskInv, StaysReachable, TypeOK, Sessions, NoSession
  <2>3. session'.at = "chat" /\ session'.task = session.task /\ session' # NoSession
    BY <2>2 DEF NoSession
  <2> QED
    BY <2>1, <2>3 DEF Course, VerdictsStay, Stands
<1> QED
  BY <1>1, <1>2

LEMMA AfterResultCourse ==
    ASSUME TaskInv, session # NoSession, NEW rest,
           NEW result \in {"allowed", "denied", "rejected", "failed", "timeout"},
           AfterResult(result, rest)
    PROVE  Course
<1>1. CASE result = "allowed" /\ session.left > 0
  <2> DEFINE s == NextCall
  <2>1. session \in [at : {"chat", "await"}, task : Tasks, turn : 1..MaxTurns,
                     left : 0..(MaxCalls - 1), n : 0..(MaxTurns * MaxCalls)]
    BY DEF TaskInv, StaysReachable, TypeOK, Sessions
  <2>2. s = [[session EXCEPT !.left = session.left - 1] EXCEPT !.n = session.n + 1]
    BY DEF NextCall
  <2>3. s = [at |-> session.at, task |-> session.task, turn |-> session.turn,
             left |-> session.left - 1, n |-> session.n + 1]
    BY <2>1, <2>2
  <2>4. s.left = session.left - 1 /\ Request(s, rest)
    BY <1>1, <2>3 DEF AfterResult
  <2> HIDE DEF s
  <2> QED
    BY <2>3, <2>4, RequestCourse
<1>2. CASE result = "allowed" /\ ~(session.left > 0)
  BY <1>2, NextTurnCourse DEF AfterResult
<1>3. CASE result # "allowed"
  BY <1>3, FinishCourse DEF AfterResult, Outcomes
<1> QED
  BY <1>1, <1>2, <1>3

LEMMA BrainCourse ==
    ASSUME TaskInv,
           \/ ChatReturns \/ ActionTimeout
           \/ \E g \in Conns : BrainReceives(g) \/ BrainSeesClose(g)
           \/ HeartbeatTimeout \/ BrainRestart
    PROVE  Course /\ UNCHANGED task
<1>1. ASSUME ChatReturns PROVE Course
  <2>0. session.at = "chat"
    BY <1>1 DEF ChatReturns
  <2>1. session # NoSession
    BY <2>0 DEF NoSession
  <2>2. ASSUME NEW k \in 1..MaxCalls,
               Request([session EXCEPT !.left = k - 1, !.n = @ + 1], pendingActions)
        PROVE  Course
    <3> DEFINE s == [session EXCEPT !.left = k - 1, !.n = @ + 1]
    <3>1. session \in [at : {"chat", "await"}, task : Tasks, turn : 1..MaxTurns,
                       left : 0..(MaxCalls - 1), n : 0..(MaxTurns * MaxCalls)]
      BY <2>1 DEF TaskInv, StaysReachable, TypeOK, Sessions
    <3>2. s = [[session EXCEPT !.left = k - 1] EXCEPT !.n = session.n + 1] /\ Request(s, pendingActions)
      BY <2>2
    <3> HIDE DEF s
    <3>3. s = [at |-> session.at, task |-> session.task, turn |-> session.turn,
               left |-> k - 1, n |-> session.n + 1]
      BY <3>1, <3>2
    <3>4. s.left = k - 1
      BY <3>3
    <3> QED
      BY <2>1, <3>2, <3>3, <3>4, RequestCourse
  <2>3. ASSUME NEW o \in {"completed", "failed"}, Finish(o) PROVE Course
    BY <2>1, <2>3, FinishCourse DEF Outcomes
  <2> QED
    BY <1>1, <2>2, <2>3 DEF ChatReturns
<1>2. ASSUME ActionTimeout PROVE Course
  BY <1>2, AfterResultCourse DEF ActionTimeout, NoSession
<1>3. ASSUME Interrupt PROVE Course
  <2>1. CASE session = NoSession
    BY <1>3, <2>1 DEF Interrupt, NoSession, Course, VerdictsStay, Stands
  <2>2. CASE session # NoSession /\ session.at = "await"
    <3>1. session' = NoSession /\ outcome' = [outcome EXCEPT ![session.task] = "failed"]
      BY <1>3, <2>2 DEF Interrupt
    <3>2. session.task \in Tasks /\ TaskEnds(session.task, "failed") /\ "failed" \in Outcomes
      BY <2>2, <3>1, SessionFacts
         DEF TaskInv, StaysReachable, TypeOK, SessionOpen, TaskEnds, Outcomes
    <3> QED
      BY <3>2 DEF Course
  <2>3. CASE session # NoSession /\ session.at # "await"
    <3>1. session.at = "chat"
      BY <2>3, SessionFacts DEF TaskInv, StaysReachable, TypeOK
    <3>2. UNCHANGED <<session, outcome>>
      BY <1>3, <2>3, <3>1 DEF Interrupt
    <3> QED
      BY <3>2 DEF Course, VerdictsStay, Stands
  <2> QED
    BY <2>1, <2>2, <2>3
<1>4. ASSUME NEW g, HandleDisconnect(g) PROVE Course
  <2>1. CASE peer = g
    BY <1>3, <1>4, <2>1 DEF HandleDisconnect
  <2>2. CASE peer # g
    BY <1>4, <2>2 DEF HandleDisconnect, Course, VerdictsStay, Stands
  <2> QED
    BY <2>1, <2>2
<1>5. ASSUME BrainRestart PROVE Course
  <2>1. CASE session = NoSession
    BY <1>5, <2>1 DEF BrainRestart, Course, VerdictsStay, Stands
  <2>2. CASE session # NoSession
    <3>1. session.task \in Tasks /\ TaskEnds(session.task, "failed") /\ "failed" \in Outcomes
      BY <1>5, <2>2, SessionFacts
         DEF BrainRestart, TaskInv, StaysReachable, TypeOK, SessionOpen, TaskEnds, Outcomes
    <3> QED
      BY <3>1 DEF Course
  <2> QED
    BY <2>1, <2>2
<1>6. ASSUME NEW t \in Tasks, TaskStart(t) PROVE Course
  <2>1. CASE session # NoSession \/ outcome[t] # "none"
    BY <1>6, <2>1 DEF TaskStart, Course, VerdictsStay, Stands
  <2>2. CASE session = NoSession /\ outcome[t] = "none"
    <3>1. ASSUME session' = [at |-> "chat", task |-> t, turn |-> 1, left |-> 0, n |-> 0],
                 UNCHANGED outcome
          PROVE  TaskStarts(t)
      <4>1. session'.at = "chat" /\ session'.task = t /\ session' # NoSession
        BY <3>1 DEF NoSession
      <4> QED
        BY <2>2, <3>1, <4>1 DEF TaskStarts
    <3>2. ASSUME outcome' = [outcome EXCEPT ![t] = "failed"], UNCHANGED session
          PROVE  TaskEnds(t, "failed") /\ "failed" \in Outcomes
      BY <2>2, <3>2 DEF TaskEnds, Outcomes
    <3> QED
      BY <1>6, <2>2, <3>1, <3>2 DEF TaskStart, Course
  <2> QED
    BY <2>1, <2>2
<1>7. ASSUME NEW t \in Tasks, TaskCancel(t) PROVE Course
  <2>1. CASE session = NoSession \/ t # session.task
    BY <1>7, <2>1 DEF TaskCancel, Course, VerdictsStay, Stands
  <2>2. CASE session # NoSession /\ t = session.task
    <3>1. TaskEnds(t, "cancelled") /\ "cancelled" \in Outcomes
      BY <1>7, <2>2 DEF TaskCancel, TaskInv, SessionOpen, TaskEnds, Outcomes
    <3> QED
      BY <3>1 DEF Course
  <2> QED
    BY <2>1, <2>2
<1>8. ASSUME NEW a, NEW o \in {"allowed", "failed", "denied", "rejected"}, ActionResult(a, o)
      PROVE  Course
  <2>1. CASE session.at = "await" /\ a = Awaited /\ a \in pendingActions
    BY <1>8, <2>1, AfterResultCourse DEF ActionResult, NoSession
  <2>2. CASE ~(session.at = "await" /\ a = Awaited /\ a \in pendingActions)
    BY <1>8, <2>2 DEF ActionResult, Course, VerdictsStay, Stands
  <2> QED
    BY <2>1, <2>2
<1>9. ASSUME NEW g \in Conns, BrainReceives(g) PROVE Course
  <2> DEFINE f == Head(toBrain[g])
  <2>1. f \in BrainFrames
    <3>1. toBrain[g] \in Seq(BrainFrames) /\ toBrain[g] # << >>
      BY <1>9 DEF TaskInv, WireInv, FramesOK, BrainReceives
    <3> QED
      BY <3>1, TailFacts
  <2>2. /\ f.type = "task_start" => TaskStart(f.task)
        /\ f.type = "task_cancel" => TaskCancel(f.task)
        /\ f.type = "action_result" => ActionResult(f.act, f.outcome)
    BY <1>9 DEF BrainReceives
  <2> HIDE DEF f
  <2> QED
    BY <1>6, <1>7, <1>8, <2>1, <2>2 DEF BrainFrames
<1>10. UNCHANGED task
  BY DEF ChatReturns, ActionTimeout, BrainReceives, BrainSeesClose, HeartbeatTimeout, BrainRestart,
         bodyVars
<1> QED
  BY <1>1, <1>2, <1>4, <1>5, <1>9, <1>10 DEF BrainSeesClose, HeartbeatTimeout

\* The Brain's verdicts stand while the Body moves; what it shows may change.
LEMMA StatusStands ==
    ASSUME UNCHANGED <<session, outcome>>
    PROVE  status' = status
BY DEF status

LEMMA MirrorIsPromised ==
    ASSUME TaskInv, UNCHANGED <<session, outcome>>, NEW t,
           NEW state \in {"active", "completed", "error", "interrupted"}, Mirror(t, state),
           state = "completed" => outcome[t] = "completed",
           task # NoTask /\ task.id = t => task.state # "completed"
    PROVE  [Promise!Next]_(Promise!vars)
<1>1. CASE task # NoTask /\ task.id = t
  <2>1. task' = [task EXCEPT !.state = state] /\ t \in Tasks
    BY <1>1 DEF Mirror, TaskInv, StaysReachable, TypeOK
  <2>2. state = "completed" => status[t] = "completed"
    BY <2>1 DEF status
  <2>3. Promise!Show(state)
    BY <1>1, <2>1, <2>2, StatusStands DEF Promise!Show
  <2> QED
    BY <2>3 DEF Promise!Next
<1>2. CASE ~(task # NoTask /\ task.id = t)
  BY <1>2, StatusStands DEF Mirror, Promise!vars
<1> QED
  BY <1>1, <1>2

LEMMA BodyReceivesIsPromised ==
    ASSUME TaskInv, BodyReceives
    PROVE  [Promise!Next]_(Promise!vars)
<1> DEFINE f == Head(toBody)
<1>1. UNCHANGED <<session, outcome>> /\ toBody \in Seq(BodyFrames) /\ toBody # << >>
  BY BodyFacts DEF BodyReceives, brainVars, FramesOK
<1>2. f \in BodyFrames /\ 1 \in DOMAIN toBody /\ f = toBody[1]
  BY <1>1, TailFacts
<1>3. /\ f.type \in {"ready", "error"} => UNCHANGED task
      /\ f.type = "task_update" => Mirror(f.task, "active")
      /\ f.type = "task_complete" => Mirror(f.task, "completed")
      /\ f.type = "task_failed" => Mirror(f.task, "error")
      /\ f.type = "task_action" => Mirror(f.act.task, "active") \/ UNCHANGED task
  BY DEF BodyReceives, Execute, Mirror
<1> HIDE DEF f
<1>4. /\ f.type \in {"task_update", "task_complete", "task_failed"} =>
           (task # NoTask /\ task.id = f.task => task.state # "completed")
      /\ f.type = "task_action" =>
           (task # NoTask /\ task.id = f.act.task => task.state # "completed")
  BY <1>2, BodyFacts DEF WireInv, ShownIsLast, About
<1>5. f.type = "task_complete" => outcome[f.task] = "completed"
  BY <1>2, BodyFacts DEF WireInv, LastWord
<1>6. UNCHANGED task => UNCHANGED Promise!vars
  BY <1>1, StatusStands DEF Promise!vars
<1>7. CASE f.type = "task_action"
  BY <1>1, <1>3, <1>4, <1>6, <1>7, MirrorIsPromised
<1>8. CASE f.type \in {"task_update", "task_complete", "task_failed"}
  BY <1>1, <1>3, <1>4, <1>5, <1>8, MirrorIsPromised
<1>9. CASE f.type \in {"ready", "error"}
  BY <1>3, <1>6, <1>9
<1> QED
  BY <1>2, <1>7, <1>8, <1>9 DEF BodyFrames

LEMMA ApproveIsPromised ==
    ASSUME TaskInv, NEW a \in Actions, Approve(a)
    PROVE  [Promise!Next]_(Promise!vars)
<1>1. /\ UNCHANGED <<session, outcome>> /\ Mirror(a.task, "active") /\ doing[a] = "prompt"
  BY DEF Approve, Execute, Mirror, brainVars
<1>2. \/ session.at = "await" /\ a = Awaited
      \/ outcome[a.task] \in {"failed", "cancelled"}
  BY <1>1, BodyFacts DEF WireInv, AttendedTo
<1>3. outcome[a.task] # "completed"
  BY <1>2 DEF TaskInv, SessionOpen, Awaited, NoSession
<1>4. task # NoTask /\ task.id = a.task => task.state # "completed"
  BY <1>3, BodyFacts DEF WireInv, NeverFakeCompletion
<1> QED
  BY <1>1, <1>4, MirrorIsPromised

LEMMA SendMessageIsPromised ==
    ASSUME TaskInv, NEW t \in Tasks, SendMessage(t)
    PROVE  Promise!Next
<1>1. /\ UNCHANGED <<session, outcome>> /\ task' = [id |-> t, state |-> "active"] /\ t \notin used
  BY DEF SendMessage, brainVars
<1>2. outcome[t] = "none" /\ ~(session # NoSession /\ session.task = t)
  BY <1>1, BodyFacts DEF WireInv, TasksAreUsed
<1>3. status[t] = "new"
  BY <1>2 DEF status
<1> QED
  BY <1>1, <1>3, StatusStands DEF Promise!Submit, Promise!Next

LEMMA StepIsPromised ==
    ASSUME TaskInv, [Next]_vars
    PROVE  [Promise!Next]_(Promise!vars)
<1>1. CASE \/ ChatReturns \/ ActionTimeout
           \/ \E g \in Conns : BrainReceives(g) \/ BrainSeesClose(g)
           \/ HeartbeatTimeout \/ BrainRestart
  BY <1>1, BrainCourse, CourseIsPromised
<1>2. ASSUME UNCHANGED <<session, outcome, task>>
      PROVE  [Promise!Next]_(Promise!vars)
  BY <1>2, StatusStands DEF Promise!vars
<1>3. CASE UNCHANGED vars \/ Connect \/ LinkFails \/ StopTask
           \/ \E a \in Actions : Deny(a) \/ ToolReturns(a)
  BY <1>2, <1>3 DEF vars, bodyVars, brainVars, Connect, LinkFails, StopTask, Deny, ToolReturns
<1>4. CASE BodySeesClose
  <2>1. CASE phase = "ready" /\ Active
    <3>1. UNCHANGED <<session, outcome>> /\ task # NoTask /\ Mirror(task.id, "interrupted")
          /\ task.state # "completed"
      BY <1>4, <2>1 DEF BodySeesClose, Active, Mirror, brainVars
    <3> QED
      BY <3>1, MirrorIsPromised
  <2>2. CASE ~(phase = "ready" /\ Active)
    BY <1>2, <1>4, <2>2 DEF BodySeesClose, brainVars
  <2> QED
    BY <2>1, <2>2
<1>5. CASE BodyReceives
  BY <1>5, BodyReceivesIsPromised
<1>6. CASE \E a \in Actions : Approve(a)
  BY <1>6, ApproveIsPromised
<1>7. CASE \E t \in Tasks : SendMessage(t)
  BY <1>7, SendMessageIsPromised
<1>8. CASE ClearHistory \/ Disconnect
  <2>1. UNCHANGED <<session, outcome>> /\ task' = NoTask
    BY <1>8 DEF ClearHistory, Disconnect, ClearTask, brainVars
  <2>2. Promise!Forget
    BY <2>1, StatusStands DEF Promise!Forget
  <2> QED
    BY <2>2 DEF Promise!Next
<1> QED
  BY <1>1, <1>3, <1>4, <1>5, <1>6, <1>7, <1>8 DEF Next, User

\* Brain, Body and links together implement TaskPromise: one task at a time, one
\* verdict each, and the Body shows no completion but the Brain's, nor takes it back.
THEOREM PromiseIsKept == Spec => KeepsPromise
<1>1. Init => Promise!Init
  <2> SUFFICES ASSUME Init PROVE Promise!Init
    OBVIOUS
  <2>1. status = [t \in Tasks |-> "new"]
    BY DEF Init, status
  <2> QED
    BY <2>1 DEF Init, Promise!Init
<1>2. TaskInv /\ [Next]_vars => [Promise!Next]_(Promise!vars)
  BY StepIsPromised
<1> QED
  BY <1>1, <1>2, TaskInvAlways, PTL DEF Spec, KeepsPromise, Promise!Spec
=============================================================================
