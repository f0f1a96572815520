---------------------------- MODULE ActionLedger ----------------------------
(***************************************************************************)
(* The Body's policy boundary: what RemoteBrainDriver does with every      *)
(* task_action the Brain sends (remote-brain.ts, evaluateAndExecute), the  *)
(* durable action ledger it consults and writes (body-state.ts), the       *)
(* confirmation gate and the in-memory grants (permission.ts).             *)
(*                                                                         *)
(* The driver runs on one event loop.  A task_action is a call of its own  *)
(* that may be suspended at the confirmation prompt, in a tool, or in a    *)
(* retry's sleep, and any number of calls are in progress at once; between *)
(* two suspensions a call is interrupted by nothing but a crash.  The      *)
(* phases in Running are those in which the loop is inside a call, so no   *)
(* other event is handled while one exists (Quiet); a crash may still fall *)
(* between the two durable writes and what they protect.                   *)
(*                                                                         *)
(* Requests are unconstrained: any action may be sent at any time and      *)
(* again, which covers resends after a reconnect, a restart of either side *)
(* and a model that repeats a tool-call id.                                *)
(***************************************************************************)
EXTENDS Naturals, FiniteSets, Sequences, SequencesExt

CONSTANTS
    Actions,      \* action ids
    Tasks,        \* task ids
    Keys,         \* permission keys (tool, or filesystem:operation)
    Calls,        \* task_action handlers that can be in progress at once
    TaskOf,       \* the task an action belongs to
    KeyOf,        \* the permission key of an action
    Idempotent,   \* actions the Brain marks safe to re-run
    NeedsConfirm, \* actions the Body's policy asks the user about
    Unsupported,  \* actions whose tool is unknown or outside the capabilities
    MaxCache,     \* MAX_CACHE_ENTRIES
    MaxRetries,   \* min(MAX_ACTION_RETRIES, agent.maxRetries - 1)
    None          \* no call, no grant

ASSUME CacheAssumption == MaxCache \in Nat \ {0}
ASSUME RetriesAssumption == MaxRetries \in Nat
ASSUME ActionAssumption ==
    /\ TaskOf \in [Actions -> Tasks]
    /\ KeyOf \in [Actions -> Keys]
    /\ Idempotent \subseteq Actions
ASSUME NoneAssumption == None \notin Calls

VARIABLES
    ledger,     \* body-actions.json, oldest entry first; survives a crash
    call,       \* what each call is doing
    pending,    \* pendingConfirmations: action id -> the call it resolves
    grants,     \* PermissionGrants: key -> grant
    ran,        \* actions whose tool has started (the outside world)
    ranAgain,   \* actions whose tool was started by a second call
    forgotten,  \* actions whose entry was trimmed from a full ledger
    answers     \* the action_result verdicts given so far, per action

bodyVars == <<call, pending, grants>>
worldVars == <<ran, ranAgain, forgotten, answers>>
vars == <<ledger, call, pending, grants, ran, ranAgain, forgotten, answers>>

Outcomes == {"allowed", "denied", "rejected"}
Verdicts == Outcomes \cup {"unsupported", "unknown"}
Entries == [id : Actions, state : {"received", "final"}, outcome : Outcomes]

Waiting == {"confirm", "run", "backoff"}
Running == {"gate", "approved", "denied", "done"}
BeforeStart == {"gate", "confirm", "approved", "denied"}
Idle == [phase |-> "idle"]
Scopes == {"once", "task", "session"}
\* reply: the scope of an approval, then the outcome to be sent.
Pending == [phase : (Waiting \cup Running) \ {"done"}, act : Actions,
            tries : 0..MaxRetries, reply : Scopes \cup {"none"}]
Finished == [phase : {"done"}, act : Actions, tries : 0..MaxRetries, reply : Outcomes]
CallStates == {Idle} \cup Pending \cup Finished
Begin(a) == [phase |-> "gate", act |-> a, tries |-> 0, reply |-> "none"]

NoGrant == [scope |-> "none"]
Grants ==
    {NoGrant} \cup [scope : {"ALLOW_SESSION"}]
              \cup [scope : {"ALLOW_TASK"}, task : Tasks]

-----------------------------------------------------------------------------
(* The ledger file *)

Ids(l) == {l[i].id : i \in DOMAIN l}

\* getCachedAction: the entry of an action, if it has one.
Index(l, a) == CHOOSE i \in DOMAIN l : l[i].id = a
Entry(l, a) == l[Index(l, a)]

Final(l, a) == a \in Ids(l) /\ Entry(l, a).state = "final"

\* Ids are unique in the file, so the filter drops at most one entry.
Without(l, a) == IF a \in Ids(l) THEN RemoveAt(l, Index(l, a)) ELSE l

\* while (all.length > MAX_CACHE_ENTRIES) all.shift(): a write adds one entry.
Trim(l) == IF Len(l) > MaxCache THEN Tail(l) ELSE l

\* The common tail of markActionReceived and cacheAction.
Write(l, e) == Trim(Append(Without(l, e.id), e))

Received(a) == [id |-> a, state |-> "received", outcome |-> "rejected"]
Verdict(a, o) == [id |-> a, state |-> "final", outcome |-> o]

\* A write and what the trim lost with it.
Save(e) ==
    /\ ledger' = Write(ledger, e)
    /\ forgotten' = forgotten \cup ((Ids(ledger) \cup {e.id}) \ Ids(ledger'))

-----------------------------------------------------------------------------
(* Grants *)

\* effectiveFor: an ALLOW_TASK grant covers its own task only.
Granted(a) ==
    LET g == grants[KeyOf[a]]
    IN  \/ g.scope = "ALLOW_SESSION"
        \/ g.scope = "ALLOW_TASK" /\ g.task = TaskOf[a]

\* PermissionGrants.grant: one grant per key, the last one stored.
Remember(a, scope) ==
    grants' = CASE scope = "once" -> grants
                [] scope = "task" ->
                     [grants EXCEPT ![KeyOf[a]] = [scope |-> "ALLOW_TASK", task |-> TaskOf[a]]]
                [] OTHER ->
                     [grants EXCEPT ![KeyOf[a]] = [scope |-> "ALLOW_SESSION"]]

-----------------------------------------------------------------------------
Quiet == \A c \in Calls : call[c].phase \notin Running

Init ==
    /\ ledger = << >>
    /\ call = [c \in Calls |-> Idle]
    /\ pending = [a \in Actions |-> None]
    /\ grants = [k \in Keys |-> NoGrant]
    /\ ran = {} /\ ranAgain = {} /\ forgotten = {}
    /\ answers = [a \in Actions |-> {}]

Answer(a, v) == answers' = [answers EXCEPT ![a] = @ \cup {v}]

\* The tool starts.  A retry inside one call is not a second start.
StartTool(a) ==
    /\ ran' = ran \cup {a}
    /\ ranAgain' = IF a \in ran THEN ranAgain \cup {a} ELSE ranAgain

(* handleTaskAction, steps 1 to 3: the capability check, the ledger's       *)
(* answer, and the durable "received" mark.                                 *)

RejectUnsupported(a) ==
    /\ Quiet
    /\ a \in Unsupported
    /\ Answer(a, "unsupported")
    /\ UNCHANGED <<ledger, bodyVars, ran, ranAgain, forgotten>>

Replay(a) ==
    /\ Quiet
    /\ a \notin Unsupported
    /\ Final(ledger, a)
    /\ Answer(a, Entry(ledger, a).outcome)
    /\ UNCHANGED <<ledger, bodyVars, ran, ranAgain, forgotten>>

\* NON_IDEMPOTENT_UNKNOWN_STATE: requested before, and may have run.
RefuseReplay(a) ==
    /\ Quiet
    /\ a \notin Unsupported \cup Idempotent
    /\ a \in Ids(ledger) /\ ~Final(ledger, a)
    /\ Answer(a, "unknown")
    /\ UNCHANGED <<ledger, bodyVars, ran, ranAgain, forgotten>>

\* Mutant: an unfinished entry is re-run whatever the action.
AcceptUnknown(c, a) ==
    /\ Quiet
    /\ call[c] = Idle
    /\ a \notin Unsupported
    /\ ~Final(ledger, a)
    /\ \/ a \notin Ids(ledger) /\ Save(Received(a))
       \/ a \in Ids(ledger) /\ UNCHANGED <<ledger, forgotten>>
    /\ call' = [call EXCEPT ![c] = Begin(a)]
    /\ UNCHANGED <<pending, grants, ran, ranAgain, answers>>

\* Mutant: every request is marked received again, finished or not.
AcceptAgain(c, a) ==
    /\ Quiet
    /\ call[c] = Idle
    /\ a \notin Unsupported
    /\ Save(Received(a))
    /\ call' = [call EXCEPT ![c] = Begin(a)]
    /\ UNCHANGED <<pending, grants, ran, ranAgain, answers>>

\* A first request, or the resend of an unfinished idempotent one.
Accept(c, a) ==
    /\ Quiet
    /\ call[c] = Idle
    /\ a \notin Unsupported
    /\ ~Final(ledger, a)
    /\ \/ a \notin Ids(ledger) /\ Save(Received(a))
       \/ a \in Ids(ledger) \cap Idempotent /\ UNCHANGED <<ledger, forgotten>>
    /\ call' = [call EXCEPT ![c] = Begin(a)]
    /\ UNCHANGED <<pending, grants, ran, ranAgain, answers>>

\* Step 4: skip the prompt, or wait for the user.
PassGate(c) ==
    /\ call[c].phase = "gate"
    /\ LET a == call[c].act IN
         /\ a \in NeedsConfirm => Granted(a)
         /\ StartTool(a)
         /\ call' = [call EXCEPT ![c] = [@ EXCEPT !.phase = "run"]]
    /\ UNCHANGED <<ledger, pending, grants, forgotten, answers>>

RequestConfirmation(c) ==
    /\ call[c].phase = "gate"
    /\ LET a == call[c].act IN
         /\ a \in NeedsConfirm /\ ~Granted(a)
         /\ pending' = [pending EXCEPT ![a] = c]
         /\ call' = [call EXCEPT ![c] = [@ EXCEPT !.phase = "confirm"]]
    /\ UNCHANGED <<ledger, grants, worldVars>>

Approved(cl, scope) == [cl EXCEPT !.phase = "approved", !.reply = scope]
Denied(cl) == [cl EXCEPT !.phase = "denied"]
Done(cl, outcome) == [cl EXCEPT !.phase = "done", !.reply = outcome]

\* respondToConfirmation(stepId, approved, scope)
Respond(a, approved, scope) ==
    /\ Quiet
    /\ pending[a] # None
    /\ LET c == pending[a] IN
         call' = [call EXCEPT ![c] = IF approved THEN Approved(@, scope) ELSE Denied(@)]
    /\ pending' = [pending EXCEPT ![a] = None]
    /\ UNCHANGED <<ledger, grants, worldVars>>

\* Mutant: the timer settles only a prompt the map still knows.
ConfirmationTimeoutOwned(c) ==
    /\ Quiet
    /\ call[c].phase = "confirm"
    /\ pending[call[c].act] = c
    /\ call' = [call EXCEPT ![c] = Denied(@)]
    /\ pending' = [pending EXCEPT ![call[c].act] = None]
    /\ UNCHANGED <<ledger, grants, worldVars>>

\* Mutant: settling leaves the map entry behind.
ConfirmationTimeoutKeep(c) ==
    /\ Quiet
    /\ call[c].phase = "confirm"
    /\ call' = [call EXCEPT ![c] = Denied(@)]
    /\ UNCHANGED <<ledger, pending, grants, worldVars>>

\* The prompt's own timer; settling deletes the map entry of its action,
\* whichever call owns it by now.
ConfirmationTimeout(c) ==
    /\ Quiet
    /\ call[c].phase = "confirm"
    /\ call' = [call EXCEPT ![c] = Denied(@)]
    /\ pending' = [pending EXCEPT ![call[c].act] = None]
    /\ UNCHANGED <<ledger, grants, worldVars>>

\* Every prompt still in the map is denied: the verdict without a step id
\* and clearTask share this.
DenyPending ==
    /\ call' = [c \in Calls |-> IF \E a \in Actions : pending[a] = c
                                THEN Denied(call[c]) ELSE call[c]]
    /\ pending' = [a \in Actions |-> None]

\* clearTask (disconnect, a failed send, a local stop), and the verdict
\* without a step id.
DropTask ==
    /\ Quiet
    /\ DenyPending
    /\ UNCHANGED <<ledger, grants, worldVars>>

\* clearHistory forgets the approvals too.
ClearHistory ==
    /\ Quiet
    /\ DenyPending
    /\ grants' = [k \in Keys |-> NoGrant]
    /\ UNCHANGED <<ledger, worldVars>>

\* handleTaskComplete and handleTaskFailed: the task's grants are dropped,
\* its prompts are left waiting.
EndTask(t) ==
    /\ Quiet
    /\ grants' = [k \in Keys |-> IF /\ grants[k].scope = "ALLOW_TASK"
                                    /\ grants[k].task = t
                                 THEN NoGrant ELSE grants[k]]
    /\ UNCHANGED <<ledger, call, pending, ran, ranAgain, forgotten, answers>>

\* The prompt's promise resolved: a denial is recorded and returned ...
RecordDenial(c) ==
    /\ call[c].phase = "denied"
    /\ Save(Verdict(call[c].act, "denied"))
    /\ call' = [call EXCEPT ![c] = Done(@, "denied")]
    /\ UNCHANGED <<pending, grants, ran, ranAgain, answers>>

\* ... an approval is remembered as its scope says, and the tool starts.
RunApproved(c) ==
    /\ call[c].phase = "approved"
    /\ LET a == call[c].act IN
         /\ Remember(a, call[c].reply)
         /\ StartTool(a)
         /\ call' = [call EXCEPT ![c] = [@ EXCEPT !.phase = "run", !.reply = "none"]]
    /\ UNCHANGED <<ledger, pending, forgotten, answers>>

\* Step 5: a transient failure sleeps and runs again, at most MaxRetries times.
ToolRetryable(c) ==
    /\ Quiet
    /\ call[c].phase = "run"
    /\ call[c].tries < MaxRetries
    /\ call' = [call EXCEPT ![c] = [@ EXCEPT !.phase = "backoff", !.tries = call[c].tries + 1]]
    /\ UNCHANGED <<ledger, pending, grants, worldVars>>

RetryTool(c) ==
    /\ Quiet
    /\ call[c].phase = "backoff"
    /\ call' = [call EXCEPT ![c] = [@ EXCEPT !.phase = "run"]]
    /\ UNCHANGED <<ledger, pending, grants, worldVars>>

\* Step 6: the outcome is durable before it is sent.
ToolReturns(c, outcome) ==
    /\ Quiet
    /\ call[c].phase = "run"
    /\ Save(Verdict(call[c].act, outcome))
    /\ call' = [call EXCEPT ![c] = Done(@, outcome)]
    /\ UNCHANGED <<pending, grants, ran, ranAgain, answers>>

SendResult(c) ==
    /\ call[c].phase = "done"
    /\ Answer(call[c].act, call[c].reply)
    /\ call' = [call EXCEPT ![c] = Idle]
    /\ UNCHANGED <<ledger, pending, grants, ran, ranAgain, forgotten>>

\* The process dies and starts again: only the ledger file is left.
Crash ==
    /\ call' = [c \in Calls |-> Idle]
    /\ pending' = [a \in Actions |-> None]
    /\ grants' = [k \in Keys |-> NoGrant]
    /\ UNCHANGED <<ledger, worldVars>>

TaskAction(a) ==
    \/ RejectUnsupported(a)
    \/ Replay(a)
    \/ RefuseReplay(a)
    \/ \E c \in Calls : Accept(c, a)

CallStep(c) ==
    \/ PassGate(c)
    \/ RequestConfirmation(c)
    \/ RecordDenial(c)
    \/ RunApproved(c)
    \/ RetryTool(c)
    \/ \E o \in {"allowed", "rejected"} : ToolReturns(c, o)
    \/ SendResult(c)

User ==
    \/ \E a \in Actions, ok \in BOOLEAN, s \in Scopes : Respond(a, ok, s)
    \/ DropTask
    \/ ClearHistory

Next ==
    \/ \E a \in Actions : TaskAction(a)
    \/ \E c \in Calls : CallStep(c) \/ ToolRetryable(c) \/ ConfirmationTimeout(c)
    \/ User
    \/ \E t \in Tasks : EndTask(t)
    \/ Crash

\* The loop serves its queue in order, so a call's continuation is reached
\* however many other events arrive (strong fairness: the loop is busy in
\* between); a tool returns in the end and the prompt's timer fires.  Nothing
\* is promised of the user.
Fairness ==
    \A c \in Calls : SF_vars(CallStep(c)) /\ SF_vars(ConfirmationTimeout(c))

Spec == Init /\ [][Next]_vars
FairSpec == Spec /\ Fairness

-----------------------------------------------------------------------------
(* Properties *)

TypeOK ==
    /\ ledger \in Seq(Entries)
    /\ call \in [Calls -> CallStates]
    /\ pending \in [Actions -> Calls \cup {None}]
    /\ grants \in [Keys -> Grants]
    /\ ran \subseteq Actions
    /\ ranAgain \subseteq Actions
    /\ forgotten \subseteq Actions
    /\ answers \in [Actions -> SUBSET Verdicts]

\* "A resend after a crash/reconnect can never double-run a non-idempotent
\* action" (evaluateAndExecute, step 2): whatever is resent, and wherever
\* the process dies, a second call starts the tool of such an action only
\* if the bounded ledger had lost the action's entry.
AtMostOnce == ranAgain \subseteq Idempotent \cup forgotten

\* A prompt can always be answered: an entry of pendingConfirmations belongs
\* to a call that is waiting for exactly that action.
PromptsAreWaiting ==
    \A a \in Actions : pending[a] # None =>
      /\ call[pending[a]].phase = "confirm"
      /\ call[pending[a]].act = a

Live(c, a) == call[c] # Idle /\ call[c].act = a
Guarded(a) == a \in Actions \ (Idempotent \cup forgotten)

\* The induction behind AtMostOnce and DeniedNeverRan, for an action that
\* must not be repeated and whose entry was not trimmed: what has run or is
\* in progress has an entry; at most one call is in progress and, until it
\* has its verdict, the entry is open; before the tool starts it has not run.
Tracked ==
    \A a \in Actions : Guarded(a) /\ (a \in ran \/ \E c \in Calls : Live(c, a))
                      => a \in Ids(ledger)
OneCall ==
    \A a \in Actions, c, d \in Calls : Guarded(a) /\ Live(c, a) /\ Live(d, a) => c = d
EntryOpen ==
    \A a \in Actions, c \in Calls :
      Guarded(a) /\ Live(c, a) /\ call[c].phase # "done" =>
        \A i \in DOMAIN ledger : ledger[i].id = a => ledger[i].state = "received"
NotStarted ==
    \A a \in Actions, c \in Calls :
      /\ Guarded(a) /\ Live(c, a)
      /\ call[c].phase \in BeforeStart
      => a \notin ran

\* A denial in the ledger is the truth: unless the entry was trimmed or the
\* action may be re-run, the tool of a denied action never started.
DeniedNeverRan ==
    \A i \in DOMAIN ledger :
      /\ ledger[i].state = "final" /\ ledger[i].outcome = "denied"
      /\ ledger[i].id \notin Idempotent \cup forgotten
      => ledger[i].id \notin ran

\* Every action that is neither idempotent nor trimmed is accounted for in the
\* ledger from its acceptance on: the inductive invariant of the proofs.
LedgerInv ==
    TypeOK /\ PromptsAreWaiting /\ Tracked /\ OneCall /\ EntryOpen /\ NotStarted
           /\ AtMostOnce /\ DeniedNeverRan

\* The Brain is never told two different stories about one non-idempotent
\* action: all verdicts other than the refusal to guess agree, across
\* replays and restarts.
OneStory ==
    \A a \in Actions \ (Idempotent \cup forgotten) :
      Cardinality(answers[a] \cap Outcomes) <= 1

\* "allowed" is only ever reported of an action whose tool did start.
AllowedRan == \A a \in Actions : "allowed" \in answers[a] => a \in ran

\* A final entry is never overwritten by a different verdict nor reopened
\* for a non-idempotent action, so a replay always repeats the first answer.
VerdictsStand ==
    [][\A a \in Actions \ (Idempotent \cup forgotten') :
         Final(ledger, a) =>
           /\ Final(ledger', a)
           /\ Entry(ledger', a).outcome = Entry(ledger, a).outcome]_vars

\* What the Brain is told is true and stays so: one story per action, "allowed"
\* only of what started, and no verdict written over (evaluateAndExecute).
AnswersAreTrue == [](OneStory /\ AllowedRan) /\ VerdictsStand

\* Every call ends: an unanswered or orphaned prompt is denied by its own
\* timer and a failing tool is retried a bounded number of times.
CallsEnd == \A c \in Calls : call[c].phase # "idle" ~> call[c].phase = "idle"
=============================================================================
