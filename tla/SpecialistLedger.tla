-------------------------- MODULE SpecialistLedger --------------------------
(* The ledger of bounded objectives (orchestrator/specialist.ts), as           *)
(* functions on a ledger value: one objective per task, its budgets, the       *)
(* evidence of its actions and the verdict drawn from it; and the policy by    *)
(* which a failed action is tried again within these budgets.                  *)
EXTENDS Naturals, Sequences, FiniteSets

CONSTANTS MaxActions,     \* maxActions, 16 in the code
          MaxRecoveries,  \* maxRecoveries, 8
          MaxReplans,     \* maxReplans and maxReplansPerTask, 1
          MaxEvidence     \* MAX_EVIDENCE, 30

ASSUME BudgetsAssumption ==
  {MaxActions, MaxRecoveries, MaxReplans} \subseteq Nat /\ MaxEvidence \in Nat \ {0}

Put(f, x, r) == [y \in DOMAIN f \cup {x} |-> IF y = x THEN r ELSE f[y]]

NoTask == 0
NoObjective == 0
EmptyLedger == [objs |-> <<>>, current |-> NoObjective, made |-> 0]

(* Two ghosts: "failures", the failed actions, and whether evidence was "lost". *)
NewObjective(task) ==
  [task |-> task, status |-> "ASSIGNED", actions |-> 0, recoveries |-> 0, replans |-> 0,
   denied |-> 0, late |-> FALSE, evidence |-> <<>>, failures |-> 0, lost |-> FALSE]

Terminal(o) == o.status \notin {"ASSIGNED", "RUNNING"}
HasObjective(l, id) == id \in DOMAIN l.objs
ObjectivesOf(l, task) == {id \in DOMAIN l.objs : l.objs[id].task = task}

(* assign: a task's objective answers every later call of the task, a settled  *)
(* one included; a call outside a task takes the current one of no task.       *)
Assigned(l, task) ==
  IF task # NoTask
  THEN IF ObjectivesOf(l, task) # {} THEN CHOOSE id \in ObjectivesOf(l, task) : TRUE
       ELSE l.made + 1
  ELSE IF HasObjective(l, l.current) /\ l.objs[l.current].task = NoTask THEN l.current
       ELSE l.made + 1
Assign(l, task) ==
  IF HasObjective(l, Assigned(l, task)) THEN l
  ELSE [objs |-> Put(l.objs, l.made + 1, NewObjective(task)),
        current |-> l.made + 1, made |-> l.made + 1]

Admits(l, id) == HasObjective(l, id) /\ ~Terminal(l.objs[id])
\* Mutant: one action more than the budget.
ActionAllowedLast(l, id) ==
  Admits(l, id) /\ ~l.objs[id].late /\ l.objs[id].actions <= MaxActions
ActionAllowed(l, id) == /\ Admits(l, id) /\ ~l.objs[id].late
                        /\ l.objs[id].actions < MaxActions
RecoveryAllowed(l, id) == Admits(l, id) /\ l.objs[id].recoveries < MaxRecoveries
ReplanAllowed(l, id) == Admits(l, id) /\ l.objs[id].replans < MaxReplans

(* Every record goes to an objective that is still in the ledger.              *)
RecordAction(l, id) ==
  IF ~HasObjective(l, id) THEN l
  ELSE [l EXCEPT !.objs[id].actions = @ + 1,
                 !.objs[id].status = IF @ = "ASSIGNED" THEN "RUNNING" ELSE @]
RecordRecovery(l, id) ==
  IF HasObjective(l, id) THEN [l EXCEPT !.objs[id].recoveries = @ + 1] ELSE l
RecordReplan(l, id) ==
  IF HasObjective(l, id) THEN [l EXCEPT !.objs[id].replans = @ + 1] ELSE l

(* recordEvidence: the oldest makes room.                                      *)
RecordEvidence(l, id, outcome) ==
  IF ~HasObjective(l, id) THEN l
  ELSE LET o == l.objs[id] IN
       [l EXCEPT !.objs[id] =
         [o EXCEPT !.failures = IF outcome = "failed" THEN @ + 1 ELSE @,
                   !.lost = @ \/ Len(o.evidence) >= MaxEvidence,
                   !.evidence = IF Len(@) < MaxEvidence THEN Append(@, outcome)
                                ELSE Append(Tail(@), outcome)]]

(* recordDenied, and the record the orchestrator adds to it.                   *)
RecordDenied(l, id) ==
  IF ~HasObjective(l, id) THEN l
  ELSE RecordEvidence(RecordEvidence([l EXCEPT !.objs[id].denied = @ + 1], id, "denied"),
                      id, "denied")

Shows(o, outcome) == Cardinality({i \in DOMAIN o.evidence : o.evidence[i] = outcome})

\* Mutant: a failure is made good by as many verified actions.
FailedOutweighed(o) == Shows(o, "failed") > Shows(o, "verified")
Failed(o) == Shows(o, "failed") > 0

(* settle: the clock first, then the user's stop, then what really failed.     *)
Verdict(o, stopped, late) ==
  LET verified  == Shows(o, "verified")
      completed == verified + Shows(o, "completed")
  IN  IF o.late \/ late \/ Shows(o, "refused-late") > 0 THEN "TIMED_OUT"
      ELSE IF stopped THEN "CANCELLED"
      ELSE IF Failed(o) THEN "FAILED"
      ELSE IF Shows(o, "refused-budget") > 0 /\ verified = 0 THEN "FAILED"
      ELSE IF o.denied > 0 /\ completed = 0 THEN "BLOCKED"
      ELSE IF completed > 0 /\ verified = completed THEN "COMPLETED_VERIFIED"
      ELSE IF verified > 0 THEN "COMPLETED_PARTIAL"
      ELSE "COMPLETED_UNVERIFIED"

(* settleTask: the first settlement wins.  What it was drawn from is read no   *)
(* more, and forgotten here.                                                   *)
SettleTask(l, task, stopped, late) ==
  IF task = NoTask \/ ObjectivesOf(l, task) = {} THEN l
  ELSE LET id == CHOOSE i \in ObjectivesOf(l, task) : TRUE
       IN  IF Terminal(l.objs[id]) THEN l
           ELSE [l EXCEPT !.objs[id] = [NewObjective(task) EXCEPT
                              !.status = Verdict(l.objs[id], stopped, late),
                              !.failures = IF l.objs[id].failures = 0 THEN 0 ELSE 1,
                              !.lost = l.objs[id].lost],
                          !.current = IF @ = id THEN NoObjective ELSE @]

DetachCurrent(l) == [l EXCEPT !.current = NoObjective]
Cleared(l) == [EmptyLedger EXCEPT !.made = l.made]
-----------------------------------------------------------------------------
(* The deterministic recovery policy (orchestrator/recovery-policy.ts): what   *)
(* a failed tool call is taken for, whether it may be tried again, and the     *)
(* alternate plan there is for it.  A tool's error is one of the kinds its     *)
(* message is recognised by; the messages themselves are left out.             *)

(* "browse" stands for the tools that act on a web page, "look" for reading    *)
(* a file, "wipe" for deleting one, "shell" for the terminal.                  *)
Tools == {"browse", "look", "wipe", "shell"}
Errors == {"timeout", "reset", "unreadable", "lost", "missing", "mismatch", "incapable", "other"}

(* classifyFailure: the first class whose patterns match the evidence.         *)
ClassOf(tool, error) ==
  CASE error \in {"timeout", "reset"} ->
         IF tool = "browse" THEN "OBSERVATION_UNAVAILABLE" ELSE "TRANSIENT_TIMEOUT"
    [] error = "unreadable" -> "OBSERVATION_UNAVAILABLE"
    [] error = "lost"       -> "SESSION_DESYNC"
    [] error = "missing"    -> "TARGET_NOT_FOUND"
    [] error = "mismatch"   -> "STATE_MISMATCH"
    [] error = "incapable"  -> "ENVIRONMENT_BLOCKED"
    [] OTHER                -> "UNCLASSIFIED"

(* isRetryableError compares a lower-cased message with names in capitals, so  *)
(* a connection that was reset is not one of its cases.                        *)
LegacyRetryable(error) == error = "timeout"

(* selectStrategy: the attempt-th try of a call that failed in this class.     *)
Strategy(class, attempt, maxAttempts) ==
  IF attempt > maxAttempts \/ class \in {"ENVIRONMENT_BLOCKED", "UNCLASSIFIED"} THEN "none"
  ELSE IF class = "TRANSIENT_TIMEOUT" THEN "bounded-retry-backoff"
  ELSE IF class \in {"OBSERVATION_UNAVAILABLE", "SESSION_DESYNC"} THEN "reobserve-then-retry"
  ELSE "alternate-path"

(* synthesizeAlternatePlan: the tool has an observation to make first.         *)
HasPlanB(tool, class) ==
  \/ tool = "browse" /\ class \in {"TARGET_NOT_FOUND", "OBSERVATION_UNAVAILABLE", "STATE_MISMATCH"}
  \/ tool \in {"look", "wipe"} /\ class = "TARGET_NOT_FOUND"

(* ... which is a call that needs no approval: a page's url, a directory.      *)
PlanBTool(tool) == IF tool = "browse" THEN "browse" ELSE "look"
=============================================================================
