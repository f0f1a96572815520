------------------------------- MODULE MCLive -------------------------------
(* Two liveness questions in one instance for TLC: the remote task or the      *)
(* Body's policy boundary takes all the steps, as the initial state chooses,   *)
(* and the other stays as it began.                                            *)
EXTENDS RemoteTask, TLC

CONSTANTS t1, a1, a2, c1, c2, Calls, None

VARIABLES
  focus, \* which of the two
  ledger, call, pending, grants, ran, ranAgain, forgotten, answers

\* Both actions ask the user, one may be run again; the ledger trims nothing.
L == INSTANCE ActionLedger WITH
       Actions <- {a1, a2}, Tasks <- {t1}, Keys <- {"tool"},
       TaskOf <- [a \in {a1, a2} |-> t1], KeyOf <- [a \in {a1, a2} |-> "tool"],
       Idempotent <- {a2}, NeedsConfirm <- {a1, a2}, Unsupported <- {}, MaxCache <- 2, MaxRetries <- 1

ledgerVars == <<ledger, call, pending, grants, ran, ranAgain, forgotten, answers>>
liveVars == <<focus, vars, ledgerVars>>

LiveInit == focus \in {"task", "ledger"} /\ Init /\ L!Init

InTask(step) == focus = "task" /\ step /\ UNCHANGED <<focus, ledgerVars>>
InLedger(step) == focus = "ledger" /\ step /\ UNCHANGED <<focus, vars>>
LiveNext == InTask(Next) \/ InLedger(L!Next)

\* The fairness of the two specifications, each step in its own half.
LiveFairness ==
  /\ WF_liveVars(InTask(ChatReturns)) /\ WF_liveVars(InTask(ActionTimeout))
  /\ \A g \in Conns : WF_liveVars(InTask(BrainReceives(g))) /\ WF_liveVars(InTask(BrainSeesClose(g)))
  /\ WF_liveVars(InTask(BodySeesClose)) /\ WF_liveVars(InTask(BodyReceives))
  /\ \A a \in Actions : WF_liveVars(InTask(Deny(a))) /\ WF_liveVars(InTask(ToolReturns(a)))
  /\ \A c \in Calls : SF_liveVars(InLedger(L!CallStep(c))) /\ SF_liveVars(InLedger(L!ConfirmationTimeout(c)))

LiveSpec == LiveInit /\ [][LiveNext]_liveVars /\ LiveFairness

\* ActionLedger's property: every call of the Body ends, whatever answers,
\* timeouts, disconnects and crashes come between (remote-brain.ts).  TasksEnd,
\* RemoteTask's own, is the other.
CallsEnd == L!CallsEnd
=============================================================================
