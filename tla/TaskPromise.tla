----------------------------- MODULE TaskPromise ----------------------------
(***************************************************************************)
(* What a remote task promises its user, with no connection, no messages   *)
(* and no actions in it.  The Brain is the authority on a task: it runs at *)
(* most one of a Body at a time, each at most once, and decides its        *)
(* outcome once.  The Body only shows: whatever the link does, it shows a  *)
(* task as completed only if the Brain completed it, and never takes that  *)
(* back (distributed-brain.md, "Reconnect & state": "never faked as        *)
(* complete").                                                             *)
(***************************************************************************)
CONSTANTS Tasks, NoTask

VARIABLES
    status,   \* the Brain's verdict on each task
    shown     \* the task the Body shows, and how

vars == <<status, shown>>

Outcomes == {"completed", "failed", "cancelled"}

Init ==
    /\ status = [t \in Tasks |-> "new"]
    /\ shown = NoTask

Start(t) ==
    /\ status[t] = "new"
    /\ \A u \in Tasks : status[u] # "running"
    /\ status' = [status EXCEPT ![t] = "running"]
    /\ UNCHANGED shown

\* A task may fail the moment it starts: nothing is ever shown of "running".
End(t, o) ==
    /\ \/ status[t] = "running"
       \/ status[t] = "new" /\ \A u \in Tasks : status[u] # "running"
    /\ status' = [status EXCEPT ![t] = o]
    /\ UNCHANGED shown

Submit(t) ==
    /\ status[t] = "new"
    /\ shown' = [id |-> t, state |-> "active"]
    /\ UNCHANGED status

Show(s) ==
    /\ shown # NoTask /\ shown.state # "completed"
    /\ s = "completed" => status[shown.id] = "completed"
    /\ shown' = [shown EXCEPT !.state = s]
    /\ UNCHANGED status

Forget ==
    /\ shown' = NoTask
    /\ UNCHANGED status

Next ==
    \/ \E t \in Tasks : Start(t) \/ Submit(t) \/ \E o \in Outcomes : End(t, o)
    \/ \E s \in {"active", "completed", "error", "interrupted"} : Show(s)
    \/ Forget

Spec == Init /\ [][Next]_vars
=============================================================================
