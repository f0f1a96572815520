----------------------------- MODULE TaskQueue -----------------------------
(* The persistent queue of user goals (utils/task-queue.ts), as functions
   on the list of its tasks: what class TaskQueue does to `tasks`.

   A task is [id, priority, status, mission, step]; mission and step are
   None and 0 for a task that no mission step stands behind.  The list is
   in the order of creation, which createdAt repeats, so "oldest" is
   "first".  No caller passes dependsOn: it is always empty and left out.
   Every mutation is saved before the call returns, so the file equals the
   list except inside a handler; Scheduler.tla has the crashes in there. *)
EXTENDS Naturals, SequencesExt

CONSTANTS
    MaxTasks,   \* MAX_TASKS, 200 in the code
    None

QueueStatuses ==
    {"queued", "running", "paused", "completed", "failed", "cancelled"}

TerminalStatuses == {"completed", "failed", "cancelled"}

LiveStatuses == QueueStatuses \ TerminalStatuses

HasTask(q, id) == \E i \in DOMAIN q : q[i].id = id

PlaceOf(q, id) == CHOOSE i \in DOMAIN q : q[i].id = id

TaskOf(q, id) == q[PlaceOf(q, id)]

\* The task `id` goes from one of the statuses `from` to the status `to`.
Move(q, id, from, to) ==
    [i \in DOMAIN q |-> IF q[i].id = id /\ q[i].status \in from
                           THEN [q[i] EXCEPT !.status = to]
                           ELSE q[i]]

\* No two tasks have one id.
RemoveTask(q, id) == IF HasTask(q, id) THEN RemoveAt(q, PlaceOf(q, id)) ELSE q

\* Over the limit one task goes, the oldest that has ended, if there is one.
Enqueue(q, task) ==
    LET all   == Append(q, task)
        ended == {i \in DOMAIN all : all[i].status \in TerminalStatuses}
    IN  IF Len(all) > MaxTasks /\ ended # {}
           THEN RemoveAt(all, CHOOSE i \in ended : \A j \in ended : i <= j)
           ELSE all

\* The queued task of the highest priority, the oldest of those; or None.
NextEligible(q) ==
    LET waiting == {i \in DOMAIN q : q[i].status = "queued"}
        First(i) == \A j \in waiting :
                        \/ q[j].priority < q[i].priority
                        \/ q[j].priority = q[i].priority /\ i <= j
    IN  IF waiting = {} THEN None
                        ELSE q[CHOOSE i \in waiting : First(i)].id

MarkRunning(q, id)   == Move(q, id, QueueStatuses, "running")
MarkCompleted(q, id) == Move(q, id, QueueStatuses, "completed")
MarkFailed(q, id)    == Move(q, id, QueueStatuses, "failed")
CancelTask(q, id)    == Move(q, id, LiveStatuses, "cancelled")
PauseTask(q, id)     == Move(q, id, {"queued"}, "paused")
ResumeTask(q, id)    == Move(q, id, {"paused"}, "queued")

\* A restart: what was running when the process died is queued again.
LoadQueue(q) ==
    [i \in DOMAIN q |-> IF q[i].status = "running"
                           THEN [q[i] EXCEPT !.status = "queued"]
                           ELSE q[i]]
=============================================================================
