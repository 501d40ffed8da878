---------------------------- MODULE RangeDeleter ----------------------------
(***************************************************************************)
(* class RangeDeleter (db/range_deleter.cpp): the documents of chunks that *)
(* migrated away are deleted by one worker thread, or by the calling       *)
(* thread in deleteNow().  An action is one critical section of            *)
(* _queueMutex, one call of stopRequested(), or one call of the            *)
(* environment (getCursorIds, deleteRange).                                *)
(*                                                                         *)
(* All ranges are of one namespace: ranges and cursors of different        *)
(* namespaces never meet in the code.  A call that is refused changes      *)
(* nothing and is not a step.                                              *)
(***************************************************************************)
EXTENDS Integers, Sequences, FiniteSets

CONSTANTS Caller,     \* threads that call queueDelete() and deleteNow()
          KeyRange,   \* the ranges they delete or black list, <<min, max>>
          Cursor      \* cursor ids

ASSUME RangeAssumption == KeyRange \subseteq Nat \X Nat
ASSUME FiniteAssumption == IsFiniteSet(Caller) /\ IsFiniteSet(KeyRange) /\ IsFiniteSet(Cursor)

VARIABLES
    stopRequested,
    taskQueue, notReadyQueue,
    deleteSet, blackList,
    totalDeletes, pendingDeletes, inProgressDeletes,
    call,      \* what each caller is doing
    worker,    \* what doWork() is doing
    stopper,   \* pc of stopWorkers()
    cursor     \* state of each cursor of the server

queues == <<taskQueue, notReadyQueue>>
stats == <<totalDeletes, pendingDeletes, inProgressDeletes>>
vars == <<stopRequested, queues, deleteSet, blackList, stats, call, worker, stopper, cursor>>

\* A delete: its range, the cursors it still waits for, and those that were
\* open when it was accepted.
Task == [range : KeyRange, cursorsToWait : SUBSET Cursor, openBefore : SUBSET Cursor]

\* A thread at a step with a task in hand; Idle and Gone have none.
At(pc, task) == [pc |-> pc, task |-> task]
Idle == [pc |-> "idle"]
Gone == [pc |-> "gone"]

openCursors == {c \in Cursor : cursor[c] = "open"}

TypeOK ==
    /\ stopRequested \in BOOLEAN
    /\ taskQueue \in Seq(Task) /\ notReadyQueue \in Seq(Task)
    /\ deleteSet \subseteq KeyRange /\ blackList \subseteq KeyRange
    /\ totalDeletes \in Nat /\ pendingDeletes \in Nat /\ inProgressDeletes \in Nat
    /\ call \in [Caller -> {Idle} \cup
                   [pc : {"cursors", "enqueue", "admit", "nowCursors", "wait", "abandon", "delete"},
                    task : Task]]
    /\ worker \in {Idle, Gone} \cup [pc : {"delete"}, task : Task]
    /\ stopper \in {"none", "join", "lock", "asleep", "returned"}
    /\ cursor \in [Cursor -> {"new", "open", "closed"}]

Init ==
    /\ stopRequested = FALSE
    /\ taskQueue = <<>> /\ notReadyQueue = <<>>
    /\ deleteSet = {} /\ blackList = {}
    /\ totalDeletes = 0 /\ pendingDeletes = 0 /\ inProgressDeletes = 0
    /\ call = [c \in Caller |-> Idle]
    /\ worker = Idle
    /\ stopper = "none"
    /\ cursor \in [Cursor -> {"new", "open"}]

-----------------------------------------------------------------------------

rangeOverlaps(r, s) == r[2] > s[1] /\ s[2] > r[1]

isBlacklisted(r) == \E b \in blackList : rangeOverlaps(r, b)

canEnqueue(r) == ~isBlacklisted(r) /\ r \notin deleteSet

NewTask(r) == [range |-> r, cursorsToWait |-> {}, openBefore |-> openCursors]

Step(c, at) == call' = [call EXCEPT ![c] = at]

\* The caller's task with its cursorsToWait set to S, at step pc.
Waiting(c, pc, S) == At(pc, [call[c].task EXCEPT !.cursorsToWait = S])

-----------------------------------------------------------------------------
(* queueDelete: reserve the range, ask for the cursors, put it in a queue. *)

\* Slip: forgets to count the delete as pending.
queueDelete_slip(c) ==
    /\ call[c].pc = "idle"
    /\ ~stopRequested
    /\ \E r \in KeyRange :
          /\ canEnqueue(r)
          /\ deleteSet' = deleteSet \cup {r}
          /\ Step(c, At("cursors", NewTask(r)))
    /\ totalDeletes' = totalDeletes + 1
    /\ UNCHANGED <<stopRequested, queues, blackList, pendingDeletes, inProgressDeletes, worker,
                   stopper, cursor>>

queueDelete(c) ==
    /\ call[c].pc = "idle"
    /\ ~stopRequested
    /\ \E r \in KeyRange :
          /\ canEnqueue(r)
          /\ deleteSet' = deleteSet \cup {r}
          /\ Step(c, At("cursors", NewTask(r)))
    /\ totalDeletes' = totalDeletes + 1 /\ pendingDeletes' = pendingDeletes + 1
    /\ UNCHANGED <<stopRequested, queues, blackList, inProgressDeletes, worker, stopper, cursor>>

getCursorIds(c) ==
    /\ call[c].pc = "cursors"
    /\ Step(c, Waiting(c, "enqueue", openCursors))
    /\ UNCHANGED <<stopRequested, queues, deleteSet, blackList, stats, worker, stopper, cursor>>

\* Slip: does not look at the cursors.
Enqueue_slip(c) ==
    /\ call[c].pc = "enqueue"
    /\ taskQueue' = Append(taskQueue, call[c].task) /\ UNCHANGED notReadyQueue
    /\ Step(c, Idle)
    /\ UNCHANGED <<stopRequested, deleteSet, blackList, stats, worker, stopper, cursor>>

Enqueue(c) ==
    /\ call[c].pc = "enqueue"
    /\ IF call[c].task.cursorsToWait = {}
       THEN taskQueue' = Append(taskQueue, call[c].task) /\ UNCHANGED notReadyQueue
       ELSE notReadyQueue' = Append(notReadyQueue, call[c].task) /\ UNCHANGED taskQueue
    /\ Step(c, Idle)
    /\ UNCHANGED <<stopRequested, deleteSet, blackList, stats, worker, stopper, cursor>>

-----------------------------------------------------------------------------
(* deleteNow: the delete runs on the calling thread.                       *)

deleteNow(c) ==
    /\ call[c].pc = "idle"
    /\ ~stopRequested
    /\ \E r \in KeyRange : Step(c, At("admit", NewTask(r)))
    /\ UNCHANGED <<stopRequested, queues, deleteSet, blackList, stats, worker, stopper, cursor>>

\* Slip: reserves the range without looking whether it may.
Admit_slip(c) ==
    /\ call[c].pc = "admit"
    /\ deleteSet' = deleteSet \cup {call[c].task.range}
    /\ totalDeletes' = totalDeletes + 1 /\ inProgressDeletes' = inProgressDeletes + 1
    /\ Step(c, At("nowCursors", NewTask(call[c].task.range)))
    /\ UNCHANGED <<stopRequested, queues, blackList, pendingDeletes, worker, stopper, cursor>>

Admit(c) ==
    /\ call[c].pc = "admit"
    /\ IF canEnqueue(call[c].task.range)
       THEN /\ deleteSet' = deleteSet \cup {call[c].task.range}
            /\ totalDeletes' = totalDeletes + 1 /\ inProgressDeletes' = inProgressDeletes + 1
            /\ Step(c, At("nowCursors", NewTask(call[c].task.range)))
       ELSE Step(c, Idle) /\ UNCHANGED <<deleteSet, totalDeletes, inProgressDeletes>>
    /\ UNCHANGED <<stopRequested, queues, blackList, pendingDeletes, worker, stopper, cursor>>

NowCursors(c) ==
    /\ call[c].pc = "nowCursors"
    /\ Step(c, Waiting(c, "wait", openCursors))
    /\ UNCHANGED <<stopRequested, queues, deleteSet, blackList, stats, worker, stopper, cursor>>

\* One pass of the loop over cursorsToWait; stopRequested() abandons the delete.
WaitForCursors(c) ==
    /\ call[c].pc = "wait"
    /\ LET left == call[c].task.cursorsToWait \cap openCursors
       IN  IF call[c].task.cursorsToWait = {} THEN Step(c, Waiting(c, "delete", {}))
           ELSE IF stopRequested THEN Step(c, Waiting(c, "abandon", left))
           ELSE Step(c, Waiting(c, "wait", left))
    /\ UNCHANGED <<stopRequested, queues, deleteSet, blackList, stats, worker, stopper, cursor>>

\* Slip: nobody tells stopWorkers() that the last delete is over.
Finish_slip(c) ==
    /\ call[c].pc \in {"delete", "abandon"}
    /\ deleteSet' = deleteSet \ {call[c].task.range}
    /\ inProgressDeletes' = inProgressDeletes - 1 /\ totalDeletes' = totalDeletes - 1
    /\ Step(c, Idle)
    /\ UNCHANGED <<stopRequested, queues, blackList, pendingDeletes, worker, stopper, cursor>>

\* deleteRange() is over, or the delete is abandoned.
Finish(c) ==
    /\ call[c].pc \in {"delete", "abandon"}
    /\ deleteSet' = deleteSet \ {call[c].task.range}
    /\ inProgressDeletes' = inProgressDeletes - 1 /\ totalDeletes' = totalDeletes - 1
    /\ stopper' = IF inProgressDeletes' = 0 /\ stopper = "asleep" THEN "lock" ELSE stopper
    /\ Step(c, Idle)
    /\ UNCHANGED <<stopRequested, queues, blackList, pendingDeletes, worker, cursor>>

-----------------------------------------------------------------------------
(* The black list.                                                         *)

\* Slip: looks at the black list but not at the deletes.
addToBlackList_slip(r) ==
    /\ ~isBlacklisted(r)
    /\ blackList' = blackList \cup {r}
    /\ UNCHANGED <<stopRequested, queues, deleteSet, stats, call, worker, stopper, cursor>>

addToBlackList(r) ==
    /\ ~isBlacklisted(r)
    /\ \A d \in deleteSet : ~rangeOverlaps(d, r)
    /\ blackList' = blackList \cup {r}
    /\ UNCHANGED <<stopRequested, queues, deleteSet, stats, call, worker, stopper, cursor>>

removeFromBlackList(r) ==
    /\ r \in blackList
    /\ blackList' = blackList \ {r}
    /\ UNCHANGED <<stopRequested, queues, deleteSet, stats, call, worker, stopper, cursor>>

-----------------------------------------------------------------------------
(* doWork.                                                                 *)

\* Slip: forgets that cursors close.
Left_slip(task) == task

Left(task) == [task EXCEPT !.cursorsToWait = @ \cap openCursors]

\* The positions of I from the first to the last.
InOrder(I) ==
    {f \in [1..Cardinality(I) -> I] : \A j, k \in 1..Cardinality(I) : j < k => f[j] < f[k]}

\* The timed wait is over and the queue still empty: tasks whose cursors are
\* gone become ready, and the order of both lists is kept.
CheckNotReady ==
    /\ worker = Idle /\ ~stopRequested
    /\ taskQueue = <<>>
    /\ LET left == [i \in DOMAIN notReadyQueue |-> Left(notReadyQueue[i])]
           ready == {i \in DOMAIN left : left[i].cursorsToWait = {}}
       IN  \E f \in InOrder(ready), g \in InOrder(DOMAIN left \ ready) :
              /\ taskQueue' = [k \in DOMAIN f |-> left[f[k]]]
              /\ notReadyQueue' = [k \in DOMAIN g |-> left[g[k]]]
    /\ UNCHANGED <<stopRequested, deleteSet, blackList, stats, call, worker, stopper, cursor>>

\* Slip: the task keeps counting as pending.
TakeTask_slip ==
    /\ worker = Idle /\ ~stopRequested
    /\ taskQueue # <<>>
    /\ taskQueue' = Tail(taskQueue) /\ worker' = At("delete", Head(taskQueue))
    /\ inProgressDeletes' = inProgressDeletes + 1
    /\ UNCHANGED <<stopRequested, notReadyQueue, deleteSet, blackList, totalDeletes, pendingDeletes,
                   call, stopper, cursor>>

TakeTask ==
    /\ worker = Idle /\ ~stopRequested
    /\ taskQueue # <<>>
    /\ taskQueue' = Tail(taskQueue) /\ worker' = At("delete", Head(taskQueue))
    /\ pendingDeletes' = pendingDeletes - 1 /\ inProgressDeletes' = inProgressDeletes + 1
    /\ UNCHANGED <<stopRequested, notReadyQueue, deleteSet, blackList, totalDeletes, call, stopper,
                   cursor>>

\* deleteRange() is over, with or without success.
TaskDone ==
    /\ worker.pc = "delete" /\ worker' = Idle
    /\ deleteSet' = deleteSet \ {worker.task.range}
    /\ inProgressDeletes' = inProgressDeletes - 1 /\ totalDeletes' = totalDeletes - 1
    /\ UNCHANGED <<stopRequested, queues, blackList, pendingDeletes, call, stopper, cursor>>

WorkerStops ==
    /\ worker = Idle /\ stopRequested
    /\ worker' = Gone
    /\ UNCHANGED <<stopRequested, queues, deleteSet, blackList, stats, call, stopper, cursor>>

-----------------------------------------------------------------------------
(* stopWorkers, called once.                                               *)

stopWorkers ==
    /\ stopper = "none" /\ stopper' = "join"
    /\ stopRequested' = TRUE
    /\ UNCHANGED <<queues, deleteSet, blackList, stats, call, worker, cursor>>

JoinWorker ==
    /\ stopper = "join" /\ worker = Gone
    /\ stopper' = "lock"
    /\ UNCHANGED <<stopRequested, queues, deleteSet, blackList, stats, call, worker, cursor>>

WaitNothingInProgress ==
    /\ stopper = "lock"
    /\ stopper' = IF inProgressDeletes > 0 THEN "asleep" ELSE "returned"
    /\ UNCHANGED <<stopRequested, queues, deleteSet, blackList, stats, call, worker, cursor>>

-----------------------------------------------------------------------------
(* Clients open and close cursors; an id is used once.                     *)

OpenCursor(c) ==
    /\ cursor[c] = "new" /\ cursor' = [cursor EXCEPT ![c] = "open"]
    /\ UNCHANGED <<stopRequested, queues, deleteSet, blackList, stats, call, worker, stopper>>

CloseCursor(c) ==
    /\ cursor[c] = "open" /\ cursor' = [cursor EXCEPT ![c] = "closed"]
    /\ UNCHANGED <<stopRequested, queues, deleteSet, blackList, stats, call, worker, stopper>>

Next ==
    \/ \E c \in Caller :
          \/ queueDelete(c) \/ getCursorIds(c) \/ Enqueue(c)
          \/ deleteNow(c) \/ Admit(c) \/ NowCursors(c) \/ WaitForCursors(c) \/ Finish(c)
    \/ \E r \in KeyRange : addToBlackList(r) \/ removeFromBlackList(r)
    \/ CheckNotReady \/ TakeTask \/ TaskDone \/ WorkerStops
    \/ stopWorkers \/ JoinWorker \/ WaitNothingInProgress
    \/ \E c \in Cursor : OpenCursor(c) \/ CloseCursor(c)

Spec == Init /\ [][Next]_vars

\* A call that was accepted goes on, the worker and stopWorkers() run, and
\* cursors are closed (or time out).  No call is promised.
Fairness ==
    /\ \A c \in Caller :
          WF_vars(getCursorIds(c) \/ Enqueue(c) \/ Admit(c) \/ NowCursors(c) \/ WaitForCursors(c)
                  \/ Finish(c))
    /\ WF_vars(CheckNotReady \/ TakeTask \/ TaskDone \/ WorkerStops)
    /\ WF_vars(JoinWorker \/ WaitNothingInProgress)
    /\ \A c \in Cursor : WF_vars(CloseCursor(c))

FairSpec == Spec /\ Fairness

-----------------------------------------------------------------------------
(* Properties.                                                             *)

\* Tasks in the hands of a thread that has reserved their range.
Held == {c \in Caller : call[c].pc \notin {"idle", "admit"}}
Working == {c \in Caller : call[c].pc \in {"nowCursors", "wait", "abandon", "delete"}}

\* Every task there is, in a queue or in a thread's hands, with where it is.
Tasks ==
    {<<"task", i, taskQueue[i]>> : i \in DOMAIN taskQueue}
    \cup {<<"notReady", i, notReadyQueue[i]>> : i \in DOMAIN notReadyQueue}
    \cup {<<"call", c, call[c].task>> : c \in Held}
    \cup IF worker.pc = "delete" THEN {<<"worker", 0, worker.task>>} ELSE {}

\* _deleteSet holds the range of every delete from the moment it is accepted to
\* its end, whichever thread it passes through, and no range twice: two
\* threads never delete the same range.
DeleteSetIsExact ==
    /\ deleteSet = {p[3].range : p \in Tasks}
    /\ Cardinality(deleteSet) = Cardinality(Tasks)

\* The comment of _blackList: "should not conflict with any entry in all queues",
\* and with no delete that is on its way to a queue or running.
BlackListDisjoint ==
    \A b \in blackList : \A p \in Tasks : ~rangeOverlaps(p[3].range, b)

\* Documents are deleted only after every cursor is closed that was open when
\* the delete was accepted.
CursorsAreSpared ==
    /\ \A c \in Caller : call[c].pc = "delete" => call[c].task.openBefore \cap openCursors = {}
    /\ worker.pc = "delete" => worker.task.openBefore \cap openCursors = {}

\* The counters that stopWorkers() and serverStatus read.
StatsAgree ==
    /\ totalDeletes = Cardinality(deleteSet)
    /\ inProgressDeletes = Cardinality(Working) + (IF worker.pc = "delete" THEN 1 ELSE 0)
    /\ pendingDeletes = totalDeletes - inProgressDeletes

\* stopWorkers() returns, with deletes that wait for cursors, run or arrive.
StopReturns == stopper = "join" ~> stopper = "returned"

\* queueDelete() hands the worker a delete that waits for no cursor.
ReadyDeleteArrives == \E c \in Caller : Enqueue(c) /\ taskQueue' # taskQueue

\* An accepted delete is performed, unless the deleter is stopped, or ready
\* deletes keep arriving for ever: doWork() looks at the not-ready queue only
\* after a timed wait that ends with an empty _taskQueue, and a stream of ready
\* deletes starves those that had to wait for a cursor.
DeletesComplete ==
    \/ []<><<ReadyDeleteArrives>>_vars
    \/ \A r \in KeyRange : r \in deleteSet ~> r \notin deleteSet \/ stopRequested

=============================================================================
