------------------------------- MODULE BgSync -------------------------------
(***************************************************************************)
(* Oplog replication inside one secondary: the producer thread that        *)
(* fetches operations (db/repl/bgsync.cpp), the sync thread that applies   *)
(* them (db/repl/rs_sync.cpp), and the manager thread that makes the       *)
(* member primary (assumePrimary in db/repl/rs.cpp).                       *)
(*                                                                         *)
(* The operations of the sync source are 1..MaxOp and one history is       *)
(* shared by all sources, so nothing has to be rolled back.  An action is  *)
(* one critical section of BackgroundSync::_mutex or of the buffer, or one *)
(* unprotected read of shared state.                                       *)
(***************************************************************************)
EXTENDS Integers, Sequences, FiniteSets

CONSTANTS MaxOp,         \* last operation of the sync source
          BufferSize,    \* operations that fit in _buffer
          BatchLimit,    \* replBatchLimitOperations
          MaxElections,  \* bound on the elections this member wins
          MaxBreaks      \* bound on cursors that end or find nothing

ASSUME MaxOpAssumption == MaxOp \in Nat \ {0}
ASSUME BufferSizeAssumption == BufferSize \in Nat \ {0}
ASSUME BatchLimitAssumption == BatchLimit \in Nat \ {0}
ASSUME MaxElectionsAssumption == MaxElections \in Nat
ASSUME MaxBreaksAssumption == MaxBreaks \in Nat

VARIABLES
    state,               \* theReplSet->state()
    lastOpTimeWritten,
    oplog,               \* operations in local.oplog.rs
    buffer, lastOpTimeFetched, pause, appliedBuffer, assumingPrimary,
    asleep,              \* threads waiting on _condvar
    producer, sawPrimary, cursor, batch,  \* pc and locals of produce()
    applier, ops,        \* pc and batch of oplogApplication()
    manager,             \* pc of assumePrimary()
    massert,             \* the massert that failed last, 0 for none
    dropped,             \* history: operations of the batches it left behind
    elections, breaks

bgsync == <<lastOpTimeFetched, pause, appliedBuffer, assumingPrimary>>
locals == <<sawPrimary, cursor, batch>>
vars == <<state, lastOpTimeWritten, oplog, buffer, bgsync, asleep, producer, locals,
          applier, ops, manager, massert, dropped, elections, breaks>>

TypeOK ==
    /\ state \in {"SECONDARY", "PRIMARY"}
    /\ lastOpTimeWritten \in 1..MaxOp
    /\ oplog \subseteq 1..MaxOp
    /\ buffer \in Seq(1..MaxOp) /\ Len(buffer) <= BufferSize
    /\ lastOpTimeFetched \in 0..MaxOp
    /\ pause \in BOOLEAN /\ appliedBuffer \in BOOLEAN /\ assumingPrimary \in BOOLEAN
    /\ asleep \subseteq {"producer", "manager"}
    /\ producer \in {"top", "mode", "stop", "start", "reader", "query", "loop", "applied",
                     "push", "fetched"}
    /\ sawPrimary \in BOOLEAN /\ cursor \in 0..MaxOp /\ batch \in 0..MaxOp
    /\ applier \in {"check", "pop", "apply", "log", "notify", "logging",
                    "notifyLast"}
    /\ ops \in Seq(1..MaxOp) /\ Len(ops) <= BatchLimit + 1
    /\ manager \in {"idle", "flush", "lock"}
    /\ massert \in {0, 16235, 16620} /\ dropped \subseteq 1..MaxOp
    /\ elections \in 0..MaxElections /\ breaks \in 0..MaxBreaks

Init ==
    /\ state = "SECONDARY"
    /\ lastOpTimeWritten = 1 /\ oplog = {1}
    /\ buffer = <<>> /\ lastOpTimeFetched = 0
    /\ pause = TRUE /\ appliedBuffer = TRUE /\ assumingPrimary = FALSE
    /\ asleep = {}
    /\ producer = "top" /\ sawPrimary = FALSE /\ cursor = 0 /\ batch = 0
    /\ applier = "check" /\ ops = <<>>
    /\ manager = "idle"
    /\ massert = 0 /\ dropped = {}
    /\ elections = 0 /\ breaks = 0

notify_all == asleep' = {}

-----------------------------------------------------------------------------
(* The producer thread.                                                    *)

others == <<state, lastOpTimeWritten, oplog, applier, ops, manager, dropped, elections>>

\* _producerThread() reads the member state, then isAssumingPrimary().
ReadState ==
    /\ producer = "top" /\ producer' = "mode"
    /\ sawPrimary' = (state = "PRIMARY")
    /\ UNCHANGED <<others, buffer, bgsync, asleep, cursor, batch, massert, breaks>>

_producerThread ==
    /\ producer = "mode"
    /\ producer' = CASE (assumingPrimary \/ sawPrimary) /\ ~pause -> "stop"
                     [] (assumingPrimary \/ sawPrimary) /\ pause -> "top"
                     [] ~(assumingPrimary \/ sawPrimary) /\ pause -> "start"
                     [] OTHER -> "reader"
    /\ UNCHANGED <<others, buffer, bgsync, asleep, locals, massert, breaks>>

\* Slip: pauses without waking the manager.
stop_slip ==
    /\ producer = "stop" /\ producer' = "top"
    /\ pause' = TRUE /\ lastOpTimeFetched' = 0
    /\ UNCHANGED <<others, buffer, appliedBuffer, assumingPrimary, asleep, locals, massert, breaks>>

stop ==
    /\ producer = "stop" /\ producer' = "top"
    /\ pause' = TRUE /\ lastOpTimeFetched' = 0
    /\ notify_all
    /\ UNCHANGED <<others, buffer, appliedBuffer, assumingPrimary, locals, massert, breaks>>

\* massert(16235) is thrown to producerThread(), which starts over.
start ==
    /\ producer = "start"
    /\ IF buffer = <<>>
       THEN /\ pause' = FALSE /\ lastOpTimeFetched' = lastOpTimeWritten
            /\ producer' = "reader" /\ UNCHANGED massert
       ELSE /\ producer' = "top" /\ massert' = 16235
            /\ UNCHANGED <<pause, lastOpTimeFetched>>
    /\ UNCHANGED <<others, buffer, appliedBuffer, assumingPrimary, asleep, locals, breaks>>

getOplogReader ==
    /\ producer = "reader" /\ "producer" \notin asleep
    /\ IF appliedBuffer
       THEN producer' = "query" /\ UNCHANGED asleep
       ELSE asleep' = asleep \cup {"producer"} /\ UNCHANGED producer
    /\ UNCHANGED <<others, buffer, bgsync, locals, massert, breaks>>

\* Slip: takes the first operation the query returns for a new one.
OpenCursor_slip ==
    /\ producer = "query" /\ producer' = "loop"
    /\ cursor' = lastOpTimeFetched + 1 /\ batch' = 0
    /\ UNCHANGED <<others, buffer, bgsync, asleep, sawPrimary, massert, breaks>>

\* The query finds lastOpTimeFetched as the first operation of the source.
OpenCursor ==
    /\ producer = "query" /\ producer' = "loop"
    /\ cursor' = lastOpTimeFetched /\ batch' = 0
    /\ UNCHANGED <<others, buffer, bgsync, asleep, sawPrimary, massert, breaks>>

Break == breaks < MaxBreaks /\ breaks' = breaks + 1

\* No target, no connection, no cursor or an exception: produce() returns.
NoCursor ==
    /\ producer = "query" /\ producer' = "top" /\ Break
    /\ UNCHANGED <<others, buffer, bgsync, asleep, locals, massert>>

\* isRollbackRequired() returns true without a rollback: the cursor had nothing
\* although the source is not behind ("syncTail condition 1"), or it failed.
CursorHadNothing ==
    /\ producer = "query" /\ producer' = "stop" /\ Break
    /\ UNCHANGED <<others, buffer, bgsync, asleep, locals, massert>>

\* The current batch is used up: leave if the member is to be primary, else
\* r.more() brings the next batch, or nothing and the loop goes round again.
CheckPrimary ==
    /\ producer = "loop" /\ batch = 0 /\ (assumingPrimary \/ state = "PRIMARY")
    /\ producer' = "top"
    /\ UNCHANGED <<others, buffer, bgsync, asleep, locals, massert, breaks>>

more ==
    /\ producer = "loop" /\ batch = 0 /\ ~(assumingPrimary \/ state = "PRIMARY")
    /\ \E k \in 0..(MaxOp - cursor) : batch' = k
    /\ UNCHANGED <<others, buffer, bgsync, asleep, producer, sawPrimary, cursor, massert, breaks>>

\* gotForceSync(), shouldChangeSyncTarget(), a dead cursor or an exception.
LeaveTarget ==
    /\ producer = "loop" /\ batch = 0 /\ Break
    /\ producer' = "top"
    /\ UNCHANGED <<others, buffer, bgsync, asleep, locals, massert>>

nextSafe ==
    /\ producer = "loop" /\ batch > 0 /\ producer' = "applied"
    /\ cursor' = cursor + 1 /\ batch' = batch - 1
    /\ UNCHANGED <<others, buffer, bgsync, asleep, sawPrimary, massert, breaks>>

NotApplied ==
    /\ producer = "applied" /\ producer' = "push"
    /\ appliedBuffer' = FALSE
    /\ UNCHANGED <<others, buffer, lastOpTimeFetched, pause, assumingPrimary, asleep, locals,
                   massert, breaks>>

\* Slip: off by one at the capacity.
push_slip ==
    /\ producer = "push" /\ Len(buffer) <= BufferSize
    /\ producer' = "fetched" /\ buffer' = Append(buffer, cursor)
    /\ UNCHANGED <<others, bgsync, asleep, locals, massert, breaks>>

push ==
    /\ producer = "push" /\ Len(buffer) < BufferSize
    /\ producer' = "fetched" /\ buffer' = Append(buffer, cursor)
    /\ UNCHANGED <<others, bgsync, asleep, locals, massert, breaks>>

Fetched ==
    /\ producer = "fetched" /\ producer' = "loop"
    /\ lastOpTimeFetched' = cursor
    /\ UNCHANGED <<others, buffer, pause, appliedBuffer, assumingPrimary, asleep, locals,
                   massert, breaks>>

Produce ==
    \/ ReadState \/ _producerThread \/ stop \/ start \/ getOplogReader \/ OpenCursor
    \/ CheckPrimary \/ more \/ nextSafe \/ NotApplied \/ push \/ Fetched

Breaks == NoCursor \/ CursorHadNothing \/ LeaveTarget

-----------------------------------------------------------------------------
(* The sync thread.                                                        *)

rest == <<lastOpTimeFetched, pause, assumingPrimary, producer, locals, manager, elections, breaks>>

\* The head of the batching loop.  massert(16620) leaves the batch behind; a
\* return from oplogApplication() comes back here with an empty batch.
isPrimary ==
    /\ applier = "check"
    /\ IF state = "PRIMARY"
       THEN /\ ops # <<>> /\ massert' = 16620 /\ ops' = <<>>
            /\ dropped' = dropped \cup {ops[i] : i \in DOMAIN ops}
            /\ UNCHANGED applier
       ELSE /\ applier' = (IF Len(ops) > BatchLimit THEN "apply" ELSE "pop")
            /\ UNCHANGED <<ops, massert, dropped>>
    /\ UNCHANGED <<rest, state, lastOpTimeWritten, oplog, buffer, appliedBuffer, asleep>>

\* tryPopAndWaitForMore: an empty buffer ends a batch that has begun.
BufferEmpty ==
    /\ applier = "pop" /\ buffer = <<>>
    /\ applier' = IF ops = <<>> THEN "check" ELSE "apply"
    /\ UNCHANGED <<rest, state, lastOpTimeWritten, oplog, buffer, appliedBuffer, asleep, ops, massert, dropped>>

\* An operation is taken; a command, the size of the batch or its age may end it.
consume ==
    /\ applier = "pop" /\ buffer # <<>>
    /\ ops' = Append(ops, Head(buffer)) /\ buffer' = Tail(buffer)
    /\ applier' \in {"check", "apply"}
    /\ UNCHANGED <<rest, state, lastOpTimeWritten, oplog, appliedBuffer, asleep, massert, dropped>>

\* A command or a new oplog version is left for the next batch.
CommandEndsBatch ==
    /\ applier = "pop" /\ buffer # <<>> /\ ops # <<>>
    /\ applier' = "apply"
    /\ UNCHANGED <<rest, state, lastOpTimeWritten, oplog, buffer, appliedBuffer, asleep, ops, massert, dropped>>

\* setMinValid() and multiApply().
multiApply ==
    /\ applier = "apply" /\ applier' = "log"
    /\ UNCHANGED <<rest, state, lastOpTimeWritten, oplog, buffer, appliedBuffer, asleep, ops, massert, dropped>>

\* applyOpsToOplog holds DBWrite("local") from the first write to the last;
\* _logOpObjRS writes one operation, then calls notify().  An operation that is
\* not newer is written all the same; the sync source forced then is LeaveTarget's.
_logOpObjRS ==
    /\ applier \in {"log", "logging"}
    /\ oplog' = oplog \cup {Head(ops)} /\ lastOpTimeWritten' = Head(ops)
    /\ ops' = Tail(ops) /\ applier' = "notify"
    /\ UNCHANGED <<rest, state, buffer, appliedBuffer, asleep, massert, dropped>>

\* Slips: nobody is told that the buffer was applied; the test is inverted.
notify_silent(next) ==
    /\ appliedBuffer' = (appliedBuffer \/ buffer = <<>>)
    /\ applier' = next
    /\ UNCHANGED <<rest, state, lastOpTimeWritten, oplog, buffer, asleep, ops, massert, dropped>>

notify_inverted(next) ==
    /\ IF buffer # <<>> THEN appliedBuffer' = TRUE /\ notify_all
                        ELSE UNCHANGED <<appliedBuffer, asleep>>
    /\ applier' = next
    /\ UNCHANGED <<rest, state, lastOpTimeWritten, oplog, buffer, ops, massert, dropped>>

notify(next) ==
    /\ IF buffer = <<>> THEN appliedBuffer' = TRUE /\ notify_all
                        ELSE UNCHANGED <<appliedBuffer, asleep>>
    /\ applier' = next
    /\ UNCHANGED <<rest, state, lastOpTimeWritten, oplog, buffer, ops, massert, dropped>>

NotifyEach == applier = "notify" /\ notify(IF ops = <<>> THEN "notifyLast" ELSE "logging")
NotifyLast == applier = "notifyLast" /\ notify("check")

Apply ==
    \/ isPrimary \/ BufferEmpty \/ consume \/ CommandEndsBatch \/ multiApply
    \/ _logOpObjRS \/ NotifyEach \/ NotifyLast

\* DBWrite("local") excludes GlobalWrite.
GlobalWrite == applier \notin {"notify", "logging"}

-----------------------------------------------------------------------------
(* The manager thread.                                                     *)

unmanaged == <<lastOpTimeWritten, oplog, buffer, lastOpTimeFetched, pause, appliedBuffer,
               producer, locals, applier, ops, massert, dropped, breaks>>

\* An election is won: assumePrimary() calls stopReplicationAndFlushBuffer().
assumePrimary ==
    /\ manager = "idle" /\ state = "SECONDARY" /\ elections < MaxElections
    /\ manager' = "flush" /\ elections' = elections + 1 /\ assumingPrimary' = TRUE
    /\ UNCHANGED <<unmanaged, state, asleep>>

stopReplicationAndFlushBuffer ==
    /\ manager = "flush" /\ "manager" \notin asleep
    /\ IF pause /\ appliedBuffer
       THEN manager' = "lock" /\ assumingPrimary' = FALSE /\ UNCHANGED asleep
       ELSE asleep' = asleep \cup {"manager"} /\ UNCHANGED <<manager, assumingPrimary>>
    /\ UNCHANGED <<unmanaged, state, elections>>

\* assumePrimary() has the global write lock and changes the state.
BecomePrimary ==
    /\ manager = "lock" /\ GlobalWrite
    /\ state' = "PRIMARY" /\ manager' = "idle"
    /\ UNCHANGED <<unmanaged, assumingPrimary, asleep, elections>>

relinquish ==
    /\ state = "PRIMARY" /\ manager = "idle" /\ GlobalWrite
    /\ state' = "SECONDARY"
    /\ UNCHANGED <<unmanaged, assumingPrimary, asleep, manager, elections>>

Manage == assumePrimary \/ stopReplicationAndFlushBuffer \/ BecomePrimary \/ relinquish

Next == Produce \/ Breaks \/ Apply \/ Manage

Spec == Init /\ [][Next]_vars

\* Each thread goes on while it can; the sources answer.  Elections, broken
\* cursors and the step down are not promised.
Fairness ==
    /\ WF_vars(Produce)
    /\ WF_vars(Apply)
    /\ WF_vars(stopReplicationAndFlushBuffer \/ BecomePrimary)

FairSpec == Spec /\ Fairness

-----------------------------------------------------------------------------
(* Properties.                                                             *)

\* The operations reach the oplog without a hole: whatever was fetched, popped,
\* fetched again or left behind, an operation is written after all the earlier
\* ones of the source.  It may be written twice: start() can fetch again what
\* the sync thread is still logging.
NoOpSkipped == \A i \in oplog : 1..i \subseteq oplog

\* The one way to a hole: an operation that is missing below one that was
\* written was in a batch that oplogApplication() left behind at massert 16620.
\* Restarts of the producer, broken cursors, an election in the middle of a
\* batch and the step down after it skip nothing by themselves.
HolesAreDropped == \A i \in oplog : (1..i) \ oplog \subseteq dropped

\* _appliedBuffer and _condvar strand nobody: the producer asleep in
\* getOplogReader() or the manager asleep in stopReplicationAndFlushBuffer()
\* has a reason to wait, and the sync thread still has what will wake it,
\* unless it has left a batch behind.
SleepersAreWoken ==
    /\ "producer" \in asleep => ~appliedBuffer
    /\ "manager" \in asleep => ~(pause /\ appliedBuffer)
    /\ ~appliedBuffer =>
          \/ buffer # <<>> \/ ops # <<>> \/ producer = "push"
          \/ applier \in {"notify", "notifyLast"}
          \/ dropped # {}

\* A member that wins no election applies everything its source has, with
\* cursors that break off and queries that find nothing on the way.
CatchesUp == <>[](oplog = 1..MaxOp \/ elections > 0)

\* assumePrimary() does not wait forever for the producer and the sync thread,
\* in a first election or in one after a step down, unless the sync thread has
\* left a batch behind at massert 16620: then nothing may ever set
\* _appliedBuffer again.
BecomesPrimary == manager = "flush" ~> (state = "PRIMARY" \/ dropped # {})

=============================================================================
