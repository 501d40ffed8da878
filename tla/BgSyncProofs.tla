---------------------------- MODULE BgSyncProofs ----------------------------
(***************************************************************************)
(* Proofs about BgSync, for every history, buffer size, batch limit and    *)
(* number of elections and broken cursors.                                 *)
(*                                                                         *)
(* An operation travels from the cursor to the buffer, to the batch and to *)
(* the oplog.  The inductive invariant says that nothing overtakes: below  *)
(* an operation at any of these places, every operation is in the oplog,   *)
(* in a batch left behind, or further ahead on the same way.               *)
(***************************************************************************)
EXTENDS BgSync, SequenceTheorems, TLAPS

\* What the program counters say about the locals.
Control ==
    /\ cursor + batch <= MaxOp
    /\ producer \in {"applied", "push", "fetched"} => cursor >= 1
    /\ applier \in {"apply", "log", "logging"} => ops # <<>>
    /\ applier = "pop" => Len(ops) <= BatchLimit

Settled(n) == n \in oplog \/ n \in dropped

InOps(n) == \E j \in 1..Len(ops) : ops[j] = n
InBuffer(n) == \E j \in 1..Len(buffer) : buffer[j] = n

\* n is on its way to the oplog, has reached it or was left behind.
Known(n) == Settled(n) \/ InOps(n) \/ InBuffer(n)

OplogOrder == \A i \in oplog : \A n \in 1..MaxOp : n < i => Settled(n)

OpsOrder ==
    \A k \in 1..Len(ops) : \A n \in 1..MaxOp :
        n < ops[k] => Settled(n) \/ \E j \in 1..(k-1) : ops[j] = n

BufferOrder ==
    \A k \in 1..Len(buffer) : \A n \in 1..MaxOp :
        n < buffer[k] => Settled(n) \/ InOps(n) \/ \E j \in 1..(k-1) : buffer[j] = n

\* The producer asks for what comes after the operations it has passed on.
CursorOrder ==
    /\ \A n \in 1..MaxOp : n <= lastOpTimeFetched => Known(n)
    /\ producer \in {"loop", "fetched"} => \A n \in 1..MaxOp : n <= cursor => Known(n)
    /\ producer \in {"applied", "push"} => \A n \in 1..MaxOp : n < cursor => Known(n)

Ordered ==
    /\ lastOpTimeWritten \in oplog
    /\ OplogOrder /\ OpsOrder /\ BufferOrder /\ CursorOrder

\* Batches are left behind by a primary, and a primary has won an election.
DropsAfterElection ==
    state = "PRIMARY" \/ manager # "idle" \/ dropped # {} => elections > 0

IInv == TypeOK /\ Control /\ Ordered /\ SleepersAreWoken /\ DropsAfterElection

-----------------------------------------------------------------------------
(* Types and program counters.                                             *)

LEMMA InitTyped == Init => TypeOK /\ Control
<1> SUFFICES ASSUME Init PROVE TypeOK /\ Control BY Zenon
<1> USE MaxOpAssumption, BufferSizeAssumption, BatchLimitAssumption
<1>1. /\ pause \in BOOLEAN /\ appliedBuffer \in BOOLEAN /\ assumingPrimary \in BOOLEAN
      /\ sawPrimary \in BOOLEAN
  BY Zenon DEF Init
<1>2. buffer \in Seq(1..MaxOp) /\ Len(buffer) = 0 /\ ops \in Seq(1..MaxOp) /\ Len(ops) = 0
  BY DEF Init
<1>3. TypeOK
  BY <1>1, <1>2, MaxElectionsAssumption, MaxBreaksAssumption DEF Init, TypeOK
<1>4. Control
  BY DEF Init, Control
<1> QED BY <1>3, <1>4, Zenon

\* The buffer and the batch stay sequences of operations within their bounds.
LEMMA QueueTypes ==
    ASSUME TypeOK, Control, [Next]_vars
    PROVE  /\ buffer' \in Seq(1..MaxOp) /\ Len(buffer') <= BufferSize
           /\ ops' \in Seq(1..MaxOp) /\ Len(ops') <= BatchLimit + 1
<1> USE MaxOpAssumption, BufferSizeAssumption, BatchLimitAssumption DEF Control
<1>0. /\ buffer \in Seq(1..MaxOp) /\ Len(buffer) <= BufferSize
      /\ ops \in Seq(1..MaxOp) /\ Len(ops) <= BatchLimit + 1
      /\ cursor \in 0..MaxOp
  BY DEF TypeOK
<1> USE <1>0
<1>1. CASE push
  <2>1. cursor \in 1..MaxOp BY <1>1 DEF push
  <2> QED BY <1>1, <2>1 DEF push, others
<1>2. CASE consume
  <2>1. Head(buffer) \in 1..MaxOp /\ Tail(buffer) \in Seq(1..MaxOp)
        /\ Len(Tail(buffer)) = Len(buffer) - 1
    BY <1>2 DEF consume
  <2> QED BY <1>2, <2>1 DEF consume
<1>3. CASE isPrimary
  <2>1. <<>> \in Seq(1..MaxOp) /\ Len(<<>>) = 0 OBVIOUS
  <2>2. buffer' = buffer /\ (ops' = ops \/ ops' = <<>>) BY <1>3 DEF isPrimary
  <2>3. CASE ops' = ops BY <2>2, <2>3, Zenon
  <2>4. CASE ops' = <<>>
    <3>1. ops' \in Seq(1..MaxOp) /\ Len(ops') = 0 BY <2>1, <2>4, Zenon
    <3> QED BY <2>2, <3>1
  <2> QED BY <2>2, <2>3, <2>4, Zenon
<1>4. CASE _logOpObjRS
  <2>1. ops # <<>> BY <1>4, Zenon DEF _logOpObjRS
  <2>2. Tail(ops) \in Seq(1..MaxOp) /\ Len(Tail(ops)) = Len(ops) - 1 BY <2>1
  <2> QED BY <1>4, <2>2 DEF _logOpObjRS
<1>5. CASE UNCHANGED <<buffer, ops>>
  BY <1>5
<1>6. Produce /\ ~push => UNCHANGED <<buffer, ops>>
  BY DEF Produce, ReadState, _producerThread, stop, start, getOplogReader, OpenCursor,
         CheckPrimary, more, nextSafe, NotApplied, Fetched, others
<1>7. Breaks => UNCHANGED <<buffer, ops>>
  BY Zenon DEF Breaks, NoCursor, CursorHadNothing, LeaveTarget, others
<1>8. Apply /\ ~consume /\ ~isPrimary /\ ~_logOpObjRS => UNCHANGED <<buffer, ops>>
  BY Zenon DEF Apply, BufferEmpty, CommandEndsBatch, multiApply, NotifyEach, NotifyLast, notify
<1>9. Manage => UNCHANGED <<buffer, ops>>
  BY Zenon DEF Manage, assumePrimary, stopReplicationAndFlushBuffer, BecomePrimary, relinquish,
         unmanaged
<1>10. UNCHANGED vars => UNCHANGED <<buffer, ops>>
  BY Zenon DEF vars
<1> QED BY <1>1, <1>2, <1>3, <1>4, <1>5, <1>6, <1>7, <1>8, <1>9, <1>10 DEF Next

Flags ==
    /\ pause \in BOOLEAN /\ appliedBuffer \in BOOLEAN /\ assumingPrimary \in BOOLEAN
    /\ sawPrimary \in BOOLEAN

\* The flags of the three threads stay Booleans.
LEMMA FlagsTyped ==
    ASSUME Flags, [Next]_vars
    PROVE  Flags'
<1> USE DEF Flags
<1>1. Produce => Flags'
  <2>1. CASE ReadState BY <2>1, Zenon DEF ReadState, bgsync
  <2>2. CASE _producerThread BY <2>2, Zenon DEF _producerThread, bgsync, locals
  <2>3. CASE stop BY <2>3, Zenon DEF stop, locals
  <2>4. CASE start
    <3>1. pause' = FALSE \/ pause' = pause BY <2>4 DEF start
    <3>2. UNCHANGED <<appliedBuffer, assumingPrimary, sawPrimary>>
      BY <2>4 DEF start, locals
    <3> QED BY <3>1, <3>2
  <2>5. CASE getOplogReader BY <2>5, Zenon DEF getOplogReader, bgsync, locals
  <2>6. CASE OpenCursor BY <2>6, Zenon DEF OpenCursor, bgsync
  <2>7. CASE CheckPrimary BY <2>7, Zenon DEF CheckPrimary, bgsync, locals
  <2>8. CASE more BY <2>8, Zenon DEF more, bgsync
  <2>9. CASE nextSafe BY <2>9, Zenon DEF nextSafe, bgsync
  <2>10. CASE NotApplied BY <2>10, Zenon DEF NotApplied, locals
  <2>11. CASE push BY <2>11, Zenon DEF push, bgsync, locals
  <2>12. CASE Fetched BY <2>12, Zenon DEF Fetched, locals
  <2> QED
    BY <2>1, <2>2, <2>3, <2>4, <2>5, <2>6, <2>7, <2>8, <2>9, <2>10, <2>11, <2>12, Zenon DEF Produce
<1>2. Breaks => Flags'
  BY Zenon DEF Breaks, NoCursor, CursorHadNothing, LeaveTarget, bgsync, locals
<1>3. Apply => Flags'
  <2>1. notify("check") \/ notify("notifyLast") \/ notify("logging") => Flags'
    BY Zenon DEF notify, rest, locals
  <2>2. NotifyEach \/ NotifyLast => Flags'
    BY <2>1 DEF NotifyEach, NotifyLast
  <2>3. isPrimary \/ consume \/ _logOpObjRS => Flags'
    BY DEF isPrimary, consume, _logOpObjRS, rest, locals
  <2>4. BufferEmpty \/ CommandEndsBatch \/ multiApply => Flags'
    BY Zenon DEF BufferEmpty, CommandEndsBatch, multiApply, rest, locals
  <2> QED BY <2>2, <2>3, <2>4, Zenon DEF Apply
<1>4. Manage => Flags'
  BY Zenon DEF Manage, assumePrimary, stopReplicationAndFlushBuffer, BecomePrimary, relinquish,
         unmanaged, locals
<1>5. UNCHANGED vars => Flags'
  BY Zenon DEF vars, bgsync, locals
<1> QED BY <1>1, <1>2, <1>3, <1>4, <1>5, Zenon DEF Next

\* Types apart from the flags and the two queues.
Scalars ==
    /\ state \in {"SECONDARY", "PRIMARY"}
    /\ lastOpTimeWritten \in 1..MaxOp
    /\ oplog \subseteq 1..MaxOp
    /\ lastOpTimeFetched \in 0..MaxOp
    /\ asleep \subseteq {"producer", "manager"}
    /\ producer \in {"top", "mode", "stop", "start", "reader", "query", "loop", "applied",
                     "push", "fetched"}
    /\ cursor \in 0..MaxOp /\ batch \in 0..MaxOp
    /\ applier \in {"check", "pop", "apply", "log", "notify", "logging",
                    "notifyLast"}
    /\ manager \in {"idle", "flush", "lock"}
    /\ massert \in {0, 16235, 16620} /\ dropped \subseteq 1..MaxOp
    /\ elections \in 0..MaxElections /\ breaks \in 0..MaxBreaks

\* The steps of the producer thread keep types and program counters.
LEMMA ProduceTyped ==
    ASSUME TypeOK, Control, Produce \/ Breaks
    PROVE  Scalars' /\ Control'
<1> USE MaxOpAssumption, MaxBreaksAssumption
        DEF Scalars, Control, others, bgsync, locals, notify_all
<1>0. Scalars BY DEF TypeOK
<1>1. CASE ReadState BY <1>0, <1>1 DEF ReadState
<1>2. CASE _producerThread BY <1>0, <1>2 DEF _producerThread
<1>3. CASE stop BY <1>0, <1>3 DEF stop
<1>4. CASE start BY <1>0, <1>4 DEF start
<1>5. CASE getOplogReader
  <2>1. /\ producer = "reader" /\ producer' \in {"reader", "query"}
        /\ asleep' \subseteq asleep \cup {"producer"}
    BY <1>5 DEF getOplogReader
  <2> QED BY <1>0, <1>5, <2>1 DEF getOplogReader
<1>6. CASE OpenCursor BY <1>0, <1>6 DEF OpenCursor
<1>7. CASE CheckPrimary BY <1>0, <1>7 DEF CheckPrimary
<1>8. CASE more BY <1>0, <1>8 DEF more
<1>9. CASE nextSafe BY <1>0, <1>9 DEF nextSafe
<1>10. CASE NotApplied BY <1>0, <1>10 DEF NotApplied
<1>11. CASE push BY <1>0, <1>11 DEF push
<1>12. CASE Fetched BY <1>0, <1>12 DEF Fetched
<1>13. CASE NoCursor BY <1>0, <1>13 DEF NoCursor, Break
<1>14. CASE CursorHadNothing BY <1>0, <1>14 DEF CursorHadNothing, Break
<1>15. CASE LeaveTarget BY <1>0, <1>15 DEF LeaveTarget, Break
<1> HIDE DEF Scalars, Control
<1> QED
  BY <1>1, <1>2, <1>3, <1>4, <1>5, <1>6, <1>7, <1>8, <1>9, <1>10, <1>11, <1>12, <1>13,
     <1>14, <1>15 DEF Produce, Breaks

\* So do the steps of the sync thread.
LEMMA ApplyTyped ==
    ASSUME TypeOK, Control, Apply
    PROVE  Scalars' /\ Control'
<1> USE MaxOpAssumption, BatchLimitAssumption DEF Scalars, Control, rest, locals, notify_all
<1>0. Scalars /\ ops \in Seq(1..MaxOp) BY DEF TypeOK
<1>1. CASE isPrimary
  <2>1. CASE state = "PRIMARY"
    <3>1. dropped' = dropped \cup {ops[i] : i \in DOMAIN ops}
      BY <1>1, <2>1 DEF isPrimary
    <3>2. \A i \in DOMAIN ops : ops[i] \in 1..MaxOp BY <1>0
    <3>3. dropped' \subseteq 1..MaxOp
      <4>1. dropped \subseteq 1..MaxOp BY <1>0
      <4> HIDE DEF Scalars, Control
      <4> QED BY <3>1, <3>2, <4>1, Zenon
    <3> QED BY <1>0, <1>1, <2>1, <3>3 DEF isPrimary
  <2>2. CASE state # "PRIMARY"
    <3>1. Len(ops) > BatchLimit => ops # <<>> OBVIOUS
    <3>2. /\ applier' \in {"apply", "pop"} /\ ops' = ops
          /\ applier' = "apply" => Len(ops) > BatchLimit
          /\ applier' = "pop" => ~(Len(ops) > BatchLimit)
      BY <1>1, <2>2 DEF isPrimary
    <3>3. UNCHANGED <<rest, state, lastOpTimeWritten, oplog, asleep, massert, dropped>>
      BY <1>1, <2>2 DEF isPrimary
    <3>4. Scalars' BY <1>0, <3>2, <3>3
    <3>5. Control' BY <1>0, <3>1, <3>2, <3>3
    <3> HIDE DEF Scalars, Control
    <3> QED BY <3>4, <3>5, Zenon
  <2> QED BY <2>1, <2>2
<1>2. CASE BufferEmpty BY <1>0, <1>2 DEF BufferEmpty
<1>3. CASE consume
  <2>1. ops' # <<>> BY <1>0, <1>3 DEF consume
  <2> QED BY <1>0, <1>3, <2>1 DEF consume
<1>4. CASE CommandEndsBatch BY <1>0, <1>4 DEF CommandEndsBatch
<1>5. CASE multiApply BY <1>0, <1>5 DEF multiApply
<1>6. CASE _logOpObjRS
  <2>1. ops # <<>> BY <1>6 DEF _logOpObjRS
  <2>2. Head(ops) \in 1..MaxOp BY <1>0, <2>1
  <2>3. oplog' \subseteq 1..MaxOp /\ lastOpTimeWritten' \in 1..MaxOp
    <3>1. oplog' = oplog \cup {Head(ops)} /\ lastOpTimeWritten' = Head(ops)
      BY <1>6 DEF _logOpObjRS
    <3>2. oplog \subseteq 1..MaxOp BY <1>0
    <3> HIDE DEF Scalars, Control
    <3> QED BY <2>2, <3>1, <3>2, Zenon
  <2>4. UNCHANGED <<rest, state, asleep, massert, dropped>> /\ applier' = "notify"
    BY <1>6 DEF _logOpObjRS
  <2> QED BY <1>0, <2>3, <2>4
<1>7. CASE NotifyEach \/ NotifyLast
  <2>1. applier' \in {"notifyLast", "logging", "check"} /\ (applier' = "logging" => ops # <<>>)
    BY <1>7, Zenon DEF NotifyEach, NotifyLast, notify
  <2>2. asleep' \subseteq asleep
    BY <1>7, Zenon DEF NotifyEach, NotifyLast, notify
  <2>3. UNCHANGED <<rest, state, lastOpTimeWritten, oplog, ops, massert, dropped>>
    BY <1>7, Zenon DEF NotifyEach, NotifyLast, notify
  <2> QED BY <1>0, <2>1, <2>2, <2>3
<1> HIDE DEF Scalars, Control
<1> QED BY <1>1, <1>2, <1>3, <1>4, <1>5, <1>6, <1>7 DEF Apply

\* And the steps of the manager.
LEMMA ManageTyped ==
    ASSUME TypeOK, Control, Manage
    PROVE  Scalars' /\ Control'
<1> USE MaxElectionsAssumption DEF Scalars, Control, unmanaged, locals
<1>0. Scalars BY DEF TypeOK
<1>1. CASE assumePrimary BY <1>0, <1>1 DEF assumePrimary
<1>2. CASE stopReplicationAndFlushBuffer
  <2>1. manager' \in {"flush", "lock"} /\ asleep' \subseteq asleep \cup {"manager"}
    BY <1>2 DEF stopReplicationAndFlushBuffer
  <2> QED BY <1>0, <1>2, <2>1 DEF stopReplicationAndFlushBuffer
<1>3. CASE BecomePrimary BY <1>0, <1>3 DEF BecomePrimary
<1>4. CASE relinquish BY <1>0, <1>4 DEF relinquish
<1> HIDE DEF Scalars, Control
<1> QED BY <1>1, <1>2, <1>3, <1>4 DEF Manage

\* The parts of TypeOK together.
LEMMA TypeParts ==
    ASSUME Flags', Scalars', buffer' \in Seq(1..MaxOp), Len(buffer') <= BufferSize,
           ops' \in Seq(1..MaxOp), Len(ops') <= BatchLimit + 1
    PROVE  TypeOK'
  BY DEF TypeOK, Flags, Scalars

LEMMA TypedStep ==
    ASSUME TypeOK, Control, [Next]_vars
    PROVE  TypeOK' /\ Control'
<1>1. Flags' BY FlagsTyped DEF TypeOK, Flags
<1>2. Scalars' /\ Control'
  <2>1. CASE UNCHANGED vars
    <3>1. Scalars BY DEF TypeOK, Scalars
    <3> QED BY <2>1, <3>1 DEF vars, bgsync, locals, Scalars, Control
  <2> QED BY <2>1, ProduceTyped, ApplyTyped, ManageTyped DEF Next
<1>3. /\ buffer' \in Seq(1..MaxOp) /\ Len(buffer') <= BufferSize
      /\ ops' \in Seq(1..MaxOp) /\ Len(ops') <= BatchLimit + 1
  BY QueueTypes
<1>4. TypeOK' BY <1>1, <1>2, <1>3, TypeParts, Zenon
<1> QED BY <1>2, <1>4

-----------------------------------------------------------------------------
(* Nothing overtakes.                                                      *)

LEMMA InitOrdered == Init => Ordered
<1> SUFFICES ASSUME Init PROVE Ordered BY Zenon
<1> USE MaxOpAssumption
<1>1. Len(ops) = 0 /\ Len(buffer) = 0 BY Zenon DEF Init
<1>2. OpsOrder /\ BufferOrder BY <1>1 DEF OpsOrder, BufferOrder
<1>3. OplogOrder BY DEF Init, OplogOrder
<1>4. CursorOrder BY DEF Init, CursorOrder
<1> QED BY <1>2, <1>3, <1>4, Zenon DEF Init, Ordered

\* Steps that move no operation keep the order of what is under way.
LEMMA NothingMoves ==
    ASSUME Ordered, UNCHANGED <<lastOpTimeWritten, oplog, dropped, ops, buffer>>
    PROVE  /\ lastOpTimeWritten' \in oplog'
           /\ OplogOrder' /\ OpsOrder' /\ BufferOrder'
           /\ \A n \in 1..MaxOp : Known(n)' <=> Known(n)
BY DEF Ordered, OplogOrder, OpsOrder, BufferOrder, Known, Settled, InOps, InBuffer

\* A producer that restarts begins at the last operation written, a cursor at
\* the last one fetched, and each operation is pushed after the one before it.
LEMMA ProduceOrdered ==
    ASSUME TypeOK, Control, Ordered, Produce \/ Breaks
    PROVE  Ordered'
<1> USE MaxOpAssumption
<1>0. /\ lastOpTimeWritten \in 1..MaxOp /\ lastOpTimeFetched \in 0..MaxOp
      /\ cursor \in 0..MaxOp /\ batch \in 0..MaxOp /\ buffer \in Seq(1..MaxOp)
  BY DEF TypeOK
<1>a. CASE push
  <2>1. /\ buffer' = Append(buffer, cursor)
        /\ UNCHANGED <<lastOpTimeWritten, oplog, dropped, ops, lastOpTimeFetched, cursor>>
        /\ producer = "push" /\ producer' = "fetched"
    BY <1>a, Zenon DEF push, others, bgsync, locals
  <2>2. /\ Len(buffer') = Len(buffer) + 1
        /\ \A k \in 1..Len(buffer) : buffer'[k] = buffer[k]
        /\ buffer'[Len(buffer) + 1] = cursor
        /\ Len(buffer) \in Nat
    BY <1>0, <2>1
  <2>3. \A n \in 1..MaxOp : Known(n) => Known(n)'
    BY <2>1, <2>2 DEF Known, Settled, InOps, InBuffer
  <2>4. lastOpTimeWritten' \in oplog' /\ OplogOrder' /\ OpsOrder'
    BY <2>1 DEF Ordered, OplogOrder, OpsOrder, Settled
  <2>5. BufferOrder'
    <3> SUFFICES ASSUME NEW k \in 1..(Len(buffer) + 1), NEW n \in 1..MaxOp, n < buffer'[k]
                 PROVE  Settled(n)' \/ InOps(n)' \/ \E j \in 1..(k-1) : buffer'[j] = n
      BY <2>2, Zenon DEF BufferOrder
    <3>1. CASE k = Len(buffer) + 1
      <4>1. Known(n) BY <2>1, <2>2, <3>1, Zenon DEF Ordered, CursorOrder
      <4> QED BY <2>1, <2>2, <3>1, <4>1 DEF Known, Settled, InOps, InBuffer
    <3>2. CASE k \in 1..Len(buffer)
      BY <2>1, <2>2, <3>2 DEF Ordered, BufferOrder, Settled, InOps
    <3> QED BY <2>2, <3>1, <3>2
  <2>6. InBuffer(cursor)' BY <2>1, <2>2 DEF InBuffer
  <2>7. CursorOrder'
    <3>1. \A n \in 1..MaxOp : n <= cursor' => Known(n)'
      BY <1>0, <2>1, <2>3, <2>6 DEF Ordered, CursorOrder, Known
    <3> QED BY <2>1, <2>3, <3>1, Zenon DEF Ordered, CursorOrder
  <2> QED BY <2>4, <2>5, <2>7, Zenon DEF Ordered
<1>b. CASE ~push
  <2>1. UNCHANGED <<lastOpTimeWritten, oplog, dropped, ops, buffer>>
    BY <1>b DEF Produce, Breaks, ReadState, _producerThread, stop, start, getOplogReader,
                OpenCursor, CheckPrimary, more, nextSafe, NotApplied, Fetched, NoCursor,
                CursorHadNothing, LeaveTarget, others
  <2>2. /\ lastOpTimeWritten' \in oplog'
        /\ OplogOrder' /\ OpsOrder' /\ BufferOrder'
        /\ \A n \in 1..MaxOp : Known(n)' <=> Known(n)
    BY <2>1, NothingMoves, Zenon
  <2>3. \A n \in 1..MaxOp : n <= lastOpTimeWritten => Known(n)
    BY <1>0 DEF Ordered, OplogOrder, Known, Settled
  <2>4. CursorOrder BY Zenon DEF Ordered
  <2>5. CursorOrder'
    <3> HIDE DEF Known
    <3> USE <2>2, <2>4 DEF CursorOrder
    <3>1. CASE ReadState BY <3>1, Zenon DEF ReadState, bgsync
    <3>2. CASE _producerThread BY <3>2, Zenon DEF _producerThread, bgsync, locals
    <3>3. CASE stop BY <3>3 DEF stop, locals
    <3>4. CASE start BY <2>3, <3>4 DEF start, locals
    <3>5. CASE getOplogReader BY <3>5, Zenon DEF getOplogReader, bgsync, locals
    <3>6. CASE OpenCursor BY <3>6, Zenon DEF OpenCursor, bgsync
    <3>7. CASE CheckPrimary BY <3>7, Zenon DEF CheckPrimary, bgsync, locals
    <3>8. CASE more BY <3>8, Zenon DEF more, bgsync
    <3>9. CASE nextSafe BY <1>0, <3>9 DEF nextSafe, bgsync
    <3>10. CASE NotApplied BY <3>10, Zenon DEF NotApplied, locals
    <3>11. CASE Fetched BY <3>11, Zenon DEF Fetched, locals
    <3>12. CASE Breaks
      BY <3>12, Zenon DEF Breaks, NoCursor, CursorHadNothing, LeaveTarget, bgsync, locals
    <3> QED
      BY <1>b, <3>1, <3>2, <3>3, <3>4, <3>5, <3>6, <3>7, <3>8, <3>9, <3>10, <3>11, <3>12, Zenon
         DEF Produce
  <2> QED BY <2>2, <2>5, Zenon DEF Ordered
<1> QED BY <1>a, <1>b, Zenon

\* The sync thread moves operations from the buffer to the batch and from the
\* batch to the oplog in the order in which they came; a batch it leaves behind
\* is dropped whole.
LEMMA ApplyOrdered ==
    ASSUME TypeOK, Control, Ordered, Apply
    PROVE  Ordered'
<1> USE MaxOpAssumption
<1>0. /\ ops \in Seq(1..MaxOp) /\ buffer \in Seq(1..MaxOp) /\ oplog \subseteq 1..MaxOp
      /\ Len(ops) \in Nat /\ Len(buffer) \in Nat
  BY DEF TypeOK
<1>1. UNCHANGED <<lastOpTimeFetched, producer, cursor>>
  BY DEF Apply, isPrimary, BufferEmpty, consume, CommandEndsBatch, multiApply, _logOpObjRS,
         NotifyEach, NotifyLast, notify, rest, locals
<1>2. ASSUME \A n \in 1..MaxOp : Known(n) => Known(n)' PROVE CursorOrder'
  BY <1>1, <1>2, Zenon DEF Ordered, CursorOrder
<1>3. CASE UNCHANGED <<lastOpTimeWritten, oplog, dropped, ops, buffer>>
  BY <1>2, <1>3, NothingMoves, Zenon DEF Ordered
<1>4. CASE isPrimary /\ state = "PRIMARY"
  <2>1. /\ ops' = <<>> /\ dropped' = dropped \cup {ops[i] : i \in DOMAIN ops}
        /\ UNCHANGED <<lastOpTimeWritten, oplog, buffer>>
    BY <1>4 DEF isPrimary
  <2>2. \A n \in 1..MaxOp : Settled(n) \/ InOps(n) => Settled(n)'
    BY <1>0, <2>1 DEF Settled, InOps
  <2>3. lastOpTimeWritten' \in oplog' /\ OplogOrder' /\ OpsOrder'
    BY <2>1, <2>2 DEF Ordered, OplogOrder, OpsOrder
  <2>4. BufferOrder'
    BY <2>1, <2>2, Zenon DEF Ordered, BufferOrder
  <2>5. CursorOrder'
    BY <1>2, <2>1, <2>2, Zenon DEF Known, InBuffer
  <2> QED BY <2>3, <2>4, <2>5 DEF Ordered
<1>5. CASE consume
  <2>1. /\ buffer # <<>> /\ ops' = Append(ops, Head(buffer)) /\ buffer' = Tail(buffer)
        /\ UNCHANGED <<lastOpTimeWritten, oplog, dropped>>
    BY <1>5, Zenon DEF consume
  <2>2. /\ Len(buffer') = Len(buffer) - 1 /\ Len(buffer) >= 1
        /\ \A k \in 1..(Len(buffer) - 1) : buffer'[k] = buffer[k + 1]
        /\ Head(buffer) = buffer[1]
    BY <1>0, <2>1
  <2>3. /\ Len(ops') = Len(ops) + 1
        /\ \A k \in 1..Len(ops) : ops'[k] = ops[k]
        /\ ops'[Len(ops) + 1] = buffer[1]
    BY <1>0, <2>1, <2>2
  <2>4. \A n \in 1..MaxOp : Settled(n)' <=> Settled(n)
    BY <2>1, Zenon DEF Settled
  <2>5. \A n \in 1..MaxOp : InOps(n)' <=> InOps(n) \/ n = buffer[1]
    <3> SUFFICES ASSUME NEW n \in 1..MaxOp PROVE InOps(n)' <=> InOps(n) \/ n = buffer[1]
      BY Zenon
    <3>1. 1..Len(ops') = 1..Len(ops) \cup {Len(ops) + 1} BY <1>0, <2>3
    <3> QED BY <2>3, <3>1, Zenon DEF InOps
  <2>6. lastOpTimeWritten' \in oplog' /\ OplogOrder'
    BY <2>1, <2>4, Zenon DEF Ordered, OplogOrder
  <2>7. OpsOrder'
    <3> SUFFICES ASSUME NEW k \in 1..(Len(ops) + 1), NEW n \in 1..MaxOp, n < ops'[k]
                 PROVE  Settled(n)' \/ \E j \in 1..(k-1) : ops'[j] = n
      BY <2>3, Zenon DEF OpsOrder
    <3>1. CASE k = Len(ops) + 1
      <4>1. Settled(n) \/ InOps(n)
        BY <2>2, <2>3, <3>1 DEF Ordered, BufferOrder
      <4> QED BY <1>0, <2>3, <2>4, <3>1, <4>1 DEF InOps
    <3>2. CASE k \in 1..Len(ops)
      <4>1. Settled(n) \/ \E j \in 1..(k-1) : ops[j] = n
        BY <2>3, <3>2, Zenon DEF Ordered, OpsOrder
      <4>2. \A j \in 1..(k-1) : ops'[j] = ops[j] BY <1>0, <2>3, <3>2
      <4> QED BY <2>4, <4>1, <4>2, Zenon
    <3> QED BY <1>0, <3>1, <3>2
  <2>8. BufferOrder'
    <3> SUFFICES ASSUME NEW k \in 1..(Len(buffer) - 1), NEW n \in 1..MaxOp, n < buffer'[k]
                 PROVE  Settled(n)' \/ InOps(n)' \/ \E j \in 1..(k-1) : buffer'[j] = n
      BY <2>2, Zenon DEF BufferOrder
    <3>1. k + 1 \in 1..Len(buffer) /\ n < buffer[k + 1] BY <1>0, <2>2
    <3>2. Settled(n) \/ InOps(n) \/ \E j \in 1..k : buffer[j] = n
      <4>1. (k + 1) - 1 = k BY <1>0
      <4> QED BY <3>1, <4>1, Zenon DEF Ordered, BufferOrder
    <3>3. CASE \E j \in 1..k : buffer[j] = n
      <4> PICK j \in 1..k : buffer[j] = n BY <3>3, Zenon
      <4>1. CASE j = 1 BY <2>5, <4>1, Zenon
      <4>2. CASE j # 1
        <5>1. j - 1 \in 1..(k-1) /\ j - 1 \in 1..(Len(buffer) - 1) /\ (j - 1) + 1 = j
          BY <1>0, <4>2
        <5>2. buffer'[j - 1] = n BY <2>2, <5>1, Zenon
        <5> QED BY <5>1, <5>2, Zenon
      <4> QED BY <4>1, <4>2, Zenon
    <3> QED BY <2>4, <2>5, <3>2, <3>3, Zenon
  <2>9. \A n \in 1..MaxOp : Known(n) => Known(n)'
    <3> SUFFICES ASSUME NEW n \in 1..MaxOp, InBuffer(n) PROVE InOps(n)' \/ InBuffer(n)'
      BY <2>4, <2>5, Zenon DEF Known
    <3> PICK j \in 1..Len(buffer) : buffer[j] = n BY Zenon DEF InBuffer
    <3>1. CASE j = 1 BY <2>5, <3>1, Zenon
    <3>2. CASE j # 1
      <4>1. j - 1 \in 1..(Len(buffer) - 1) /\ (j - 1) + 1 = j BY <1>0, <3>2
      <4>2. buffer'[j - 1] = n BY <2>2, <4>1, Zenon
      <4> QED BY <2>2, <4>1, <4>2, Zenon DEF InBuffer
    <3> QED BY <3>1, <3>2, Zenon
  <2> QED BY <1>2, <2>6, <2>7, <2>8, <2>9, Zenon DEF Ordered
<1>6. CASE _logOpObjRS
  <2>1. /\ ops # <<>> /\ ops' = Tail(ops) /\ UNCHANGED <<buffer, dropped>>
        /\ oplog' = oplog \cup {Head(ops)} /\ lastOpTimeWritten' = Head(ops)
    BY <1>6, Zenon DEF _logOpObjRS, Control
  <2>2. /\ Len(ops') = Len(ops) - 1 /\ Len(ops) >= 1
        /\ \A k \in 1..(Len(ops) - 1) : ops'[k] = ops[k + 1]
        /\ Head(ops) = ops[1]
    BY <1>0, <2>1
  <2>3. \A n \in 1..MaxOp : Settled(n)' <=> Settled(n) \/ n = ops[1]
    BY <2>1, <2>2, Zenon DEF Settled
  <2>4. OplogOrder'
    <3>1. \A n \in 1..MaxOp : n < ops[1] => Settled(n)
      BY <2>2 DEF Ordered, OpsOrder
    <3> QED BY <2>1, <2>2, <2>3, <3>1, Zenon DEF Ordered, OplogOrder
  <2>5. \A n \in 1..MaxOp : Settled(n) \/ InOps(n) => Settled(n)' \/ InOps(n)'
    <3> SUFFICES ASSUME NEW n \in 1..MaxOp, InOps(n) PROVE Settled(n)' \/ InOps(n)'
      BY <2>3, Zenon
    <3> PICK j \in 1..Len(ops) : ops[j] = n BY DEF InOps
    <3>1. CASE j = 1 BY <2>3, <3>1
    <3>2. CASE j # 1
      <4>1. j - 1 \in 1..(Len(ops) - 1) /\ (j - 1) + 1 = j BY <1>0, <3>2
      <4>2. ops'[j - 1] = n BY <2>2, <4>1
      <4> QED BY <2>2, <4>1, <4>2 DEF InOps
    <3> QED BY <3>1, <3>2
  <2>6. OpsOrder'
    <3> SUFFICES ASSUME NEW k \in 1..(Len(ops) - 1), NEW n \in 1..MaxOp, n < ops'[k]
                 PROVE  Settled(n)' \/ \E j \in 1..(k-1) : ops'[j] = n
      BY <2>2, Zenon DEF OpsOrder
    <3>1. k + 1 \in 1..Len(ops) /\ n < ops[k + 1] BY <1>0, <2>2
    <3>2. Settled(n) \/ \E j \in 1..k : ops[j] = n
      <4>1. (k + 1) - 1 = k BY <1>0
      <4> QED BY <3>1, <4>1, Zenon DEF Ordered, OpsOrder
    <3>3. CASE \E j \in 1..k : ops[j] = n
      <4> PICK j \in 1..k : ops[j] = n BY <3>3
      <4>1. CASE j = 1 BY <2>3, <4>1, Zenon
      <4>2. CASE j # 1
        <5>1. j - 1 \in 1..(k-1) /\ j - 1 \in 1..(Len(ops) - 1) /\ (j - 1) + 1 = j
          BY <1>0, <4>2
        <5>2. ops'[j - 1] = n BY <2>2, <5>1
        <5> QED BY <5>1, <5>2, Zenon
      <4> QED BY <4>1, <4>2, Zenon
    <3> QED BY <2>3, <3>2, <3>3, Zenon
  <2>7. BufferOrder'
    BY <2>1, <2>5, Zenon DEF Ordered, BufferOrder
  <2>8. CursorOrder'
    BY <1>2, <2>1, <2>5, Zenon DEF Known, InBuffer
  <2>9. lastOpTimeWritten' \in oplog' BY <2>1, Zenon
  <2> QED BY <2>4, <2>6, <2>7, <2>8, <2>9, Zenon DEF Ordered
<1>7. ~consume /\ ~_logOpObjRS /\ ~(isPrimary /\ state = "PRIMARY")
         => UNCHANGED <<lastOpTimeWritten, oplog, dropped, ops, buffer>>
  BY DEF Apply, isPrimary, BufferEmpty, CommandEndsBatch, multiApply, NotifyEach, NotifyLast,
         notify
<1> QED BY <1>3, <1>4, <1>5, <1>6, <1>7

LEMMA OrderedStep ==
    ASSUME TypeOK, Control, Ordered, [Next]_vars
    PROVE  Ordered'
<1>1. CASE Manage \/ UNCHANGED vars
  <2>1. /\ UNCHANGED <<lastOpTimeWritten, oplog, dropped, ops, buffer>>
        /\ UNCHANGED <<lastOpTimeFetched, producer, cursor>>
    BY <1>1, Zenon DEF Manage, assumePrimary, stopReplicationAndFlushBuffer, BecomePrimary,
                relinquish, unmanaged, locals, bgsync, vars
  <2>2. CursorOrder' BY <2>1, NothingMoves, Zenon DEF Ordered, CursorOrder
  <2> QED BY <2>1, <2>2, NothingMoves, Zenon DEF Ordered
<1> QED BY <1>1, ProduceOrdered, ApplyOrdered, Zenon DEF Next

-----------------------------------------------------------------------------
(* Who sleeps on _condvar has somebody to wake it.                         *)

\* Nobody is left asleep on a condition that holds.
WaitsForSomething ==
    /\ "producer" \in asleep => ~appliedBuffer
    /\ "manager" \in asleep => ~(pause /\ appliedBuffer)

\* While _appliedBuffer is false the sync thread still has a notify() to come.
NotifyToCome ==
    ~appliedBuffer =>
        \/ buffer # <<>> \/ ops # <<>> \/ producer = "push"
        \/ applier \in {"notify", "notifyLast"}
        \/ dropped # {}

LEMMA SleepersSplit == SleepersAreWoken <=> WaitsForSomething /\ NotifyToCome
BY Zenon DEF SleepersAreWoken, WaitsForSomething, NotifyToCome

LEMMA WaitsStep ==
    ASSUME WaitsForSomething, [Next]_vars
    PROVE  WaitsForSomething'
<1> USE DEF WaitsForSomething
<1>1. CASE Produce
  <2>1. CASE stop BY <2>1, Zenon DEF stop, notify_all
  <2>2. CASE start
    <3>1. asleep' = asleep /\ appliedBuffer' = appliedBuffer /\ (pause' => pause)
      BY <2>2 DEF start
    <3> QED BY <3>1
  <2>3. CASE getOplogReader
    <3>1. UNCHANGED <<pause, appliedBuffer>> BY <2>3, Zenon DEF getOplogReader, bgsync
    <3>2. asleep' = asleep \/ (asleep' = asleep \cup {"producer"} /\ ~appliedBuffer)
      BY <2>3, Zenon DEF getOplogReader
    <3> QED BY <3>1, <3>2, Zenon
  <2>4. CASE NotApplied BY <2>4, Zenon DEF NotApplied
  <2>5. CASE ~(stop \/ start \/ getOplogReader \/ NotApplied)
    <3>1. UNCHANGED <<asleep, pause, appliedBuffer>>
      BY <1>1, <2>5, Zenon DEF Produce, ReadState, _producerThread, OpenCursor, CheckPrimary, more,
                        nextSafe, push, Fetched, bgsync
    <3> QED BY <3>1, Zenon
  <2> QED BY <2>1, <2>2, <2>3, <2>4, <2>5, Zenon
<1>2. CASE Apply
  <2>1. asleep' = {} \/ UNCHANGED <<asleep, pause, appliedBuffer>>
    BY <1>2 DEF Apply, isPrimary, BufferEmpty, consume, CommandEndsBatch, multiApply,
                _logOpObjRS, NotifyEach, NotifyLast, notify, notify_all, rest
  <2> QED BY <2>1
<1>3. CASE stopReplicationAndFlushBuffer
  <2>1. UNCHANGED <<pause, appliedBuffer>>
    BY <1>3, Zenon DEF stopReplicationAndFlushBuffer, unmanaged
  <2>2. \/ asleep' = asleep
        \/ asleep' = asleep \cup {"manager"} /\ ~(pause /\ appliedBuffer)
    BY <1>3, Zenon DEF stopReplicationAndFlushBuffer
  <2> QED BY <2>1, <2>2, Zenon
<1>4. CASE Breaks \/ assumePrimary \/ BecomePrimary \/ relinquish \/ UNCHANGED vars
  <2>1. UNCHANGED <<asleep, pause, appliedBuffer>>
    BY <1>4, Zenon DEF Breaks, NoCursor, CursorHadNothing, LeaveTarget, assumePrimary,
                BecomePrimary, relinquish, unmanaged, bgsync, vars
  <2> QED BY <2>1
<1> QED BY <1>1, <1>2, <1>3, <1>4, Zenon DEF Next, Manage

LEMMA NotifyStep ==
    ASSUME TypeOK, Control, NotifyToCome, [Next]_vars
    PROVE  NotifyToCome'
<1> USE DEF NotifyToCome
<1>0. ops \in Seq(1..MaxOp) /\ buffer \in Seq(1..MaxOp) BY DEF TypeOK
<1>1. CASE Produce
  <2>1. CASE NotApplied BY <2>1, Zenon DEF NotApplied
  <2>2. CASE push
    <3>1. buffer' # <<>> BY <1>0, <2>2 DEF push
    <3> QED BY <3>1, Zenon
  <2>3. CASE ~(NotApplied \/ push)
    <3>1. /\ UNCHANGED <<appliedBuffer, buffer, ops, applier, dropped>>
          /\ producer # "push"
      BY <1>1, <2>3 DEF Produce, ReadState, _producerThread, stop, start, getOplogReader,
                        OpenCursor, CheckPrimary, more, nextSafe, Fetched, bgsync, others
    <3> QED BY <3>1
  <2> QED BY <2>1, <2>2, <2>3, Zenon
<1>2. CASE Apply
  <2>0. producer' = producer
    BY <1>2 DEF Apply, isPrimary, BufferEmpty, consume, CommandEndsBatch, multiApply,
                _logOpObjRS, NotifyEach, NotifyLast, notify, rest
  <2>1. CASE isPrimary
    <3>1. CASE state = "PRIMARY"
      <4>1. ops # <<>> /\ dropped' = dropped \cup {ops[i] : i \in DOMAIN ops}
        BY <2>1, <3>1 DEF isPrimary
      <4>2. 1 \in DOMAIN ops BY <1>0, <4>1
      <4>3. dropped' # {} BY <4>1, <4>2
      <4> QED BY <4>3
    <3>2. CASE state # "PRIMARY"
      BY <2>0, <2>1, <3>2 DEF isPrimary
    <3> QED BY <3>1, <3>2, Zenon
  <2>2. CASE BufferEmpty \/ CommandEndsBatch \/ multiApply
    BY <2>0, <2>2, Zenon DEF BufferEmpty, CommandEndsBatch, multiApply
  <2>3. CASE consume
    <3>1. ops' # <<>> BY <1>0, <2>3 DEF consume
    <3> QED BY <3>1, Zenon
  <2>4. CASE _logOpObjRS BY <2>4, Zenon DEF _logOpObjRS
  <2>5. CASE NotifyEach \/ NotifyLast
    <3>1. appliedBuffer' = TRUE \/ (buffer # <<>> /\ buffer' = buffer)
      BY <2>5, Zenon DEF NotifyEach, NotifyLast, notify
    <3> QED BY <3>1, Zenon
  <2> QED BY <1>2, <2>1, <2>2, <2>3, <2>4, <2>5 DEF Apply
<1>3. CASE Breaks \/ Manage \/ UNCHANGED vars
  <2>1. /\ UNCHANGED <<appliedBuffer, buffer, ops, applier, dropped>>
        /\ producer = "push" => producer' = "push"
    BY <1>3, Zenon DEF Breaks, NoCursor, CursorHadNothing, LeaveTarget, Manage, assumePrimary,
                stopReplicationAndFlushBuffer, BecomePrimary, relinquish, unmanaged, others,
                bgsync, vars
  <2> QED BY <2>1, Zenon
<1> QED BY <1>1, <1>2, <1>3 DEF Next

-----------------------------------------------------------------------------
(* Only an election makes the sync thread leave a batch behind.            *)

LEMMA ElectionStep ==
    ASSUME TypeOK, DropsAfterElection, [Next]_vars
    PROVE  DropsAfterElection'
<1> USE DEF DropsAfterElection
<1>0. elections \in Nat BY MaxElectionsAssumption DEF TypeOK
<1>1. CASE Produce \/ Breaks \/ UNCHANGED vars
  BY <1>1 DEF Produce, Breaks, ReadState, _producerThread, stop, start, getOplogReader,
              OpenCursor, CheckPrimary, more, nextSafe, NotApplied, push, Fetched, NoCursor,
              CursorHadNothing, LeaveTarget, others, vars
<1>2. CASE isPrimary
  BY <1>2 DEF isPrimary, rest
<1>3. CASE Apply /\ ~isPrimary
  BY <1>3, Zenon DEF Apply, BufferEmpty, consume, CommandEndsBatch, multiApply, _logOpObjRS,
              NotifyEach, NotifyLast, notify, rest
<1>4. CASE assumePrimary BY <1>0, <1>4 DEF assumePrimary
<1>5. CASE stopReplicationAndFlushBuffer
  BY <1>5, Zenon DEF stopReplicationAndFlushBuffer, unmanaged
<1>6. CASE BecomePrimary \/ relinquish
  BY <1>6, Zenon DEF BecomePrimary, relinquish, unmanaged
<1> QED BY <1>1, <1>2, <1>3, <1>4, <1>5, <1>6 DEF Next, Apply, Manage

-----------------------------------------------------------------------------
(* The theorems.                                                           *)

LEMMA OrderGivesHoles == TypeOK /\ Ordered => HolesAreDropped
<1> SUFFICES ASSUME TypeOK, Ordered, NEW i \in oplog, NEW n \in 1..i, n \notin oplog
             PROVE  n \in dropped
  BY DEF HolesAreDropped
<1>1. i \in 1..MaxOp /\ n # i BY DEF TypeOK
<1>2. n \in 1..MaxOp /\ n < i BY <1>1, MaxOpAssumption
<1> QED BY <1>2, Zenon DEF Ordered, OplogOrder, Settled

\* The inductive invariant holds in every reachable state.
THEOREM Invariance == Spec => []IInv
<1>1. Init => IInv
  <2>1. Init => SleepersAreWoken /\ DropsAfterElection
    BY Zenon DEF Init, SleepersAreWoken, DropsAfterElection
  <2> QED BY <2>1, InitTyped, InitOrdered, Zenon DEF IInv
<1>2. IInv /\ [Next]_vars => IInv'
  <2> SUFFICES ASSUME IInv, [Next]_vars PROVE IInv' BY Zenon
  <2>1. TypeOK' /\ Control' BY TypedStep, Zenon DEF IInv
  <2>2. Ordered' BY OrderedStep, Zenon DEF IInv
  <2>3. SleepersAreWoken'
    <3>1. WaitsForSomething /\ NotifyToCome BY SleepersSplit, Zenon DEF IInv
    <3>2. WaitsForSomething' /\ NotifyToCome' BY <3>1, WaitsStep, NotifyStep, Zenon DEF IInv
    <3> QED BY <3>2, Zenon DEF SleepersAreWoken, WaitsForSomething, NotifyToCome
  <2>4. DropsAfterElection' BY ElectionStep, Zenon DEF IInv
  <2> QED BY <2>1, <2>2, <2>3, <2>4, Zenon DEF IInv
<1> QED BY <1>1, <1>2, PTL DEF Spec

\* The threads, the buffer and the batch keep their types: the producer does
\* not pass BufferSize, the sync thread takes at most one operation more than
\* replBatchLimitOperations.
THEOREM TypeCorrect == Spec => []TypeOK
<1>1. IInv => TypeOK BY Zenon DEF IInv
<1> QED BY <1>1, Invariance, PTL

\* An operation missing below one that was written was in a batch that
\* oplogApplication() left behind at massert 16620, whatever the producer,
\* the cursors, the elections and the step downs did.
THEOREM OnlyDroppedAreSkipped == Spec => []HolesAreDropped
<1>1. IInv => HolesAreDropped BY OrderGivesHoles, Zenon DEF IInv
<1> QED BY <1>1, Invariance, PTL

\* Nobody sleeps on _condvar without a notify() to come.
THEOREM NobodyStranded == Spec => []SleepersAreWoken
<1>1. IInv => SleepersAreWoken BY Zenon DEF IInv
<1> QED BY <1>1, Invariance, PTL

\* Until the member wins an election its oplog is a prefix of its source's,
\* without a hole: the producer's restarts and broken cursors skip nothing.
THEOREM NoHoleWithoutElection == Spec => [](elections = 0 => NoOpSkipped)
<1>1. IInv => (elections = 0 => NoOpSkipped)
  <2> SUFFICES ASSUME IInv, elections = 0, NEW i \in oplog
               PROVE  1..i \subseteq oplog
    BY Zenon DEF NoOpSkipped
  <2>1. dropped = {} BY DEF IInv, DropsAfterElection
  <2>2. HolesAreDropped BY OrderGivesHoles, Zenon DEF IInv
  <2> QED BY <2>1, <2>2, Zenon DEF HolesAreDropped
<1> QED BY <1>1, Invariance, PTL

=============================================================================
