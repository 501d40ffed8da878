------------------------- MODULE RangeDeleterProofs -------------------------
(***************************************************************************)
(* Proofs about RangeDeleter, for every finite set of callers, ranges and  *)
(* cursors and every number of calls.                                      *)
(*                                                                         *)
(* A delete is in exactly one place: a queue, the hands of a caller or the *)
(* hands of the worker.  The inductive invariant says so in terms of the   *)
(* ranges at each place, which partition _deleteSet.                       *)
(***************************************************************************)
EXTENDS RangeDeleter, FiniteSetTheorems, TLAPS

CallRecord ==
    [pc : {"cursors", "enqueue", "admit", "nowCursors", "wait", "abandon", "delete"},
     task : Task]

RangesOf(q) == {q[i].range : i \in 1..Len(q)}
Distinct(q) == \A i, j \in 1..Len(q) : q[i].range = q[j].range => i = j

\* The ranges in each place.
QueuedRanges == RangesOf(taskQueue)
NotReadyRanges == RangesOf(notReadyQueue)
HeldRanges == {call[c].task.range : c \in Held}
WorkerRanges == IF worker.pc = "delete" THEN {worker.task.range} ELSE {}

\* The ranges that are accepted and not yet being deleted.
ReservedRanges == {call[c].task.range : c \in Held \ Working}
PendingRanges == QueuedRanges \cup NotReadyRanges \cup ReservedRanges

Reserved ==
    deleteSet = QueuedRanges \cup NotReadyRanges \cup HeldRanges \cup WorkerRanges

OnePlace ==
    /\ Distinct(taskQueue) /\ Distinct(notReadyQueue)
    /\ \A c, d \in Held : call[c].task.range = call[d].task.range => c = d
    /\ QueuedRanges \cap NotReadyRanges = {}
    /\ QueuedRanges \cap HeldRanges = {} /\ NotReadyRanges \cap HeldRanges = {}
    /\ WorkerRanges \cap (QueuedRanges \cup NotReadyRanges \cup HeldRanges) = {}

Unlisted == \A b \in blackList : \A d \in deleteSet : ~rangeOverlaps(d, b)

\* The cursors that were open when a task was accepted are not new, so that the
\* closed ones stay closed.
Late(t, cur) == \A k \in t.openBefore : cur[k] # "new"

\* A task that is past getCursorIds() waits for those of them that are open.
Spares(t, cur) ==
    Late(t, cur) /\ \A k \in t.openBefore : cur[k] = "open" => k \in t.cursorsToWait

ReadySpared ==
    \A i \in 1..Len(taskQueue) :
        Spares(taskQueue[i], cursor) /\ taskQueue[i].cursorsToWait = {}
NotReadySpared == \A i \in 1..Len(notReadyQueue) : Spares(notReadyQueue[i], cursor)
CallSpared(at, cur) ==
    /\ at.pc # "idle" => Late(at.task, cur)
    /\ at.pc \in {"enqueue", "wait", "abandon", "delete"} => Spares(at.task, cur)
    /\ at.pc = "delete" => at.task.cursorsToWait = {}
WorkerSpared ==
    worker.pc = "delete" => Spares(worker.task, cursor) /\ worker.task.cursorsToWait = {}

Spared ==
    /\ ReadySpared /\ NotReadySpared /\ WorkerSpared
    /\ \A c \in Caller : CallSpared(call[c], cursor)

Busy == IF worker.pc = "delete" THEN 1 ELSE 0

Counted ==
    /\ totalDeletes = Cardinality(deleteSet)
    /\ pendingDeletes = Cardinality(PendingRanges)
    /\ inProgressDeletes = Cardinality(Working) + Busy
    /\ totalDeletes = pendingDeletes + inProgressDeletes

IInv == TypeOK /\ Reserved /\ OnePlace /\ Unlisted /\ Spared /\ Counted

-----------------------------------------------------------------------------
(* What the state looks like.                                              *)

LEMMA CallTask ==
    ASSUME TypeOK, NEW c \in Caller, call[c].pc # "idle"
    PROVE  call[c] \in CallRecord /\ call[c].task \in Task
<1>1. call[c] \in {Idle} \cup CallRecord BY Zenon DEF TypeOK, CallRecord
<1>2. call[c] # Idle BY DEF Idle
<1>3. call[c] \in CallRecord BY <1>1, <1>2, Zenon
<1> QED BY <1>3, Zenon DEF CallRecord

LEMMA WorkerTask ==
    ASSUME TypeOK, worker.pc = "delete"
    PROVE  worker.task \in Task
<1>1. worker \in {Idle, Gone} \cup [pc : {"delete"}, task : Task] BY Zenon DEF TypeOK
<1>2. worker # Idle /\ worker # Gone BY DEF Idle, Gone
<1>3. worker \in [pc : {"delete"}, task : Task] BY <1>1, <1>2, Zenon
<1> QED BY <1>3, Zenon

LEMMA AtFields ==
    ASSUME NEW pc, NEW t
    PROVE  At(pc, t).pc = pc /\ At(pc, t).task = t
BY Zenon DEF At

LEMMA AtType ==
    ASSUME NEW t \in Task,
           NEW pc \in {"cursors", "enqueue", "admit", "nowCursors", "wait", "abandon", "delete"}
    PROVE  At(pc, t) \in CallRecord
BY Zenon DEF At, CallRecord

LEMMA NewTaskFields ==
    ASSUME NEW r \in KeyRange
    PROVE  /\ NewTask(r) \in Task /\ NewTask(r).range = r
           /\ NewTask(r).cursorsToWait = {} /\ NewTask(r).openBefore = openCursors
<1>1. openCursors \subseteq Cursor BY Zenon DEF openCursors
<1>2. {} \in SUBSET Cursor /\ openCursors \in SUBSET Cursor BY <1>1, Zenon
<1> HIDE DEF openCursors
<1> QED BY <1>2, Zenon DEF NewTask, Task

LEMMA WaitFields ==
    ASSUME NEW t \in Task, NEW S \in SUBSET Cursor, NEW u, u = [t EXCEPT !.cursorsToWait = S]
    PROVE  /\ u \in Task /\ u.range = t.range
           /\ u.cursorsToWait = S /\ u.openBefore = t.openBefore
BY Zenon DEF Task

LEMMA StepFacts ==
    ASSUME TypeOK, NEW c \in Caller, NEW at, Step(c, at)
    PROVE  /\ call'[c] = at
           /\ \A d \in Caller : d # c => call'[d] = call[d]
           /\ at \in {Idle} \cup CallRecord => call' \in [Caller -> {Idle} \cup CallRecord]
<1>1. call \in [Caller -> {Idle} \cup CallRecord] BY Zenon DEF TypeOK, CallRecord
<1>2. call' = [call EXCEPT ![c] = at] BY Zenon DEF Step
<1> QED BY <1>1, <1>2, Zenon

\* A caller takes a range in hand, goes on with it, or lets go of it.
LEMMA CallerEnters ==
    ASSUME TypeOK, NEW c \in Caller, NEW at, Step(c, at), c \notin Held,
           at.pc \notin {"idle", "admit"}
    PROVE  /\ Held' = Held \cup {c} /\ HeldRanges' = HeldRanges \cup {at.task.range}
           /\ \A d \in Held : call'[d] = call[d]
           /\ call'[c] = at
           /\ at.pc \in {"nowCursors", "wait", "abandon", "delete"} =>
                 Working' = Working \cup {c} /\ ReservedRanges' = ReservedRanges
           /\ at.pc \notin {"nowCursors", "wait", "abandon", "delete"} =>
                 Working' = Working /\ ReservedRanges' = ReservedRanges \cup {at.task.range}
<1>0. call'[c] = at /\ \A d \in Caller : d # c => call'[d] = call[d] BY StepFacts, Zenon
<1>1. Held \subseteq Caller /\ Working \subseteq Held BY Zenon DEF Held, Working
<1>2. Held' = Held \cup {c} BY <1>0, Zenon DEF Held
<1>3. \A d \in Held : call'[d] = call[d] BY <1>0, <1>1, Zenon
<1>4. HeldRanges' = HeldRanges \cup {at.task.range} BY <1>0, <1>2, <1>3, Zenon DEF HeldRanges
<1>5. c \notin Working BY <1>1, Zenon
<1>6. CASE at.pc \in {"nowCursors", "wait", "abandon", "delete"}
  <2>1. Working' = Working \cup {c} BY <1>0, <1>6, Zenon DEF Working
  <2>2. (Held \ Working)' = Held \ Working BY <1>2, <1>5, <2>1, Zenon
  <2>3. ReservedRanges' = ReservedRanges BY <1>3, <2>2, Zenon DEF ReservedRanges
  <2> QED BY <1>0, <1>2, <1>3, <1>4, <1>6, <2>1, <2>3, Zenon
<1>7. CASE at.pc \notin {"nowCursors", "wait", "abandon", "delete"}
  <2>1. Working' = Working BY <1>0, <1>5, <1>7, Zenon DEF Working
  <2>2. (Held \ Working)' = (Held \ Working) \cup {c} BY <1>2, <1>5, <2>1, Zenon
  <2>3. ReservedRanges' = ReservedRanges \cup {at.task.range}
    BY <1>0, <1>3, <2>2, Zenon DEF ReservedRanges
  <2> QED BY <1>0, <1>2, <1>3, <1>4, <1>7, <2>1, <2>3, Zenon
<1> QED BY <1>6, <1>7, Zenon

LEMMA CallerGoesOn ==
    ASSUME TypeOK, NEW c \in Held, NEW at, Step(c, at), at.pc \notin {"idle", "admit"},
           at.task.range = call[c].task.range,
           c \in Working <=> at.pc \in {"nowCursors", "wait", "abandon", "delete"}
    PROVE  /\ Held' = Held /\ HeldRanges' = HeldRanges /\ Working' = Working
           /\ ReservedRanges' = ReservedRanges
           /\ \A d \in Held : call'[d].task.range = call[d].task.range
<1>0. c \in Caller BY Zenon DEF Held
<1>1. call'[c] = at /\ \A d \in Caller : d # c => call'[d] = call[d] BY <1>0, StepFacts, Zenon
<1>2. Held' = Held BY <1>1, Zenon DEF Held
<1>3. Working' = Working BY <1>1, Zenon DEF Working
<1>4. \A d \in Held : call'[d].task.range = call[d].task.range BY <1>1, Zenon DEF Held
<1>5. HeldRanges' = HeldRanges BY <1>2, <1>4, Zenon DEF HeldRanges
<1>6. ReservedRanges' = ReservedRanges BY <1>2, <1>3, <1>4, Zenon DEF ReservedRanges
<1> QED BY <1>2, <1>3, <1>4, <1>5, <1>6, Zenon

LEMMA CallerLeaves ==
    ASSUME TypeOK, OnePlace, NEW c \in Held, Step(c, Idle)
    PROVE  /\ Held' = Held \ {c} /\ Working' = Working \ {c}
           /\ HeldRanges' = HeldRanges \ {call[c].task.range}
           /\ c \in Working => ReservedRanges' = ReservedRanges
           /\ c \notin Working => ReservedRanges' = ReservedRanges \ {call[c].task.range}
           /\ \A d \in Held' : call'[d] = call[d]
<1>0. c \in Caller BY Zenon DEF Held
<1>1. call'[c] = Idle /\ \A d \in Caller : d # c => call'[d] = call[d] BY <1>0, StepFacts, Zenon
<1>2. Held' = Held \ {c} /\ Working' = Working \ {c} BY <1>1 DEF Held, Working, Idle
<1>3. \A d \in Held' : d # c /\ d \in Held /\ call'[d] = call[d] BY <1>1, <1>2, Zenon DEF Held
<1>4. \A d \in Held : call[d].task.range = call[c].task.range => d = c BY Zenon DEF OnePlace
<1>5. HeldRanges' = HeldRanges \ {call[c].task.range} BY <1>2, <1>3, <1>4 DEF HeldRanges
<1>6. Working \subseteq Held BY Zenon DEF Held, Working
<1>7. ASSUME c \in Working PROVE ReservedRanges' = ReservedRanges
  <2>1. (Held \ Working)' = Held \ Working BY <1>2, <1>7, Zenon
  <2> QED BY <1>3, <2>1, Zenon DEF ReservedRanges
<1>8. ASSUME c \notin Working PROVE ReservedRanges' = ReservedRanges \ {call[c].task.range}
  <2>1. (Held \ Working)' = (Held \ Working) \ {c} BY <1>2, <1>8, Zenon
  <2> QED BY <1>3, <1>4, <2>1, Zenon DEF ReservedRanges
<1> QED BY <1>2, <1>3, <1>5, <1>7, <1>8, Zenon

-----------------------------------------------------------------------------
(* The queues.                                                             *)

LEMMA Appended ==
    ASSUME NEW q \in Seq(Task), NEW t \in Task, Distinct(q), t.range \notin RangesOf(q)
    PROVE  /\ Append(q, t) \in Seq(Task) /\ Distinct(Append(q, t))
           /\ RangesOf(Append(q, t)) = RangesOf(q) \cup {t.range}
           /\ \A i \in 1..Len(Append(q, t)) :
                 Append(q, t)[i] = t \/ \E j \in 1..Len(q) : Append(q, t)[i] = q[j]
<1> DEFINE p == Append(q, t)
<1>1. /\ p \in Seq(Task) /\ Len(q) \in Nat /\ Len(p) = Len(q) + 1
      /\ \A i \in 1..Len(q) : p[i] = q[i]
      /\ p[Len(q) + 1] = t
  OBVIOUS
<1>2. 1..Len(p) = 1..Len(q) \cup {Len(q) + 1} BY <1>1
<1> HIDE DEF p
<1>3. RangesOf(p) = RangesOf(q) \cup {t.range} BY <1>1, <1>2 DEF RangesOf
<1>4. Distinct(p)
  <2> SUFFICES ASSUME NEW i \in 1..Len(p), NEW j \in 1..Len(p), p[i].range = p[j].range
               PROVE  i = j
    BY Zenon DEF Distinct
  <2>1. \A k \in 1..Len(q) : p[k].range \in RangesOf(q) BY <1>1, Zenon DEF RangesOf
  <2> QED BY <1>1, <1>2, <2>1, Zenon DEF Distinct
<1>5. \A i \in 1..Len(p) : p[i] = t \/ \E j \in 1..Len(q) : p[i] = q[j]
  BY <1>1, <1>2, Zenon
<1> QED BY <1>1, <1>3, <1>4, <1>5, Zenon DEF p

LEMMA Popped ==
    ASSUME NEW q \in Seq(Task), Distinct(q), q # <<>>
    PROVE  /\ Head(q) \in Task /\ Head(q) = q[1] /\ 1 \in 1..Len(q)
           /\ Head(q).range \in RangesOf(q)
           /\ Tail(q) \in Seq(Task) /\ Distinct(Tail(q))
           /\ RangesOf(Tail(q)) = RangesOf(q) \ {Head(q).range}
           /\ \A i \in 1..Len(Tail(q)) : i + 1 \in 1..Len(q) /\ Tail(q)[i] = q[i + 1]
<1> DEFINE p == Tail(q)
<1>1. /\ p \in Seq(Task) /\ Len(q) \in Nat /\ Len(q) >= 1 /\ Len(p) = Len(q) - 1
      /\ \A i \in 1..Len(p) : p[i] = q[i + 1]
      /\ Head(q) = q[1] /\ q[1] \in Task
  OBVIOUS
<1>2. 1 \in 1..Len(q) BY <1>1
<1>3. \A i \in 1..Len(p) : i + 1 \in 1..Len(q) /\ i + 1 # 1 BY <1>1
<1> HIDE DEF p
<1>4. Distinct(p)
  <2> SUFFICES ASSUME NEW i \in 1..Len(p), NEW j \in 1..Len(p), p[i].range = p[j].range
               PROVE  i = j
    BY Zenon DEF Distinct
  <2>1. i + 1 = j + 1 BY <1>1, <1>3 DEF Distinct
  <2> QED BY <1>1, <2>1
<1>5. RangesOf(p) = RangesOf(q) \ {q[1].range}
  <2>1. ASSUME NEW r \in RangesOf(p) PROVE r \in RangesOf(q) \ {q[1].range}
    <3> PICK i \in 1..Len(p) : r = p[i].range BY <2>1, Zenon DEF RangesOf
    <3>1. r = q[i + 1].range /\ i + 1 \in 1..Len(q) /\ i + 1 # 1 BY <1>1, <1>3, Zenon
    <3> QED BY <1>2, <3>1, Zenon DEF RangesOf, Distinct
  <2>2. ASSUME NEW r \in RangesOf(q), r # q[1].range PROVE r \in RangesOf(p)
    <3> PICK i \in 1..Len(q) : r = q[i].range BY <2>2, Zenon DEF RangesOf
    <3>1. i # 1 BY <2>2, Zenon
    <3>2. i - 1 \in 1..Len(p) /\ (i - 1) + 1 = i BY <1>1, <3>1
    <3>3. p[i - 1] = q[i] BY <1>1, <3>2, Zenon
    <3> QED BY <3>2, <3>3, Zenon DEF RangesOf
  <2> QED BY <2>1, <2>2, Zenon
<1>6. q[1].range \in RangesOf(q) BY <1>2, Zenon DEF RangesOf
<1> QED BY <1>1, <1>2, <1>3, <1>4, <1>5, <1>6, Zenon DEF p

\* f lists I without repetition.
Lists(f, I) ==
    /\ Cardinality(I) \in Nat /\ DOMAIN f = 1..Cardinality(I)
    /\ \A k \in DOMAIN f : f[k] \in I
    /\ \A j, k \in DOMAIN f : f[j] = f[k] => j = k
    /\ \A i \in I : \E k \in DOMAIN f : f[k] = i

\* Listing the positions I of a queue in order takes each of them once.
LEMMA Listed ==
    ASSUME NEW I, IsFiniteSet(I), I \subseteq Nat, NEW f \in InOrder(I)
    PROVE  Lists(f, I)
<1>2. Cardinality(I) \in Nat BY FS_CardinalityType, Zenon
<1> DEFINE D == 1..Cardinality(I)
<1>3. /\ f \in [D -> I]
      /\ \A j, k \in D : j < k => f[j] < f[k]
  BY Zenon DEF InOrder
<1>4. \A j, k \in D : f[j] = f[k] => j = k
  <2> SUFFICES ASSUME NEW j \in D, NEW k \in D, j # k PROVE f[j] # f[k] BY Zenon
  <2>1. f[j] \in I /\ f[k] \in I BY <1>3, Zenon
  <2>2. f[j] \in Nat /\ f[k] \in Nat BY <2>1, Zenon
  <2>3. j < k \/ k < j BY <1>2
  <2>4. f[j] < f[k] \/ f[k] < f[j] BY <1>3, <2>3, Zenon
  <2> QED BY <2>2, <2>4
<1>5. f \in Injection(D, I) BY <1>3, <1>4, Zenon DEF Injection, IsInjective
<1>6. Cardinality(D) = Cardinality(I) BY <1>2, FS_Interval
<1>7. f \in Surjection(D, I) BY <1>5, <1>6, FS_Injection, Zenon
<1>8. \A i \in I : \E k \in D : f[k] = i BY <1>7, Zenon DEF Surjection
<1> QED BY <1>2, <1>3, <1>4, <1>8, Zenon DEF Lists

\* The tasks at the positions I of a queue, in order, with their cursors
\* narrowed, are a queue again and hold the ranges of these tasks.
LEMMA Selected ==
    ASSUME NEW q \in Seq(Task), Distinct(q), NEW I \in SUBSET (1..Len(q)),
           NEW f \in InOrder(I), NEW left,
           \A i \in 1..Len(q) : left[i] \in Task /\ left[i].range = q[i].range,
           NEW p \in [DOMAIN f -> Task], \A k \in DOMAIN f : p[k] = left[f[k]]
    PROVE  /\ p \in Seq(Task) /\ Distinct(p)
           /\ RangesOf(p) = {q[i].range : i \in I}
           /\ \A k \in 1..Len(p) : \E i \in I : p[k] = left[i]
<1>0. IsFiniteSet(I) /\ I \subseteq Nat
  <2>1. IsFiniteSet(1..Len(q)) BY FS_Interval
  <2>2. I \subseteq Nat OBVIOUS
  <2>3. IsFiniteSet(I) BY <2>1, FS_Subset, Zenon
  <2> QED BY <2>2, <2>3, Zenon
<1>1. Lists(f, I) BY <1>0, Listed, Zenon
<1> DEFINE D == 1..Cardinality(I)
<1>2. /\ Cardinality(I) \in Nat /\ DOMAIN f = D
      /\ \A k \in D : f[k] \in I
      /\ \A j, k \in D : f[j] = f[k] => j = k
      /\ \A i \in I : \E k \in D : f[k] = i
  BY <1>1, Zenon DEF Lists
<1>3. \A k \in D : f[k] \in 1..Len(q) /\ left[f[k]] \in Task BY <1>2, Zenon
<1>4. p \in Seq(Task) /\ Len(p) = Cardinality(I) /\ \A k \in D : p[k] = left[f[k]]
  <2>1. p = [k \in 1..Cardinality(I) |-> p[k]] /\ \A k \in 1..Cardinality(I) : p[k] \in Task
    BY <1>2
  <2> QED BY <1>2, <2>1
<1>5. 1..Len(p) = D BY <1>4, Zenon
<1>6. \A k \in D : p[k].range = q[f[k]].range BY <1>3, <1>4, Zenon
<1>7. Distinct(p) BY <1>2, <1>3, <1>5, <1>6 DEF Distinct
<1>8. RangesOf(p) = {q[i].range : i \in I}
  <2> DEFINE R == {q[i].range : i \in I}
  <2> HIDE DEF D
  <2>1. ASSUME NEW r \in RangesOf(p) PROVE r \in R
    <3> PICK k \in D : r = p[k].range BY <1>5, <2>1, Zenon DEF RangesOf
    <3>1. r = q[f[k]].range /\ f[k] \in I BY <1>2, <1>6, Zenon
    <3> QED BY <3>1, Zenon
  <2>2. ASSUME NEW i \in I PROVE q[i].range \in RangesOf(p)
    <3> PICK k \in D : f[k] = i BY <1>2, Zenon
    <3>1. q[i].range = p[k].range BY <1>6, Zenon
    <3> QED BY <1>5, <3>1, Zenon DEF RangesOf
  <2> QED BY <2>1, <2>2, Zenon
<1>9. \A k \in 1..Len(p) : \E i \in I : p[k] = left[i] BY <1>2, <1>4, <1>5, Zenon
<1> QED BY <1>4, <1>7, <1>8, <1>9, Zenon

-----------------------------------------------------------------------------
(* One place for each delete, and the counters.                            *)

Places == Reserved /\ OnePlace /\ Counted

LEMMA FinitePlaces ==
    ASSUME TypeOK, Reserved
    PROVE  /\ IsFiniteSet(deleteSet) /\ Cardinality(deleteSet) \in Nat
           /\ IsFiniteSet(PendingRanges) /\ Cardinality(PendingRanges) \in Nat
           /\ IsFiniteSet(Working) /\ Cardinality(Working) \in Nat
           /\ PendingRanges \subseteq deleteSet /\ ReservedRanges \subseteq HeldRanges
<1>1. ReservedRanges \subseteq HeldRanges BY Zenon DEF ReservedRanges, HeldRanges
<1>2. PendingRanges \subseteq deleteSet BY <1>1, Zenon DEF Reserved, PendingRanges
<1>3. deleteSet \subseteq KeyRange BY Zenon DEF TypeOK
<1>4. Working \subseteq Caller BY Zenon DEF Working
<1>5. IsFiniteSet(deleteSet) BY <1>3, FiniteAssumption, FS_Subset, Zenon
<1>6. IsFiniteSet(PendingRanges) BY <1>2, <1>5, FS_Subset, Zenon
<1>7. IsFiniteSet(Working) BY <1>4, FiniteAssumption, FS_Subset, Zenon
<1> QED BY <1>1, <1>2, <1>5, <1>6, <1>7, FS_CardinalityType, Zenon

\* The counters follow the sets: t more deletes, p more of them pending.
LEMMA CountedNext ==
    ASSUME TypeOK, Reserved, Counted, NEW t \in Int, NEW p \in Int,
           totalDeletes' = totalDeletes + t, pendingDeletes' = pendingDeletes + p,
           inProgressDeletes' = inProgressDeletes + (t - p),
           Cardinality(deleteSet') = Cardinality(deleteSet) + t,
           Cardinality(PendingRanges') = Cardinality(PendingRanges) + p,
           Cardinality(Working') + Busy' = Cardinality(Working) + Busy + (t - p)
    PROVE  Counted'
<1>1. totalDeletes \in Int /\ pendingDeletes \in Int /\ inProgressDeletes \in Int
  BY DEF TypeOK
<1>2. Cardinality(Working) \in Int /\ Busy \in Int BY FinitePlaces DEF Busy
<1>3. totalDeletes' = Cardinality(deleteSet') BY Zenon DEF Counted
<1>4. pendingDeletes' = Cardinality(PendingRanges') BY Zenon DEF Counted
<1>5. inProgressDeletes' = Cardinality(Working') + Busy' BY Zenon DEF Counted
<1>6. totalDeletes' = pendingDeletes' + inProgressDeletes' BY <1>1 DEF Counted
<1> QED BY <1>3, <1>4, <1>5, <1>6, Zenon DEF Counted

LEMMA QueueDeletePlaces ==
    ASSUME TypeOK, Places, NEW c \in Caller, queueDelete(c)
    PROVE  Places'
<1>1. PICK r \in KeyRange : canEnqueue(r) /\ deleteSet' = deleteSet \cup {r}
                            /\ Step(c, At("cursors", NewTask(r)))
  BY Zenon DEF queueDelete
<1>2. /\ UNCHANGED <<taskQueue, notReadyQueue, inProgressDeletes, worker>>
      /\ totalDeletes' = totalDeletes + 1 /\ pendingDeletes' = pendingDeletes + 1
  BY Zenon DEF queueDelete, queues
<1>3. c \notin Held BY Zenon DEF queueDelete, Held
<1>4. /\ At("cursors", NewTask(r)).pc = "cursors"
      /\ At("cursors", NewTask(r)).task.range = r
  BY AtFields, NewTaskFields
<1>5. /\ Held' = Held \cup {c} /\ HeldRanges' = HeldRanges \cup {r}
      /\ \A d \in Held : call'[d] = call[d]
      /\ call'[c].task.range = r
      /\ Working' = Working /\ ReservedRanges' = ReservedRanges \cup {r}
  <2> HIDE DEF Held, Working
  <2> QED BY <1>1, <1>3, <1>4, CallerEnters
<1>6. r \notin deleteSet BY <1>1, Zenon DEF canEnqueue
<1>7. /\ QueuedRanges' = QueuedRanges /\ NotReadyRanges' = NotReadyRanges
      /\ WorkerRanges' = WorkerRanges
  BY <1>2, Zenon DEF QueuedRanges, NotReadyRanges, WorkerRanges
<1>8. Reserved' BY <1>1, <1>5, <1>7, Zenon DEF Places, Reserved
<1>9. r \notin QueuedRanges \cup NotReadyRanges \cup HeldRanges \cup WorkerRanges
  BY <1>6, Zenon DEF Places, Reserved
<1>10. OnePlace'
  <2>1. \A a, b \in Held' : call'[a].task.range = call'[b].task.range => a = b
    BY <1>5, <1>9 DEF Places, OnePlace, HeldRanges
  <2> QED BY <1>2, <1>5, <1>7, <1>9, <2>1 DEF Places, OnePlace
<1>11. PendingRanges' = PendingRanges \cup {r} /\ r \notin PendingRanges
  BY <1>5, <1>6, <1>7, FinitePlaces, Zenon DEF PendingRanges, Places
<1>12. Cardinality(deleteSet') = Cardinality(deleteSet) + 1
  BY <1>1, <1>6, FinitePlaces, FS_AddElement, Zenon DEF Places
<1>13. Cardinality(PendingRanges') = Cardinality(PendingRanges) + 1
  BY <1>11, FinitePlaces, FS_AddElement, Zenon DEF Places
<1>14. Counted'
  <2>1. Cardinality(Working') + Busy' = Cardinality(Working) + Busy + (1 - 1)
    BY <1>2, <1>5, FinitePlaces DEF Places, Busy
  <2>2. inProgressDeletes' = inProgressDeletes + (1 - 1) BY <1>2 DEF TypeOK
  <2> QED BY <1>2, <1>12, <1>13, <2>1, <2>2, CountedNext DEF Places
<1> QED BY <1>8, <1>10, <1>14, Zenon DEF Places

\* A caller that goes on with the range it has.
LEMMA GoesOnPlaces ==
    ASSUME TypeOK, Places, NEW c \in Held, NEW at, Step(c, at), at.pc \notin {"idle", "admit"},
           at.task.range = call[c].task.range,
           c \in Working <=> at.pc \in {"nowCursors", "wait", "abandon", "delete"},
           UNCHANGED <<queues, deleteSet, stats, worker>>
    PROVE  Places'
<1>1. /\ Held' = Held /\ HeldRanges' = HeldRanges /\ Working' = Working
      /\ ReservedRanges' = ReservedRanges
      /\ \A d \in Held : call'[d].task.range = call[d].task.range
  BY CallerGoesOn, Zenon
<1>2. /\ QueuedRanges' = QueuedRanges /\ NotReadyRanges' = NotReadyRanges
      /\ WorkerRanges' = WorkerRanges
  BY Zenon DEF QueuedRanges, NotReadyRanges, WorkerRanges, queues
<1>3. Reserved' BY <1>1, <1>2, Zenon DEF Places, Reserved
<1>4. OnePlace' BY <1>1, <1>2 DEF Places, OnePlace, queues
<1>5. PendingRanges' = PendingRanges BY <1>1, <1>2, Zenon DEF PendingRanges
<1>6. Counted' BY <1>1, <1>5, Zenon DEF Places, Counted, Busy, stats
<1> QED BY <1>3, <1>4, <1>6, Zenon DEF Places

LEMMA EnqueuePlaces ==
    ASSUME TypeOK, Places, NEW c \in Caller, Enqueue(c)
    PROVE  Places'
<1> DEFINE t == call[c].task
<1>1. call[c].pc = "enqueue" /\ Step(c, Idle) /\ UNCHANGED <<deleteSet, stats, worker>>
  BY Zenon DEF Enqueue
<1>2. c \in Held /\ c \notin Working BY <1>1, Zenon DEF Held, Working
<1>3. t \in Task BY <1>1, CallTask, Zenon
<1>4. /\ Held' = Held \ {c} /\ Working' = Working \ {c}
      /\ HeldRanges' = HeldRanges \ {t.range}
      /\ ReservedRanges' = ReservedRanges \ {t.range}
      /\ \A d \in Held' : call'[d] = call[d]
  BY <1>1, <1>2, CallerLeaves, Zenon DEF Places
<1>5. t.range \in HeldRanges /\ t.range \in ReservedRanges
  BY <1>2, Zenon DEF HeldRanges, ReservedRanges
<1>6. taskQueue \in Seq(Task) /\ notReadyQueue \in Seq(Task) BY Zenon DEF TypeOK
<1>7. /\ t.range \notin QueuedRanges /\ t.range \notin NotReadyRanges
      /\ t.range \notin WorkerRanges
  BY <1>5, Zenon DEF Places, OnePlace
<1>8. /\ Distinct(taskQueue') /\ Distinct(notReadyQueue')
      /\ \/ QueuedRanges' = QueuedRanges \cup {t.range} /\ NotReadyRanges' = NotReadyRanges
         \/ NotReadyRanges' = NotReadyRanges \cup {t.range} /\ QueuedRanges' = QueuedRanges
  <2>1. CASE t.cursorsToWait = {}
    <3>1. taskQueue' = Append(taskQueue, t) /\ notReadyQueue' = notReadyQueue
      BY <2>1, Zenon DEF Enqueue
    <3>2. Distinct(taskQueue) /\ Distinct(notReadyQueue) BY Zenon DEF Places, OnePlace
    <3> QED BY <1>3, <1>6, <1>7, <3>1, <3>2, Appended, Zenon DEF QueuedRanges, NotReadyRanges
  <2>2. CASE t.cursorsToWait # {}
    <3>1. notReadyQueue' = Append(notReadyQueue, t) /\ taskQueue' = taskQueue
      BY <2>2, Zenon DEF Enqueue
    <3>2. Distinct(taskQueue) /\ Distinct(notReadyQueue) BY DEF Places, OnePlace
    <3> QED BY <1>3, <1>6, <1>7, <3>1, <3>2, Appended, Zenon DEF QueuedRanges, NotReadyRanges
  <2> QED BY <2>1, <2>2, Zenon
<1>9. WorkerRanges' = WorkerRanges BY <1>1, Zenon DEF WorkerRanges
<1>10. Reserved' BY <1>1, <1>4, <1>5, <1>8, <1>9, Zenon DEF Places, Reserved
<1>11. OnePlace'
  <2>1. \A a, b \in Held' : call'[a].task.range = call'[b].task.range => a = b
    BY <1>4 DEF Places, OnePlace
  <2> QED BY <1>4, <1>7, <1>8, <1>9, <2>1 DEF Places, OnePlace
<1>12. PendingRanges' = PendingRanges BY <1>4, <1>5, <1>8, Zenon DEF PendingRanges
<1>13. Working' = Working BY <1>2, <1>4, Zenon
<1>14. Counted' BY <1>1, <1>12, <1>13, Zenon DEF Places, Counted, Busy, stats
<1> QED BY <1>10, <1>11, <1>14, Zenon DEF Places

LEMMA AdmitPlaces ==
    ASSUME TypeOK, Places, NEW c \in Caller, Admit(c)
    PROVE  Places'
<1> DEFINE r == call[c].task.range
<1>1. /\ call[c].pc = "admit" /\ UNCHANGED <<taskQueue, notReadyQueue, pendingDeletes, worker>>
  BY Zenon DEF Admit, queues
<1>2. c \notin Held /\ c \notin Working BY <1>1, Zenon DEF Held, Working
<1>3. call[c].task \in Task BY <1>1, CallTask, Zenon
<1>4. r \in KeyRange BY <1>3, Zenon DEF Task
<1>5. /\ QueuedRanges' = QueuedRanges /\ NotReadyRanges' = NotReadyRanges
      /\ WorkerRanges' = WorkerRanges
  BY <1>1, Zenon DEF QueuedRanges, NotReadyRanges, WorkerRanges
<1>6. CASE canEnqueue(r)
  <2>1. /\ deleteSet' = deleteSet \cup {r}
        /\ totalDeletes' = totalDeletes + 1 /\ inProgressDeletes' = inProgressDeletes + 1
        /\ Step(c, At("nowCursors", NewTask(r)))
    BY <1>6, Zenon DEF Admit
  <2>2. /\ At("nowCursors", NewTask(r)).pc = "nowCursors"
        /\ At("nowCursors", NewTask(r)).task.range = r
    BY <1>4, AtFields, NewTaskFields
  <2>3. /\ Held' = Held \cup {c} /\ HeldRanges' = HeldRanges \cup {r}
        /\ \A d \in Held : call'[d] = call[d]
        /\ call'[c].task.range = r
        /\ Working' = Working \cup {c} /\ ReservedRanges' = ReservedRanges
    BY <1>2, <2>1, <2>2, CallerEnters
  <2>4. r \notin deleteSet BY <1>6, Zenon DEF canEnqueue
  <2>5. Reserved' BY <1>5, <2>1, <2>3, Zenon DEF Places, Reserved
  <2>6. r \notin QueuedRanges \cup NotReadyRanges \cup HeldRanges \cup WorkerRanges
    BY <2>4, Zenon DEF Places, Reserved
  <2>7. OnePlace'
    <3>1. \A a, b \in Held' : call'[a].task.range = call'[b].task.range => a = b
      BY <2>3, <2>6 DEF Places, OnePlace, HeldRanges
    <3> QED BY <1>1, <1>5, <2>3, <2>6, <3>1 DEF Places, OnePlace
  <2>8. PendingRanges' = PendingRanges BY <1>5, <2>3, Zenon DEF PendingRanges
  <2>9. Cardinality(deleteSet') = Cardinality(deleteSet) + 1
    BY <2>1, <2>4, FinitePlaces, FS_AddElement, Zenon DEF Places
  <2>10. Cardinality(Working') = Cardinality(Working) + 1
    BY <1>2, <2>3, FinitePlaces, FS_AddElement, Zenon DEF Places
  <2>11. Counted'
    <3>1. Cardinality(Working') + Busy' = Cardinality(Working) + Busy + (1 - 0)
      BY <1>1, <2>10, FinitePlaces DEF Places, Busy
    <3>2. /\ inProgressDeletes' = inProgressDeletes + (1 - 0)
          /\ totalDeletes' = totalDeletes + 1 /\ pendingDeletes' = pendingDeletes + 0
      BY <1>1, <2>1 DEF TypeOK
    <3>3. /\ Cardinality(deleteSet') = Cardinality(deleteSet) + 1
          /\ Cardinality(PendingRanges') = Cardinality(PendingRanges) + 0
      BY <2>8, <2>9, FinitePlaces DEF Places
    <3> QED BY <3>1, <3>2, <3>3, CountedNext DEF Places
  <2> QED BY <2>5, <2>7, <2>11 DEF Places
<1>7. CASE ~canEnqueue(r)
  <2>1. Step(c, Idle) /\ UNCHANGED <<deleteSet, totalDeletes, inProgressDeletes>>
    BY <1>7, Zenon DEF Admit
  <2>2. call'[c] = Idle /\ \A d \in Caller : d # c => call'[d] = call[d]
    BY <2>1, StepFacts, Zenon
  <2>3. Held' = Held /\ Working' = Working
    BY <1>1, <2>2 DEF Held, Working, Idle
  <2>4. \A d \in Held : call'[d] = call[d] BY <1>2, <2>2, Zenon DEF Held
  <2>5. HeldRanges' = HeldRanges /\ ReservedRanges' = ReservedRanges
    BY <2>3, <2>4, Zenon DEF HeldRanges, ReservedRanges
  <2>6. Reserved' BY <1>5, <2>1, <2>5, Zenon DEF Places, Reserved
  <2>7. OnePlace' BY <1>1, <1>5, <2>3, <2>4, <2>5 DEF Places, OnePlace
  <2>8. PendingRanges' = PendingRanges BY <1>5, <2>5, Zenon DEF PendingRanges
  <2>9. Counted' BY <1>1, <2>1, <2>3, <2>8, Zenon DEF Places, Counted, Busy
  <2> QED BY <2>6, <2>7, <2>9 DEF Places
<1> QED BY <1>6, <1>7, Zenon

LEMMA FinishPlaces ==
    ASSUME TypeOK, Places, NEW c \in Caller, Finish(c)
    PROVE  Places'
<1> DEFINE r == call[c].task.range
<1>1. /\ call[c].pc \in {"delete", "abandon"}
      /\ deleteSet' = deleteSet \ {r}
      /\ inProgressDeletes' = inProgressDeletes - 1 /\ totalDeletes' = totalDeletes - 1
      /\ Step(c, Idle)
      /\ UNCHANGED <<taskQueue, notReadyQueue, pendingDeletes, worker>>
  BY Zenon DEF Finish, queues
<1>2. c \in Held /\ c \in Working BY <1>1, Zenon DEF Held, Working
<1>3. /\ Held' = Held \ {c} /\ Working' = Working \ {c}
      /\ HeldRanges' = HeldRanges \ {r} /\ ReservedRanges' = ReservedRanges
      /\ \A d \in Held' : call'[d] = call[d]
  BY <1>1, <1>2, CallerLeaves, Zenon DEF Places
<1>4. /\ QueuedRanges' = QueuedRanges /\ NotReadyRanges' = NotReadyRanges
      /\ WorkerRanges' = WorkerRanges
  BY <1>1, Zenon DEF QueuedRanges, NotReadyRanges, WorkerRanges
<1>5. r \in HeldRanges /\ r \in deleteSet BY <1>2, Zenon DEF HeldRanges, Places, Reserved
<1>6. r \notin QueuedRanges \cup NotReadyRanges \cup WorkerRanges
  BY <1>5, Zenon DEF Places, OnePlace
<1>7. Reserved' BY <1>1, <1>3, <1>4, <1>6, Zenon DEF Places, Reserved
<1>8. OnePlace'
  <2>1. \A a, b \in Held' : call'[a].task.range = call'[b].task.range => a = b
    BY <1>3 DEF Places, OnePlace
  <2> QED BY <1>1, <1>3, <1>4, <2>1, Zenon DEF Places, OnePlace
<1>9. PendingRanges' = PendingRanges BY <1>3, <1>4, Zenon DEF PendingRanges
<1>10. Cardinality(deleteSet') = Cardinality(deleteSet) - 1
  BY <1>1, <1>5, FinitePlaces, FS_RemoveElement, ZenonT(60) DEF Places
<1>11. Cardinality(Working') = Cardinality(Working) - 1
  BY <1>2, <1>3, FinitePlaces, FS_RemoveElement, Zenon DEF Places
<1>12. Counted'
  <2>1. Cardinality(Working') + Busy' = Cardinality(Working) + Busy + ((-1) - 0)
    BY <1>1, <1>11, FinitePlaces DEF Places, Busy
  <2>2. /\ inProgressDeletes' = inProgressDeletes + ((-1) - 0)
        /\ totalDeletes' = totalDeletes + (-1) /\ pendingDeletes' = pendingDeletes + 0
    BY <1>1 DEF TypeOK
  <2>3. /\ Cardinality(deleteSet') = Cardinality(deleteSet) + (-1)
        /\ Cardinality(PendingRanges') = Cardinality(PendingRanges) + 0
    BY <1>9, <1>10, FinitePlaces DEF Places
  <2> QED BY <2>1, <2>2, <2>3, CountedNext DEF Places
<1> QED BY <1>7, <1>8, <1>12 DEF Places

LEMMA TakeTaskPlaces ==
    ASSUME TypeOK, Places, TakeTask
    PROVE  Places'
<1> DEFINE t == Head(taskQueue)
<1>1. /\ worker = Idle /\ taskQueue # <<>>
      /\ taskQueue' = Tail(taskQueue) /\ worker' = At("delete", t)
      /\ pendingDeletes' = pendingDeletes - 1 /\ inProgressDeletes' = inProgressDeletes + 1
      /\ UNCHANGED <<notReadyQueue, deleteSet, totalDeletes, call>>
  BY Zenon DEF TakeTask
<1>2. taskQueue \in Seq(Task) /\ Distinct(taskQueue) BY Zenon DEF TypeOK, Places, OnePlace
<1>3. /\ t.range \in QueuedRanges /\ Distinct(taskQueue')
      /\ QueuedRanges' = QueuedRanges \ {t.range}
  BY <1>1, <1>2, Popped, Zenon DEF QueuedRanges
<1>4. /\ worker.pc # "delete" /\ worker'.pc = "delete"
      /\ WorkerRanges = {} /\ WorkerRanges' = {t.range}
  <2>1. worker.pc = "idle" BY <1>1, Zenon DEF Idle
  <2>2. worker'.pc = "delete" /\ worker'.task = t BY <1>1, AtFields, Zenon
  <2> QED BY <2>1, <2>2, Zenon DEF WorkerRanges
<1>5. /\ Held' = Held /\ Working' = Working /\ HeldRanges' = HeldRanges
      /\ ReservedRanges' = ReservedRanges /\ NotReadyRanges' = NotReadyRanges
  BY <1>1, Zenon DEF Held, Working, HeldRanges, ReservedRanges, NotReadyRanges
<1>6. t.range \notin NotReadyRanges \cup HeldRanges BY <1>3, Zenon DEF Places, OnePlace
<1>7. Reserved' BY <1>1, <1>3, <1>4, <1>5, Zenon DEF Places, Reserved
<1>8. OnePlace' BY <1>1, <1>3, <1>4, <1>5, <1>6 DEF Places, OnePlace
<1>9. PendingRanges' = PendingRanges \ {t.range} /\ t.range \in PendingRanges
  <2>1. t.range \notin ReservedRanges BY <1>6, FinitePlaces, Zenon DEF Places
  <2> QED BY <1>3, <1>5, <1>6, <2>1, Zenon DEF PendingRanges
<1>10. Cardinality(PendingRanges') = Cardinality(PendingRanges) - 1
  BY <1>9, FinitePlaces, FS_RemoveElement, Zenon DEF Places
<1>11. Counted'
  <2>1. Cardinality(Working') + Busy' = Cardinality(Working) + Busy + (0 - (-1))
    BY <1>4, <1>5, FinitePlaces DEF Places, Busy
  <2>2. /\ inProgressDeletes' = inProgressDeletes + (0 - (-1))
        /\ totalDeletes' = totalDeletes + 0 /\ pendingDeletes' = pendingDeletes + (-1)
    BY <1>1 DEF TypeOK
  <2>3. /\ Cardinality(deleteSet') = Cardinality(deleteSet) + 0
        /\ Cardinality(PendingRanges') = Cardinality(PendingRanges) + (-1)
    BY <1>1, <1>10, FinitePlaces DEF Places
  <2> QED BY <2>1, <2>2, <2>3, CountedNext DEF Places
<1> QED BY <1>7, <1>8, <1>11, Zenon DEF Places

LEMMA TaskDonePlaces ==
    ASSUME TypeOK, Places, TaskDone
    PROVE  Places'
<1> DEFINE r == worker.task.range
<1>1. /\ worker.pc = "delete" /\ worker' = Idle
      /\ deleteSet' = deleteSet \ {r}
      /\ inProgressDeletes' = inProgressDeletes - 1 /\ totalDeletes' = totalDeletes - 1
      /\ UNCHANGED <<taskQueue, notReadyQueue, pendingDeletes, call>>
  BY Zenon DEF TaskDone, queues
<1>2. /\ worker'.pc # "delete" /\ WorkerRanges = {r} /\ WorkerRanges' = {}
  <2>1. worker'.pc = "idle" BY <1>1, Zenon DEF Idle
  <2> QED BY <1>1, <2>1, Zenon DEF WorkerRanges
<1>3. /\ Held' = Held /\ Working' = Working /\ HeldRanges' = HeldRanges
      /\ ReservedRanges' = ReservedRanges
      /\ QueuedRanges' = QueuedRanges /\ NotReadyRanges' = NotReadyRanges
  BY <1>1, Zenon DEF Held, Working, HeldRanges, ReservedRanges, QueuedRanges, NotReadyRanges
<1>4. r \notin QueuedRanges \cup NotReadyRanges \cup HeldRanges
  BY <1>2, Zenon DEF Places, OnePlace
<1>5. r \in deleteSet BY <1>2, Zenon DEF Places, Reserved
<1>6. Reserved' BY <1>1, <1>2, <1>3, <1>4, Zenon DEF Places, Reserved
<1>7. OnePlace' BY <1>1, <1>2, <1>3, Zenon DEF Places, OnePlace
<1>8. PendingRanges' = PendingRanges BY <1>3, Zenon DEF PendingRanges
<1>9. Cardinality(deleteSet') = Cardinality(deleteSet) - 1
  BY <1>1, <1>5, FinitePlaces, FS_RemoveElement, Zenon DEF Places
<1>10. Counted'
  <2>1. Cardinality(Working') + Busy' = Cardinality(Working) + Busy + ((-1) - 0)
    BY <1>1, <1>2, <1>3, FinitePlaces DEF Places, Busy
  <2>2. /\ inProgressDeletes' = inProgressDeletes + ((-1) - 0)
        /\ totalDeletes' = totalDeletes + (-1) /\ pendingDeletes' = pendingDeletes + 0
    BY <1>1 DEF TypeOK
  <2>3. /\ Cardinality(deleteSet') = Cardinality(deleteSet) + (-1)
        /\ Cardinality(PendingRanges') = Cardinality(PendingRanges) + 0
    BY <1>8, <1>9, FinitePlaces DEF Places
  <2> QED BY <2>1, <2>2, <2>3, CountedNext DEF Places
<1> QED BY <1>6, <1>7, <1>10 DEF Places

\* Left narrows the cursors of a task and nothing else.
LEMMA LeftFields ==
    ASSUME NEW t \in Task
    PROVE  /\ Left(t) \in Task /\ Left(t).range = t.range
           /\ Left(t).cursorsToWait = t.cursorsToWait \cap openCursors
           /\ Left(t).openBefore = t.openBefore
<1>1. t.cursorsToWait \cap openCursors \in SUBSET Cursor BY Zenon DEF openCursors
<1>2. Left(t) = [t EXCEPT !.cursorsToWait = t.cursorsToWait \cap openCursors] BY Zenon DEF Left
<1> HIDE DEF openCursors
<1> QED BY <1>1, <1>2, WaitFields

\* What CheckNotReady does to the two queues.
LEMMA Sorted ==
    ASSUME TypeOK, OnePlace, CheckNotReady
    PROVE  /\ taskQueue = <<>>
           /\ taskQueue' \in Seq(Task) /\ notReadyQueue' \in Seq(Task)
           /\ Distinct(taskQueue') /\ Distinct(notReadyQueue')
           /\ QueuedRanges' \cup NotReadyRanges' = NotReadyRanges
           /\ QueuedRanges' \cap NotReadyRanges' = {}
           /\ \A k \in 1..Len(taskQueue') : \E i \in 1..Len(notReadyQueue) :
                 taskQueue'[k] = Left(notReadyQueue[i]) /\ taskQueue'[k].cursorsToWait = {}
           /\ \A k \in 1..Len(notReadyQueue') : \E i \in 1..Len(notReadyQueue) :
                 notReadyQueue'[k] = Left(notReadyQueue[i])
<1> DEFINE q == notReadyQueue
           D == 1..Len(q)
           left == [i \in DOMAIN q |-> Left(q[i])]
           ready == {i \in DOMAIN left : left[i].cursorsToWait = {}}
<1>1. q \in Seq(Task) /\ Distinct(q) /\ DOMAIN q = D BY DEF TypeOK, OnePlace
<1>2. PICK f \in InOrder(ready), g \in InOrder(DOMAIN left \ ready) :
         /\ taskQueue' = [k \in DOMAIN f |-> left[f[k]]]
         /\ notReadyQueue' = [k \in DOMAIN g |-> left[g[k]]]
  BY Zenon DEF CheckNotReady
<1>3. taskQueue = <<>> BY Zenon DEF CheckNotReady
<1>4. DOMAIN left = D /\ \A i \in D : left[i] = Left(q[i]) BY <1>1, Zenon
<1>5. \A i \in D : q[i] \in Task BY <1>1
<1>6. \A i \in D : left[i] \in Task /\ left[i].range = q[i].range
  BY <1>4, <1>5, LeftFields, Zenon
<1>7. ready \in SUBSET D /\ \A i \in ready : left[i].cursorsToWait = {} BY <1>4, Zenon
<1> HIDE DEF left, ready
<1>8. /\ taskQueue' \in Seq(Task) /\ Distinct(taskQueue')
      /\ RangesOf(taskQueue') = {q[i].range : i \in ready}
      /\ \A k \in 1..Len(taskQueue') : \E i \in ready : taskQueue'[k] = left[i]
  <2>1. \A k \in DOMAIN f : f[k] \in D BY <1>7, Zenon DEF InOrder
  <2>2. /\ taskQueue' \in [DOMAIN f -> Task]
        /\ \A k \in DOMAIN f : taskQueue'[k] = left[f[k]]
    BY <1>2, <1>6, <2>1, Zenon
  <2> QED BY <1>1, <1>6, <1>7, <2>2, Selected, SMTT(30)
<1>9. /\ notReadyQueue' \in Seq(Task) /\ Distinct(notReadyQueue')
      /\ RangesOf(notReadyQueue') = {q[i].range : i \in D \ ready}
      /\ \A k \in 1..Len(notReadyQueue') : \E i \in D \ ready : notReadyQueue'[k] = left[i]
  <2>1. PICK J : J = D \ ready BY Zenon
  <2>2. J \in SUBSET D /\ g \in InOrder(J) BY <1>2, <1>4, <2>1, Zenon
  <2>3. \A k \in DOMAIN g : g[k] \in D BY <2>2, Zenon DEF InOrder
  <2>4. /\ notReadyQueue' \in [DOMAIN g -> Task]
        /\ \A k \in DOMAIN g : notReadyQueue'[k] = left[g[k]]
    BY <1>2, <1>6, <2>3, Zenon
  <2>5. /\ notReadyQueue' \in Seq(Task) /\ Distinct(notReadyQueue')
        /\ RangesOf(notReadyQueue') = {q[i].range : i \in J}
        /\ \A k \in 1..Len(notReadyQueue') : \E i \in J : notReadyQueue'[k] = left[i]
    BY <1>1, <1>6, <2>2, <2>4, Selected
  <2> QED BY <2>1, <2>5, Zenon
<1>10. QueuedRanges' \cup NotReadyRanges' = NotReadyRanges
  BY <1>7, <1>8, <1>9, ZenonT(40) DEF QueuedRanges, NotReadyRanges, RangesOf
<1>11. QueuedRanges' \cap NotReadyRanges' = {}
  BY <1>1, <1>7, <1>8, <1>9 DEF QueuedRanges, NotReadyRanges, Distinct
<1>12. \A k \in 1..Len(taskQueue') : \E i \in D :
          taskQueue'[k] = Left(q[i]) /\ taskQueue'[k].cursorsToWait = {}
  BY <1>4, <1>7, <1>8, Zenon
<1>13. \A k \in 1..Len(notReadyQueue') : \E i \in D : notReadyQueue'[k] = Left(q[i])
  BY <1>4, <1>9, Zenon
<1> QED BY <1>3, <1>8, <1>9, <1>10, <1>11, <1>12, <1>13, Zenon

LEMMA CheckNotReadyPlaces ==
    ASSUME TypeOK, Places, CheckNotReady
    PROVE  Places'
<1>1. UNCHANGED <<deleteSet, stats, call, worker>> BY Zenon DEF CheckNotReady
<1>2. /\ taskQueue = <<>> /\ Distinct(taskQueue') /\ Distinct(notReadyQueue')
      /\ QueuedRanges' \cup NotReadyRanges' = NotReadyRanges
      /\ QueuedRanges' \cap NotReadyRanges' = {}
  BY Sorted, Zenon DEF Places
<1>3. QueuedRanges = {} BY <1>2 DEF QueuedRanges, RangesOf
<1>4. /\ Held' = Held /\ Working' = Working /\ HeldRanges' = HeldRanges
      /\ ReservedRanges' = ReservedRanges /\ WorkerRanges' = WorkerRanges /\ Busy' = Busy
  BY <1>1, Zenon DEF Held, Working, HeldRanges, ReservedRanges, WorkerRanges, Busy
<1>5. Reserved' BY <1>1, <1>2, <1>3, <1>4, Zenon DEF Places, Reserved
<1>6. OnePlace'
  <2>1. \A a, b \in Held' : call'[a].task.range = call'[b].task.range => a = b
    BY <1>1, <1>4, Zenon DEF Places, OnePlace
  <2> QED BY <1>2, <1>3, <1>4, <2>1, Zenon DEF Places, OnePlace
<1>7. PendingRanges' = PendingRanges BY <1>2, <1>3, <1>4, Zenon DEF PendingRanges
<1>8. Counted' BY <1>1, <1>4, <1>7, Zenon DEF Places, Counted, stats
<1> QED BY <1>5, <1>6, <1>8 DEF Places

\* Steps that leave every delete where it is.
LEMMA QuietPlaces ==
    ASSUME Places, UNCHANGED <<queues, deleteSet, stats>>,
           Held' = Held, Working' = Working, \A d \in Held : call'[d] = call[d],
           worker' = worker \/ (worker.pc # "delete" /\ worker'.pc # "delete")
    PROVE  Places'
<1>1. WorkerRanges' = WorkerRanges /\ Busy' = Busy BY Zenon DEF WorkerRanges, Busy
<1>2. /\ HeldRanges' = HeldRanges /\ ReservedRanges' = ReservedRanges
      /\ QueuedRanges' = QueuedRanges /\ NotReadyRanges' = NotReadyRanges
  BY Zenon DEF HeldRanges, ReservedRanges, QueuedRanges, NotReadyRanges, queues
<1>3. PendingRanges' = PendingRanges BY <1>2, Zenon DEF PendingRanges
<1>4. Reserved' BY <1>1, <1>2, Zenon DEF Places, Reserved
<1>5. OnePlace' BY <1>1, <1>2 DEF Places, OnePlace, queues
<1>6. Counted' BY <1>1, <1>3, Zenon DEF Places, Counted, stats
<1> QED BY <1>4, <1>5, <1>6, Zenon DEF Places

\* The task of a caller, with other cursors to wait for.
LEMMA WaitingFields ==
    ASSUME TypeOK, NEW c \in Caller, call[c].pc # "idle", NEW pc, NEW S \in SUBSET Cursor
    PROVE  /\ Waiting(c, pc, S).pc = pc /\ Waiting(c, pc, S).task \in Task
           /\ Waiting(c, pc, S).task.range = call[c].task.range
           /\ Waiting(c, pc, S).task.cursorsToWait = S
           /\ Waiting(c, pc, S).task.openBefore = call[c].task.openBefore
<1>1. call[c].task \in Task BY CallTask, Zenon
<1>2. Waiting(c, pc, S) = At(pc, [call[c].task EXCEPT !.cursorsToWait = S]) BY Zenon DEF Waiting
<1> QED BY <1>1, <1>2, AtFields, WaitFields

\* What a pass over cursorsToWait leaves the caller with.
LEMMA WaitOutcome ==
    ASSUME TypeOK, NEW c \in Caller, WaitForCursors(c)
    PROVE  \E pc \in {"wait", "abandon", "delete"}, S \in SUBSET Cursor :
              /\ Step(c, Waiting(c, pc, S))
              /\ S = call[c].task.cursorsToWait \cap openCursors
              /\ pc = "delete" => call[c].task.cursorsToWait = {}
<1> DEFINE left == call[c].task.cursorsToWait \cap openCursors
<1>1. left \in SUBSET Cursor BY Zenon DEF openCursors
<1> HIDE DEF openCursors
<1>2. CASE call[c].task.cursorsToWait = {}
  <2>1. Step(c, Waiting(c, "delete", {})) /\ left = {} BY <1>2, Zenon DEF WaitForCursors
  <2> QED BY <1>1, <1>2, <2>1, Zenon
<1>3. CASE call[c].task.cursorsToWait # {}
  <2>1. Step(c, Waiting(c, "abandon", left)) \/ Step(c, Waiting(c, "wait", left))
    BY <1>3, Zenon DEF WaitForCursors
  <2> QED BY <1>1, <2>1, Zenon
<1> QED BY <1>2, <1>3, Zenon

LEMMA CallerPlaces ==
    ASSUME TypeOK, Places, NEW c \in Caller,
           getCursorIds(c) \/ NowCursors(c) \/ WaitForCursors(c) \/ deleteNow(c)
    PROVE  Places'
<1>0. openCursors \in SUBSET Cursor BY Zenon DEF openCursors
<1>1. CASE getCursorIds(c)
  <2> DEFINE at == Waiting(c, "enqueue", openCursors)
  <2>1. /\ call[c].pc = "cursors" /\ Step(c, at) /\ UNCHANGED <<queues, deleteSet, stats, worker>>
    BY <1>1, Zenon DEF getCursorIds
  <2>2. c \in Held /\ c \notin Working BY <2>1, Zenon DEF Held, Working
  <2>3. at.pc = "enqueue" /\ at.task.range = call[c].task.range
    BY <1>0, <2>1, WaitingFields
  <2> QED BY <2>1, <2>2, <2>3, GoesOnPlaces, Zenon
<1>2. CASE NowCursors(c)
  <2> DEFINE at == Waiting(c, "wait", openCursors)
  <2>1. /\ call[c].pc = "nowCursors" /\ Step(c, at)
        /\ UNCHANGED <<queues, deleteSet, stats, worker>>
    BY <1>2, Zenon DEF NowCursors
  <2>2. c \in Held /\ c \in Working BY <2>1, Zenon DEF Held, Working
  <2>3. at.pc = "wait" /\ at.task.range = call[c].task.range
    BY <1>0, <2>1, WaitingFields
  <2> QED BY <2>1, <2>2, <2>3, GoesOnPlaces, Zenon
<1>3. CASE WaitForCursors(c)
  <2>1. call[c].pc = "wait" /\ UNCHANGED <<queues, deleteSet, stats, worker>>
    BY <1>3, Zenon DEF WaitForCursors
  <2>2. PICK pc \in {"wait", "abandon", "delete"}, S \in SUBSET Cursor :
           Step(c, Waiting(c, pc, S))
    BY <1>3, WaitOutcome, Zenon
  <2> DEFINE at == Waiting(c, pc, S)
  <2>3. c \in Held /\ c \in Working BY <2>1, Zenon DEF Held, Working
  <2>4. at.pc = pc /\ at.task.range = call[c].task.range
    BY <2>1, WaitingFields
  <2> QED BY <2>1, <2>2, <2>3, <2>4, GoesOnPlaces, Zenon
<1>4. CASE deleteNow(c)
  <2>1. PICK r \in KeyRange : Step(c, At("admit", NewTask(r))) BY <1>4, Zenon DEF deleteNow
  <2>2. call[c].pc = "idle" /\ UNCHANGED <<queues, deleteSet, stats, worker>>
    BY <1>4, Zenon DEF deleteNow
  <2>3. call'[c].pc = "admit" /\ \A d \in Caller : d # c => call'[d] = call[d]
    BY <2>1, AtFields, StepFacts
  <2>4. Held' = Held /\ Working' = Working /\ \A d \in Held : call'[d] = call[d]
    BY <2>2, <2>3, Zenon DEF Held, Working
  <2> QED BY <2>2, <2>4, QuietPlaces, Zenon
<1> QED BY <1>1, <1>2, <1>3, <1>4, Zenon

LEMMA OtherPlaces ==
    ASSUME Places,
           \/ \E r \in KeyRange : addToBlackList(r) \/ removeFromBlackList(r)
           \/ WorkerStops \/ stopWorkers \/ JoinWorker \/ WaitNothingInProgress
           \/ \E c \in Cursor : OpenCursor(c) \/ CloseCursor(c)
           \/ UNCHANGED vars
    PROVE  Places'
<1>1. UNCHANGED <<queues, deleteSet, stats, call>>
  BY Zenon DEF addToBlackList, removeFromBlackList, WorkerStops, stopWorkers, JoinWorker,
         WaitNothingInProgress, OpenCursor, CloseCursor, vars
<1>2. worker' = worker \/ (worker = Idle /\ worker' = Gone)
  BY Zenon DEF addToBlackList, removeFromBlackList, WorkerStops, stopWorkers, JoinWorker,
         WaitNothingInProgress, OpenCursor, CloseCursor, vars
<1>3. worker' = worker \/ (worker.pc # "delete" /\ worker'.pc # "delete")
  BY <1>2 DEF Idle, Gone
<1>4. Held' = Held /\ Working' = Working /\ \A d \in Held : call'[d] = call[d]
  BY <1>1, Zenon DEF Held, Working
<1> QED BY <1>1, <1>3, <1>4, QuietPlaces, Zenon

LEMMA PlacesStep ==
    ASSUME TypeOK, Places, [Next]_vars
    PROVE  Places'
<1>1. ASSUME NEW c \in Caller,
             \/ queueDelete(c) \/ getCursorIds(c) \/ Enqueue(c)
             \/ deleteNow(c) \/ Admit(c) \/ NowCursors(c) \/ WaitForCursors(c) \/ Finish(c)
      PROVE  Places'
  BY <1>1, QueueDeletePlaces, CallerPlaces, EnqueuePlaces, AdmitPlaces, FinishPlaces, Zenon
<1>2. CASE CheckNotReady \/ TakeTask \/ TaskDone
  BY <1>2, CheckNotReadyPlaces, TakeTaskPlaces, TaskDonePlaces, Zenon
<1> QED BY <1>1, <1>2, OtherPlaces, Zenon DEF Next

-----------------------------------------------------------------------------
(* Types.                                                                  *)

\* TypeOK without the counters.
Typed ==
    /\ stopRequested \in BOOLEAN
    /\ taskQueue \in Seq(Task) /\ notReadyQueue \in Seq(Task)
    /\ deleteSet \subseteq KeyRange /\ blackList \subseteq KeyRange
    /\ call \in [Caller -> {Idle} \cup CallRecord]
    /\ worker \in {Idle, Gone} \cup [pc : {"delete"}, task : Task]
    /\ stopper \in {"none", "join", "lock", "asleep", "returned"}
    /\ cursor \in [Cursor -> {"new", "open", "closed"}]

LEMMA CallerTyped ==
    ASSUME TypeOK, Typed, OnePlace, NEW c \in Caller,
           \/ queueDelete(c) \/ getCursorIds(c) \/ Enqueue(c)
           \/ deleteNow(c) \/ Admit(c) \/ NowCursors(c) \/ WaitForCursors(c) \/ Finish(c)
    PROVE  Typed'
<1>0. openCursors \in SUBSET Cursor BY Zenon DEF openCursors
<1>1. ASSUME NEW at \in {Idle} \cup CallRecord, Step(c, at)
      PROVE  call' \in [Caller -> {Idle} \cup CallRecord]
  BY <1>1, StepFacts, Zenon
<1>2. ASSUME NEW pc \in {"cursors", "admit", "nowCursors"}, NEW r \in KeyRange
      PROVE  At(pc, NewTask(r)) \in CallRecord
  BY <1>2, NewTaskFields, AtType, Zenon
<1>3. ASSUME NEW pc \in {"enqueue", "wait", "abandon", "delete"}, NEW S \in SUBSET Cursor,
             call[c].pc # "idle"
      PROVE  Waiting(c, pc, S) \in CallRecord
  <2>1. Waiting(c, pc, S) = At(pc, [call[c].task EXCEPT !.cursorsToWait = S]) BY Zenon DEF Waiting
  <2>2. [call[c].task EXCEPT !.cursorsToWait = S] \in Task BY <1>3, CallTask, WaitFields, Zenon
  <2> QED BY <2>1, <2>2, AtType, Zenon
<1>4. CASE queueDelete(c)
  <2>1. PICK r \in KeyRange : deleteSet' = deleteSet \cup {r}
                              /\ Step(c, At("cursors", NewTask(r)))
    BY <1>4, Zenon DEF queueDelete
  <2>2. call' \in [Caller -> {Idle} \cup CallRecord] BY <1>1, <1>2, <2>1, Zenon
  <2>4. UNCHANGED <<stopRequested, taskQueue, notReadyQueue, blackList, worker, stopper, cursor>>
    BY <1>4, Zenon DEF queueDelete, queues
  <2> QED BY <2>1, <2>2, <2>4, Zenon DEF Typed
<1>5. CASE getCursorIds(c) \/ NowCursors(c) \/ WaitForCursors(c)
  <2>1. /\ call[c].pc # "idle"
        /\ UNCHANGED <<stopRequested, taskQueue, notReadyQueue, deleteSet, blackList, worker,
                       stopper, cursor>>
    BY <1>5, Zenon DEF getCursorIds, NowCursors, WaitForCursors, queues
  <2>2. PICK pc \in {"enqueue", "wait", "abandon", "delete"}, S \in SUBSET Cursor :
           Step(c, Waiting(c, pc, S))
    BY <1>0, <1>5, WaitOutcome, Zenon DEF getCursorIds, NowCursors
  <2>3. call' \in [Caller -> {Idle} \cup CallRecord] BY <1>1, <1>3, <2>1, <2>2, Zenon
  <2> QED BY <2>1, <2>3, Zenon DEF Typed
<1>6. CASE Enqueue(c)
  <2>1. /\ call[c].pc = "enqueue" /\ Step(c, Idle)
        /\ UNCHANGED <<stopRequested, deleteSet, blackList, worker, stopper, cursor>>
    BY <1>6, Zenon DEF Enqueue
  <2>2. call[c].task \in Task BY <2>1, CallTask, Zenon
  <2>3. call' \in [Caller -> {Idle} \cup CallRecord] BY <1>1, <2>1, Zenon
  <2>4. taskQueue' \in Seq(Task) /\ notReadyQueue' \in Seq(Task)
    <3>1. taskQueue \in Seq(Task) /\ notReadyQueue \in Seq(Task) BY Zenon DEF Typed
    <3>2. Append(taskQueue, call[c].task) \in Seq(Task) BY <2>2, <3>1
    <3>3. Append(notReadyQueue, call[c].task) \in Seq(Task) BY <2>2, <3>1
    <3>4. /\ taskQueue' = Append(taskQueue, call[c].task) \/ taskQueue' = taskQueue
          /\ \/ notReadyQueue' = Append(notReadyQueue, call[c].task)
             \/ notReadyQueue' = notReadyQueue
      BY <1>6, Zenon DEF Enqueue
    <3> QED BY <3>1, <3>2, <3>3, <3>4, Zenon
  <2> QED BY <2>1, <2>3, <2>4, Zenon DEF Typed
<1>7. CASE deleteNow(c)
  <2>1. PICK r \in KeyRange : Step(c, At("admit", NewTask(r))) BY <1>7, Zenon DEF deleteNow
  <2>2. call' \in [Caller -> {Idle} \cup CallRecord] BY <1>1, <1>2, <2>1, Zenon
  <2>4. UNCHANGED <<stopRequested, taskQueue, notReadyQueue, deleteSet, blackList, worker,
                    stopper, cursor>>
    BY <1>7, Zenon DEF deleteNow, queues
  <2> QED BY <2>2, <2>4, Zenon DEF Typed
<1>8. CASE Admit(c)
  <2>1. /\ call[c].pc = "admit"
        /\ UNCHANGED <<stopRequested, taskQueue, notReadyQueue, blackList, worker, stopper,
                       cursor>>
    BY <1>8, Zenon DEF Admit, queues
  <2>2. call[c].task.range \in KeyRange
    <3>1. call[c].task \in Task BY <2>1, CallTask, Zenon
    <3> QED BY <3>1, Zenon DEF Task
  <2>3. \/ Step(c, Idle) /\ deleteSet' = deleteSet
        \/ /\ Step(c, At("nowCursors", NewTask(call[c].task.range)))
           /\ deleteSet' = deleteSet \cup {call[c].task.range}
    BY <1>8, Zenon DEF Admit
  <2>4. call' \in [Caller -> {Idle} \cup CallRecord] BY <1>1, <1>2, <2>2, <2>3, Zenon
  <2>5. deleteSet' \subseteq KeyRange BY <2>2, <2>3, Zenon DEF Typed
  <2> QED BY <2>1, <2>4, <2>5, Zenon DEF Typed
<1>9. CASE Finish(c)
  <2>1. /\ deleteSet' \subseteq deleteSet /\ Step(c, Idle)
        /\ stopper' \in {"lock", stopper}
        /\ UNCHANGED <<stopRequested, taskQueue, notReadyQueue, blackList, worker, cursor>>
    BY <1>9, Zenon DEF Finish, queues
  <2>2. call' \in [Caller -> {Idle} \cup CallRecord] BY <1>1, <2>1, Zenon
  <2> QED BY <2>1, <2>2, Zenon DEF Typed
<1> QED BY <1>4, <1>5, <1>6, <1>7, <1>8, <1>9, Zenon

LEMMA OtherTyped ==
    ASSUME TypeOK, Typed, OnePlace,
           \/ \E r \in KeyRange : addToBlackList(r) \/ removeFromBlackList(r)
           \/ CheckNotReady \/ TakeTask \/ TaskDone \/ WorkerStops
           \/ stopWorkers \/ JoinWorker \/ WaitNothingInProgress
           \/ \E c \in Cursor : OpenCursor(c) \/ CloseCursor(c)
           \/ UNCHANGED vars
    PROVE  Typed'
<1>1. CASE \E r \in KeyRange : addToBlackList(r) \/ removeFromBlackList(r)
  <2>1. /\ blackList' \subseteq KeyRange
        /\ UNCHANGED <<stopRequested, taskQueue, notReadyQueue, deleteSet, call, worker, stopper,
                       cursor>>
    BY <1>1, Zenon DEF addToBlackList, removeFromBlackList, queues, Typed
  <2> QED BY <2>1, Zenon DEF Typed
<1>2. CASE CheckNotReady
  <2>1. taskQueue' \in Seq(Task) /\ notReadyQueue' \in Seq(Task) BY <1>2, Sorted, Zenon
  <2>2. UNCHANGED <<stopRequested, deleteSet, blackList, call, worker, stopper, cursor>>
    BY <1>2, Zenon DEF CheckNotReady
  <2> QED BY <2>1, <2>2, Zenon DEF Typed
<1>3. CASE TakeTask
  <2>1. /\ taskQueue # <<>> /\ taskQueue' = Tail(taskQueue)
        /\ worker' = At("delete", Head(taskQueue))
        /\ UNCHANGED <<stopRequested, notReadyQueue, deleteSet, blackList, call, stopper, cursor>>
    BY <1>3, Zenon DEF TakeTask
  <2>2. taskQueue \in Seq(Task) BY Zenon DEF Typed
  <2>3. taskQueue' \in Seq(Task) /\ Head(taskQueue) \in Task BY <2>1, <2>2
  <2>4. worker' \in [pc : {"delete"}, task : Task] BY <2>1, <2>3, Zenon DEF At
  <2> QED BY <2>1, <2>3, <2>4, Zenon DEF Typed
<1>4. CASE TaskDone
  <2>1. /\ worker' = Idle /\ deleteSet' \subseteq deleteSet
        /\ UNCHANGED <<stopRequested, taskQueue, notReadyQueue, blackList, call, stopper, cursor>>
    BY <1>4, Zenon DEF TaskDone, queues
  <2> QED BY <2>1, Zenon DEF Typed
<1>5. CASE WorkerStops \/ JoinWorker \/ WaitNothingInProgress \/ UNCHANGED vars
  <2>1. /\ worker' \in {worker, Gone} /\ stopper' \in {stopper, "lock", "asleep", "returned"}
        /\ UNCHANGED <<stopRequested, taskQueue, notReadyQueue, deleteSet, blackList, call, cursor>>
    BY <1>5, Zenon DEF WorkerStops, JoinWorker, WaitNothingInProgress, vars, queues
  <2> QED BY <2>1, Zenon DEF Typed
<1>6. CASE stopWorkers
  <2>1. /\ stopRequested' = TRUE /\ stopper' = "join"
        /\ UNCHANGED <<taskQueue, notReadyQueue, deleteSet, blackList, call, worker, cursor>>
    BY <1>6, Zenon DEF stopWorkers, queues
  <2> QED BY <2>1, Zenon DEF Typed
<1>7. CASE \E c \in Cursor : OpenCursor(c) \/ CloseCursor(c)
  <2>1. UNCHANGED <<stopRequested, taskQueue, notReadyQueue, deleteSet, blackList, call, worker,
                    stopper>>
    BY <1>7, Zenon DEF OpenCursor, CloseCursor, queues
  <2>2. cursor' \in [Cursor -> {"new", "open", "closed"}]
    BY <1>7, Zenon DEF OpenCursor, CloseCursor, Typed
  <2> QED BY <2>1, <2>2, Zenon DEF Typed
<1> QED BY <1>1, <1>2, <1>3, <1>4, <1>5, <1>6, <1>7, Zenon

\* The counters are the sizes of finite sets.
LEMMA FiniteCounters ==
    ASSUME NEW D, D \subseteq KeyRange, NEW P, P \subseteq D, NEW W, W \subseteq Caller
    PROVE  Cardinality(D) \in Nat /\ Cardinality(P) \in Nat /\ Cardinality(W) \in Nat
<1>1. IsFiniteSet(D) BY FiniteAssumption, FS_Subset, Zenon
<1>2. IsFiniteSet(P) BY <1>1, FS_Subset, Zenon
<1>3. IsFiniteSet(W) BY FiniteAssumption, FS_Subset, Zenon
<1> QED BY <1>1, <1>2, <1>3, FS_CardinalityType, Zenon

LEMMA TypeStep ==
    ASSUME TypeOK, OnePlace, Places', [Next]_vars
    PROVE  TypeOK'
<1>1. Typed BY Zenon DEF TypeOK, Typed, CallRecord
<1>2. Typed'
  BY <1>1, CallerTyped, OtherTyped, Zenon DEF Next
<1>3. deleteSet' \subseteq KeyRange BY <1>2, Zenon DEF Typed
<1>4. PendingRanges' \subseteq deleteSet'
  <2>1. ReservedRanges' \subseteq HeldRanges' BY Zenon DEF ReservedRanges, HeldRanges
  <2> QED BY <2>1, Zenon DEF Places, Reserved, PendingRanges
<1>5. Working' \subseteq Caller BY Zenon DEF Working
<1>6. /\ Cardinality(deleteSet') \in Nat /\ Cardinality(PendingRanges') \in Nat
      /\ Cardinality(Working') \in Nat
  BY <1>3, <1>4, <1>5, FiniteCounters, Zenon
<1>7. Busy' \in Nat BY Zenon DEF Busy
<1>8. totalDeletes' \in Nat /\ pendingDeletes' \in Nat /\ inProgressDeletes' \in Nat
  <2>1. /\ totalDeletes' = Cardinality(deleteSet')
        /\ pendingDeletes' = Cardinality(PendingRanges')
        /\ inProgressDeletes' = Cardinality(Working') + Busy'
    BY Zenon DEF Places, Counted
  <2> QED BY <1>6, <1>7, <2>1
<1> QED BY <1>2, <1>8, Zenon DEF TypeOK, Typed, CallRecord

-----------------------------------------------------------------------------
(* The black list and the cursors.                                         *)

LEMMA UnlistedStep ==
    ASSUME TypeOK, Unlisted, [Next]_vars
    PROVE  Unlisted'
<1>1. CASE \E c \in Caller : queueDelete(c) \/ Admit(c)
  <2>1. blackList' = blackList BY <1>1, Zenon DEF queueDelete, Admit
  <2>2. \/ deleteSet' = deleteSet
        \/ \E r : deleteSet' = deleteSet \cup {r} /\ canEnqueue(r)
    BY <1>1, Zenon DEF queueDelete, Admit
  <2> QED BY <2>1, <2>2, Zenon DEF Unlisted, canEnqueue, isBlacklisted
<1>2. CASE \E r \in KeyRange : addToBlackList(r)
  BY <1>2, Zenon DEF addToBlackList, Unlisted
<1>3. ASSUME ~ \E c \in Caller : queueDelete(c) \/ Admit(c),
             ~ \E r \in KeyRange : addToBlackList(r)
      PROVE  blackList' \subseteq blackList /\ deleteSet' \subseteq deleteSet
  <2>1. CASE \E c \in Caller : \/ getCursorIds(c) \/ Enqueue(c) \/ deleteNow(c) \/ NowCursors(c)
                               \/ WaitForCursors(c) \/ Finish(c)
    BY <2>1, Zenon DEF getCursorIds, Enqueue, deleteNow, NowCursors, WaitForCursors, Finish
  <2>2. CASE \/ CheckNotReady \/ TakeTask \/ TaskDone \/ WorkerStops
             \/ stopWorkers \/ JoinWorker \/ WaitNothingInProgress
    BY <2>2, Zenon DEF CheckNotReady, TakeTask, TaskDone, WorkerStops, stopWorkers, JoinWorker,
                WaitNothingInProgress
  <2>3. CASE \/ \E r \in KeyRange : removeFromBlackList(r)
             \/ \E c \in Cursor : OpenCursor(c) \/ CloseCursor(c)
             \/ UNCHANGED vars
    BY <2>3, Zenon DEF removeFromBlackList, OpenCursor, CloseCursor, vars
  <2> QED BY <1>3, <2>1, <2>2, <2>3, Zenon DEF Next
<1> QED BY <1>1, <1>2, <1>3, Zenon DEF Unlisted

\* A cursor only goes from new to open to closed, so what a task waits for is
\* still enough after any step.
LEMMA CursorsAge ==
    ASSUME TypeOK, [Next]_vars
    PROVE  \A t \in Task : /\ Late(t, cursor) => Late(t, cursor')
                           /\ Spares(t, cursor) => Spares(t, cursor')
<1>1. \A k \in Cursor : cursor[k] # "new" => cursor'[k] \in {cursor[k], "closed"}
  <2>1. CASE \E c \in Cursor : OpenCursor(c) \/ CloseCursor(c)
    BY <2>1, Zenon DEF OpenCursor, CloseCursor, TypeOK
  <2>2. CASE cursor' = cursor
    BY <2>2, Zenon
  <2>3. CASE \E c \in Caller :
                \/ queueDelete(c) \/ getCursorIds(c) \/ Enqueue(c)
                \/ deleteNow(c) \/ Admit(c) \/ NowCursors(c) \/ WaitForCursors(c) \/ Finish(c)
    BY <2>2, <2>3, Zenon DEF queueDelete, getCursorIds, Enqueue, deleteNow, Admit, NowCursors,
                      WaitForCursors, Finish
  <2>4. CASE \/ \E r \in KeyRange : addToBlackList(r) \/ removeFromBlackList(r)
             \/ CheckNotReady \/ TakeTask \/ TaskDone \/ WorkerStops
             \/ stopWorkers \/ JoinWorker \/ WaitNothingInProgress
             \/ UNCHANGED vars
    BY <2>2, <2>4, Zenon DEF addToBlackList, removeFromBlackList, CheckNotReady, TakeTask, TaskDone,
                      WorkerStops, stopWorkers, JoinWorker, WaitNothingInProgress, vars
  <2> QED BY <2>1, <2>3, <2>4, Zenon DEF Next
<1>2. \A t \in Task : t.openBefore \subseteq Cursor BY Zenon DEF Task
<1> QED BY <1>1, <1>2, Zenon DEF Late, Spares

LEMMA SparedFrame ==
    ASSUME TypeOK, Spared, [Next]_vars
    PROVE  /\ taskQueue' = taskQueue => ReadySpared'
           /\ notReadyQueue' = notReadyQueue => NotReadySpared'
           /\ worker' = worker \/ worker'.pc # "delete" => WorkerSpared'
           /\ \A c \in Caller : call'[c] = call[c] => CallSpared(call'[c], cursor')
<1>1. \A t \in Task : /\ Late(t, cursor) => Late(t, cursor')
                      /\ Spares(t, cursor) => Spares(t, cursor')
  BY CursorsAge, Zenon
<1>2. /\ \A i \in 1..Len(taskQueue) : taskQueue[i] \in Task
      /\ \A i \in 1..Len(notReadyQueue) : notReadyQueue[i] \in Task
  <2>1. taskQueue \in Seq(Task) /\ notReadyQueue \in Seq(Task) BY Zenon DEF TypeOK
  <2> QED BY <2>1
<1>3. ASSUME NEW c \in Caller, call'[c] = call[c] PROVE CallSpared(call'[c], cursor')
  <2>1. CallSpared(call[c], cursor) BY Zenon DEF Spared
  <2>2. CASE call[c].pc = "idle" BY <1>3, <2>2, Zenon DEF CallSpared
  <2>3. CASE call[c].pc # "idle"
    <3>1. call[c].task \in Task BY <2>3, CallTask, Zenon
    <3> QED BY <1>1, <1>3, <2>1, <3>1, Zenon DEF CallSpared
  <2> QED BY <2>2, <2>3, Zenon
<1>4. taskQueue' = taskQueue => ReadySpared' BY <1>1, <1>2, Zenon DEF Spared, ReadySpared
<1>5. notReadyQueue' = notReadyQueue => NotReadySpared'
  BY <1>1, <1>2, Zenon DEF Spared, NotReadySpared
<1>6. worker' = worker \/ worker'.pc # "delete" => WorkerSpared'
  BY <1>1, WorkerTask, Zenon DEF Spared, WorkerSpared
<1> QED BY <1>3, <1>4, <1>5, <1>6, Zenon

\* The cursors that are open now: none of them is new, and a task that waits
\* for all of them, or for those it waited for before, spares its own.
LEMMA OpenSpares ==
    ASSUME TypeOK
    PROVE  /\ \A r \in KeyRange : Late(NewTask(r), cursor)
           /\ \A t \in Task : Late(t, cursor) /\ openCursors \subseteq t.cursorsToWait
                                 => Spares(t, cursor)
<1>1. \A k \in openCursors : cursor[k] # "new" BY Zenon DEF openCursors
<1>2. ASSUME NEW t \in Task, Late(t, cursor), openCursors \subseteq t.cursorsToWait
      PROVE  Spares(t, cursor)
  <2>1. t.openBefore \subseteq Cursor BY Zenon DEF Task
  <2> QED BY <1>2, <2>1, Zenon DEF openCursors, Spares
<1> HIDE DEF openCursors
<1>3. \A r \in KeyRange : Late(NewTask(r), cursor) BY <1>1, NewTaskFields, Zenon DEF Late
<1> QED BY <1>2, <1>3, Zenon

LEMMA WaitingSpares ==
    ASSUME TypeOK, NEW c \in Caller, call[c].pc # "idle", Late(call[c].task, cursor),
           NEW pc, NEW S \in SUBSET Cursor,
           \/ S = openCursors
           \/ S = call[c].task.cursorsToWait \cap openCursors /\ Spares(call[c].task, cursor),
           pc = "delete" => S = {}
    PROVE  CallSpared(Waiting(c, pc, S), cursor)
<1> DEFINE t == call[c].task
           u == [t EXCEPT !.cursorsToWait = S]
<1>1. t \in Task BY CallTask, Zenon
<1>0. u = [t EXCEPT !.cursorsToWait = S] BY Zenon
<1> HIDE DEF u, t
<1>2. u \in Task /\ u.openBefore = t.openBefore /\ u.cursorsToWait = S
  BY <1>0, <1>1, WaitFields, Zenon
<1>3. t.openBefore \subseteq Cursor BY <1>1, Zenon DEF Task
<1> USE DEF t
<1>4. Late(u, cursor) BY <1>2, Zenon DEF Late
<1>5. Spares(u, cursor)
  <2>1. \A k \in t.openBefore : cursor[k] = "open" => k \in openCursors
    BY <1>3, Zenon DEF openCursors
  <2> QED BY <1>2, <1>4, <2>1, Zenon DEF Spares
<1>6. Waiting(c, pc, S).pc = pc /\ Waiting(c, pc, S).task = u
  BY AtFields, Zenon DEF Waiting, u
<1> QED BY <1>2, <1>4, <1>5, <1>6, Zenon DEF CallSpared

LEMMA CallerSpared ==
    ASSUME TypeOK, Spared, [Next]_vars, NEW c \in Caller,
           \/ queueDelete(c) \/ getCursorIds(c) \/ Enqueue(c)
           \/ deleteNow(c) \/ Admit(c) \/ NowCursors(c) \/ WaitForCursors(c) \/ Finish(c)
    PROVE  Spared'
<1>1. ASSUME NEW at, Step(c, at), CallSpared(at, cursor')
      PROVE  \A d \in Caller : CallSpared(call'[d], cursor')
  BY <1>1, StepFacts, SparedFrame, Zenon
<1>2. CallSpared(Idle, cursor') BY Zenon DEF CallSpared, Idle
<1>3. ASSUME NEW pc \in {"cursors", "admit", "nowCursors"}, NEW r \in KeyRange
      PROVE  CallSpared(At(pc, NewTask(r)), cursor)
  BY <1>3, AtFields, OpenSpares DEF CallSpared
<1>4. CallSpared(call[c], cursor) BY Zenon DEF Spared
<1>5. worker' = worker /\ cursor' = cursor
  BY Zenon DEF queueDelete, getCursorIds, Enqueue, deleteNow, Admit, NowCursors, WaitForCursors,
     Finish
<1>6. CASE Enqueue(c)
  <2>1. call[c].pc = "enqueue" /\ Step(c, Idle) BY <1>6, Zenon DEF Enqueue
  <2>2. /\ call[c].task \in Task /\ Spares(call[c].task, cursor)
    BY <1>4, <2>1, CallTask, Zenon DEF CallSpared
  <2>3. taskQueue \in Seq(Task) /\ notReadyQueue \in Seq(Task) BY Zenon DEF TypeOK
  <2>4. CASE call[c].task.cursorsToWait = {}
    <3>1. taskQueue' = Append(taskQueue, call[c].task) /\ notReadyQueue' = notReadyQueue
      BY <1>6, <2>4, Zenon DEF Enqueue
    <3>2. \A i \in 1..Len(taskQueue') : \/ i \in 1..Len(taskQueue) /\ taskQueue'[i] = taskQueue[i]
                                        \/ taskQueue'[i] = call[c].task
      BY <2>2, <2>3, <3>1
    <3>3. ReadySpared' BY <1>5, <2>2, <2>4, <3>2, Zenon DEF Spared, ReadySpared
    <3> QED BY <1>1, <1>2, <1>5, <2>1, <3>1, <3>3, SparedFrame, Zenon DEF Spared
  <2>5. CASE call[c].task.cursorsToWait # {}
    <3>1. notReadyQueue' = Append(notReadyQueue, call[c].task) /\ taskQueue' = taskQueue
      BY <1>6, <2>5, Zenon DEF Enqueue
    <3>2. \A i \in 1..Len(notReadyQueue') :
             \/ i \in 1..Len(notReadyQueue) /\ notReadyQueue'[i] = notReadyQueue[i]
             \/ notReadyQueue'[i] = call[c].task
      BY <2>2, <2>3, <3>1
    <3>3. NotReadySpared' BY <1>5, <2>2, <3>2, Zenon DEF Spared, NotReadySpared
    <3> QED BY <1>1, <1>2, <1>5, <2>1, <3>1, <3>3, SparedFrame, Zenon DEF Spared
  <2> QED BY <2>4, <2>5, Zenon
<1>7. ASSUME ~Enqueue(c)
      PROVE  taskQueue' = taskQueue /\ notReadyQueue' = notReadyQueue
  BY <1>7, Zenon DEF queueDelete, getCursorIds, deleteNow, Admit, NowCursors, WaitForCursors,
     Finish,
              queues
<1>8. ASSUME ~Enqueue(c) PROVE \E at : Step(c, at) /\ CallSpared(at, cursor)
  <2>1. CASE queueDelete(c) \/ deleteNow(c)
    BY <1>3, <2>1, Zenon DEF queueDelete, deleteNow
  <2>2. CASE Admit(c) \/ Finish(c)
    <3>1. CASE Step(c, Idle) BY <1>2, <1>5, <3>1, Zenon
    <3>2. CASE Admit(c) /\ Step(c, At("nowCursors", NewTask(call[c].task.range)))
      <4>1. call[c].task \in Task BY <3>2, CallTask, Zenon DEF Admit
      <4>2. call[c].task.range \in KeyRange BY <4>1, Zenon DEF Task
      <4> QED BY <1>3, <3>2, <4>2, Zenon
    <3> QED BY <2>2, <3>1, <3>2, Zenon DEF Admit, Finish
  <2>3. CASE getCursorIds(c) \/ NowCursors(c)
    <3>1. call[c].pc \in {"cursors", "nowCursors"} BY <2>3, Zenon DEF getCursorIds, NowCursors
    <3>2. Late(call[c].task, cursor) BY <1>4, <3>1, Zenon DEF CallSpared
    <3>3. PICK pc \in {"enqueue", "wait"} : Step(c, Waiting(c, pc, openCursors))
      BY <2>3, Zenon DEF getCursorIds, NowCursors
    <3>4. openCursors \in SUBSET Cursor BY Zenon DEF openCursors
    <3>5. CallSpared(Waiting(c, pc, openCursors), cursor)
      BY <3>1, <3>2, <3>4, WaitingSpares, Zenon
    <3> QED BY <3>3, <3>5, Zenon
  <2>4. CASE WaitForCursors(c)
    <3>1. call[c].pc = "wait" BY <2>4, Zenon DEF WaitForCursors
    <3>2. Late(call[c].task, cursor) /\ Spares(call[c].task, cursor)
      BY <1>4, <3>1, Zenon DEF CallSpared
    <3>3. PICK pc \in {"wait", "abandon", "delete"}, S \in SUBSET Cursor :
              /\ Step(c, Waiting(c, pc, S))
              /\ S = call[c].task.cursorsToWait \cap openCursors
              /\ pc = "delete" => call[c].task.cursorsToWait = {}
      BY <2>4, WaitOutcome, Zenon
    <3>4. pc = "delete" => S = {} BY <3>3, Zenon
    <3>5. CallSpared(Waiting(c, pc, S), cursor)
      BY <3>1, <3>2, <3>3, <3>4, WaitingSpares, Zenon
    <3> QED BY <3>3, <3>5, Zenon
  <2> QED BY <1>8, <2>1, <2>2, <2>3, <2>4, Zenon
<1> QED BY <1>1, <1>5, <1>6, <1>7, <1>8, SparedFrame, Zenon DEF Spared

LEMMA WorkerSparedStep ==
    ASSUME TypeOK, Spared, OnePlace, [Next]_vars,
           \/ CheckNotReady \/ TakeTask \/ TaskDone
    PROVE  Spared'
<1>0. call' = call /\ cursor' = cursor BY Zenon DEF CheckNotReady, TakeTask, TaskDone
<1>1. \A c \in Caller : CallSpared(call'[c], cursor') BY <1>0, Zenon DEF Spared
<1>2. CASE CheckNotReady
  <2>1. worker' = worker BY <1>2, Zenon DEF CheckNotReady
  <2>2. /\ \A k \in 1..Len(taskQueue') : \E i \in 1..Len(notReadyQueue) :
              taskQueue'[k] = Left(notReadyQueue[i]) /\ taskQueue'[k].cursorsToWait = {}
        /\ \A k \in 1..Len(notReadyQueue') : \E i \in 1..Len(notReadyQueue) :
              notReadyQueue'[k] = Left(notReadyQueue[i])
    BY <1>2, Sorted, Zenon
  <2>3. ASSUME NEW i \in 1..Len(notReadyQueue)
        PROVE  Spares(Left(notReadyQueue[i]), cursor)
    <3> DEFINE t == notReadyQueue[i]
    <3>1. t \in Task
      <4>1. notReadyQueue \in Seq(Task) BY Zenon DEF TypeOK
      <4> QED BY <2>3, <4>1
    <3>2. Spares(t, cursor) BY <2>3, Zenon DEF Spared, NotReadySpared
    <3>3. /\ Left(t).cursorsToWait = t.cursorsToWait \cap openCursors
          /\ Left(t).openBefore = t.openBefore
      BY <3>1, LeftFields, Zenon
    <3>4. t.openBefore \subseteq Cursor BY <3>1, Zenon DEF Task
    <3> QED BY <3>2, <3>3, <3>4, Zenon DEF Spares, Late, openCursors
  <2>4. ReadySpared' BY <1>0, <2>2, <2>3, Zenon DEF ReadySpared
  <2>5. NotReadySpared' BY <1>0, <2>2, <2>3, Zenon DEF NotReadySpared
  <2> QED BY <1>1, <2>1, <2>4, <2>5, SparedFrame, Zenon DEF Spared
<1>3. CASE TakeTask
  <2>1. /\ taskQueue # <<>> /\ taskQueue' = Tail(taskQueue) /\ notReadyQueue' = notReadyQueue
        /\ worker' = At("delete", Head(taskQueue))
    BY <1>3, Zenon DEF TakeTask
  <2>2. taskQueue \in Seq(Task) /\ Distinct(taskQueue) BY Zenon DEF TypeOK, OnePlace
  <2>3. /\ Head(taskQueue) = taskQueue[1] /\ 1 \in 1..Len(taskQueue)
        /\ \A i \in 1..Len(taskQueue') :
              i + 1 \in 1..Len(taskQueue) /\ taskQueue'[i] = taskQueue[i + 1]
    BY <2>1, <2>2, Popped, Zenon
  <2>4. ReadySpared' BY <1>0, <2>3, Zenon DEF Spared, ReadySpared
  <2>5. WorkerSpared'
    <3>1. Spares(taskQueue[1], cursor) /\ taskQueue[1].cursorsToWait = {}
      BY <2>3, Zenon DEF Spared, ReadySpared
    <3>2. worker'.task = taskQueue[1] BY <2>1, <2>3, AtFields, Zenon
    <3> QED BY <1>0, <3>1, <3>2, Zenon DEF WorkerSpared
  <2> QED BY <1>1, <2>1, <2>4, <2>5, SparedFrame, Zenon DEF Spared
<1>4. CASE TaskDone
  <2>1. worker'.pc # "delete" /\ taskQueue' = taskQueue /\ notReadyQueue' = notReadyQueue
    BY <1>4, Zenon DEF TaskDone, Idle, queues
  <2> QED BY <1>1, <2>1, SparedFrame, Zenon DEF Spared
<1> QED BY <1>2, <1>3, <1>4, Zenon

LEMMA SparedStep ==
    ASSUME TypeOK, Spared, OnePlace, [Next]_vars
    PROVE  Spared'
<1>1. CASE \/ \E r \in KeyRange : addToBlackList(r) \/ removeFromBlackList(r)
           \/ WorkerStops \/ stopWorkers \/ JoinWorker \/ WaitNothingInProgress
           \/ \E c \in Cursor : OpenCursor(c) \/ CloseCursor(c)
           \/ UNCHANGED vars
  <2>1. /\ taskQueue' = taskQueue /\ notReadyQueue' = notReadyQueue /\ call' = call
        /\ worker' = worker \/ worker' = Gone
    BY <1>1, Zenon DEF addToBlackList, removeFromBlackList, WorkerStops, stopWorkers, JoinWorker,
                WaitNothingInProgress, OpenCursor, CloseCursor, queues, vars
  <2>2. worker' = worker \/ worker'.pc # "delete" BY <2>1 DEF Gone
  <2> QED BY <2>1, <2>2, SparedFrame, Zenon DEF Spared
<1> QED BY <1>1, CallerSpared, WorkerSparedStep, Zenon DEF Next

-----------------------------------------------------------------------------
(* Theorems.                                                               *)

LEMMA InitInvariant ==
    ASSUME Init
    PROVE  IInv
<1>1. /\ Held = {} /\ Working = {}
  BY Zenon DEF Init, Held, Working, Idle
<1>2. Len(taskQueue) = 0 /\ Len(notReadyQueue) = 0 /\ worker.pc = "idle"
  BY Zenon DEF Init, Idle
<1>3. /\ QueuedRanges = {} /\ NotReadyRanges = {} /\ HeldRanges = {} /\ WorkerRanges = {}
      /\ PendingRanges = {}
  <2>1. QueuedRanges = {} /\ NotReadyRanges = {}
    BY <1>2 DEF QueuedRanges, NotReadyRanges, RangesOf
  <2>2. HeldRanges = {} /\ ReservedRanges = {} BY <1>1, Zenon DEF HeldRanges, ReservedRanges
  <2>3. WorkerRanges = {} BY <1>2, Zenon DEF WorkerRanges
  <2> QED BY <2>1, <2>2, <2>3, Zenon DEF PendingRanges
<1>4. TypeOK
  <2>1. taskQueue \in Seq(Task) /\ notReadyQueue \in Seq(Task) BY DEF Init
  <2>2. call \in [Caller -> {Idle} \cup CallRecord] BY Zenon DEF Init
  <2>4. cursor \in [Cursor -> {"new", "open", "closed"}] BY Zenon DEF Init
  <2> QED BY <2>1, <2>2, <2>4, Zenon DEF Init, TypeOK, CallRecord
<1>5. Reserved BY <1>3, Zenon DEF Init, Reserved
<1>6. OnePlace
  <2>1. Distinct(taskQueue) /\ Distinct(notReadyQueue) BY <1>2 DEF Distinct
  <2> QED BY <1>1, <1>3, <2>1, Zenon DEF OnePlace
<1>7. Unlisted BY Zenon DEF Init, Unlisted
<1>8. Spared
  <2>1. \A c \in Caller : CallSpared(call[c], cursor) BY Zenon DEF Init, CallSpared, Idle
  <2> QED BY <1>2, <2>1 DEF Spared, ReadySpared, NotReadySpared, WorkerSpared
<1>9. Counted
  <2>1. Cardinality({}) = 0 BY FS_EmptySet, Zenon
  <2>2. Busy = 0 BY <1>2, Zenon DEF Busy
  <2> QED BY <1>1, <1>3, <2>1, <2>2 DEF Init, Counted
<1> QED BY <1>4, <1>5, <1>6, <1>7, <1>8, <1>9, Zenon DEF IInv

\* Every step of the threads that run queueDelete(), deleteNow(), doWork() and
\* stopWorkers() keeps each range in one place, off the black list and counted.
THEOREM Invariance == Spec => []IInv
<1>1. Init => IInv BY InitInvariant, Zenon
<1>2. IInv /\ [Next]_vars => IInv'
  <2> SUFFICES ASSUME TypeOK, Places, Unlisted, Spared, [Next]_vars
               PROVE  TypeOK' /\ Places' /\ Unlisted' /\ Spared'
    BY Zenon DEF IInv, Places
  <2>1. OnePlace BY Zenon DEF Places
  <2>2. Places' BY PlacesStep, Zenon
  <2>3. TypeOK' BY <2>1, <2>2, TypeStep, Zenon
  <2>4. Unlisted' BY UnlistedStep, Zenon
  <2>5. Spared' BY <2>1, SparedStep, Zenon
  <2> QED BY <2>2, <2>3, <2>4, <2>5, Zenon
<1> QED BY <1>1, <1>2, PTL DEF Spec

\* The variables of RangeDeleter keep their types; the counters never go below
\* zero, although every critical section only adds and subtracts.
THEOREM TypeCorrect == Spec => []TypeOK
<1>1. IInv => TypeOK BY Zenon DEF IInv
<1> QED BY <1>1, Invariance, PTL

\* The tasks of S are known by their range, and R is the set of their ranges.
KnownByRange(S, R) ==
    /\ \A p \in S : p[3].range \in R
    /\ \A r \in R : \E p \in S : p[3].range = r
    /\ \A p, q \in S : p[3].range = q[3].range => p = q

\* S holds the tasks of g with their place, and R their ranges.
PlaceOf(tag, I, g, S, R) ==
    /\ \A i, j \in I : g[i].range = g[j].range => i = j
    /\ S = {<<tag, i, g[i]>> : i \in I}
    /\ R = {g[i].range : i \in I}

LEMMA Tagged ==
    ASSUME NEW tag, NEW I, NEW g, NEW S, NEW R, PlaceOf(tag, I, g, S, R)
    PROVE  KnownByRange(S, R)
<1>0. /\ \A i, j \in I : g[i].range = g[j].range => i = j
      /\ S = {<<tag, i, g[i]>> : i \in I}
      /\ R = {g[i].range : i \in I}
  BY Zenon DEF PlaceOf
<1>1. ASSUME NEW p \in S PROVE \E i \in I : p = <<tag, i, g[i]>> /\ p[3] = g[i]
  <2>1. PICK i \in I : p = <<tag, i, g[i]>> BY <1>0, Zenon
  <2>2. p[3] = g[i] BY <2>1, Zenon
  <2> QED BY <2>1, <2>2, Zenon
<1>2. ASSUME NEW i \in I PROVE \E p \in S : p[3] = g[i]
  <2>1. <<tag, i, g[i]>> \in S BY <1>0, Zenon
  <2>2. <<tag, i, g[i]>>[3] = g[i] BY Zenon
  <2> QED BY <2>1, <2>2, Zenon
<1>3. \A p \in S : p[3].range \in R BY <1>0, <1>1, Zenon
<1>4. \A r \in R : \E p \in S : p[3].range = r BY <1>0, <1>2
<1>5. \A p, q \in S : p[3].range = q[3].range => p = q BY <1>0, <1>1
<1> QED BY <1>3, <1>4, <1>5, Zenon DEF KnownByRange

\* Tasks, as the ranges in each place see it.
LEMMA TaskPlaces ==
    ASSUME TypeOK, Reserved, OnePlace
    PROVE  KnownByRange(Tasks, deleteSet)
<1> DEFINE A == {<<"task", i, taskQueue[i]>> : i \in DOMAIN taskQueue}
           B == {<<"notReady", i, notReadyQueue[i]>> : i \in DOMAIN notReadyQueue}
           C == {<<"call", c, call[c].task>> : c \in Held}
           D == IF worker.pc = "delete" THEN {<<"worker", 0, worker.task>>} ELSE {}
<1>0. Tasks = A \cup B \cup C \cup D BY Zenon DEF Tasks
<1>1. DOMAIN taskQueue = 1..Len(taskQueue) /\ DOMAIN notReadyQueue = 1..Len(notReadyQueue)
  BY DEF TypeOK
<1>2. KnownByRange(A, QueuedRanges)
  <2>1. \A i, j \in DOMAIN taskQueue : taskQueue[i].range = taskQueue[j].range => i = j
    BY <1>1, Zenon DEF OnePlace, Distinct
  <2>2. QueuedRanges = {taskQueue[i].range : i \in DOMAIN taskQueue}
    BY <1>1, Zenon DEF QueuedRanges, RangesOf
  <2>3. PlaceOf("task", DOMAIN taskQueue, taskQueue, A, QueuedRanges)
    BY <2>1, <2>2, Zenon DEF PlaceOf
  <2> HIDE DEF A
  <2> QED BY <2>3, Tagged, Zenon
<1>3. KnownByRange(B, NotReadyRanges)
  <2>1. \A i, j \in DOMAIN notReadyQueue :
           notReadyQueue[i].range = notReadyQueue[j].range => i = j
    BY <1>1, Zenon DEF OnePlace, Distinct
  <2>2. NotReadyRanges = {notReadyQueue[i].range : i \in DOMAIN notReadyQueue}
    BY <1>1, Zenon DEF NotReadyRanges, RangesOf
  <2>3. PlaceOf("notReady", DOMAIN notReadyQueue, notReadyQueue, B, NotReadyRanges)
    BY <2>1, <2>2, Zenon DEF PlaceOf
  <2> HIDE DEF B
  <2> QED BY <2>3, Tagged, Zenon
<1>4. KnownByRange(C, HeldRanges)
  <2> DEFINE g == [c \in Held |-> call[c].task]
  <2>1. \A c \in Held : g[c] = call[c].task BY Zenon
  <2> HIDE DEF g
  <2>2. C = {<<"call", c, g[c]>> : c \in Held} BY <2>1, Zenon
  <2>3. HeldRanges = {g[c].range : c \in Held} BY <2>1, Zenon DEF HeldRanges
  <2>4. \A c, d \in Held : g[c].range = g[d].range => c = d BY <2>1 DEF OnePlace
  <2> HIDE DEF C
  <2>5. PlaceOf("call", Held, g, C, HeldRanges) BY <2>2, <2>3, <2>4, Zenon DEF PlaceOf
  <2> QED BY <2>5, Tagged, Zenon
<1>5. KnownByRange(D, WorkerRanges)
  <2>1. CASE worker.pc = "delete"
    <3>1. D = {<<"worker", 0, worker.task>>} /\ WorkerRanges = {worker.task.range}
      BY <2>1, Zenon DEF WorkerRanges
    <3> HIDE DEF D
    <3> QED BY <3>1 DEF KnownByRange
  <2>2. CASE worker.pc # "delete"
    BY <2>2, Zenon DEF WorkerRanges, KnownByRange
  <2> QED BY <2>1, <2>2, Zenon
<1> HIDE DEF A, B, C, D
<1>6. ASSUME NEW p \in Tasks
      PROVE  /\ p \in A \/ p \in B \/ p \in C \/ p \in D
             /\ p[3].range \in deleteSet
  BY <1>0, <1>2, <1>3, <1>4, <1>5, Zenon DEF Reserved, KnownByRange
<1>7. ASSUME NEW r \in deleteSet PROVE \E p \in Tasks : p[3].range = r
  BY <1>0, <1>2, <1>3, <1>4, <1>5, Zenon DEF Reserved, KnownByRange
<1>8. ASSUME NEW p \in Tasks, NEW q \in Tasks, NEW r, p[3].range = r, q[3].range = r
      PROVE  p = q
  <2>1. /\ p \in A => r \in QueuedRanges
        /\ p \in B => r \in NotReadyRanges
        /\ p \in C => r \in HeldRanges
        /\ p \in D => r \in WorkerRanges
    BY <1>2, <1>3, <1>4, <1>5, <1>8 DEF KnownByRange
  <2>2. /\ q \in A => r \in QueuedRanges
        /\ q \in B => r \in NotReadyRanges
        /\ q \in C => r \in HeldRanges
        /\ q \in D => r \in WorkerRanges
    BY <1>2, <1>3, <1>4, <1>5, <1>8 DEF KnownByRange
  <2>3. /\ r \in QueuedRanges => r \notin NotReadyRanges /\ r \notin HeldRanges
        /\ r \in NotReadyRanges => r \notin HeldRanges
        /\ r \in WorkerRanges => /\ r \notin QueuedRanges /\ r \notin NotReadyRanges
                                 /\ r \notin HeldRanges
    BY Zenon DEF OnePlace
  <2>4. \/ p \in A /\ q \in A
        \/ p \in B /\ q \in B
        \/ p \in C /\ q \in C
        \/ p \in D /\ q \in D
    BY <1>6, <2>1, <2>2, <2>3, Zenon
  <2> QED BY <1>2, <1>3, <1>4, <1>5, <1>8, <2>4 DEF KnownByRange
<1> QED BY <1>6, <1>7, <1>8, Zenon DEF KnownByRange

\* Sets in one-to-one correspondence have the same size.
LEMMA SameSize ==
    ASSUME NEW S, NEW T, IsFiniteSet(T), NEW f \in [S -> T],
           \A a, b \in S : f[a] = f[b] => a = b,
           \A y \in T : \E x \in S : f[x] = y
    PROVE  Cardinality(T) = Cardinality(S)
<1>1. f \in Injection(S, T) BY Zenon DEF Injection, IsInjective
<1>2. f \in Surjection(S, T) BY Zenon DEF Surjection
<1> QED BY <1>1, <1>2, FS_Injection, Zenon

\* _deleteSet holds exactly the ranges of the deletes that are accepted and not
\* over, each of which is in one place only: no two threads delete one range.
THEOREM NoRangeTwice == Spec => []DeleteSetIsExact
<1>1. IInv => DeleteSetIsExact
  <2> SUFFICES ASSUME IInv PROVE DeleteSetIsExact BY Zenon
  <2>1. TypeOK /\ Reserved /\ OnePlace BY Zenon DEF IInv
  <2>2. /\ deleteSet = {p[3].range : p \in Tasks}
        /\ \A p, q \in Tasks : p[3].range = q[3].range => p = q
    BY <2>1, TaskPlaces DEF KnownByRange
  <2>3. IsFiniteSet(deleteSet) BY <2>1, FinitePlaces, Zenon
  <2> DEFINE f == [p \in Tasks |-> p[3].range]
  <2>4. /\ f \in [Tasks -> deleteSet]
        /\ \A p, q \in Tasks : f[p] = f[q] => p = q
        /\ \A r \in deleteSet : \E p \in Tasks : f[p] = r
    BY <2>2, Zenon
  <2> HIDE DEF f
  <2>5. Cardinality(deleteSet) = Cardinality(Tasks) BY <2>3, <2>4, SameSize, Zenon
  <2> QED BY <2>2, <2>5, Zenon DEF DeleteSetIsExact
<1> QED BY <1>1, Invariance, PTL

\* A range that is being received (black listed) overlaps no delete, queued,
\* running or on its way to a queue.
THEOREM BlackListKept == Spec => []BlackListDisjoint
<1>1. IInv => BlackListDisjoint
  <2> SUFFICES ASSUME IInv PROVE BlackListDisjoint OBVIOUS
  <2>1. TypeOK /\ Reserved /\ OnePlace /\ Unlisted BY Zenon DEF IInv
  <2>2. \A p \in Tasks : p[3].range \in deleteSet BY <2>1, TaskPlaces, Zenon DEF KnownByRange
  <2> QED BY <2>1, <2>2, Zenon DEF BlackListDisjoint, Unlisted
<1> QED BY <1>1, Invariance, PTL

\* deleteRange() runs, on the worker or in deleteNow(), only after every cursor
\* is closed that was open when the delete was accepted.
THEOREM NoOpenCursorLosesDocuments == Spec => []CursorsAreSpared
<1>1. IInv => CursorsAreSpared
  <2> SUFFICES ASSUME IInv PROVE CursorsAreSpared OBVIOUS
  <2>1. TypeOK /\ Spared BY Zenon DEF IInv
  <2>2. ASSUME NEW t, Spares(t, cursor), t.cursorsToWait = {}
        PROVE  t.openBefore \cap openCursors = {}
    BY <2>2, Zenon DEF Spares, openCursors
  <2>3. \A c \in Caller : call[c].pc = "delete" => call[c].task.openBefore \cap openCursors = {}
    BY <2>1, <2>2, Zenon DEF Spared, CallSpared
  <2>4. worker.pc = "delete" => worker.task.openBefore \cap openCursors = {}
    BY <2>1, <2>2, Zenon DEF Spared, WorkerSpared
  <2> QED BY <2>3, <2>4, Zenon DEF CursorsAreSpared
<1> QED BY <1>1, Invariance, PTL

\* The counters agree with what there is to count, so stopWorkers(), which waits
\* for _inProgressDeletes to become zero, waits for every delete that runs.
THEOREM CountersAgree == Spec => []StatsAgree
<1>1. IInv => StatsAgree
  <2> SUFFICES ASSUME IInv PROVE StatsAgree OBVIOUS
  <2>1. Counted /\ TypeOK BY Zenon DEF IInv
  <2>2. pendingDeletes = totalDeletes - inProgressDeletes BY <2>1 DEF Counted, TypeOK
  <2> QED BY <2>1, <2>2, Zenon DEF StatsAgree, Counted, Busy
<1> QED BY <1>1, Invariance, PTL

=============================================================================
