-------------------------- MODULE MigrationProofs --------------------------
(***************************************************************************)
(* Who takes writes for a chunk, for every number of shards, documents,    *)
(* moves, writes and failures; and the types of the whole state.           *)
(***************************************************************************)
EXTENDS Migration, TLAPS

Start == {"scan", "start", "wait", "check"}
Pc == Start \union CriticalSection \union {"idle", "done", "dead"}

MetaType == [version : Nat, owns : BOOLEAN, pending : BOOLEAN]
MoveType == [pc : Pc, from : Shard \union {NoShard}, to : Shard \union {NoShard},
             version : Nat]

\* The types that the argument needs.
Typed ==
    /\ owners \in Seq(Shard) /\ Len(owners) > 0
    /\ move \in MoveType
    /\ meta \in [Shard -> MetaType]
    /\ loaded \in [Shard -> Nat]
    /\ \A t \in Shard : loaded[t] <= Version

\* moveChunk works from the current version, until its own commit.
MoveAgrees ==
    /\ move.pc \in Start \union (CriticalSection \ {"confirm"}) =>
          move.version = Version
    /\ move.pc = "confirm" => move.version \in {Version, Version - 1}
    /\ move.pc \in Start \union CriticalSection /\ move.version = Version =>
          move.from = Owner /\ move.to \in Shard \ {Owner}
    /\ move.pc \in CriticalSection => move.from \in Shard

\* The donor of a move that is not committed has stopped, at the next version.
Stopped ==
    move.pc \in CriticalSection /\ move.version = Version =>
        ~meta[Owner].owns /\ meta[Owner].version = Version + 1

\* Nobody else is ahead of the config servers.
NotAhead ==
    \A t \in Shard : \/ meta[t].version <= Version
                     \/ /\ t = Owner /\ move.version = Version
                        /\ move.pc \in CriticalSection

\* Whoever knows the newest version knows if it has the chunk.
NewestServes == meta[Owner].version = Version => meta[Owner].owns

\* A load that found the chunk here is current, or comes too late.
LoadIsFresh ==
    \A t \in Shard : loaded[t] # 0 /\ owners[loaded[t]] = t =>
        loaded[t] = Version \/ loaded[t] < meta[t].version

IInv ==
    /\ Typed /\ MoveAgrees /\ Stopped /\ NotAhead /\ NewestServes /\ LoadIsFresh
    /\ AcceptedByOwnerOnly

-----------------------------------------------------------------------------

LEMMA InitIInv == Init => IInv
<1> SUFFICES ASSUME Init PROVE IInv
    BY Zenon
<1>1. Owner = Home /\ Version = 1
    BY MigrationAssumption, Zenon DEF Init, Owner, Version
<1>2. \A s \in Shard : meta[s].version = 1 /\ (meta[s].owns <=> s = Home)
    BY Zenon DEF Init
<1>3. meta \in [Shard -> MetaType] /\ loaded = [s \in Shard |-> 0]
    BY Zenon DEF Init, MetaType
<1>4. move \in MoveType /\ move.pc = "idle"
    BY Zenon DEF Init, Idle, MoveType, Pc
<1>5. owners \in Seq(Shard) /\ Len(owners) > 0
    BY MigrationAssumption DEF Init
<1>6. Typed
    BY <1>1, <1>3, <1>4, <1>5 DEF Typed
<1>7. MoveAgrees /\ Stopped
    BY <1>4, Zenon DEF MoveAgrees, Stopped, Start, CriticalSection
<1>8. NotAhead /\ NewestServes
    BY <1>1, <1>2, <1>3, MigrationAssumption DEF NotAhead, NewestServes
<1>9. LoadIsFresh
    BY <1>3, Zenon DEF LoadIsFresh
<1>10. AcceptedByOwnerOnly
    BY <1>1, <1>2, Zenon DEF AcceptedByOwnerOnly
<1> QED
    BY <1>6, <1>7, <1>8, <1>9, <1>10, Zenon DEF IInv

\* A step that touches neither the config servers, moveChunk nor metadata.
LEMMA FrameStep ==
    ASSUME IInv, UNCHANGED <<owners, move, meta, loaded>>
    PROVE  IInv'
BY Zenon DEF IInv, Typed, MoveAgrees, Stopped, NotAhead, NewestServes, LoadIsFresh,
       AcceptedByOwnerOnly, Owner, Version

\* moveChunk goes from one step to the next without a commit.
LEMMA PcStep ==
    ASSUME IInv, NEW p, Go(p), UNCHANGED <<owners, meta, loaded>>,
           \/ move.pc \in Start /\ p \in Start
           \/ move.pc \in CriticalSection \ {"confirm"} /\ p \in CriticalSection
           \/ move.pc = "confirm" /\ move.version # Version /\ p = "done"
    PROVE  IInv'
<1>1. move \in MoveType /\ p \in Pc
    BY Zenon DEF IInv, Typed, Pc, Start, CriticalSection
<1>2. /\ move' \in MoveType /\ move'.pc = p
      /\ move'.from = move.from /\ move'.to = move.to /\ move'.version = move.version
    BY <1>1, Zenon DEF Go, MoveType
<1>3. Owner' = Owner /\ Version' = Version
    BY Zenon DEF Owner, Version
<1>4. Version \in Nat /\ Typed'
    BY <1>2, <1>3 DEF IInv, Typed, Version
<1>5. MoveAgrees'
    BY <1>2, <1>3, <1>4, Zenon DEF IInv, MoveAgrees, Start, CriticalSection
<1>6. Stopped' /\ NotAhead'
    BY <1>2, <1>3, <1>4, Zenon DEF IInv, Stopped, NotAhead, MoveAgrees, Start, CriticalSection
<1> QED
    BY <1>2, <1>3, <1>4, <1>5, <1>6, Zenon
    DEF IInv, NewestServes, LoadIsFresh, AcceptedByOwnerOnly

\* moveChunk returns from outside of the critical section.
LEMMA ReturnStep ==
    ASSUME IInv, move' = Idle, UNCHANGED <<owners, meta, loaded>>,
           move.pc \notin CriticalSection
    PROVE  IInv'
<1>1. Owner' = Owner /\ Version' = Version
    BY Zenon DEF Owner, Version
<1>2. move'.pc = "idle" /\ Typed'
    BY <1>1, Zenon DEF IInv, Typed, Idle, MoveType, Pc
<1> QED
    BY <1>1, <1>2, Zenon
    DEF IInv, MoveAgrees, Stopped, NotAhead, NewestServes, LoadIsFresh,
        AcceptedByOwnerOnly, Start, CriticalSection

\* Only the pending mark of a shard changes.
LEMMA PendingStep ==
    ASSUME IInv, NEW s \in Shard, NEW b \in BOOLEAN,
           meta' = [meta EXCEPT ![s].pending = b], UNCHANGED <<owners, move, loaded>>
    PROVE  IInv'
<1>1. Owner' = Owner /\ Version' = Version
    BY Zenon DEF Owner, Version
<1>2. /\ meta' \in [Shard -> MetaType]
      /\ \A t \in Shard : meta'[t].owns = meta[t].owns /\ meta'[t].version = meta[t].version
    BY Zenon DEF IInv, Typed, MetaType
<1>3. Owner \in Shard
    BY DEF IInv, Typed, Owner, Version
<1>4. Typed' /\ MoveAgrees'
    BY <1>1, <1>2, Zenon DEF IInv, Typed, MoveAgrees
<1> QED
    BY <1>1, <1>2, <1>3, <1>4, Zenon
    DEF IInv, Stopped, NotAhead, NewestServes, LoadIsFresh, AcceptedByOwnerOnly

\* A shard refreshes, and moveChunk stays outside of the critical section or
\* where it is.
LEMMA RefreshStep ==
    ASSUME IInv, NEW s \in Shard, NEW v \in 1 .. Version,
           meta' = [meta EXCEPT ![s] = Refreshed(s, v)],
           owners[v] = s /\ v > meta[s].version => v = Version,
           owners' = owners,
           loaded' \in [Shard -> Nat],
           \A t \in Shard : loaded'[t] \in {0, loaded[t]},
           \/ move' = move
           \/ /\ move' \in MoveType /\ MoveAgrees'
              /\ move.pc \notin CriticalSection /\ move'.pc \notin CriticalSection
    PROVE  IInv'
<1>1. Owner' = Owner /\ Version' = Version /\ Owner \in Shard /\ Version \in Nat \ {0}
    BY DEF IInv, Typed, Owner, Version
<1>2. meta \in [Shard -> MetaType] /\ owners[v] \in Shard
    BY DEF IInv, Typed, Version
<1>3. \A t \in Shard : meta[t] \in MetaType /\ (t # s => meta'[t] = meta[t])
    BY <1>2, Zenon
<1>a. \A t \in Shard : loaded'[t] <= Version
  <2>1. \A t \in Shard : loaded[t] <= Version
    BY Zenon DEF IInv, Typed
  <2> SUFFICES ASSUME NEW t \in Shard PROVE loaded'[t] <= Version
    BY Zenon
  <2>2. loaded[t] <= Version /\ loaded'[t] \in {0, loaded[t]}
    BY <2>1, Zenon
  <2>3. 0 <= Version
    BY <1>1
  <2> QED
    BY <2>2, <2>3, Zenon
<1>b. move' \in MoveType /\ owners' \in Seq(Shard) /\ Len(owners') > 0
    BY Zenon DEF IInv, Typed
<1>4. CASE v <= meta[s].version
  <2>1. Refreshed(s, v) = meta[s]
    BY <1>1, <1>3, <1>4 DEF Refreshed, MetaType
  <2>2. meta' = meta
    BY <1>2, <2>1, Zenon
  <2>3. Typed' /\ MoveAgrees'
    <3>1. Typed'
      BY <1>1, <1>2, <1>a, <1>b, <2>2, Zenon DEF Typed
    <3>2. MoveAgrees'
      BY <1>1, Zenon DEF IInv, MoveAgrees
    <3> QED
      BY <3>1, <3>2, Zenon
  <2>4. LoadIsFresh'
    BY <1>1, <2>2, Zenon DEF IInv, LoadIsFresh
  <2>5. Stopped' /\ NotAhead'
    BY <1>1, <2>2, Zenon DEF IInv, Stopped, NotAhead
  <2> QED
    BY <1>1, <2>2, <2>3, <2>4, <2>5, Zenon DEF IInv, NewestServes, AcceptedByOwnerOnly
<1>5. CASE v > meta[s].version
  <2>1. /\ meta'[s].version = v /\ meta'[s].owns = (owners[v] = s)
        /\ meta'[s] \in MetaType
    BY <1>1, <1>2, <1>3, <1>5 DEF Refreshed, MetaType
  <2>2. meta' \in [Shard -> MetaType]
    BY <1>2, <2>1, Zenon
  <2>3. Typed'
    BY <1>1, <1>a, <1>b, <2>2, Zenon DEF Typed
  <2>4. MoveAgrees'
    BY <1>1 DEF IInv, MoveAgrees
  <2>5. meta'[s].owns => s = Owner /\ v = Version
    BY <1>5, <2>1, Zenon DEF Owner
  <2>6. move'.pc \in CriticalSection /\ move'.version = Version => s # Owner /\ move' = move
    BY <1>1, <1>3, <1>5 DEF IInv, Stopped, MetaType
  <2>7. Stopped'
    BY <1>1, <1>3, <2>6, Zenon DEF IInv, Stopped
  <2>8. NotAhead'
    BY <1>1, <1>3, <2>1 DEF IInv, NotAhead
  <2>9. NewestServes'
    <3> SUFFICES ASSUME meta'[Owner].version = Version PROVE meta'[Owner].owns
      BY <1>1, Zenon DEF NewestServes
    <3>1. CASE s # Owner
      BY <1>1, <1>3, <3>1, Zenon DEF IInv, NewestServes
    <3>2. CASE s = Owner
      BY <2>1, <3>2, Zenon DEF Owner
    <3> QED
      BY <3>1, <3>2, Zenon
  <2>10. LoadIsFresh'
    <3> SUFFICES ASSUME NEW t \in Shard, loaded'[t] # 0, owners[loaded'[t]] = t
                 PROVE  loaded'[t] = Version \/ loaded'[t] < meta'[t].version
      BY <1>1, Zenon DEF LoadIsFresh
    <3>1. loaded'[t] = loaded[t] /\ loaded[t] \in Nat
      BY Zenon DEF IInv, Typed
    <3>2. loaded[t] = Version \/ loaded[t] < meta[t].version
      BY <3>1, Zenon DEF IInv, LoadIsFresh
    <3> QED
      BY <1>1, <1>3, <1>5, <2>1, <3>1, <3>2 DEF MetaType
  <2>11. AcceptedByOwnerOnly'
    BY <1>1, <1>3, <2>5, Zenon DEF IInv, AcceptedByOwnerOnly
  <2> QED
    BY <2>3, <2>4, <2>7, <2>8, <2>9, <2>10, <2>11, Zenon DEF IInv
<1> QED
    BY <1>1, <1>3, <1>4, <1>5 DEF MetaType

\* A shard forgets everything; if it is the donor, its command is dead.
LEMMA LoseStep ==
    ASSUME IInv, NEW s \in Shard, Lose(s), owners' = owners
    PROVE  IInv'
<1>1. Owner' = Owner /\ Version' = Version /\ Owner \in Shard /\ Version \in Nat \ {0}
    BY DEF IInv, Typed, Owner, Version
<1>2. /\ meta' = [meta EXCEPT ![s] = NoMeta]
      /\ loaded' = [loaded EXCEPT ![s] = 0]
      /\ IF move.from = s THEN move' = [move EXCEPT !.pc = "dead"] ELSE move' = move
    BY Zenon DEF Lose, Go
<1>3. /\ meta' \in [Shard -> MetaType] /\ loaded' \in [Shard -> Nat]
      /\ meta'[s].version = 0 /\ ~meta'[s].owns /\ loaded'[s] = 0
      /\ \A t \in Shard \ {s} : meta'[t] = meta[t] /\ loaded'[t] = loaded[t]
    BY <1>2, Zenon DEF IInv, Typed, NoMeta, MetaType
<1>4. /\ move' \in MoveType
      /\ move'.from = move.from /\ move'.to = move.to /\ move'.version = move.version
      /\ IF move.from = s THEN move'.pc = "dead" ELSE move'.pc = move.pc
    BY <1>2, Zenon DEF IInv, Typed, MoveType, Pc
<1>5. Typed'
  <2>a. \A t \in Shard : loaded[t] <= Version
    BY Zenon DEF IInv, Typed
  <2>1. \A t \in Shard : loaded'[t] <= Version
    BY <1>1, <1>3, <2>a
  <2>2. owners' \in Seq(Shard) /\ Len(owners') > 0
    BY Zenon DEF IInv, Typed
  <2> QED
    BY <1>1, <1>3, <1>4, <2>1, <2>2, Zenon DEF Typed
<1>6. MoveAgrees'
    BY <1>1, <1>4, Zenon DEF IInv, MoveAgrees, Start, CriticalSection
<1>7. Stopped' /\ NotAhead'
    BY <1>1, <1>3, <1>4 DEF IInv, Stopped, NotAhead, MoveAgrees, Start, CriticalSection
<1>8. NewestServes' /\ LoadIsFresh' /\ AcceptedByOwnerOnly'
    BY <1>1, <1>3, Zenon DEF IInv, NewestServes, LoadIsFresh, AcceptedByOwnerOnly
<1> QED
    BY <1>5, <1>6, <1>7, <1>8, Zenon DEF IInv

\* The metadata of the owner changes at the start or at the end of the critical
\* section, and moveChunk with it.
LEMMA DonateStep ==
    ASSUME IInv, DonateChunk PROVE IInv'
<1>1. Owner' = Owner /\ Version' = Version /\ Owner \in Shard /\ Version \in Nat \ {0}
    BY DEF IInv, Typed, Owner, Version, DonateChunk
<1>2. move.pc = "check" /\ move.from = Owner /\ move.version = Version
      /\ move.to \in Shard \ {Owner} /\ move \in MoveType /\ owners' = owners /\ loaded' = loaded
    BY Zenon DEF DonateChunk, At, IInv, Typed, MoveAgrees, Start, CriticalSection
<1>3. CASE from.cloneLocs # {}
    BY <1>2, <1>3, ReturnStep, Zenon DEF DonateChunk, Return, CriticalSection
<1>4. CASE from.cloneLocs = {}
  <2>1. /\ meta' = [meta EXCEPT ![Owner] =
                        [version |-> Version + 1, owns |-> FALSE,
                         pending |-> meta[Owner].pending]]
        /\ move' = [move EXCEPT !.pc = "commit"]
    BY <1>2, <1>4, Zenon DEF DonateChunk, Go
  <2>2. /\ meta' \in [Shard -> MetaType]
        /\ ~meta'[Owner].owns /\ meta'[Owner].version = Version + 1
        /\ \A t \in Shard \ {Owner} : meta'[t] = meta[t]
    <3>1. meta \in [Shard -> MetaType] /\ meta[Owner] \in MetaType
      BY <1>1, Zenon DEF IInv, Typed
    <3> DEFINE new == [version |-> Version + 1, owns |-> FALSE,
                       pending |-> meta[Owner].pending]
    <3>2. meta' = [meta EXCEPT ![Owner] = new]
      BY <2>1, Zenon
    <3>3. new \in MetaType /\ new.version = Version + 1 /\ ~new.owns
      BY <1>1, <3>1 DEF MetaType
    <3> HIDE DEF new
    <3> QED
      BY <1>1, <3>1, <3>2, <3>3, Zenon
  <2>3. /\ move' \in MoveType /\ move'.pc = "commit"
        /\ move'.from = Owner /\ move'.to = move.to /\ move'.version = Version
    <3>1. "commit" \in Pc
      BY Zenon DEF Pc, CriticalSection
    <3> QED
      BY <1>2, <2>1, <3>1, Zenon DEF MoveType
  <2>4. Typed'
    BY <1>1, <1>2, <2>2, <2>3, Zenon DEF IInv, Typed
  <2>5. MoveAgrees' /\ Stopped'
    BY <1>1, <1>2, <2>2, <2>3, Zenon DEF MoveAgrees, Stopped, Start, CriticalSection
  <2>6. NotAhead'
    <3>1. \A t \in Shard : meta[t].version <= Version
      BY <1>2, Zenon DEF IInv, NotAhead, CriticalSection
    <3> QED
      BY <1>1, <2>2, <2>3, <3>1, Zenon DEF NotAhead, CriticalSection
  <2>7. NewestServes' /\ AcceptedByOwnerOnly'
    BY <1>1, <2>2 DEF IInv, NewestServes, AcceptedByOwnerOnly
  <2>8. LoadIsFresh'
    <3>1. \A t \in Shard : loaded[t] \in Nat /\ loaded[t] <= Version
      BY Zenon DEF IInv, Typed
    <3>2. \A t \in Shard : loaded[t] # 0 /\ owners[loaded[t]] = t /\ t # Owner =>
             loaded[t] = Version \/ loaded[t] < meta'[t].version
      BY <2>2, Zenon DEF IInv, LoadIsFresh
    <3> QED
      BY <1>1, <1>2, <2>2, <3>1, <3>2 DEF LoadIsFresh
  <2> QED
    BY <2>4, <2>5, <2>6, <2>7, <2>8, Zenon DEF IInv
<1> QED
    BY <1>3, <1>4, Zenon

LEMMA UndoStep ==
    ASSUME IInv, UndoDonateChunk PROVE IInv'
<1>1. Owner' = Owner /\ Version' = Version /\ Owner \in Shard /\ Version \in Nat \ {0}
    BY DEF IInv, Typed, Owner, Version, UndoDonateChunk
<1>2. move.from = Owner /\ move.version = Version /\ owners' = owners /\ loaded' = loaded
    BY Zenon DEF UndoDonateChunk, At, IInv, MoveAgrees, Start, CriticalSection
<1>3. move' = Idle /\ move'.pc = "idle" /\ move' \in MoveType
    BY Zenon DEF UndoDonateChunk, Return, Idle, MoveType, Pc
<1>4. meta' = [meta EXCEPT ![Owner] = [version |-> Version, owns |-> TRUE, pending |-> FALSE]]
    BY <1>2, Zenon DEF UndoDonateChunk
<1>5. /\ meta' \in [Shard -> MetaType]
      /\ meta'[Owner].owns /\ meta'[Owner].version = Version
      /\ \A t \in Shard \ {Owner} : meta'[t] = meta[t]
    BY <1>1, <1>4, Zenon DEF IInv, Typed, MetaType
<1>6. Typed'
    BY <1>1, <1>2, <1>3, <1>5, Zenon DEF IInv, Typed
<1>7. MoveAgrees' /\ Stopped'
    BY <1>3, Zenon DEF MoveAgrees, Stopped, Start, CriticalSection
<1>8. NotAhead' /\ NewestServes' /\ AcceptedByOwnerOnly'
    BY <1>1, <1>5 DEF IInv, NotAhead, NewestServes, AcceptedByOwnerOnly
<1>9. LoadIsFresh'
    BY <1>1, <1>2, <1>5 DEF IInv, LoadIsFresh, Typed
<1> QED
    BY <1>6, <1>7, <1>8, <1>9, Zenon DEF IInv

\* applyOps is applied: nobody takes writes, and the recipient is behind.
LEMMA CommitStep ==
    ASSUME IInv, move.pc = "config", owners' = Append(owners, move.to),
           NEW p \in {"done", "confirm"}, Go(p), UNCHANGED <<meta, loaded>>
    PROVE  IInv'
<1>1. Owner \in Shard /\ Version \in Nat \ {0} /\ Version = Len(owners)
    BY DEF IInv, Typed, Owner, Version
<1>2. move.from = Owner /\ move.version = Version /\ move.to \in Shard \ {Owner}
    BY Zenon DEF IInv, MoveAgrees, Start, CriticalSection
<1>3. ~meta[Owner].owns /\ meta[Owner].version = Version + 1
    BY <1>2, Zenon DEF IInv, Stopped, CriticalSection
<1>4. /\ owners' \in Seq(Shard) /\ Version' = Version + 1 /\ Owner' = move.to
      /\ \A i \in 1 .. Version : owners'[i] = owners[i]
    BY <1>1, <1>2 DEF IInv, Typed, Owner, Version
<1>5. /\ move' \in MoveType /\ move'.pc = p /\ move'.version = Version
      /\ move'.from = Owner
    BY <1>2, Zenon DEF IInv, Typed, Go, MoveType, Pc, CriticalSection
<1>6. \A t \in Shard : /\ ~meta[t].owns
                       /\ t # Owner => meta[t].version <= Version
                       /\ meta[t] \in MetaType
    BY <1>3, Zenon DEF IInv, AcceptedByOwnerOnly, NotAhead, Typed
<1>7. Typed'
    BY <1>1, <1>4, <1>5 DEF IInv, Typed
<1>8. MoveAgrees' /\ Stopped'
    BY <1>1, <1>4, <1>5 DEF MoveAgrees, Stopped, Start, CriticalSection
<1>9. NotAhead'
    BY <1>1, <1>3, <1>4, <1>6 DEF NotAhead, MetaType
<1>10. NewestServes'
    BY <1>1, <1>2, <1>4, <1>6 DEF NewestServes, MetaType
<1>11. AcceptedByOwnerOnly'
    BY <1>6, Zenon DEF AcceptedByOwnerOnly
<1>12. LoadIsFresh'
  <2> SUFFICES ASSUME NEW t \in Shard, loaded[t] # 0, owners'[loaded[t]] = t
               PROVE  loaded[t] < meta[t].version
    BY Zenon DEF LoadIsFresh
  <2>1. loaded[t] \in 1 .. Version /\ owners[loaded[t]] = t
    BY <1>1, <1>4 DEF IInv, Typed
  <2>2. CASE loaded[t] = Version
    BY <1>1, <1>3, <2>1, <2>2 DEF Owner
  <2>3. CASE loaded[t] # Version
    BY <2>1, <2>3, Zenon DEF IInv, LoadIsFresh
  <2> QED
    BY <2>2, <2>3, Zenon
<1> QED
    BY <1>7, <1>8, <1>9, <1>10, <1>11, <1>12, Zenon DEF IInv

-----------------------------------------------------------------------------
LEMMA MoveStepIInv == IInv /\ MoveStep => IInv'
<1> SUFFICES ASSUME IInv, MoveStep PROVE IInv'
    BY Zenon
<1>t. /\ move \in MoveType /\ Version \in Nat \ {0} /\ Owner \in Shard
      /\ meta \in [Shard -> MetaType] /\ loaded \in [Shard -> Nat]
    BY DEF IInv, Typed, Version, Owner
<1>1. CASE StoreCurrentLocs
    BY <1>1, FrameStep, PcStep, Zenon DEF StoreCurrentLocs, At, Start
<1>2. CASE RecvChunkStart
  <2>1. owners' = owners /\ loaded' = loaded /\ move.pc = "start"
    BY <1>2, Zenon DEF RecvChunkStart, At
  <2>2. move.to \in Shard /\ Version' = Version /\ Owner' = Owner
    BY <2>1, Zenon DEF IInv, MoveAgrees, Start, CriticalSection, Version, Owner
  <2>3. move' = Idle \/ move' = [move EXCEPT !.pc = "wait"]
    BY <1>2, Zenon DEF RecvChunkStart, Go, Return
  <2>4. /\ move' \in MoveType
        /\ \/ move'.pc = "idle"
           \/ /\ move'.pc = "wait" /\ move'.from = move.from /\ move'.to = move.to
              /\ move'.version = move.version
    BY <1>t, <2>3 DEF Idle, MoveType, Pc, Start
  <2>5. MoveAgrees'
    BY <2>1, <2>2, <2>4, Zenon DEF IInv, MoveAgrees, Start, CriticalSection
  <2>6. CASE meta' = meta
    <3>1. CASE move' = Idle
      BY <2>1, <2>6, <3>1, ReturnStep, Zenon DEF CriticalSection
    <3>2. CASE Go("wait")
      BY <2>1, <2>6, <3>2, PcStep, Zenon DEF Start
    <3> QED
      BY <2>3, <3>1, <3>2, Zenon DEF Go
  <2>7. CASE meta' = [meta EXCEPT ![move.to] = Refreshed(move.to, Version)]
    <3>1. Version \in 1 .. Version
      BY <1>t
    <3>2. move.pc \notin CriticalSection /\ move'.pc \notin CriticalSection
      BY <2>1, <2>4, Zenon DEF CriticalSection
    <3> QED
      BY <1>t, <2>1, <2>2, <2>4, <2>5, <2>7, <3>1, <3>2, RefreshStep, Zenon
  <2> QED
    BY <1>2, <2>6, <2>7, Zenon DEF RecvChunkStart
<1>3. CASE RecvChunkStatus
    BY <1>3, PcStep, ReturnStep, Zenon DEF RecvChunkStatus, At, Return, Start, CriticalSection
<1>4. CASE DonateChunk
    BY <1>4, DonateStep, Zenon
<1>5. CASE StartCommit
    BY <1>5, PcStep, Zenon DEF StartCommit, At, CriticalSection
<1>6. CASE UndoDonateChunk
    BY <1>6, UndoStep
<1>7. CASE ApplyOps
  <2>1. move.pc = "config" /\ UNCHANGED <<meta, loaded>>
    BY <1>7, Zenon DEF ApplyOps, At
  <2>2. \/ owners' = Append(owners, move.to) /\ \E p \in {"done", "confirm"} : Go(p)
        \/ owners' = owners /\ \E p \in {"confirm", "undo"} : Go(p)
    BY <1>7, Zenon DEF ApplyOps
  <2> QED
    BY <2>1, <2>2, CommitStep, PcStep, Zenon DEF CriticalSection
<1>8. CASE ConfirmCommit
  <2>1. move.pc = "confirm" /\ owners' = owners
    BY <1>8, Zenon DEF ConfirmCommit, At
  <2>2. CASE Go("done") /\ Version = move.version + 1 /\ UNCHANGED <<meta, loaded>>
    <3>1. move.version \in Nat
      BY <1>t, Zenon DEF MoveType
    <3> QED
      BY <2>1, <2>2, <3>1, PcStep
  <2>3. CASE Lose(move.from)
    <3>1. move.from \in Shard
      BY <2>1, Zenon DEF IInv, MoveAgrees, CriticalSection
    <3> QED
      BY <2>1, <2>3, <3>1, LoseStep, Zenon
  <2> QED
    BY <1>8, <2>2, <2>3, Zenon DEF ConfirmCommit
<1>9. CASE QueueDelete
    BY <1>9, ReturnStep, Zenon DEF QueueDelete, At, Return, CriticalSection
<1>10. CASE LockExpires
    BY <1>10, ReturnStep, Zenon DEF LockExpires, At, CriticalSection
<1>11. CASE ReplyLost
    BY <1>11, PcStep, Zenon DEF ReplyLost, At, CriticalSection
<1> QED
    BY <1>1, <1>2, <1>3, <1>4, <1>5, <1>6, <1>7, <1>8, <1>9, <1>10, <1>11, Zenon DEF MoveStep

LEMMA RecvStepIInv ==
    ASSUME IInv, NEW t \in Shard, RecvStep(t) PROVE IInv'
<1>1. meta \in [Shard -> MetaType]
    BY Zenon DEF IInv, Typed
<1>2. CASE UNCHANGED <<owners, move, meta, loaded>>
    BY <1>2, FrameStep, Zenon
<1>3. CASE NotePending(t)
  <2> DEFINE ok == meta[t].version # 0 /\ ~meta[t].owns
  <2>1. meta' = [meta EXCEPT ![t].pending = meta[t].pending \/ ok]
    BY <1>1, <1>3, Zenon DEF NotePending
  <2>2. (meta[t].pending \/ ok) \in BOOLEAN
    BY Zenon
  <2> QED
    BY <1>3, <2>1, <2>2, PendingStep, Zenon DEF NotePending
<1>4. CASE ForgetPending(t)
  <2> DEFINE done == recv[t].state = "DONE"
  <2>1. meta' = [meta EXCEPT ![t].pending = meta[t].pending /\ done]
    BY <1>1, <1>4, Zenon DEF ForgetPending
  <2>2. (meta[t].pending /\ done) \in BOOLEAN
    BY Zenon
  <2> QED
    BY <1>4, <2>1, <2>2, PendingStep, Zenon DEF ForgetPending
<1>5. CASE RemoveRange(t) \/ BeginClone(t) \/ Clone(t) \/ CatchUp(t)
    BY <1>2, <1>5, Zenon DEF RemoveRange, BeginClone, Clone, CatchUp
<1>6. CASE EnterSteady(t) \/ SteadyTop(t) \/ SteadyPull(t) \/ SteadyTest(t) \/ ThreadEnds(t)
    BY <1>2, <1>6, Zenon DEF EnterSteady, SteadyTop, SteadyPull, SteadyTest, Tested, ThreadEnds
<1> QED
    BY <1>3, <1>4, <1>5, <1>6, Zenon DEF RecvStep

LEMMA StartMoveIInv ==
    ASSUME IInv, NEW s \in Shard, NEW t \in Shard, StartMove(s, t) PROVE IInv'
<1>1. /\ s = Owner /\ t # s /\ move.pc = "idle" /\ owners' = owners /\ loaded' = loaded
      /\ move' = [pc |-> "scan", from |-> s, to |-> t, version |-> Version]
      /\ meta' = [meta EXCEPT ![s] = Refreshed(s, Version)]
    BY Zenon DEF StartMove, At
<1>2. Version \in Nat \ {0} /\ Version' = Version /\ Owner' = Owner /\ loaded \in [Shard -> Nat]
    BY <1>1 DEF IInv, Typed, Version, Owner
<1>3. Version \in 1 .. Version
    BY <1>2
<1>4. move' \in MoveType /\ move.pc \notin CriticalSection /\ move'.pc \notin CriticalSection
    BY <1>1, <1>2, Zenon DEF MoveType, Pc, Start, CriticalSection
<1>5. MoveAgrees'
    BY <1>1, <1>2, Zenon DEF MoveAgrees, Start, CriticalSection
<1> QED
    BY <1>1, <1>2, <1>3, <1>4, <1>5, RefreshStep, Zenon

LEMMA MetadataIInv ==
    ASSUME IInv, NEW s \in Shard, LoadMetadata(s) \/ InstallMetadata(s) PROVE IInv'
<1>1. /\ loaded \in [Shard -> Nat] /\ meta \in [Shard -> MetaType] /\ Version \in Nat \ {0}
      /\ \A t \in Shard : loaded[t] <= Version
    BY DEF IInv, Typed, Version
<1>2. CASE LoadMetadata(s)
  <2>1. /\ loaded' = [loaded EXCEPT ![s] = Version] /\ UNCHANGED <<owners, move, meta>>
    BY <1>2, Zenon DEF LoadMetadata
  <2>2. Version' = Version /\ Owner' = Owner
    BY <2>1, Zenon DEF Version, Owner
  <2>3. loaded' \in [Shard -> Nat] /\ \A t \in Shard : loaded'[t] <= Version
    BY <1>1, <2>1
  <2>4. Typed'
    BY <2>1, <2>2, <2>3, Zenon DEF IInv, Typed
  <2>5. LoadIsFresh'
    <3> SUFFICES ASSUME NEW t \in Shard, loaded'[t] # 0, owners[loaded'[t]] = t
                 PROVE  loaded'[t] = Version \/ loaded'[t] < meta[t].version
      BY <2>1, <2>2, Zenon DEF LoadIsFresh
    <3> QED
      BY <1>1, <2>1, Zenon DEF IInv, LoadIsFresh
  <2> QED
    BY <2>1, <2>2, <2>4, <2>5, Zenon
    DEF IInv, MoveAgrees, Stopped, NotAhead, NewestServes, AcceptedByOwnerOnly
<1>3. CASE InstallMetadata(s)
  <2>1. /\ loaded[s] # 0 /\ UNCHANGED <<owners, move>>
        /\ meta' = [meta EXCEPT ![s] = Refreshed(s, loaded[s])]
        /\ loaded' = [loaded EXCEPT ![s] = 0]
    BY <1>3, Zenon DEF InstallMetadata
  <2>2. loaded[s] \in 1 .. Version
    BY <1>1, <2>1
  <2>3. owners[loaded[s]] = s /\ loaded[s] > meta[s].version => loaded[s] = Version
    BY <1>1, <2>1 DEF IInv, LoadIsFresh, MetaType
  <2>4. loaded' \in [Shard -> Nat] /\ \A t \in Shard : loaded'[t] \in {0, loaded[t]}
    BY <1>1, <2>1, Zenon
  <2> QED
    BY <2>1, <2>2, <2>3, <2>4, RefreshStep, Zenon
<1> QED
    BY <1>2, <1>3, Zenon

LEMMA NextIInv == IInv /\ [Next]_vars => IInv'
<1> SUFFICES ASSUME IInv, [Next]_vars PROVE IInv'
    BY Zenon
<1>1. CASE UNCHANGED vars
    BY <1>1, FrameStep, Zenon DEF vars
<1>2. CASE MoveStep
    BY <1>2, MoveStepIInv, Zenon
<1>3. CASE NoMoreStatus
    BY <1>3, PcStep, Zenon DEF NoMoreStatus, At, Start
<1>4. CASE GiveUp \/ AbortMove
    BY <1>4, ReturnStep, Zenon DEF GiveUp, AbortMove, At, Return, CriticalSection
<1>5. ASSUME NEW s \in Shard, NEW t \in Shard, StartMove(s, t) PROVE IInv'
    BY <1>5, StartMoveIInv, Zenon
<1>6. ASSUME NEW c \in commands, CommitReturns(c) PROVE IInv'
  <2>1. UNCHANGED <<owners, meta, loaded>>
    BY <1>6, Zenon DEF CommitReturns
  <2>2. move' = move \/ (move.pc = "reply" /\ \E p \in {"config", "undo"} : Go(p))
    BY <1>6, Zenon DEF CommitReturns, At
  <2> QED
    BY <2>1, <2>2, FrameStep, PcStep, Zenon DEF CriticalSection
<1>7. ASSUME NEW s \in Shard, RecvStep(s) PROVE IInv'
    BY <1>7, RecvStepIInv, Zenon
<1>8. ASSUME NEW s \in Shard, ThreadFails(s) \/ DeleteRange(s) PROVE IInv'
    BY <1>8, FrameStep, Zenon DEF ThreadFails, DeleteRange
<1>9. ASSUME NEW s \in Shard, LoadMetadata(s) \/ InstallMetadata(s) PROVE IInv'
    BY <1>9, MetadataIInv, Zenon
<1>10. ASSUME NEW s \in Shard, Crash(s) PROVE IInv'
    BY <1>10, LoseStep, Zenon DEF Crash
<1>11. ASSUME NEW s \in Shard, NEW d \in Doc, Put(s, d) \/ Remove(s, d) PROVE IInv'
    BY <1>11, FrameStep, Zenon DEF Put, Remove, Change
<1> QED
    BY <1>1, <1>2, <1>3, <1>4, <1>5, <1>6, <1>7, <1>8, <1>9, <1>10, <1>11, Zenon DEF Next

\* IInv is an invariant of the migration.
THEOREM Invariance == Spec => []IInv
    BY InitIInv, NextIInv, PTL DEF Spec

\* For every number of shards, moves and failures, only the shard that
\* config.chunks names takes writes for the chunk: from donateChunk to the
\* commit, or to undoDonateChunk, nobody does.
THEOREM OnlyTheOwnerAccepts == Spec => []AcceptedByOwnerOnly
<1>1. IInv => AcceptedByOwnerOnly
    BY Zenon DEF IInv
<1> QED
    BY <1>1, Invariance, PTL

\* For every number of shards, moves and failures, the owner takes writes, can
\* refresh to do so, or is in a critical section, which moveChunk leaves.
THEOREM TheOwnerCanServe == Spec => []ChunkIsServable
<1>1. ASSUME IInv PROVE ChunkIsServable
  <2>1. Owner \in Shard /\ Version \in Nat /\ meta[Owner] \in MetaType
    BY <1>1 DEF IInv, Typed, Owner, Version
  <2>2. CASE meta[Owner].version = Version
    BY <1>1, <2>2, Zenon DEF IInv, NewestServes, ChunkIsServable
  <2>3. CASE meta[Owner].version < Version
    BY <2>3, Zenon DEF ChunkIsServable
  <2>4. CASE meta[Owner].version > Version
    BY <1>1, <2>1, <2>4 DEF IInv, NotAhead, MoveAgrees, ChunkIsServable, MetaType
  <2> QED
    BY <2>1, <2>2, <2>3, <2>4 DEF MetaType
<1> QED
    BY <1>1, Invariance, PTL

-----------------------------------------------------------------------------
(* The types of the rest, and what goes together. *)

RecvPc == {"none", "clean", "pend", "begin", "clone", "mods", "flush", "top",
           "pull", "test", "end", "exit"}
RecvState == {"READY", "CLONE", "CATCHUP", "STEADY", "COMMIT_START", "DONE",
              "FAIL", "ABORT"}

FromType == [active : BOOLEAN, next : Nat \ {0}, cloneLocs : SUBSET Doc,
             deleted : Seq(Doc), reload : Seq(Doc)]
XferType == [sized : BOOLEAN, del : SUBSET Doc,
             put : UNION {[D -> Content] : D \in SUBSET Doc}]
RecvType == [active : BOOLEAN, state : RecvState, pc : RecvPc,
             from : Shard \union {NoShard}, move : Nat, after : BOOLEAN,
             xfer : XferType]

FromOK ==
    /\ from \in FromType
    /\ ~from.active => from = NoFrom
    /\ from.active <=> move.pc \notin {"idle", "dead"}
    /\ move.pc = "idle" => move = Idle
    /\ move.pc # "idle" => move.from \in Shard /\ move.to \in Shard \ {move.from}

RecvOK ==
    /\ recv \in [Shard -> RecvType]
    /\ \A t \in Shard : recv[t].active <=> recv[t].pc # "none"

MetaOK == \A t \in Shard : meta[t].owns => ~meta[t].pending

DataOK ==
    /\ data \in [Shard -> [Doc -> Content]] /\ saved \in [Shard -> [Doc -> Content]]
    /\ truth \in [Doc -> Content]

RestOK ==
    /\ commands \subseteq Shard \X Nat /\ deletes \in [Shard -> Nat]
    /\ writes \in Nat /\ moves \in Nat

Shaped == FromOK /\ RecvOK /\ MetaOK /\ DataOK /\ RestOK

\* The thread of a shard changes; it stays the thread of its migration.
Sets(t, active, state, pc, after, xfer) ==
    /\ recv' \in [Shard -> RecvType]
    /\ \A u \in Shard \ {t} : recv'[u] = recv[u]
    /\ recv'[t].active = active /\ recv'[t].state = state /\ recv'[t].pc = pc
    /\ recv'[t].after = after /\ recv'[t].xfer = xfer
    /\ recv'[t].from = recv[t].from /\ recv'[t].move = recv[t].move

LEMMA NoXferType == NoXfer \in XferType
<1>1. << >> \in [{} -> Content]
    OBVIOUS
<1>2. << >> \in UNION {[D -> Content] : D \in SUBSET Doc}
    BY <1>1, Zenon
<1> QED
    BY <1>2, Zenon DEF NoXfer, XferType

LEMMA NoRecvType == NoRecv \in RecvType /\ ~NoRecv.active /\ NoRecv.pc = "none"
    BY NoXferType, Zenon DEF NoRecv, RecvType, RecvPc, RecvState

LEMMA SetsThread ==
    ASSUME RecvOK, NEW t \in Shard, NEW r \in RecvType, recv' = [recv EXCEPT ![t] = r],
           r.from = recv[t].from, r.move = recv[t].move
    PROVE  Sets(t, r.active, r.state, r.pc, r.after, r.xfer)
BY Zenon DEF RecvOK, Sets

LEMMA SetsPc ==
    ASSUME RecvOK, NEW t \in Shard, NEW p \in RecvPc, RGo(t, p)
    PROVE  Sets(t, recv[t].active, recv[t].state, p, recv[t].after, recv[t].xfer)
<1> DEFINE r == [recv[t] EXCEPT !.pc = p]
<1>1. recv[t] \in RecvType /\ recv' = [recv EXCEPT ![t] = r]
    BY Zenon DEF RecvOK, RGo
<1>2. /\ r \in RecvType /\ r.pc = p /\ r.active = recv[t].active /\ r.state = recv[t].state
      /\ r.from = recv[t].from /\ r.move = recv[t].move /\ r.after = recv[t].after
      /\ r.xfer = recv[t].xfer
    BY <1>1, Zenon DEF RecvType
<1> HIDE DEF r
<1> QED
    BY <1>1, <1>2, SetsThread, Zenon

LEMMA SetsState ==
    ASSUME RecvOK, NEW t \in Shard, NEW q \in RecvState,
           recv' = [recv EXCEPT ![t].state = q]
    PROVE  Sets(t, recv[t].active, q, recv[t].pc, recv[t].after, recv[t].xfer)
<1> DEFINE r == [recv[t] EXCEPT !.state = q]
<1>1. recv[t] \in RecvType /\ recv' = [recv EXCEPT ![t] = r]
    BY Zenon DEF RecvOK
<1>2. /\ r \in RecvType /\ r.pc = recv[t].pc /\ r.active = recv[t].active /\ r.state = q
      /\ r.from = recv[t].from /\ r.move = recv[t].move /\ r.after = recv[t].after
      /\ r.xfer = recv[t].xfer
    BY <1>1, Zenon DEF RecvType
<1> HIDE DEF r
<1> QED
    BY <1>1, <1>2, SetsThread, Zenon

LEMMA SetsPcState ==
    ASSUME RecvOK, NEW t \in Shard, NEW p \in RecvPc, NEW q \in RecvState,
           RGoState(t, p, q)
    PROVE  Sets(t, recv[t].active, q, p, recv[t].after, recv[t].xfer)
<1> DEFINE r == [recv[t] EXCEPT !.pc = p, !.state = q]
<1>1. recv[t] \in RecvType /\ recv' = [recv EXCEPT ![t] = r]
    BY Zenon DEF RecvOK, RGoState
<1>2. /\ r \in RecvType /\ r.pc = p /\ r.active = recv[t].active /\ r.state = q
      /\ r.from = recv[t].from /\ r.move = recv[t].move /\ r.after = recv[t].after
      /\ r.xfer = recv[t].xfer
    BY <1>1, Zenon DEF RecvType
<1> HIDE DEF r
<1> QED
    BY <1>1, <1>2, SetsThread, Zenon

\* RecvOK follows when the thread is as active as its step says.
LEMMA SetsRecvOK ==
    ASSUME RecvOK, NEW t \in Shard, NEW a, NEW q, NEW p, NEW f, NEW x,
           Sets(t, a, q, p, f, x), a <=> p # "none"
    PROVE  RecvOK'
<1>1. \A u \in Shard \ {t} : recv'[u] = recv[u] /\ (recv[u].active <=> recv[u].pc # "none")
    BY Zenon DEF RecvOK, Sets
<1>2. recv'[t].active <=> recv'[t].pc # "none"
    BY Zenon DEF Sets
<1>3. \A u \in Shard : recv'[u].active <=> recv'[u].pc # "none"
    BY <1>1, <1>2, Zenon
<1> QED
    BY <1>3, Zenon DEF RecvOK, Sets

LEMMA ActiveThread ==
    ASSUME RecvOK, NEW t \in Shard, recv[t].pc # "none"
    PROVE  recv[t].active
BY Zenon DEF RecvOK

-----------------------------------------------------------------------------
(* The lists of changes. *)

Deleted == Ids(from.deleted, Len(from.deleted))
Reload == Ids(from.reload, Len(from.reload))

LEMMA IdsOfRest ==
    ASSUME NEW q \in Seq(Doc), NEW n \in 0 .. Len(q)
    PROVE  LET w == SubSeq(q, n + 1, Len(q))
           IN  /\ w \in Seq(Doc) /\ Ids(q, n) \subseteq Doc
               /\ Ids(q, Len(q)) = Ids(q, n) \union Ids(w, Len(w))
               /\ n < Len(q) \/ Ids(w, Len(w)) = {}
               /\ n > 0 \/ Ids(q, n) = {}
<1> DEFINE w == SubSeq(q, n + 1, Len(q))
<1>1. /\ Len(w) = Len(q) - n /\ Len(w) \in Nat /\ w \in Seq(Doc)
      /\ \A i \in 1 .. Len(w) : w[i] = q[n + i]
    OBVIOUS
<1> HIDE DEF w
<1>2. Ids(q, n) \subseteq Doc
    BY DEF Ids
<1>3. \A i \in 1 .. Len(q) : i \in 1 .. n \/ (i - n \in 1 .. Len(w) /\ q[i] = w[i - n])
    BY <1>1
<1>4. \A i \in 1 .. Len(w) : n + i \in 1 .. Len(q) /\ w[i] = q[n + i]
    BY <1>1
<1>5. Ids(q, Len(q)) \subseteq Ids(q, n) \union Ids(w, Len(w))
    BY <1>3, Zenon DEF Ids
<1>6. Ids(w, Len(w)) \subseteq Ids(q, Len(q))
    BY <1>4, Zenon DEF Ids
<1>7. Ids(q, n) \subseteq Ids(q, Len(q))
    BY DEF Ids
<1>8. n = Len(q) => 1 .. Len(w) = {}
    BY <1>1
<1>9. n = 0 => 1 .. n = {}
    OBVIOUS
<1>10. Ids(q, Len(q)) = Ids(q, n) \union Ids(w, Len(w))
    BY <1>5, <1>6, <1>7, Zenon
<1>11. n = Len(q) => Ids(w, Len(w)) = {}
    BY <1>8, Zenon DEF Ids
<1>12. n = 0 => Ids(q, n) = {}
    BY <1>9, Zenon DEF Ids
<1> QED
    BY <1>1, <1>2, <1>10, <1>11, <1>12 DEF w

LEMMA IdsOfAppend ==
    ASSUME NEW S, NEW q \in Seq(S), NEW e \in S
    PROVE  LET w == Append(q, e)
           IN  w \in Seq(S) /\ Ids(w, Len(w)) = Ids(q, Len(q)) \union {e}
<1> DEFINE w == Append(q, e)
<1>1. /\ w \in Seq(S) /\ Len(w) = Len(q) + 1 /\ Len(q) \in Nat
      /\ \A i \in 1 .. Len(q) : w[i] = q[i]
      /\ w[Len(q) + 1] = e
    OBVIOUS
<1> HIDE DEF w
<1>2. \A i \in 1 .. Len(w) : i \in 1 .. Len(q) \/ i = Len(q) + 1
    BY <1>1
<1>3. Ids(w, Len(w)) \subseteq Ids(q, Len(q)) \union {e}
    BY <1>1, <1>2, Zenon DEF Ids
<1>4. \A i \in 1 .. Len(q) : i \in 1 .. Len(w)
    BY <1>1
<1>5. Ids(q, Len(q)) \subseteq Ids(w, Len(w))
    BY <1>1, <1>4, Zenon DEF Ids
<1>6. Len(q) + 1 \in 1 .. Len(w)
    BY <1>1
<1>7. e \in Ids(w, Len(w))
    BY <1>1, <1>6, Zenon DEF Ids
<1> QED
    BY <1>1, <1>3, <1>5, <1>7, Zenon DEF w

LEMMA IdsOfNone ==
    ASSUME NEW S, NEW q \in Seq(S)
    PROVE  q = << >> <=> Ids(q, Len(q)) = {}
<1>1. CASE q = << >>
  <2>1. 1 .. Len(q) = {}
    BY <1>1
  <2> QED
    BY <1>1, <2>1, Zenon DEF Ids
<1>2. CASE q # << >>
  <2>1. 1 \in 1 .. Len(q)
    BY <1>2
  <2> QED
    BY <1>2, <2>1, Zenon DEF Ids
<1> QED
    BY <1>1, <1>2, Zenon

LEMMA NoMods ==
    ASSUME from \in FromType
    PROVE  HasMods <=> Deleted # {} \/ Reload # {}
<1>1. from.deleted \in Seq(Doc) /\ from.reload \in Seq(Doc)
    BY Zenon DEF FromType
<1> QED
    BY <1>1, IdsOfNone, Zenon DEF HasMods, Deleted, Reload

\* What a transfer takes, and what it leaves: nothing to reload is taken before
\* all that was deleted.
Sent == Ids(from.deleted, DelCount)
Looked == Ids(from.reload, RelCount)

LEMMA TransferFacts ==
    ASSUME from \in FromType, TransferMods
    PROVE  /\ from' \in FromType /\ from'.active = from.active
           /\ from'.next = from.next /\ from'.cloneLocs = from.cloneLocs
           /\ Sent \subseteq Doc /\ Looked \subseteq Doc
           /\ Deleted = Sent \union Deleted'
           /\ Reload = Looked \union Reload'
           /\ Looked # {} => Deleted' = {}
<1> DEFINE m == DelCount
           n == RelCount
           q == from.deleted
           w == from.reload
<1>1. q \in Seq(Doc) /\ w \in Seq(Doc) /\ XferLimit \in Nat \ {0}
    BY MigrationAssumption, Zenon DEF FromType
<1>2. m \in 0 .. Len(q) /\ n \in 0 .. Len(w)
    BY <1>1 DEF DelCount, RelCount
<1>3. n = 0 \/ m = Len(q)
    BY <1>1 DEF DelCount, RelCount
<1>4. SubSeq(q, m + 1, Len(q)) \in Seq(Doc) /\ SubSeq(w, n + 1, Len(w)) \in Seq(Doc)
    BY <1>1, <1>2, IdsOfRest, Zenon
<1>5. /\ from' \in FromType /\ from'.active = from.active
      /\ from'.next = from.next /\ from'.cloneLocs = from.cloneLocs
      /\ from'.deleted = SubSeq(q, m + 1, Len(q))
      /\ from'.reload = SubSeq(w, n + 1, Len(w))
    BY <1>4, Zenon DEF TransferMods, FromType
<1> HIDE DEF m, n
<1>6. /\ Ids(q, m) \subseteq Doc
      /\ Ids(q, Len(q)) = Ids(q, m) \union Ids(from'.deleted, Len(from'.deleted))
      /\ m = Len(q) => Ids(from'.deleted, Len(from'.deleted)) = {}
  <2> DEFINE v == SubSeq(q, m + 1, Len(q))
  <2>1. /\ Ids(q, m) \subseteq Doc
        /\ Ids(q, Len(q)) = Ids(q, m) \union Ids(v, Len(v))
    BY <1>1, <1>2, IdsOfRest, Zenon
  <2>2. m < Len(q) \/ Ids(v, Len(v)) = {}
    BY <1>1, <1>2, IdsOfRest, Zenon
  <2>3. v = from'.deleted /\ (m = Len(q) => ~(m < Len(q)))
    BY <1>1, <1>2, <1>5
  <2> HIDE DEF v
  <2> QED
    BY <2>1, <2>2, <2>3, Zenon
<1>9. /\ Ids(w, n) \subseteq Doc
      /\ Ids(w, Len(w)) = Ids(w, n) \union Ids(from'.reload, Len(from'.reload))
      /\ n = 0 => Ids(w, n) = {}
    BY <1>1, <1>2, <1>5, IdsOfRest
<1> USE DEF m, n
<1>7. Sent = Ids(q, m) /\ Looked = Ids(w, n)
    BY Zenon DEF Sent, Looked
<1> HIDE DEF m, n
<1>8. /\ Deleted' = Ids(from'.deleted, Len(from'.deleted))
      /\ Reload' = Ids(from'.reload, Len(from'.reload))
    BY Zenon DEF Deleted, Reload, Ids
<1> QED
    BY <1>3, <1>5, <1>6, <1>7, <1>8, <1>9, Zenon DEF Deleted, Reload

LEMMA ModsFacts ==
    ASSUME from \in FromType, DataOK, move.from \in Shard, Sent \subseteq Doc,
           Looked \subseteq Doc
    PROVE  /\ Mods \in XferType /\ Mods.sized = HasMods /\ Mods.del = Sent
           /\ DOMAIN Mods.put = {d \in Looked : data[move.from][d] # Absent}
           /\ \A d \in DOMAIN Mods.put : Mods.put[d] = data[move.from][d]
<1> DEFINE D == {d \in Looked : data[move.from][d] # Absent}
           f == [d \in D |-> data[move.from][d]]
<1>1. \A d \in Doc : data[move.from][d] \in Content
    BY Zenon DEF DataOK
<1>2. D \in SUBSET Doc /\ f \in [D -> Content]
    BY <1>1, Zenon
<1>3. f \in UNION {[E -> Content] : E \in SUBSET Doc}
    BY <1>2, Zenon
<1>4. DOMAIN f = D /\ \A d \in D : f[d] = data[move.from][d]
    BY Zenon
<1>5. Mods = [sized |-> HasMods, del |-> Sent, put |-> f]
    BY Zenon DEF Mods, Sent, Looked
<1>6. HasMods \in BOOLEAN
    BY Zenon DEF HasMods
<1> HIDE DEF f, D
<1>7. /\ Mods \in XferType /\ Mods.sized = HasMods /\ Mods.del = Sent
      /\ Mods.put = f
    BY <1>3, <1>5, <1>6, Zenon DEF XferType
<1>8. DOMAIN Mods.put = D /\ \A d \in DOMAIN Mods.put : Mods.put[d] = data[move.from][d]
    BY <1>4, <1>7, Zenon
<1> USE DEF D
<1> QED
    BY <1>7, <1>8, Zenon

-----------------------------------------------------------------------------
(* The steps of a migrateThread. *)

LEMMA AbsentContent == Absent \in Content /\ NoFrom \in FromType
<1>1. 0 \in Content
    BY MigrationAssumption DEF Content
<1>2. << >> \in Seq(Doc)
    OBVIOUS
<1> QED
    BY <1>1, <1>2 DEF Absent, NoFrom, FromType

LEMMA AppliedType ==
    ASSUME NEW docs \in [Doc -> Content], NEW x \in XferType
    PROVE  Applied(docs, x) \in [Doc -> Content]
<1>1. x.put \in UNION {[D -> Content] : D \in SUBSET Doc}
    BY Zenon DEF XferType
<1>2. PICK D \in SUBSET Doc : x.put \in [D -> Content]
    BY <1>1, Zenon
<1>3. \A d \in DOMAIN x.put : x.put[d] \in Content
    BY <1>2, Zenon
<1> QED
    BY <1>3, AbsentContent, Zenon DEF Applied

LEMMA EndedState ==
    ASSUME NEW q \in RecvState PROVE Ended(q) \in {"FAIL", "DONE"} /\ Ended(q) \in RecvState
BY Zenon DEF Ended, RecvState

LEMMA TopSets ==
    ASSUME RecvOK, NEW t \in Shard, SteadyTop(t)
    PROVE  \/ /\ recv[t].state \in {"STEADY", "COMMIT_START"}
              /\ Sets(t, recv[t].active, recv[t].state, "pull",
                      recv[t].after \/ recv[t].state = "COMMIT_START", recv[t].xfer)
           \/ /\ recv[t].state \notin {"STEADY", "COMMIT_START"}
              /\ Sets(t, recv[t].active, Ended(recv[t].state), "end", recv[t].after,
                      recv[t].xfer)
<1> DEFINE r == recv[t]
           b == r.after \/ r.state = "COMMIT_START"
           u == [r EXCEPT !.pc = "pull", !.after = b]
           e == Ended(r.state)
           v == [r EXCEPT !.pc = "end", !.state = e]
<1>1. r \in RecvType /\ e \in RecvState /\ b \in BOOLEAN /\ "pull" \in RecvPc /\ "end" \in RecvPc
  <2>1. r \in RecvType
    BY Zenon DEF RecvOK
  <2>2. r.state \in RecvState /\ r.after \in BOOLEAN
    BY <2>1, Zenon DEF RecvType
  <2>3. e \in RecvState /\ "pull" \in RecvPc /\ "end" \in RecvPc
    BY <2>2, EndedState, Zenon DEF RecvPc
  <2> QED
    BY <2>1, <2>2, <2>3, Zenon
<1>2. recv' = [recv EXCEPT ![t] = IF r.state \in {"STEADY", "COMMIT_START"} THEN u ELSE v]
  <2>1. /\ u = [r EXCEPT !.pc = "pull", !.after = @ \/ r.state = "COMMIT_START"]
        /\ v = [r EXCEPT !.pc = "end", !.state = Ended(@)]
    BY Zenon
  <2> QED
    BY <2>1, Zenon DEF SteadyTop
<1> HIDE DEF e, b
<1>3. /\ u \in RecvType /\ u.pc = "pull" /\ u.active = r.active /\ u.state = r.state
      /\ u.from = r.from /\ u.move = r.move /\ u.after = b /\ u.xfer = r.xfer
    BY <1>1, Zenon DEF RecvType
<1>4. /\ v \in RecvType /\ v.pc = "end" /\ v.active = r.active /\ v.state = e
      /\ v.from = r.from /\ v.move = r.move /\ v.after = r.after /\ v.xfer = r.xfer
    BY <1>1, Zenon DEF RecvType
<1> HIDE DEF u, v
<1>5. CASE r.state \in {"STEADY", "COMMIT_START"}
  <2>1. recv' = [recv EXCEPT ![t] = u]
    BY <1>2, <1>5, Zenon
  <2>2. Sets(t, u.active, u.state, u.pc, u.after, u.xfer)
    BY <1>3, <2>1, SetsThread, Zenon
  <2>3. Sets(t, r.active, r.state, "pull", b, r.xfer)
    BY <1>3, <2>2, Zenon
  <2> QED
    BY <1>5, <2>3, Zenon DEF b
<1>6. CASE r.state \notin {"STEADY", "COMMIT_START"}
  <2>1. recv' = [recv EXCEPT ![t] = v]
    BY <1>2, <1>6, Zenon
  <2>2. Sets(t, v.active, v.state, v.pc, v.after, v.xfer)
    BY <1>4, <2>1, SetsThread, Zenon
  <2>3. Sets(t, r.active, e, "end", r.after, r.xfer)
    BY <1>4, <2>2, Zenon
  <2> QED
    BY <1>6, <2>3, Zenon DEF e
<1> QED
    BY <1>5, <1>6, Zenon

LEMMA PullSets ==
    ASSUME RecvOK, NEW t \in Shard, NEW x \in XferType,
           recv' = [recv EXCEPT ![t].pc = "test", ![t].xfer = x]
    PROVE  Sets(t, recv[t].active, recv[t].state, "test", recv[t].after, x)
<1> DEFINE r == recv[t]
           u == [r EXCEPT !.pc = "test", !.xfer = x]
<1>1. r \in RecvType /\ recv' = [recv EXCEPT ![t] = u] /\ "test" \in RecvPc
    BY Zenon DEF RecvOK, RecvPc
<1>2. /\ u \in RecvType /\ u.pc = "test" /\ u.active = r.active /\ u.state = r.state
      /\ u.from = r.from /\ u.move = r.move /\ u.after = r.after /\ u.xfer = x
    BY <1>1, Zenon DEF RecvType
<1> HIDE DEF u
<1> QED
    BY <1>1, <1>2, SetsThread, Zenon

LEMMA TestSets ==
    ASSUME RecvOK, NEW t \in Shard, SteadyTest(t)
    PROVE  \/ /\ ~DidAnything(recv[t].xfer) /\ recv[t].state = "COMMIT_START" /\ recv[t].after
              /\ Sets(t, recv[t].active, "DONE", "end", recv[t].after, NoXfer)
              /\ saved' = [saved EXCEPT ![t] = data'[t]]
              /\ leftBehind' = (leftBehind \/ (recv[t].xfer.sized /\ HasMods))
           \/ /\ \E p \in {"end", "top"} :
                    /\ p = "end" => recv[t].state = "ABORT"
                    /\ Sets(t, recv[t].active, recv[t].state, p, recv[t].after, NoXfer)
              /\ UNCHANGED <<saved, leftBehind>>
<1> DEFINE r == recv[t]
           did == DidAnything(r.xfer)
           rest == [r EXCEPT !.xfer = NoXfer]
           e == Ended(rest.state)
           u == [rest EXCEPT !.pc = "end", !.state = e]
           p == IF ~did /\ r.state = "ABORT" THEN "end" ELSE "top"
           v == [rest EXCEPT !.pc = p]
<1>1. r \in RecvType
    BY DEF RecvOK
<1>2. /\ rest \in RecvType /\ rest.pc = r.pc /\ rest.active = r.active
      /\ rest.state = r.state /\ rest.from = r.from /\ rest.move = r.move
      /\ rest.after = r.after /\ rest.xfer = NoXfer
    BY <1>1, NoXferType, Zenon DEF RecvType
<1>3. \/ /\ ~did /\ r.state # "ABORT" /\ r.state = "COMMIT_START" /\ r.after
         /\ recv' = [recv EXCEPT ![t] = u]
         /\ saved' = [saved EXCEPT ![t] = data'[t]]
         /\ leftBehind' = (leftBehind \/ (r.xfer.sized /\ HasMods))
      \/ /\ recv' = [recv EXCEPT ![t] = v]
         /\ UNCHANGED <<saved, leftBehind>>
  <2>1. u = [rest EXCEPT !.pc = "end", !.state = Ended(@)]
    BY Zenon
  <2> QED
    BY <2>1, Zenon DEF SteadyTest, Tested
<1> HIDE DEF rest, did
<1>4. CASE /\ ~did /\ r.state = "COMMIT_START" /\ r.after
           /\ recv' = [recv EXCEPT ![t] = u]
           /\ saved' = [saved EXCEPT ![t] = data'[t]]
           /\ leftBehind' = (leftBehind \/ (r.xfer.sized /\ HasMods))
  <2>1. e = "DONE" /\ "DONE" \in RecvState /\ "end" \in RecvPc
    BY <1>2, <1>4, Zenon DEF Ended, RecvState, RecvPc
  <2> HIDE DEF e
  <2>2. /\ u \in RecvType /\ u.pc = "end" /\ u.active = r.active /\ u.state = "DONE"
        /\ u.from = r.from /\ u.move = r.move /\ u.after = r.after /\ u.xfer = NoXfer
    BY <1>2, <2>1, Zenon DEF RecvType
  <2> HIDE DEF u
  <2>3. Sets(t, u.active, u.state, u.pc, u.after, u.xfer)
    BY <1>4, <2>2, SetsThread, Zenon
  <2>4. Sets(t, r.active, "DONE", "end", r.after, NoXfer)
    BY <2>2, <2>3, Zenon
  <2> QED
    BY <1>4, <2>4, Zenon DEF did
<1>5. CASE recv' = [recv EXCEPT ![t] = v] /\ UNCHANGED <<saved, leftBehind>>
  <2>1. p \in RecvPc /\ p \in {"end", "top"} /\ (p = "end" => r.state = "ABORT")
    BY Zenon DEF RecvPc
  <2> HIDE DEF p
  <2>2. /\ v \in RecvType /\ v.pc = p /\ v.active = r.active /\ v.state = r.state
        /\ v.from = r.from /\ v.move = r.move /\ v.after = r.after /\ v.xfer = NoXfer
    BY <1>2, <2>1, Zenon DEF RecvType
  <2> HIDE DEF v
  <2>3. Sets(t, v.active, v.state, v.pc, v.after, v.xfer)
    BY <1>5, <2>2, SetsThread, Zenon
  <2>4. Sets(t, r.active, r.state, p, r.after, NoXfer)
    BY <2>2, <2>3, Zenon
  <2> QED
    BY <1>5, <2>1, <2>4, Zenon
<1> QED
    BY <1>3, <1>4, <1>5, Zenon

LEMMA FailSets ==
    ASSUME RecvOK, NEW t \in Shard, ThreadFails(t)
    PROVE  Sets(t, recv[t].active, "FAIL", "end", recv[t].after, NoXfer)
<1> DEFINE r == recv[t]
           u == [r EXCEPT !.pc = "end", !.state = "FAIL", !.xfer = NoXfer]
<1>1. r \in RecvType /\ recv' = [recv EXCEPT ![t] = u] /\ "end" \in RecvPc /\ "FAIL" \in RecvState
    BY Zenon DEF RecvOK, RecvPc, RecvState, ThreadFails
<1>2. /\ u \in RecvType /\ u.pc = "end" /\ u.active = r.active /\ u.state = "FAIL"
      /\ u.from = r.from /\ u.move = r.move /\ u.after = r.after /\ u.xfer = NoXfer
    BY <1>1, NoXferType, Zenon DEF RecvType
<1> HIDE DEF u
<1> QED
    BY <1>1, <1>2, SetsThread, Zenon

LEMMA EndSets ==
    ASSUME RecvOK, NEW t \in Shard, ThreadEnds(t)
    PROVE  Sets(t, FALSE, recv[t].state, "none", FALSE, recv[t].xfer)
<1> DEFINE r == recv[t]
           u == [r EXCEPT !.pc = "none", !.active = FALSE, !.after = FALSE]
<1>1. r \in RecvType /\ recv' = [recv EXCEPT ![t] = u] /\ "none" \in RecvPc
    BY Zenon DEF RecvOK, RecvPc, ThreadEnds
<1>2. /\ u \in RecvType /\ u.pc = "none" /\ u.active = FALSE /\ u.state = r.state
      /\ u.from = r.from /\ u.move = r.move /\ u.after = FALSE /\ u.xfer = r.xfer
    BY <1>1, Zenon DEF RecvType
<1> HIDE DEF u
<1> QED
    BY <1>1, <1>2, SetsThread, Zenon

-----------------------------------------------------------------------------
(* Shaped is kept. *)

LEMMA FromSame ==
    ASSUME FromOK, move' = move, from' = from PROVE FromOK'
BY Zenon DEF FromOK

LEMMA FromReturn ==
    ASSUME Return PROVE FromOK'
<1>1. /\ from' = NoFrom /\ from' \in FromType /\ ~from'.active
      /\ move' = Idle /\ move'.pc = "idle"
    BY AbsentContent, Zenon DEF Return, Idle, NoFrom
<1> QED
    BY <1>1, Zenon DEF FromOK

LEMMA FromGo ==
    ASSUME IInv, FromOK, NEW p \in Pc, Go(p), from' = from,
           move.pc \notin {"idle", "dead"}, p \notin {"idle", "dead"}
    PROVE  FromOK'
<1>1. move'.pc = p /\ move'.from = move.from /\ move'.to = move.to
    BY Zenon DEF IInv, Typed, MoveType, Go
<1> QED
    BY <1>1, Zenon DEF FromOK

LEMMA FromLogs ==
    ASSUME FromOK, move' = move, from.active, from' \in FromType, from'.active
    PROVE  FromOK'
BY Zenon DEF FromOK

LEMMA RecvSame ==
    ASSUME RecvOK, recv' = recv PROVE RecvOK'
BY Zenon DEF RecvOK

LEMMA RecvNew ==
    ASSUME RecvOK, NEW t \in Shard, NEW r \in RecvType, recv' = [recv EXCEPT ![t] = r],
           r.active <=> r.pc # "none"
    PROVE  RecvOK' /\ recv'[t] = r /\ \A u \in Shard \ {t} : recv'[u] = recv[u]
<1>1. /\ recv' \in [Shard -> RecvType]
      /\ recv'[t] = r /\ \A u \in Shard \ {t} : recv'[u] = recv[u]
    BY Zenon DEF RecvOK
<1>2. \A u \in Shard \ {t} : recv'[u].active <=> recv'[u].pc # "none"
    BY <1>1, Zenon DEF RecvOK
<1>3. recv'[t].active <=> recv'[t].pc # "none"
    BY <1>1, Zenon
<1> QED
    BY <1>1, <1>2, <1>3, Zenon DEF RecvOK

LEMMA MetaSame ==
    ASSUME MetaOK, meta' = meta PROVE MetaOK'
BY Zenon DEF MetaOK

LEMMA MetaNew ==
    ASSUME IInv, MetaOK, NEW t \in Shard, NEW m, meta' = [meta EXCEPT ![t] = m],
           m.owns => ~m.pending
    PROVE  MetaOK'
<1>1. meta'[t] = m /\ \A u \in Shard \ {t} : meta'[u] = meta[u]
    BY Zenon DEF IInv, Typed
<1> QED
    BY <1>1, Zenon DEF MetaOK

LEMMA MetaRefreshed ==
    ASSUME IInv, MetaOK, NEW t \in Shard, NEW v, meta' = [meta EXCEPT ![t] = Refreshed(t, v)]
    PROVE  MetaOK'
<1> DEFINE m == Refreshed(t, v)
<1>1. m.owns => ~m.pending
  <2>1. CASE v > meta[t].version
    BY <2>1, Zenon DEF Refreshed
  <2>2. CASE ~(v > meta[t].version)
    BY <2>2, Zenon DEF Refreshed, MetaOK
  <2> QED
    BY <2>1, <2>2, Zenon
<1> HIDE DEF m
<1> QED
    BY <1>1, MetaNew, Zenon DEF m

LEMMA DataSame ==
    ASSUME DataOK, UNCHANGED <<data, saved, truth>> PROVE DataOK'
BY Zenon DEF DataOK

LEMMA RestSame ==
    ASSUME RestOK, UNCHANGED <<commands, deletes, writes, moves>> PROVE RestOK'
BY Zenon DEF RestOK

LEMMA LoseShaped ==
    ASSUME IInv, Shaped, NEW s \in Shard, Lose(s), UNCHANGED <<truth, writes, moves>>
    PROVE  Shaped'
<1>1. FromOK'
  <2>1. CASE move.from = s
    <3>1. /\ move'.pc = "dead" /\ move'.from = move.from /\ move'.to = move.to
          /\ from' = NoFrom
      BY <2>1, Zenon DEF Lose, Go, IInv, Typed, MoveType
    <3>2. move.pc # "idle"
      BY <2>1, MigrationAssumption DEF Shaped, FromOK, Idle
    <3>3. move.from \in Shard /\ move.to \in Shard \ {move.from}
      BY <3>2, Zenon DEF Shaped, FromOK
    <3>4. from' \in FromType /\ ~from'.active
      BY <3>1, AbsentContent, Zenon DEF NoFrom
    <3> QED
      BY <3>1, <3>3, <3>4, Zenon DEF FromOK
  <2>2. CASE move.from # s
    BY <2>2, FromSame, Zenon DEF Lose, Shaped
  <2> QED
    BY <2>1, <2>2, Zenon
<1>2. RecvOK'
    BY NoRecvType, RecvNew, Zenon DEF Lose, Shaped
<1>3. MetaOK'
    BY MetaNew, Zenon DEF Lose, Shaped, NoMeta
<1>4. DataOK'
  <2>1. PICK d \in {data[s], saved[s]} : data' = [data EXCEPT ![s] = d]
    BY Zenon DEF Lose
  <2>2. d \in [Doc -> Content] /\ data' \in [Shard -> [Doc -> Content]]
    BY <2>1, Zenon DEF Shaped, DataOK
  <2>3. data'[s] = d /\ saved' = [saved EXCEPT ![s] = data'[s]]
    BY <2>1, Zenon DEF Shaped, DataOK, Lose
  <2>4. saved' \in [Shard -> [Doc -> Content]]
    BY <2>2, <2>3, Zenon DEF Shaped, DataOK
  <2> QED
    BY <2>2, <2>4, Zenon DEF Shaped, DataOK
<1>5. RestOK'
    BY Zenon DEF Shaped, RestOK, Lose
<1> QED
    BY <1>1, <1>2, <1>3, <1>4, <1>5, Zenon DEF Shaped

LEMMA WriteShaped ==
    ASSUME IInv, Shaped, NEW s \in Shard, NEW d \in Doc, Put(s, d) \/ Remove(s, d)
    PROVE  Shaped'
<1>1. PICK c \in Content : Change(s, d, c)
  <2>1. CASE Put(s, d)
    <3>1. Change(s, d, writes + 2) /\ writes < MaxWrites
      BY <2>1, Zenon DEF Put, Change
    <3>2. writes + 2 \in Content
      BY <3>1, MigrationAssumption DEF Shaped, RestOK, Content
    <3> QED
      BY <3>1, <3>2, Zenon
  <2>2. CASE Remove(s, d)
    BY <2>2, AbsentContent, Zenon DEF Remove
  <2> QED
    BY <2>1, <2>2, Zenon
<1>2. move' = move /\ recv' = recv /\ meta' = meta /\ UNCHANGED <<commands, deletes, moves>>
    BY <1>1, Zenon DEF Change
<1>3. FromOK'
  <2>1. CASE from' = from
    BY <1>2, <2>1, FromSame, Zenon DEF Shaped
  <2>2. CASE Logs(s) /\ Put(s, d) /\ from' # from
    <3>1. PICK gone \in SUBSET {d} : from' = [from EXCEPT !.reload = Append(@, d),
                                                          !.cloneLocs = @ \ gone]
      BY <2>2, Zenon DEF Put
    <3>2. from \in FromType /\ from.active
      BY <2>2, Zenon DEF Shaped, FromOK, Logs
    <3>3. Append(from.reload, d) \in Seq(Doc) /\ from.cloneLocs \ gone \in SUBSET Doc
      BY <3>2 DEF FromType
    <3>4. from' \in FromType /\ from'.active = from.active
      BY <3>1, <3>2, <3>3, Zenon DEF FromType
    <3> QED
      BY <1>2, <3>2, <3>4, FromLogs, Zenon DEF Shaped
  <2>3. CASE Logs(s) /\ Remove(s, d) /\ from' # from
    <3>1. from' = [from EXCEPT !.deleted = Append(@, d), !.cloneLocs = @ \ {d}]
      BY <2>3, Zenon DEF Remove
    <3>2. from \in FromType /\ from.active
      BY <2>3, Zenon DEF Shaped, FromOK, Logs
    <3>3. Append(from.deleted, d) \in Seq(Doc) /\ from.cloneLocs \ {d} \in SUBSET Doc
      BY <3>2 DEF FromType
    <3>4. from' \in FromType /\ from'.active = from.active
      BY <3>1, <3>2, <3>3, Zenon DEF FromType
    <3> QED
      BY <1>2, <3>2, <3>4, FromLogs, Zenon DEF Shaped
  <2> QED
    BY <2>1, <2>2, <2>3, Zenon DEF Put, Remove
<1>4. DataOK'
  <2>1. /\ data' = [data EXCEPT ![s] = [data[s] EXCEPT ![d] = c]]
        /\ saved' = [saved EXCEPT ![s] = data'[s]]
        /\ truth' = [truth EXCEPT ![d] = c]
    BY <1>1, Zenon DEF Change
  <2>2. [data[s] EXCEPT ![d] = c] \in [Doc -> Content] /\ truth' \in [Doc -> Content]
    BY <2>1, Zenon DEF Shaped, DataOK
  <2>3. data' \in [Shard -> [Doc -> Content]]
    BY <2>1, <2>2, Zenon DEF Shaped, DataOK
  <2>4. saved' \in [Shard -> [Doc -> Content]]
    BY <2>1, <2>3, Zenon DEF Shaped, DataOK
  <2> QED
    BY <2>2, <2>3, <2>4, Zenon DEF DataOK
<1>5. RestOK'
    BY <1>1, <1>2 DEF Shaped, RestOK, Change
<1> QED
    BY <1>2, <1>3, <1>4, <1>5, RecvSame, MetaSame, Zenon DEF Shaped

LEMMA StartMoveShaped ==
    ASSUME IInv, Shaped, NEW s \in Shard, NEW t \in Shard, StartMove(s, t) PROVE Shaped'
<1>1. FromOK'
  <2>1. /\ move' = [pc |-> "scan", from |-> s, to |-> t, version |-> Version] /\ t # s
        /\ from' = [NoFrom EXCEPT !.active = TRUE]
    BY Zenon DEF StartMove
  <2>2. from' \in FromType /\ from'.active = TRUE
    BY <2>1, AbsentContent, Zenon DEF FromType
  <2> QED
    BY <2>1, <2>2, Zenon DEF FromOK
<1>2. MetaOK'
    BY MetaRefreshed, Zenon DEF StartMove, Shaped
<1>3. RestOK'
    BY DEF StartMove, Shaped, RestOK
<1>4. RecvOK' /\ DataOK'
    BY RecvSame, DataSame, Zenon DEF StartMove, Shaped, storage, history
<1> QED
    BY <1>1, <1>2, <1>3, <1>4, Zenon DEF Shaped

\* moveChunk goes on or returns, and nothing else changes.
LEMMA GoShaped ==
    ASSUME IInv, Shaped,
           \/ Return
           \/ /\ move.pc \notin {"idle", "dead"} /\ from' = from
              /\ \E p \in Pc \ {"idle", "dead"} : Go(p),
           RecvOK', MetaOK', UNCHANGED <<storage, truth, writes, moves>>,
           commands' \subseteq Shard \X Nat, deletes' \in [Shard -> Nat]
    PROVE  Shaped'
<1>1. FromOK'
    BY FromReturn, FromGo, Zenon DEF Shaped
<1>2. DataOK' /\ RestOK'
    BY DataSame, Zenon DEF Shaped, RestOK, storage
<1> QED
    BY <1>1, <1>2, Zenon DEF Shaped

LEMMA ScanShaped ==
    ASSUME IInv, Shaped, StoreCurrentLocs PROVE Shaped'
<1>1. UNCHANGED <<recv, meta, data, saved, truth, commands, deletes, writes, moves>>
    BY Zenon DEF StoreCurrentLocs, storage, counters, history
<1>2. CASE from.next \in Doc
  <2> DEFINE C == IF data[move.from][from.next] = Absent
                    THEN from.cloneLocs ELSE from.cloneLocs \union {from.next}
  <2>1. move' = move /\ from' = [from EXCEPT !.next = from.next + 1, !.cloneLocs = C]
    BY <1>2, Zenon DEF StoreCurrentLocs
  <2>2. from \in FromType /\ from.active /\ move.pc = "scan"
    BY Zenon DEF Shaped, FromOK, StoreCurrentLocs, At
  <2>3. from.next + 1 \in Nat \ {0} /\ C \in SUBSET Doc
    BY <1>2, <2>2 DEF FromType
  <2> HIDE DEF C
  <2>4. from' \in FromType /\ from'.active = from.active
    BY <2>1, <2>2, <2>3, Zenon DEF FromType
  <2> QED
    BY <1>1, <2>1, <2>2, <2>4, FromLogs, RecvSame, MetaSame, DataSame, RestSame, Zenon DEF Shaped
<1>3. CASE from.next \notin Doc
  <2>1. from' = from /\ Go("start") /\ move.pc = "scan" /\ "start" \in Pc
    BY <1>3, Zenon DEF StoreCurrentLocs, At, Pc, Start
  <2>2. FromOK'
    BY <2>1, FromGo, Zenon DEF Shaped
  <2> QED
    BY <1>1, <2>2, RecvSame, MetaSame, DataSame, RestSame, Zenon DEF Shaped
<1> QED
    BY <1>2, <1>3, Zenon

LEMMA RecvChunkStartShaped ==
    ASSUME IInv, Shaped, RecvChunkStart PROVE Shaped'
<1>1. move.pc = "start" /\ move.to \in Shard /\ move.from \in Shard /\ moves \in Nat
    BY Zenon DEF RecvChunkStart, At, Shaped, FromOK, RestOK
<1>2. RecvOK' /\ MetaOK'
  <2>1. CASE Accepts(move.to)
    <3> DEFINE r == [NoRecv EXCEPT !.active = TRUE, !.pc = "clean", !.from = move.from,
                                   !.move = moves]
    <3>1. r \in RecvType /\ r.active = TRUE /\ r.pc = "clean"
      <4>1. "clean" \in RecvPc /\ move.from \in Shard \union {NoShard}
        BY <1>1, Zenon DEF RecvPc
      <4> QED
        BY <1>1, <4>1, NoRecvType, Zenon DEF RecvType
    <3>2. /\ recv' = [recv EXCEPT ![move.to] = r]
          /\ meta' = [meta EXCEPT ![move.to] = Refreshed(move.to, Version)]
      BY <2>1, Zenon DEF RecvChunkStart
    <3> HIDE DEF r
    <3> QED
      BY <1>1, <3>1, <3>2, RecvNew, MetaRefreshed, Zenon DEF Shaped
  <2>2. CASE ~Accepts(move.to)
    BY <2>2, RecvSame, MetaSame, Zenon DEF RecvChunkStart, Shaped
  <2> QED
    BY <2>1, <2>2, Zenon
<1>3. Return \/ (from' = from /\ Go("wait"))
    BY Zenon DEF RecvChunkStart
<1>4. "wait" \in Pc \ {"idle", "dead"}
    BY Zenon DEF Pc, Start
<1>5. UNCHANGED <<commands, storage, deletes, writes, moves, truth>>
    BY Zenon DEF RecvChunkStart, history
<1>6. commands' \subseteq Shard \X Nat /\ deletes' \in [Shard -> Nat]
    BY <1>5, Zenon DEF Shaped, RestOK
<1>7. \/ Return
      \/ /\ move.pc \notin {"idle", "dead"} /\ from' = from
         /\ \E p \in Pc \ {"idle", "dead"} : Go(p)
    BY <1>1, <1>3, <1>4, Zenon
<1> QED
    BY <1>2, <1>5, <1>6, <1>7, GoShaped, Zenon

LEMMA DonationShaped ==
    ASSUME IInv, Shaped, DonateChunk \/ UndoDonateChunk PROVE Shaped'
<1>1. move.pc \in {"check", "undo"} /\ move.from \in Shard
    BY Zenon DEF DonateChunk, UndoDonateChunk, At, Shaped, FromOK
<1>2. UNCHANGED <<recv, commands, deletes, storage, truth, writes, moves>>
    BY Zenon DEF DonateChunk, UndoDonateChunk, counters, history
<1>3. MetaOK'
  <2>1. CASE meta' = meta
    BY <2>1, MetaSame, Zenon DEF Shaped
  <2>2. CASE meta' = [meta EXCEPT ![move.from] =
                          [version |-> move.version + 1, owns |-> FALSE,
                           pending |-> meta[move.from].pending]]
    BY <1>1, <2>2, MetaNew, Zenon DEF Shaped
  <2>3. CASE meta' = [meta EXCEPT ![move.from] = [version |-> move.version,
                                                  owns |-> TRUE, pending |-> FALSE]]
    BY <1>1, <2>3, MetaNew, Zenon DEF Shaped
  <2> QED
    BY <2>1, <2>2, <2>3, Zenon DEF DonateChunk, UndoDonateChunk
<1>4. Return \/ (from' = from /\ Go("commit"))
    BY Zenon DEF DonateChunk, UndoDonateChunk
<1>5. "commit" \in Pc \ {"idle", "dead"}
    BY Zenon DEF Pc, CriticalSection
<1>6. commands' \subseteq Shard \X Nat /\ deletes' \in [Shard -> Nat] /\ RecvOK'
    BY <1>2, RecvSame, Zenon DEF Shaped, RestOK
<1>7. \/ Return
      \/ /\ move.pc \notin {"idle", "dead"} /\ from' = from
         /\ \E p \in Pc \ {"idle", "dead"} : Go(p)
    BY <1>1, <1>4, <1>5, Zenon
<1> QED
    BY <1>2, <1>3, <1>6, <1>7, GoShaped, Zenon

LEMMA StartCommitShaped ==
    ASSUME IInv, Shaped, StartCommit PROVE Shaped'
<1>1. /\ move.pc = "commit" /\ move.to \in Shard /\ moves \in Nat /\ from' = from
      /\ UNCHANGED <<meta, deletes, storage, truth, writes, moves>>
    BY Zenon DEF StartCommit, At, Shaped, FromOK, RestOK, counters, history
<1>2. RecvOK'
  <2>1. CASE recv' = recv
    BY <2>1, RecvSame, Zenon DEF Shaped
  <2>2. CASE recv' = [recv EXCEPT ![move.to].state = "COMMIT_START"]
    <3>1. Sets(move.to, recv[move.to].active, "COMMIT_START", recv[move.to].pc,
               recv[move.to].after, recv[move.to].xfer)
      BY <1>1, <2>2, SetsState, Zenon DEF Shaped, RecvState
    <3>2. recv[move.to].active <=> recv[move.to].pc # "none"
      BY <1>1, Zenon DEF Shaped, RecvOK
    <3> QED
      BY <1>1, <3>1, <3>2, SetsRecvOK DEF Shaped
  <2> QED
    BY <2>1, <2>2, Zenon DEF StartCommit
<1>3. commands' \subseteq Shard \X Nat
    BY <1>1 DEF StartCommit, Shaped, RestOK
<1>4. \E p \in Pc \ {"idle", "dead"} : Go(p)
  <2>1. "reply" \in Pc \ {"idle", "dead"} /\ "undo" \in Pc \ {"idle", "dead"}
    BY Zenon DEF Pc, CriticalSection
  <2> QED
    BY <2>1, Zenon DEF StartCommit
<1>5. MetaOK' /\ deletes' \in [Shard -> Nat] /\ move.pc \notin {"idle", "dead"}
    BY <1>1, MetaSame, Zenon DEF Shaped, RestOK
<1> QED
    BY <1>1, <1>2, <1>3, <1>4, <1>5, GoShaped, Zenon

LEMMA CommitReturnsShaped ==
    ASSUME IInv, Shaped, NEW c \in commands, CommitReturns(c) PROVE Shaped'
<1> DEFINE t == c[1]
<1>1. /\ t \in Shard /\ commands' \subseteq Shard \X Nat /\ from' = from
      /\ UNCHANGED <<meta, deletes, storage, truth, writes, moves>>
    BY Zenon DEF CommitReturns, Shaped, RestOK, counters, history
<1>2. RecvOK'
  <2>1. CASE recv' = recv
    BY <2>1, RecvSame, Zenon DEF Shaped
  <2>2. CASE recv' = [recv EXCEPT ![t].state = "FAIL"]
    <3>1. Sets(t, recv[t].active, "FAIL", recv[t].pc, recv[t].after, recv[t].xfer)
      BY <1>1, <2>2, SetsState, Zenon DEF Shaped, RecvState
    <3>2. recv[t].active <=> recv[t].pc # "none"
      BY <1>1, Zenon DEF Shaped, RecvOK
    <3> QED
      BY <1>1, <3>1, <3>2, SetsRecvOK DEF Shaped
  <2> QED
    BY <2>1, <2>2, Zenon DEF CommitReturns
<1>3. MetaOK' /\ DataOK' /\ RestOK'
    BY <1>1, MetaSame, DataSame, Zenon DEF Shaped, RestOK, storage
<1>4. FromOK'
  <2>1. "config" \in Pc /\ "undo" \in Pc
    BY Zenon DEF Pc, CriticalSection
  <2>2. move' = move \/ (move.pc = "reply" /\ \E p \in {"config", "undo"} : Go(p))
    BY Zenon DEF CommitReturns, At
  <2>3. CASE move' = move
    BY <1>1, <2>3, FromSame, Zenon DEF Shaped
  <2>4. CASE move.pc = "reply" /\ \E p \in {"config", "undo"} : Go(p)
    BY <1>1, <2>1, <2>4, FromGo, Zenon DEF Shaped
  <2> QED
    BY <2>2, <2>3, <2>4, Zenon
<1> QED
    BY <1>2, <1>3, <1>4, Zenon DEF Shaped

LEMMA AbortShaped ==
    ASSUME IInv, Shaped, AbortMove PROVE Shaped'
<1>1. /\ move.to \in Shard /\ Return
      /\ UNCHANGED <<meta, commands, deletes, storage, truth, writes, moves>>
    BY Zenon DEF AbortMove, At, Shaped, FromOK, history
<1>2. RecvOK'
  <2>1. Sets(move.to, recv[move.to].active, "ABORT", recv[move.to].pc, recv[move.to].after,
             recv[move.to].xfer)
    BY <1>1, SetsState, Zenon DEF Shaped, RecvState, AbortMove
  <2>2. recv[move.to].active <=> recv[move.to].pc # "none"
    BY <1>1, Zenon DEF Shaped, RecvOK
  <2> QED
    BY <1>1, <2>1, <2>2, SetsRecvOK DEF Shaped
<1>3. MetaOK' /\ commands' \subseteq Shard \X Nat /\ deletes' \in [Shard -> Nat]
    BY <1>1, MetaSame, Zenon DEF Shaped, RestOK
<1> QED
    BY <1>1, <1>2, <1>3, GoShaped, Zenon

LEMMA MoveStepShaped ==
    ASSUME IInv, Shaped, MoveStep \/ NoMoreStatus \/ GiveUp \/ AbortMove PROVE Shaped'
<1>p. {"start", "wait", "check", "commit", "reply", "undo", "config", "confirm", "done"}
        \subseteq Pc \ {"idle", "dead"}
    BY Zenon DEF Pc, Start, CriticalSection
<1>c. commands \subseteq Shard \X Nat /\ deletes \in [Shard -> Nat]
    BY Zenon DEF Shaped, RestOK
<1>r. ASSUME UNCHANGED <<recv, meta, commands, deletes, storage, truth, writes, moves>>,
             \/ Return
             \/ /\ move.pc \notin {"idle", "dead"} /\ from' = from
                /\ \E p \in Pc \ {"idle", "dead"} : Go(p)
      PROVE  Shaped'
    BY <1>c, <1>r, RecvSame, MetaSame, GoShaped, Zenon DEF Shaped
<1>1. CASE StoreCurrentLocs
    BY <1>1, ScanShaped, Zenon
<1>2. CASE RecvChunkStart
    BY <1>2, RecvChunkStartShaped, Zenon
<1>3. CASE RecvChunkStatus
    BY <1>3, <1>p, <1>r, Zenon DEF RecvChunkStatus, At, counters, history
<1>4. CASE DonateChunk \/ UndoDonateChunk
    BY <1>4, DonationShaped, Zenon
<1>5. CASE StartCommit
    BY <1>5, StartCommitShaped, Zenon
<1>6. CASE ApplyOps
    BY <1>6, <1>p, <1>r, Zenon DEF ApplyOps, At, history
<1>7. CASE ConfirmCommit
  <2>1. move.pc = "confirm" /\ move.from \in Shard /\ UNCHANGED <<counters, history>>
    BY <1>7, Zenon DEF ConfirmCommit, At, Shaped, FromOK
  <2>2. CASE Lose(move.from)
    BY <2>1, <2>2, LoseShaped, Zenon DEF counters, history
  <2>3. CASE Go("done") /\ UNCHANGED <<from, recv, commands, meta, storage, deletes>>
    BY <1>p, <1>r, <2>1, <2>3, Zenon DEF counters, history
  <2> QED
    BY <1>7, <2>2, <2>3, Zenon DEF ConfirmCommit
<1>8. CASE QueueDelete
  <2>1. move.from \in Shard /\ Return /\ deletes' = [deletes EXCEPT ![move.from] = @ + 1]
        /\ UNCHANGED <<recv, meta, commands, storage, truth, writes, moves>>
    BY <1>8, Zenon DEF QueueDelete, At, Shaped, FromOK, counters, history
  <2>2. deletes' \in [Shard -> Nat]
    BY <1>c, <2>1
  <2> QED
    BY <1>c, <2>1, <2>2, RecvSame, MetaSame, GoShaped, Zenon DEF Shaped
<1>9. CASE LockExpires
  <2>1. move' = Idle /\ from' = from /\ move.pc = "dead"
        /\ UNCHANGED <<recv, meta, commands, deletes, storage, truth, writes, moves>>
    BY <1>9, Zenon DEF LockExpires, At, counters, history
  <2>2. from = NoFrom
    BY <2>1, Zenon DEF Shaped, FromOK
  <2> QED
    BY <1>r, <2>1, <2>2, Zenon DEF Return
<1>10. CASE ReplyLost
    BY <1>10, <1>p, <1>r, Zenon DEF ReplyLost, At, history
<1>11. CASE NoMoreStatus
    BY <1>11, <1>p, <1>r, Zenon DEF NoMoreStatus, At, history
<1>12. CASE GiveUp
    BY <1>12, <1>r, Zenon DEF GiveUp, history
<1>13. CASE AbortMove
    BY <1>13, AbortShaped, Zenon
<1> QED
    BY <1>1, <1>2, <1>3, <1>4, <1>5, <1>6, <1>7, <1>8, <1>9, <1>10, <1>11, <1>12, <1>13, Zenon
    DEF MoveStep

\* A step of a migrateThread: it goes on or ends, and may write its documents
\* and take from the donor's lists.
LEMMA ThreadShaped ==
    ASSUME IInv, Shaped, NEW t \in Shard, RecvStep(t) \/ ThreadFails(t) PROVE Shaped'
<1>t. /\ recv[t] \in RecvType /\ recv[t].state \in RecvState /\ recv[t].xfer \in XferType
      /\ RecvOK /\ (recv[t].active <=> recv[t].pc # "none")
  <2>1. recv[t] \in RecvType
    BY Zenon DEF Shaped, RecvOK
  <2>2. recv[t].state \in RecvState /\ recv[t].xfer \in XferType
    BY <2>1, Zenon DEF RecvType
  <2>3. RecvOK /\ (recv[t].active <=> recv[t].pc # "none")
    BY Zenon DEF Shaped, RecvOK
  <2> QED
    BY <2>1, <2>2, <2>3, Zenon
<1>p. {"clone", "mods", "flush", "top", "pull", "test", "end", "exit", "pend", "begin"}
        \subseteq RecvPc \ {"none"}
    BY Zenon DEF RecvPc
<1>q. {"FAIL", "CLONE", "CATCHUP", "STEADY"} \subseteq RecvState
    BY Zenon DEF RecvState
<1>a. /\ R(t, "none") \/ recv[t].active
    BY <1>t, Zenon DEF R
<1>1. RecvOK'
  <2>a. ASSUME NEW p \in RecvPc \ {"none"}, RGo(t, p), recv[t].active PROVE RecvOK'
    BY <1>t, <2>a, SetsPc, SetsRecvOK, Zenon
  <2>b. ASSUME NEW p \in RecvPc \ {"none"}, NEW q \in RecvState, RGoState(t, p, q), recv[t].active
        PROVE  RecvOK'
    BY <1>t, <2>b, SetsPcState, SetsRecvOK, Zenon
  <2>1. CASE RemoveRange(t)
    BY <1>t, <1>p, <2>1, <2>a, Zenon DEF RemoveRange, R
  <2>2. CASE NotePending(t)
    BY <1>t, <1>p, <1>q, <2>2, <2>b, Zenon DEF NotePending, R
  <2>3. CASE BeginClone(t)
    BY <1>t, <1>p, <1>q, <2>3, <2>b, Zenon DEF BeginClone, R
  <2>4. CASE Clone(t)
    BY <1>t, <1>p, <1>q, <2>4, <2>b, RecvSame, Zenon DEF Clone, R
  <2>5. CASE CatchUp(t)
    BY <1>t, <1>p, <1>q, <2>5, <2>a, <2>b, Zenon DEF CatchUp, R
  <2>6. CASE EnterSteady(t)
    BY <1>t, <1>p, <1>q, <2>6, <2>b, Zenon DEF EnterSteady, R
  <2>7. CASE SteadyTop(t)
    <3>1. recv[t].active
      BY <1>t, <2>7, Zenon DEF SteadyTop, R
    <3> QED
      BY <1>t, <2>7, <3>1, TopSets, SetsRecvOK
  <2>8. CASE SteadyPull(t)
    <3>1. recv[t].active /\ recv[t].pc = "pull"
      BY <1>t, <2>8, Zenon DEF SteadyPull, R
    <3>2. CASE ~FromActive(t)
      BY <1>p, <1>q, <2>8, <2>b, <3>1, <3>2, Zenon DEF SteadyPull
    <3>3. CASE FromActive(t)
      <4>1. from \in FromType /\ TransferMods /\ move.from \in Shard /\ DataOK
        BY <2>8, <3>3, Zenon DEF SteadyPull, FromActive, Shaped, FromOK
      <4>2. Mods \in XferType
        BY <4>1, TransferFacts, ModsFacts, Zenon
      <4>3. recv' = [recv EXCEPT ![t].pc = "test", ![t].xfer = Mods]
        BY <2>8, <3>3, Zenon DEF SteadyPull
      <4>4. Sets(t, recv[t].active, recv[t].state, "test", recv[t].after, Mods)
        BY <1>t, <4>2, <4>3, PullSets, Zenon
      <4>5. recv[t].active <=> "test" # "none"
        BY <3>1, Zenon
      <4> QED
        BY <1>t, <4>4, <4>5, SetsRecvOK, Zenon
    <3> QED
      BY <3>2, <3>3, Zenon
  <2>9. CASE SteadyTest(t)
    <3>1. recv[t].active
      BY <1>t, <2>9, Zenon DEF SteadyTest, Tested, R
    <3> QED
      BY <1>t, <2>9, <3>1, TestSets, SetsRecvOK
  <2>10. CASE ForgetPending(t)
    BY <1>t, <1>p, <2>10, <2>a, Zenon DEF ForgetPending, R
  <2>11. CASE ThreadEnds(t)
    BY <1>t, <2>11, EndSets, SetsRecvOK, Zenon
  <2>12. CASE ThreadFails(t)
    <3>1. recv[t].active
      BY <1>t, <2>12, Zenon DEF ThreadFails
    <3> QED
      BY <1>t, <2>12, <3>1, FailSets, SetsRecvOK
  <2> QED
    BY <2>1, <2>2, <2>3, <2>4, <2>5, <2>6, <2>7, <2>8, <2>9, <2>10, <2>11, <2>12, Zenon DEF RecvStep
<1>2. move' = move /\ UNCHANGED <<commands, writes, moves, truth>>
  <2>1. CASE RemoveRange(t) \/ NotePending(t) \/ BeginClone(t) \/ Clone(t) \/ CatchUp(t)
    BY <2>1, Zenon DEF RemoveRange, NotePending, BeginClone, Clone, CatchUp, counters, history
  <2>2. CASE EnterSteady(t) \/ SteadyTop(t) \/ SteadyPull(t) \/ SteadyTest(t)
    BY <2>2, Zenon DEF EnterSteady, SteadyTop, SteadyPull, SteadyTest, Tested, counters, history
  <2>3. CASE ForgetPending(t) \/ ThreadEnds(t) \/ ThreadFails(t)
    BY <2>3, Zenon DEF ForgetPending, ThreadEnds, ThreadFails, counters, history
  <2> QED
    BY <2>1, <2>2, <2>3, Zenon DEF RecvStep
<1>3. FromOK'
  <2>1. CASE from' = from
    BY <1>2, <2>1, FromSame, Zenon DEF Shaped
  <2>2. CASE from.active /\ TransferMods
    BY <1>2, <2>2, TransferFacts, FromLogs, Zenon DEF Shaped, FromOK
  <2>3. CASE from.active /\ \E batch \in SUBSET Doc : from' = [from EXCEPT !.cloneLocs = @ \ batch]
    <3>1. PICK batch \in SUBSET Doc : from' = [from EXCEPT !.cloneLocs = from.cloneLocs \ batch]
      BY <2>3, Zenon
    <3>2. from \in FromType /\ from.active
      BY <2>3, Zenon DEF Shaped, FromOK
    <3>3. from.cloneLocs \ batch \in SUBSET Doc
      BY <3>2, Zenon DEF FromType
    <3>4. from' \in FromType /\ from'.active = from.active
      BY <3>1, <3>2, <3>3, Zenon DEF FromType
    <3> QED
      BY <1>2, <3>2, <3>4, FromLogs, Zenon DEF Shaped
  <2>4. CASE Clone(t)
    <3>1. from.cloneLocs \subseteq Doc
      BY Zenon DEF Shaped, FromOK, FromType
    <3> QED
      BY <2>1, <2>3, <2>4, <3>1, Zenon DEF Clone, FromActive
  <2>5. CASE CatchUp(t) \/ SteadyPull(t)
    BY <2>1, <2>2, <2>5, Zenon DEF CatchUp, SteadyPull, FromActive
  <2>6. CASE RemoveRange(t) \/ NotePending(t) \/ BeginClone(t) \/ EnterSteady(t) \/ SteadyTop(t)
    BY <2>1, <2>6, Zenon DEF RemoveRange, NotePending, BeginClone, EnterSteady, SteadyTop
  <2>7. CASE SteadyTest(t) \/ ForgetPending(t) \/ ThreadEnds(t) \/ ThreadFails(t)
    BY <2>1, <2>7, Zenon DEF SteadyTest, Tested, ForgetPending, ThreadEnds, ThreadFails
  <2> QED
    BY <2>4, <2>5, <2>6, <2>7, Zenon DEF RecvStep
<1>4. MetaOK'
  <2>1. CASE meta' = meta
    BY <2>1, MetaSame, Zenon DEF Shaped
  <2>2. ASSUME NEW b, b => meta[t].pending \/ ~meta[t].owns,
               meta' = [meta EXCEPT ![t].pending = b]
        PROVE  MetaOK'
    <3>1. meta[t] \in MetaType /\ meta' = [meta EXCEPT ![t] = [meta[t] EXCEPT !.pending = b]]
      BY <2>2, Zenon DEF IInv, Typed
    <3>2. [meta[t] EXCEPT !.pending = b].pending = b
          /\ [meta[t] EXCEPT !.pending = b].owns = meta[t].owns
      BY <3>1, Zenon DEF MetaType
    <3>3. meta[t].owns => ~meta[t].pending
      BY Zenon DEF Shaped, MetaOK
    <3> DEFINE m == [meta[t] EXCEPT !.pending = b]
    <3>4. m.owns => ~m.pending
      BY <2>2, <3>2, <3>3, Zenon
    <3> HIDE DEF m
    <3> QED
      BY <3>1, <3>4, MetaNew, Zenon DEF Shaped, m
  <2>3. CASE NotePending(t)
    BY <2>2, <2>3, Zenon DEF NotePending
  <2>4. CASE ForgetPending(t)
    BY <2>2, <2>4, Zenon DEF ForgetPending
  <2>5. CASE RemoveRange(t) \/ BeginClone(t) \/ Clone(t) \/ CatchUp(t) \/ EnterSteady(t)
    BY <2>1, <2>5, Zenon DEF RemoveRange, BeginClone, Clone, CatchUp, EnterSteady
  <2>6. CASE SteadyTop(t) \/ SteadyPull(t) \/ SteadyTest(t) \/ ThreadEnds(t) \/ ThreadFails(t)
    BY <2>1, <2>6, Zenon DEF SteadyTop, SteadyPull, SteadyTest, Tested, ThreadEnds, ThreadFails
  <2> QED
    BY <2>3, <2>4, <2>5, <2>6, Zenon DEF RecvStep
<1>5. DataOK'
  <2>1. CASE UNCHANGED storage
    BY <1>2, <2>1, DataSame, Zenon DEF Shaped, storage
  <2>2. ASSUME NEW docs \in [Doc -> Content], data' = [data EXCEPT ![t] = docs],
               saved' = saved \/ saved' = [saved EXCEPT ![t] = data'[t]]
        PROVE  DataOK'
    <3>1. data' \in [Shard -> [Doc -> Content]]
      BY <2>2, Zenon DEF Shaped, DataOK
    <3>2. saved' \in [Shard -> [Doc -> Content]]
      BY <2>2, <3>1, Zenon DEF Shaped, DataOK
    <3> QED
      BY <1>2, <3>1, <3>2, Zenon DEF Shaped, DataOK
  <2>d. data[t] \in [Doc -> Content] /\ \A x \in XferType : Applied(data[t], x) \in [Doc -> Content]
    BY AppliedType, Zenon DEF Shaped, DataOK
  <2>3. CASE RemoveRange(t)
    <3>1. [d \in Doc |-> Absent] \in [Doc -> Content]
      BY AbsentContent, Zenon
    <3>2. data' = [data EXCEPT ![t] = [d \in Doc |-> Absent]] /\ saved' = saved
      BY <2>3, Zenon DEF RemoveRange
    <3> QED
      BY <2>2, <3>1, <3>2, Zenon
  <2>4. CASE Clone(t)
    <3>1. CASE data' = data
      BY <2>1, <2>4, <3>1, Zenon DEF Clone, storage
    <3>2. CASE data' # data
      <4>1. move.from \in Shard
        BY <2>4, <3>2, Zenon DEF Clone, FromActive, Shaped, FromOK
      <4>2. PICK batch : data' = [data EXCEPT ![t] =
                [d \in Doc |-> IF d \in batch THEN data[move.from][d] ELSE data[t][d]]]
        BY <2>4, <3>2, Zenon DEF Clone
      <4>3. [d \in Doc |-> IF d \in batch THEN data[move.from][d] ELSE data[t][d]]
               \in [Doc -> Content]
        BY <4>1, Zenon DEF Shaped, DataOK
      <4> QED
        BY <2>2, <2>4, <4>2, <4>3, Zenon DEF Clone
    <3> QED
      BY <3>1, <3>2, Zenon
  <2>5. CASE CatchUp(t)
    <3>1. CASE data' = data
      BY <2>1, <2>5, <3>1, Zenon DEF CatchUp, storage
    <3>2. CASE data' # data
      <4>1. /\ from \in FromType /\ TransferMods /\ move.from \in Shard /\ DataOK
            /\ data' = [data EXCEPT ![t] = Applied(data[t], Mods)]
        BY <2>5, <3>2, Zenon DEF CatchUp, FromActive, Shaped, FromOK
      <4>2. Mods \in XferType
        BY <4>1, TransferFacts, ModsFacts, Zenon
      <4> QED
        BY <2>2, <2>5, <2>d, <4>1, <4>2, Zenon DEF CatchUp
    <3> QED
      BY <3>1, <3>2
  <2>6. CASE EnterSteady(t)
    <3>1. PICK d \in {data[t], saved[t]} : saved' = [saved EXCEPT ![t] = d]
      BY <2>6, Zenon DEF EnterSteady
    <3>2. d \in [Doc -> Content] /\ data' = data
      BY <2>6, <3>1 DEF Shaped, DataOK, EnterSteady
    <3> QED
      BY <1>2, <3>1, <3>2, Zenon DEF Shaped, DataOK
  <2>7. CASE SteadyTest(t)
    <3>1. data' = [data EXCEPT ![t] = Applied(data[t], recv[t].xfer)]
      BY <2>7, Zenon DEF SteadyTest, Tested
    <3>2. saved' = saved \/ saved' = [saved EXCEPT ![t] = data'[t]]
      BY <2>7, Zenon DEF SteadyTest, Tested
    <3> QED
      BY <1>t, <2>2, <2>d, <3>1, <3>2, Zenon
  <2>8. CASE NotePending(t) \/ BeginClone(t) \/ SteadyTop(t) \/ SteadyPull(t)
    BY <2>1, <2>8, Zenon DEF NotePending, BeginClone, SteadyTop, SteadyPull
  <2>9. CASE ForgetPending(t) \/ ThreadEnds(t) \/ ThreadFails(t)
    BY <2>1, <2>9, Zenon DEF ForgetPending, ThreadEnds, ThreadFails
  <2> QED
    BY <2>3, <2>4, <2>5, <2>6, <2>7, <2>8, <2>9, Zenon DEF RecvStep
<1>6. RestOK'
  <2>1. CASE BeginClone(t)
    BY <1>2, <2>1 DEF BeginClone, Shaped, RestOK
  <2>2. CASE RemoveRange(t) \/ NotePending(t) \/ Clone(t) \/ CatchUp(t) \/ EnterSteady(t)
    BY <1>2, <2>2, RestSame, Zenon DEF RemoveRange, NotePending, Clone, CatchUp, EnterSteady, Shaped
  <2>3. CASE SteadyTop(t) \/ SteadyPull(t) \/ SteadyTest(t)
    BY <1>2, <2>3, RestSame, Zenon DEF SteadyTop, SteadyPull, SteadyTest, Tested, Shaped
  <2>4. CASE ForgetPending(t) \/ ThreadEnds(t) \/ ThreadFails(t)
    BY <1>2, <2>4, RestSame, Zenon DEF ForgetPending, ThreadEnds, ThreadFails, Shaped
  <2> QED
    BY <2>1, <2>2, <2>3, <2>4, Zenon DEF RecvStep
<1> QED
    BY <1>1, <1>3, <1>4, <1>5, <1>6, Zenon DEF Shaped

LEMMA NextShaped == IInv /\ Shaped /\ [Next]_vars => Shaped'
<1> SUFFICES ASSUME IInv, Shaped, [Next]_vars PROVE Shaped'
    BY Zenon
<1>f. ASSUME UNCHANGED <<from, move, recv, data, saved, truth, commands, writes, moves>>, MetaOK',
             deletes' \in [Shard -> Nat]
      PROVE  Shaped'
    BY <1>f, FromSame, RecvSame, DataSame, Zenon DEF Shaped, RestOK
<1>d. deletes \in [Shard -> Nat]
    BY Zenon DEF Shaped, RestOK
<1>1. CASE UNCHANGED vars
    BY <1>1, <1>d, <1>f, MetaSame, Zenon DEF vars, Shaped
<1>2. CASE MoveStep \/ NoMoreStatus \/ GiveUp \/ AbortMove
    BY <1>2, MoveStepShaped, Zenon
<1>3. ASSUME NEW s \in Shard, NEW t \in Shard, StartMove(s, t) PROVE Shaped'
    BY <1>3, StartMoveShaped, Zenon
<1>4. ASSUME NEW c \in commands, CommitReturns(c) PROVE Shaped'
    BY <1>4, CommitReturnsShaped, Zenon
<1>5. ASSUME NEW s \in Shard, RecvStep(s) \/ ThreadFails(s) PROVE Shaped'
    BY <1>5, ThreadShaped, Zenon
<1>6. ASSUME NEW s \in Shard, LoadMetadata(s) PROVE Shaped'
    BY <1>6, <1>d, <1>f, MetaSame, Zenon DEF LoadMetadata, storage, counters, history, Shaped
<1>7. ASSUME NEW s \in Shard, InstallMetadata(s) PROVE Shaped'
  <2>1. MetaOK'
    BY <1>7, MetaRefreshed, Zenon DEF InstallMetadata, Shaped
  <2> QED
    BY <1>7, <1>d, <1>f, <2>1, Zenon DEF InstallMetadata, storage, counters, history
<1>8. ASSUME NEW s \in Shard, DeleteRange(s) PROVE Shaped'
  <2>1. /\ UNCHANGED <<move, from, recv, commands, meta, saved, writes, moves, truth>>
        /\ deletes' \in [Shard -> Nat]
    BY <1>8, <1>d DEF DeleteRange, counters, history
  <2>2. data' \in [Shard -> [Doc -> Content]]
    <3>1. CASE data' = data
      BY <3>1, Zenon DEF Shaped, DataOK
    <3>2. CASE \E d \in Doc : data' = [data EXCEPT ![s][d] = Absent]
      <4>1. PICK d \in Doc : data' = [data EXCEPT ![s] = [data[s] EXCEPT ![d] = Absent]]
        BY <3>2, Zenon
      <4>2. [data[s] EXCEPT ![d] = Absent] \in [Doc -> Content]
        BY AbsentContent, Zenon DEF Shaped, DataOK
      <4> QED
        BY <4>1, <4>2, Zenon DEF Shaped, DataOK
    <3> QED
      BY <1>8, <3>1, <3>2, Zenon DEF DeleteRange
  <2> QED
    BY <2>1, <2>2, FromSame, RecvSame, MetaSame, Zenon DEF Shaped, DataOK, RestOK
<1>9. ASSUME NEW s \in Shard, Crash(s) PROVE Shaped'
    BY <1>9, LoseShaped, Zenon DEF Crash, history
<1>10. ASSUME NEW s \in Shard, NEW d \in Doc, Put(s, d) \/ Remove(s, d) PROVE Shaped'
    BY <1>10, WriteShaped, Zenon
<1> QED
    BY <1>1, <1>2, <1>3, <1>4, <1>5, <1>6, <1>7, <1>8, <1>9, <1>10, Zenon DEF Next

LEMMA InitShaped == Init => Shaped
<1> SUFFICES ASSUME Init PROVE Shaped
    BY Zenon
<1>1. FromOK
  <2>1. from = NoFrom /\ move = Idle /\ move.pc = "idle" /\ from.active = FALSE
    BY Zenon DEF Init, Idle, NoFrom
  <2> QED
    BY <2>1, AbsentContent, Zenon DEF FromOK
<1>2. RecvOK
  <2>1. recv = [s \in Shard |-> NoRecv]
    BY Zenon DEF Init
  <2> QED
    BY <2>1, NoRecvType, Zenon DEF RecvOK
<1>3. MetaOK
    BY Zenon DEF Init, MetaOK
<1>4. DataOK
  <2>1. 0 \in Content /\ 1 \in Content
    BY MigrationAssumption DEF Content
  <2>2. data \in [Shard -> [Doc -> Content]]
    BY <2>1, Zenon DEF Init, Absent
  <2> QED
    BY <2>2, MigrationAssumption, Zenon DEF Init, DataOK
<1>5. RestOK
    BY Zenon DEF Init, RestOK
<1> QED
    BY <1>1, <1>2, <1>3, <1>4, <1>5, Zenon DEF Shaped

LEMMA ShapedTypes == IInv /\ Shaped => TypeOK
<1> SUFFICES ASSUME IInv, Shaped PROVE TypeOK
    BY Zenon
<1>1. owners \in Seq(Shard) /\ owners # << >> /\ move.pc \in Pc
    BY DEF IInv, Typed, MoveType
<1>2. /\ from.cloneLocs \subseteq Doc /\ from.deleted \in Seq(Doc) /\ from.reload \in Seq(Doc)
      /\ ~from.active => from = NoFrom
      /\ from.active => move.from \in Shard /\ move.to \in Shard \ {move.from}
    BY Zenon DEF Shaped, FromOK, FromType
<1>3. \A s \in Shard : loaded[s] <= Version
    BY Zenon DEF IInv, Typed
<1>4. \A s \in Shard : /\ recv[s].active <=> recv[s].pc # "none"
                       /\ meta[s].owns => ~meta[s].pending
    BY Zenon DEF Shaped, RecvOK, MetaOK
<1>5. /\ data \in [Shard -> [Doc -> Content]] /\ saved \in [Shard -> [Doc -> Content]]
      /\ deletes \in [Shard -> Nat]
    BY Zenon DEF Shaped, DataOK, RestOK
<1>6. move.pc \in {"idle", "scan", "start", "wait", "check", "commit", "reply",
                   "undo", "config", "confirm", "done", "dead"}
    BY <1>1, Zenon DEF Pc, Start, CriticalSection
<1> QED
    BY <1>1, <1>2, <1>3, <1>4, <1>5, <1>6, Zenon DEF TypeOK

\* The donor's lists are empty when no moveChunk runs, a thread is active while
\* it runs, a shard does not expect a chunk that it has, and no load is ahead of
\* the config servers, for every number of shards, documents, moves and failures.
THEOREM TypeCorrect == Spec => []TypeOK
<1>1. Spec => [](IInv /\ Shaped)
    BY InitIInv, NextIInv, InitShaped, NextShaped, PTL DEF Spec
<1> QED
    BY <1>1, ShapedTypes, PTL

=============================================================================
