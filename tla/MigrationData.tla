--------------------------- MODULE MigrationData ---------------------------
(***************************************************************************)
(* No write is lost in a migration, for every number of shards, documents, *)
(* moves, writes and failures.                                             *)
(***************************************************************************)
EXTENDS MigrationProofs

Excepted == crossed \/ leftBehind \/ doomed

\* The steps of moveChunk with a migrateThread on the recipient, those in which
\* the donor's changes are logged, and those of a thread that has removed the
\* range and has not ended.
Receiving == {"wait", "check", "commit", "reply"}
Logging == {"scan", "start"} \union Receiving
Filling == {"pend", "begin", "clone", "mods", "flush", "top", "pull", "test"}

\* The owner has everything, and nothing is about to change that: no
\* migrateThread and no delete of the range.
Kept ==
    /\ data[Owner] = truth /\ saved[Owner] = truth
    /\ ~recv[Owner].active /\ deletes[Owner] = 0

\* Only the recipient has a thread of the current migration.
Numbered ==
    /\ move.pc # "idle" => moves > 0
    /\ \A t \in Shard :
          /\ recv[t].move <= moves
          /\ move.pc \in {"scan", "start"} => recv[t].move < moves
          /\ move.pc # "idle" /\ t # move.to => recv[t].move < moves

\* After the commit the recipient is the owner.
Committed ==
    move.pc = "done" \/ (move.pc = "confirm" /\ move.version # Version) =>
        Owner = move.to

\* Before it, the recipient has what the owner has.
Received ==
    move.pc = "config" =>
        /\ data[move.to] = truth /\ saved[move.to] = truth
        /\ ~recv[move.to].active /\ deletes[move.to] = 0

\* The recipient has not been told to stop.  It ends with success only after a
\* transfer that began in the critical section and left nothing to transfer.
Receiver ==
    move.pc \in Receiving =>
        LET r == recv[move.to]
        IN  /\ deletes[move.to] = 0
            /\ r = NoRecv \/ r.move = moves
            /\ r.state # "ABORT"
            /\ move.pc # "reply" => r.state \notin {"COMMIT_START", "DONE"} /\ ~r.after
            /\ r.state = "DONE" => /\ r.pc \in {"end", "exit", "none"}
                                   /\ data[move.to] = truth /\ saved[move.to] = truth
            /\ r.pc \in {"top", "pull", "test"} =>
                  r.state \in {"STEADY", "COMMIT_START", "FAIL"}
            /\ r.pc = "test" /\ r.after /\ ~r.xfer.sized => Deleted = {} /\ Reload = {}

\* A document whose delete is logged is gone, or its put is logged too.
LogAgrees ==
    move.pc \in Logging =>
        \A d \in Deleted : data[move.from][d] = Absent \/ d \in Reload

\* In the critical section everything has been cloned.
Cloned == move.pc \in {"commit", "reply"} => from.cloneLocs = {}

\* Until the recipient begins, each document is one that it will be sent.
Noted ==
    \/ move.pc \in {"scan", "start"}
    \/ move.pc \in Receiving /\ recv[move.to].pc = "clean"
    =>
    \A d \in Doc : \/ data[move.from][d] = Absent
                   \/ d \in from.cloneLocs \/ d \in Reload
                   \/ move.pc = "scan" /\ d >= from.next

\* The documents of the recipient, with the changes that it has fetched.
Fetched(t) == IF recv[t].pc = "test" THEN Applied(data[t], recv[t].xfer) ELSE data[t]

\* Then, where they differ from the owner's, a clone or a change is still to be
\* sent; and a document that is gone is gone there too, or its delete is listed.
Agrees(d) ==
    /\ \/ Fetched(move.to)[d] = data[move.from][d]
       \/ d \in from.cloneLocs \/ d \in Deleted \/ d \in Reload
    /\ data[move.from][d] = Absent => Fetched(move.to)[d] = Absent \/ d \in Deleted

CatchesUp ==
    move.pc \in Receiving /\ recv[move.to].pc \in Filling => \A d \in Doc : Agrees(d)

Safe ==
    /\ Kept /\ Numbered /\ Committed /\ Received /\ Receiver /\ LogAgrees
    /\ Cloned /\ Noted /\ CatchesUp

LEMMA OwnerFacts ==
    ASSUME IInv
    PROVE  /\ Owner \in Shard /\ Version \in Nat \ {0}
           /\ move.pc \in Logging \union {"config", "undo"} =>
                 /\ move.from = Owner /\ move.to \in Shard \ {Owner}
                 /\ move.version = Version
           /\ meta[Owner].owns =>
                 move.pc \notin {"commit", "reply", "undo", "config"}
<1>1. Owner \in Shard /\ Version \in Nat \ {0}
    BY DEF IInv, Typed, Owner, Version
<1>2. ASSUME move.pc \in Logging \union {"config", "undo"}
      PROVE  move.from = Owner /\ move.to \in Shard \ {Owner} /\ move.version = Version
    BY <1>2, Zenon DEF IInv, MoveAgrees, Logging, Receiving, Start, CriticalSection
<1>3. ASSUME meta[Owner].owns, move.pc \in {"commit", "reply", "undo", "config"} PROVE FALSE
    BY <1>2, <1>3, Zenon DEF IInv, Stopped, CriticalSection, Logging, Receiving
<1> QED
    BY <1>1, <1>2, <1>3, Zenon

LEMMA OwnerSame ==
    ASSUME owners' = owners PROVE Owner' = Owner /\ Version' = Version
BY Zenon DEF Owner, Version

\* A step elsewhere: of a shard that is neither the owner nor the recipient, or
\* of one whose documents the migration does not need yet.
LEMMA QuietSafe ==
    ASSUME IInv, Shaped, Shaped', Safe, UNCHANGED <<owners, move, moves, truth>>,
           \A u \in Shard : recv'[u].move \in {0, recv[u].move},
           data'[Owner] = data[Owner], saved'[Owner] = saved[Owner],
           ~recv'[Owner].active, deletes'[Owner] = 0,
           move.pc \in Logging =>
              /\ from'.next = from.next /\ from'.cloneLocs = from.cloneLocs
              /\ Deleted' = Deleted /\ Reload' = Reload,
           move.pc \in Receiving \union {"config"} =>
              /\ data'[move.to] = data[move.to] /\ saved'[move.to] = saved[move.to]
              /\ deletes'[move.to] = 0,
           move.pc \in Receiving => recv'[move.to] = recv[move.to],
           move.pc = "config" => ~recv'[move.to].active
    PROVE  Safe'
<1>o. Owner' = Owner /\ Version' = Version
    BY OwnerSame, Zenon
<1>w. /\ Owner \in Shard
      /\ move.pc \in Logging => move.from = Owner
    BY OwnerFacts, Zenon
<1>1. Kept'
    BY <1>o, Zenon DEF Safe, Kept
<1>2. Numbered'
  <2>1. moves \in Nat /\ \A u \in Shard : recv[u].move \in Nat
    BY Zenon DEF Shaped, RestOK, RecvOK, RecvType
  <2>2. \A u \in Shard : /\ recv[u].move <= moves
                         /\ move.pc \in {"scan", "start"} => recv[u].move < moves
                         /\ move.pc # "idle" /\ u # move.to => recv[u].move < moves
    BY Zenon DEF Safe, Numbered
  <2>3. move.pc # "idle" => moves > 0
    BY Zenon DEF Safe, Numbered
  <2>4. \A u \in Shard : recv'[u].move = 0 \/ recv'[u].move = recv[u].move
    BY Zenon
  <2>5. \A u \in Shard : /\ recv'[u].move <= moves
                         /\ move.pc \in {"scan", "start"} => recv'[u].move < moves
                         /\ move.pc # "idle" /\ u # move.to => recv'[u].move < moves
    BY <2>1, <2>2, <2>3, <2>4
  <2> QED
    BY <2>3, <2>5, Zenon DEF Numbered
<1>3. Committed'
    BY <1>o, Zenon DEF Safe, Committed
<1>4. Received'
  <2> SUFFICES ASSUME move.pc = "config"
               PROVE  /\ data'[move.to] = truth /\ saved'[move.to] = truth
                      /\ ~recv'[move.to].active /\ deletes'[move.to] = 0
    BY Zenon DEF Received
  <2>1. /\ data'[move.to] = data[move.to] /\ saved'[move.to] = saved[move.to]
        /\ ~recv'[move.to].active /\ deletes'[move.to] = 0
    BY Zenon
  <2> QED
    BY <2>1, Zenon DEF Safe, Received
<1>l. Receiving \subseteq Logging
    BY Zenon DEF Logging
<1>5. Receiver'
  <2>1. CASE move.pc \in Receiving
    <3>1. /\ data'[move.to] = data[move.to] /\ saved'[move.to] = saved[move.to]
          /\ recv'[move.to] = recv[move.to] /\ deletes'[move.to] = 0
      BY <2>1, Zenon
    <3>2. Deleted' = Deleted /\ Reload' = Reload
      BY <1>l, <2>1, Zenon
    <3> QED
      BY <2>1, <3>1, <3>2, Zenon DEF Safe, Receiver
  <2>2. CASE move.pc \notin Receiving
    BY <2>2, Zenon DEF Receiver
  <2> QED
    BY <2>1, <2>2, Zenon
<1>6. LogAgrees'
  <2>1. CASE move.pc \in Logging
    <3>1. Deleted' = Deleted /\ Reload' = Reload /\ data'[move.from] = data[move.from]
      BY <1>w, <2>1, Zenon
    <3> QED
      BY <2>1, <3>1, Zenon DEF Safe, LogAgrees
  <2>2. CASE move.pc \notin Logging
    BY <2>2, Zenon DEF LogAgrees
  <2> QED
    BY <2>1, <2>2, Zenon
<1>7. Cloned'
  <2>1. {"commit", "reply"} \subseteq Logging
    BY Zenon DEF Logging, Receiving
  <2> QED
    BY <2>1, Zenon DEF Safe, Cloned
<1>8. Noted'
  <2>1. CASE move.pc \in Logging
    <3>1. /\ Reload' = Reload /\ data'[move.from] = data[move.from]
          /\ from'.next = from.next /\ from'.cloneLocs = from.cloneLocs
      BY <1>w, <2>1, Zenon
    <3>2. move.pc \in Receiving => recv'[move.to] = recv[move.to]
      BY Zenon
    <3> QED
      BY <3>1, <3>2, Zenon DEF Safe, Noted
  <2>2. CASE move.pc \notin Logging
    BY <2>2, Zenon DEF Noted, Logging
  <2> QED
    BY <2>1, <2>2
<1>9. CatchesUp'
  <2>1. CASE move.pc \in Receiving
    <3>1. /\ Deleted' = Deleted /\ Reload' = Reload /\ data'[move.from] = data[move.from]
          /\ from'.cloneLocs = from.cloneLocs
      BY <1>w, <1>l, <2>1, Zenon
    <3>2. data'[move.to] = data[move.to] /\ recv'[move.to] = recv[move.to]
      BY <2>1, Zenon
    <3>3. Fetched(move.to)' = Fetched(move.to)
      BY <3>2, Zenon DEF Fetched, Applied
    <3>4. \A d \in Doc : Agrees(d) => Agrees(d)'
      BY <3>1, <3>3, Zenon DEF Agrees
    <3> QED
      BY <2>1, <3>2, <3>4, Zenon DEF Safe, CatchesUp
  <2>2. CASE move.pc \notin Receiving
    BY <2>2, Zenon DEF CatchesUp
  <2> QED
    BY <2>1, <2>2
<1> QED
    BY <1>1, <1>2, <1>3, <1>4, <1>5, <1>6, <1>7, <1>8, <1>9, Zenon DEF Safe

\* The migration is over, or is given up.
LEMMA OverSafe ==
    ASSUME IInv, Shaped, Safe, UNCHANGED <<owners, moves, truth>>,
           \A u \in Shard : recv'[u].move \in {0, recv[u].move},
           data'[Owner] = truth, saved'[Owner] = truth,
           ~recv'[Owner].active, deletes'[Owner] = 0,
           \/ move'.pc = "idle"
           \/ /\ move'.pc \in {"dead", "undo"} \/ (move'.pc = "confirm" /\ move'.version = Version)
              /\ move.pc # "idle" /\ move'.to = move.to
    PROVE  Safe'
<1>o. Owner' = Owner /\ Version' = Version
    BY OwnerSame, Zenon
<1>1. Kept'
    BY <1>o, Zenon DEF Kept
<1>2. Numbered'
  <2>1. moves \in Nat /\ \A u \in Shard : recv[u].move \in Nat
    BY Zenon DEF Shaped, RestOK, RecvOK, RecvType
  <2>2. \A u \in Shard : /\ recv[u].move <= moves
                         /\ move.pc # "idle" /\ u # move.to => recv[u].move < moves
    BY Zenon DEF Safe, Numbered
  <2>3. move.pc # "idle" => moves > 0
    BY Zenon DEF Safe, Numbered
  <2>4. \A u \in Shard : recv'[u].move = 0 \/ recv'[u].move = recv[u].move
    BY Zenon
  <2>5. \A u \in Shard : /\ recv'[u].move <= moves
                         /\ move'.pc # "idle" /\ u # move.to => recv'[u].move < moves
    BY <2>1, <2>2, <2>3, <2>4
  <2>6. move'.pc \notin {"scan", "start"}
    BY Zenon
  <2> QED
    BY <2>3, <2>5, <2>6, Zenon DEF Numbered
<1>3. Committed'
    BY <1>o, Zenon DEF Committed
<1>4. move'.pc \notin Logging /\ move'.pc \notin Receiving /\ move'.pc # "config"
    BY Zenon DEF Logging, Receiving
<1>5. Received' /\ Receiver' /\ LogAgrees' /\ CatchesUp'
    BY <1>4, Zenon DEF Received, Receiver, LogAgrees, CatchesUp
<1>6. Cloned' /\ Noted'
    BY <1>4, Zenon DEF Cloned, Noted, Logging, Receiving
<1> QED
    BY <1>1, <1>2, <1>3, <1>5, <1>6, Zenon DEF Safe

\* A step of the recipient's thread.
LEMMA RecipientSafe ==
    ASSUME IInv, Shaped, Safe, UNCHANGED <<owners, move, moves, truth>>,
           move.pc \in Receiving, recv'[move.to].move \in {0, recv[move.to].move},
           \A u \in Shard \ {move.to} : /\ recv'[u] = recv[u] /\ data'[u] = data[u]
                                        /\ saved'[u] = saved[u] /\ deletes'[u] = deletes[u],
           from'.cloneLocs \subseteq from.cloneLocs,
           Receiver', LogAgrees', Noted', CatchesUp'
    PROVE  Safe'
<1>o. Owner' = Owner /\ Version' = Version
    BY OwnerSame, Zenon
<1>w. Owner \in Shard \ {move.to}
    BY OwnerFacts, Zenon DEF Logging
<1>1. Kept'
    BY <1>o, <1>w, Zenon DEF Safe, Kept
<1>2. Numbered'
  <2>1. moves \in Nat /\ \A u \in Shard : recv[u].move \in Nat
    BY Zenon DEF Shaped, RestOK, RecvOK, RecvType
  <2>2. \A u \in Shard : /\ recv[u].move <= moves
                         /\ move.pc # "idle" /\ u # move.to => recv[u].move < moves
    BY Zenon DEF Safe, Numbered
  <2>3. move.pc \notin {"idle", "scan", "start"}
    BY Zenon DEF Receiving
  <2>4. \A u \in Shard : recv'[u].move = recv[u].move \/ recv'[u].move = 0
    BY Zenon
  <2>5. moves > 0
    BY <2>3, Zenon DEF Safe, Numbered
  <2>6. \A u \in Shard : /\ recv'[u].move <= moves
                         /\ u # move.to => recv'[u].move < moves
    BY <2>1, <2>2, <2>3, <2>4, <2>5
  <2> QED
    BY <2>3, <2>5, <2>6, Zenon DEF Numbered
<1>3. Committed'
    BY <1>o, Zenon DEF Safe, Committed
<1>4. Received'
    BY Zenon DEF Received, Receiving
<1>5. Cloned'
  <2>1. move.pc \in {"commit", "reply"} => from.cloneLocs = {}
    BY Zenon DEF Safe, Cloned
  <2> QED
    BY <2>1, Zenon DEF Cloned
<1> QED
    BY <1>1, <1>2, <1>3, <1>4, <1>5, Zenon DEF Safe

\* moveChunk goes on without a commit, and leaves the recipient alone.
LEMMA GoSafe ==
    ASSUME IInv, Shaped, Safe, NEW p, Go(p),
           UNCHANGED <<owners, moves, truth, recv, data, saved, deletes, from>>,
           move.pc \in {"wait", "check"}, p \in {"check", "commit"},
           p = "commit" => from.cloneLocs = {}
    PROVE  Safe'
<1>o. Owner' = Owner /\ Version' = Version
    BY OwnerSame, Zenon
<1>1. /\ move'.pc = p /\ move'.to = move.to /\ move'.from = move.from
      /\ move'.version = move.version
    BY Zenon DEF Go, IInv, Typed, MoveType
<1>2. move.pc \in Receiving /\ p \in Receiving /\ p # "reply" /\ move.pc # "reply"
      /\ move.pc \in Logging
    BY Zenon DEF Receiving, Logging
<1>3. Kept'
    BY <1>o, Zenon DEF Safe, Kept
<1>4. Numbered'
  <2>1. move.pc # "idle" /\ p \notin {"idle", "scan", "start"}
    BY Zenon
  <2> QED
    BY <1>1, <2>1, Zenon DEF Safe, Numbered
<1>5. Committed' /\ Received'
    BY <1>1, Zenon DEF Committed, Received
<1>6. Receiver'
    BY <1>1, <1>2, Zenon DEF Safe, Receiver, Deleted, Reload
<1>7. LogAgrees'
    BY <1>1, <1>2, Zenon DEF Safe, LogAgrees, Deleted, Reload
<1>8. Cloned'
    BY <1>1, Zenon DEF Cloned
<1>9. Noted'
  <2>1. p \notin {"scan", "start"} /\ move.pc # "scan"
    BY Zenon
  <2> QED
    BY <1>1, <1>2, <2>1, Zenon DEF Safe, Noted, Reload
<1>10. CatchesUp'
  <2>1. Fetched(move.to)' = Fetched(move.to)
    BY <1>1, Zenon DEF Fetched, Applied
  <2>2. \A d \in Doc : Agrees(d) => Agrees(d)'
    BY <1>1, <2>1, Zenon DEF Agrees, Deleted, Reload
  <2> QED
    BY <1>1, <1>2, <2>2, Zenon DEF Safe, CatchesUp
<1> QED
    BY <1>3, <1>4, <1>5, <1>6, <1>7, <1>8, <1>9, <1>10, Zenon DEF Safe

LEMMA NoIds == NoFrom.next = 1 /\ NoFrom.cloneLocs = {} /\ NoFrom.deleted = << >>
               /\ NoFrom.reload = << >> /\ Ids(<< >>, 0) = {}
<1>1. 1 .. 0 = {}
    OBVIOUS
<1>2. Ids(<< >>, 0) = {}
    BY <1>1, Zenon DEF Ids
<1> QED
    BY <1>2, Zenon DEF NoFrom

LEMMA StartMoveSafe ==
    ASSUME IInv, Shaped, Safe, NEW s \in Shard, NEW t \in Shard, StartMove(s, t)
    PROVE  Safe'
<1>o. Owner' = Owner /\ Version' = Version
    BY OwnerSame, Zenon DEF StartMove
<1>1. /\ move'.pc = "scan" /\ move'.from = s /\ move'.to = t /\ moves' = moves + 1
      /\ UNCHANGED <<recv, data, saved, deletes, truth>>
      /\ from' = [NoFrom EXCEPT !.active = TRUE]
    BY Zenon DEF StartMove, storage, history
<1>2. from'.next = 1 /\ from'.cloneLocs = {} /\ from'.deleted = << >> /\ from'.reload = << >>
    BY <1>1, NoIds, AbsentContent, Zenon DEF FromType
<1>3. Kept'
    BY <1>1, <1>o, Zenon DEF Safe, Kept
<1>4. Numbered'
  <2>1. moves \in Nat /\ \A u \in Shard : recv[u].move \in Nat /\ recv[u].move <= moves
    BY Zenon DEF Shaped, RestOK, RecvOK, RecvType, Safe, Numbered
  <2> QED
    BY <1>1, <2>1 DEF Numbered
<1>5. Committed' /\ Received' /\ Cloned'
    BY <1>1, Zenon DEF Committed, Received, Cloned
<1>6. Receiver' /\ CatchesUp'
    BY <1>1, Zenon DEF Receiver, CatchesUp, Receiving
<1>7. LogAgrees'
  <2>1. Deleted' = Ids(from'.deleted, Len(from'.deleted))
    BY Zenon DEF Deleted, Ids
  <2>2. Len(from'.deleted) = 0
    BY <1>2
  <2>3. Deleted' = {}
    BY <1>2, <2>1, <2>2, NoIds, Zenon
  <2> QED
    BY <2>3, Zenon DEF LogAgrees
<1>8. Noted'
    BY <1>1, <1>2 DEF Noted, Doc
<1> QED
    BY <1>3, <1>4, <1>5, <1>6, <1>7, <1>8, Zenon DEF Safe

LEMMA ScanSafe ==
    ASSUME IInv, Shaped, Safe, StoreCurrentLocs
    PROVE  Safe'
<1>o. Owner' = Owner /\ Version' = Version
    BY OwnerSame, Zenon DEF StoreCurrentLocs
<1>1. move.pc = "scan" /\ UNCHANGED <<moves, recv, data, saved, deletes, truth>>
    BY Zenon DEF StoreCurrentLocs, At, storage, history, counters
<1>t. from \in FromType /\ from.next \in Nat \ {0}
    BY Zenon DEF Shaped, FromOK, FromType
<1>2. /\ move'.pc \in {"scan", "start"} /\ move'.from = move.from /\ move'.to = move.to
      /\ from'.deleted = from.deleted /\ from'.reload = from.reload
      /\ \A d \in Doc : \/ data[move.from][d] = Absent \/ d \in from'.cloneLocs
                        \/ d \in Reload
                        \/ move'.pc = "scan" /\ d >= from'.next
  <2>n. \A d \in Doc : \/ data[move.from][d] = Absent \/ d \in from.cloneLocs
                       \/ d \in Reload \/ d >= from.next
    BY <1>1, Zenon DEF Safe, Noted
  <2>1. CASE from.next \in Doc
    <3> DEFINE C == IF data[move.from][from.next] = Absent
                      THEN from.cloneLocs ELSE from.cloneLocs \union {from.next}
    <3>1. move' = move /\ from' = [from EXCEPT !.next = from.next + 1, !.cloneLocs = C]
      BY <2>1, Zenon DEF StoreCurrentLocs
    <3>2. /\ from'.next = from.next + 1 /\ from'.cloneLocs = C
          /\ from'.deleted = from.deleted /\ from'.reload = from.reload
      BY <1>t, <3>1, Zenon DEF FromType
    <3>3. \A d \in Doc : d >= from.next => d = from.next \/ d >= from.next + 1
      BY <1>t DEF Doc
    <3>4. \A d \in Doc : \/ data[move.from][d] = Absent \/ d \in C
                         \/ d \in Reload \/ d >= from.next + 1
      BY <2>n, <3>3, Zenon
    <3> HIDE DEF C
    <3> QED
      BY <1>1, <3>1, <3>2, <3>4, Zenon
  <2>2. CASE from.next \notin Doc
    <3>1. from' = from /\ move' = [move EXCEPT !.pc = "start"]
      BY <2>2, Zenon DEF StoreCurrentLocs, Go
    <3>2. move'.pc = "start" /\ move'.from = move.from /\ move'.to = move.to
      BY <3>1, Zenon DEF IInv, Typed, MoveType
    <3>3. \A d \in Doc : ~(d >= from.next)
      BY <1>t, <2>2, MigrationAssumption DEF Doc
    <3> QED
      BY <2>n, <3>1, <3>2, <3>3, Zenon
  <2> QED
    BY <2>1, <2>2, Zenon
<1>3. Kept'
    BY <1>1, <1>o, Zenon DEF Safe, Kept
<1>4. Numbered'
  <2>1. move.pc # "idle" /\ move'.pc # "idle"
    BY <1>1, <1>2, Zenon
  <2> QED
    BY <1>1, <1>2, <2>1, Zenon DEF Safe, Numbered
<1>5. Committed' /\ Received' /\ Cloned'
    BY <1>2, Zenon DEF Committed, Received, Cloned
<1>6. Receiver' /\ CatchesUp'
    BY <1>2, Zenon DEF Receiver, CatchesUp, Receiving
<1>7. Deleted' = Deleted /\ Reload' = Reload
    BY <1>2, Zenon DEF Deleted, Reload, Ids
<1>8. LogAgrees'
  <2>1. move.pc \in Logging
    BY <1>1, Zenon DEF Logging
  <2> QED
    BY <1>1, <1>2, <1>7, <2>1, Zenon DEF Safe, LogAgrees
<1>9. Noted'
    BY <1>1, <1>2, <1>7, Zenon DEF Noted
<1> QED
    BY <1>3, <1>4, <1>5, <1>6, <1>8, <1>9, Zenon DEF Safe

LEMMA RecvChunkStartSafe ==
    ASSUME IInv, Shaped, Safe, RecvChunkStart
    PROVE  Safe'
<1>o. Owner' = Owner /\ Version' = Version
    BY OwnerSame, Zenon DEF RecvChunkStart
<1>1. /\ move.pc = "start" /\ owners' = owners
      /\ UNCHANGED <<moves, data, saved, deletes, truth>>
    BY Zenon DEF RecvChunkStart, At, storage, history
<1>w. /\ Owner \in Shard /\ move.to \in Shard \ {Owner} /\ move.from = Owner
      /\ moves \in Nat /\ move.from \in Shard
    BY <1>1, OwnerFacts, Zenon DEF Logging, Shaped, RestOK
<1>k. /\ data'[Owner] = truth /\ saved'[Owner] = truth /\ deletes'[Owner] = 0
      /\ ~recv[Owner].active
    BY <1>1, Zenon DEF Safe, Kept
<1>2. CASE ~Accepts(move.to)
  <2>1. recv' = recv /\ move' = Idle /\ move'.pc = "idle"
    BY <1>2 DEF RecvChunkStart, Return, Idle
  <2> QED
    BY <1>1, <1>k, <2>1, OverSafe, Zenon
<1>3. CASE Accepts(move.to)
  <2> DEFINE r == [NoRecv EXCEPT !.active = TRUE, !.pc = "clean", !.from = move.from,
                                 !.move = moves]
  <2>1. recv' = [recv EXCEPT ![move.to] = r] /\ deletes[move.to] = 0
    BY <1>3, Zenon DEF RecvChunkStart, Accepts
  <2>2. /\ r \in RecvType /\ r.pc = "clean" /\ r.state = NoRecv.state /\ r.after = NoRecv.after
        /\ r.move = moves
    <3>1. "clean" \in RecvPc /\ move.from \in Shard \union {NoShard}
      BY <1>w, Zenon DEF RecvPc
    <3> QED
      BY <1>w, <3>1, NoRecvType, Zenon DEF RecvType
  <2>3. NoRecv.state = "READY" /\ NoRecv.after = FALSE
    BY Zenon DEF NoRecv
  <2> HIDE DEF r
  <2>4. recv'[move.to] = r /\ \A u \in Shard \ {move.to} : recv'[u] = recv[u]
    BY <1>w, <2>1, Zenon DEF Shaped, RecvOK
  <2>5. ~recv'[Owner].active
    BY <1>k, <1>w, <2>4, Zenon
  <2>6. moves > 0 /\ \A u \in Shard : recv[u].move < moves /\ recv[u].move \in Nat
    BY <1>1, Zenon DEF Safe, Numbered, Shaped, RecvOK, RecvType
  <2>7. CASE Return
    <3>1. move'.pc = "idle"
      BY <2>7, Zenon DEF Return, Idle
    <3>2. Numbered'
      <4>1. \A u \in Shard : recv'[u].move <= moves
        BY <1>w, <2>2, <2>4, <2>6
      <4> QED
        BY <1>1, <3>1, <4>1, Zenon DEF Numbered
    <3>3. Kept' /\ Committed' /\ Received' /\ Cloned'
      BY <1>1, <1>o, <1>k, <2>5, <3>1, Zenon DEF Kept, Committed, Received, Cloned
    <3>4. Receiver' /\ CatchesUp' /\ Noted' /\ LogAgrees'
      BY <3>1, Zenon DEF Receiver, CatchesUp, Receiving, Noted, LogAgrees, Logging
    <3> QED
      BY <3>2, <3>3, <3>4, Zenon DEF Safe
  <2>8. CASE Go("wait") /\ from' = from
    <3>1. move'.pc = "wait" /\ move'.from = move.from /\ move'.to = move.to
      BY <2>8, Zenon DEF Go, IInv, Typed, MoveType
    <3>2. Numbered'
      <4>1. \A u \in Shard : recv'[u].move <= moves /\ (u # move.to => recv'[u].move < moves)
        BY <1>w, <2>2, <2>4, <2>6
      <4> QED
        BY <1>1, <2>6, <3>1, <4>1, Zenon DEF Numbered
    <3>3. Kept' /\ Committed' /\ Received' /\ Cloned'
      BY <1>1, <1>o, <1>k, <2>5, <3>1, Zenon DEF Kept, Committed, Received, Cloned
    <3>4. CatchesUp'
      BY <2>2, <2>4, <3>1, Zenon DEF CatchesUp, Filling
    <3>5. Receiver'
      BY <1>1, <2>1, <2>2, <2>3, <2>4, <3>1, Zenon DEF Receiver
    <3>6. Deleted' = Deleted /\ Reload' = Reload
      BY <2>8, Zenon DEF Deleted, Reload
    <3>7. LogAgrees'
      <4>1. move.pc \in Logging
        BY <1>1, Zenon DEF Logging
      <4> QED
        BY <1>1, <3>1, <3>6, <4>1, Zenon DEF Safe, LogAgrees
    <3>8. Noted'
      <4>1. move.pc \in {"scan", "start"} /\ move.pc # "scan"
        BY <1>1, Zenon
      <4> QED
        BY <1>1, <2>8, <3>1, <3>6, <4>1, Zenon DEF Safe, Noted
    <3> QED
      BY <3>2, <3>3, <3>4, <3>5, <3>7, <3>8, Zenon DEF Safe
  <2> QED
    BY <1>3, <2>7, <2>8, Zenon DEF RecvChunkStart
<1> QED
    BY <1>2, <1>3, Zenon

\* A step that leaves the lists of the donor as they are leaves their sets.
LEMMA ListsSame ==
    ASSUME from' = from
    PROVE  /\ Deleted' = Deleted /\ Reload' = Reload
           /\ from'.next = from.next /\ from'.cloneLocs = from.cloneLocs
BY Zenon DEF Deleted, Reload

LEMMA StartCommitSafe ==
    ASSUME IInv, Shaped, Safe, StartCommit
    PROVE  Safe'
<1>o. Owner' = Owner /\ Version' = Version
    BY OwnerSame, Zenon DEF StartCommit
<1>1. /\ move.pc = "commit" /\ UNCHANGED <<owners, moves, data, saved, deletes, truth, from>>
    BY Zenon DEF StartCommit, At, storage, history, counters
<1>w. Owner \in Shard /\ move.to \in Shard \ {Owner}
    BY <1>1, OwnerFacts, Zenon DEF Logging, Receiving
<1>2. CASE recv[move.to].state # "STEADY"
  <2>1. Go("undo") /\ recv' = recv
    BY <1>2, Zenon DEF StartCommit
  <2>2. move'.pc = "undo" /\ move'.to = move.to
    BY <2>1, Zenon DEF Go, IInv, Typed, MoveType
  <2>3. data[Owner] = truth /\ saved[Owner] = truth /\ ~recv[Owner].active /\ deletes[Owner] = 0
    BY Zenon DEF Safe, Kept
  <2> QED
    BY <1>1, <2>1, <2>2, <2>3, OverSafe, Zenon
<1>3. CASE recv[move.to].state = "STEADY"
  <2> DEFINE t == move.to
             r == recv[t]
  <2>1. /\ Go("reply") /\ recv' = [recv EXCEPT ![t].state = "COMMIT_START"]
    BY <1>3, Zenon DEF StartCommit
  <2>2. /\ move'.pc = "reply" /\ move'.to = t /\ move'.from = move.from
        /\ move'.version = move.version
    BY <2>1, Zenon DEF Go, IInv, Typed, MoveType
  <2>3. Sets(t, r.active, "COMMIT_START", r.pc, r.after, r.xfer)
    <3>1. "COMMIT_START" \in RecvState
      BY Zenon DEF RecvState
    <3> QED
      BY <1>w, <2>1, <3>1, SetsState, Zenon DEF Shaped
  <2>4. /\ recv'[t].pc = r.pc /\ recv'[t].after = r.after /\ recv'[t].xfer = r.xfer
        /\ recv'[t].state = "COMMIT_START" /\ recv'[t].move = r.move
        /\ \A u \in Shard \ {t} : recv'[u] = recv[u]
    BY <2>3, Zenon DEF Sets
  <2>5. Kept'
    BY <1>1, <1>o, <1>w, <2>4, Zenon DEF Safe, Kept
  <2>6. Numbered'
    <3>1. \A u \in Shard : recv'[u].move = recv[u].move
      BY <2>4, Zenon
    <3>2. move.pc # "idle" /\ move'.pc # "idle" /\ move'.pc \notin {"scan", "start"}
      BY <1>1, <2>2, Zenon
    <3> QED
      BY <1>1, <2>2, <3>1, <3>2, Zenon DEF Safe, Numbered
  <2>7. Committed' /\ Received'
    BY <2>2, Zenon DEF Committed, Received
  <2>8. Receiver'
    <3>1. /\ deletes[t] = 0 /\ (r = NoRecv \/ r.move = moves)
          /\ ~r.after
      BY <1>1, Zenon DEF Safe, Receiver, Receiving
    <3>2. r # NoRecv
      BY <1>3 DEF NoRecv
    <3> QED
      BY <1>1, <2>2, <2>4, <3>1, <3>2, Zenon DEF Receiver
  <2>l. /\ move.pc \in Logging /\ move'.pc \in Logging
        /\ move.pc \in Receiving /\ move'.pc \in Receiving
    BY <1>1, <2>2, Zenon DEF Logging, Receiving
  <2>m. Deleted' = Deleted /\ Reload' = Reload
    BY <1>1, ListsSame, Zenon
  <2>9. LogAgrees'
    BY <1>1, <2>2, <2>l, <2>m, Zenon DEF Safe, LogAgrees
  <2>10. Cloned'
    BY <1>1, Zenon DEF Safe, Cloned
  <2>11. Noted'
    <3>1. move.pc # "scan" /\ move'.pc \notin {"scan", "start"}
      BY <1>1, <2>2, Zenon
    <3> QED
      BY <1>1, <2>2, <2>4, <2>l, <2>m, <3>1, Zenon DEF Safe, Noted
  <2>12. CatchesUp'
    <3>1. Fetched(t)' = Fetched(t)
      BY <1>1, <2>2, <2>4, Zenon DEF Fetched, Applied
    <3>2. \A d \in Doc : Agrees(d) => Agrees(d)'
      BY <1>1, <2>2, <2>m, <3>1, Zenon DEF Agrees
    <3> QED
      BY <2>2, <2>4, <2>l, <3>2, Zenon DEF Safe, CatchesUp
  <2> QED
    BY <2>5, <2>6, <2>7, <2>8, <2>9, <2>10, <2>11, <2>12, Zenon DEF Safe
<1> QED
    BY <1>2, <1>3, Zenon

\* A thread that is told to fail: the timeout of startCommit.
LEMMA TimedOutSafe ==
    ASSUME IInv, Shaped, Shaped', Safe, NEW t \in Shard, recv[t].active,
           recv' = [recv EXCEPT ![t].state = "FAIL"],
           UNCHANGED <<owners, move, moves, data, saved, deletes, truth, from>>
    PROVE  Safe'
<1> DEFINE r == recv[t]
<1>1. Sets(t, r.active, "FAIL", r.pc, r.after, r.xfer)
  <2>1. "FAIL" \in RecvState
    BY Zenon DEF RecvState
  <2> QED
    BY <2>1, SetsState, Zenon DEF Shaped
<1>2. /\ recv'[t].pc = r.pc /\ recv'[t].after = r.after /\ recv'[t].xfer = r.xfer
      /\ recv'[t].state = "FAIL" /\ recv'[t].move = r.move
      /\ \A u \in Shard \ {t} : recv'[u] = recv[u]
    BY <1>1, Zenon DEF Sets
<1>k. /\ data[Owner] = truth /\ saved[Owner] = truth /\ ~recv[Owner].active
      /\ deletes[Owner] = 0 /\ Owner \in Shard
    BY OwnerFacts, Zenon DEF Safe, Kept
<1>m. /\ Deleted' = Deleted /\ Reload' = Reload
      /\ from'.next = from.next /\ from'.cloneLocs = from.cloneLocs
    BY ListsSame, Zenon
<1>3. CASE move.pc \in Receiving /\ t = move.to
  <2>1. Receiver'
    <3>1. /\ deletes[t] = 0 /\ (r = NoRecv \/ r.move = moves)
          /\ move.pc # "reply" => ~r.after
          /\ r.pc = "test" /\ r.after /\ ~r.xfer.sized => Deleted = {} /\ Reload = {}
      BY <1>3, Zenon DEF Safe, Receiver
    <3>2. r # NoRecv
      BY NoRecvType, Zenon
    <3> QED
      BY <1>2, <1>3, <1>m, <3>1, <3>2, Zenon DEF Receiver
  <2>2. LogAgrees'
    BY <1>m, Zenon DEF Safe, LogAgrees
  <2>3. Noted'
    BY <1>2, <1>3, <1>m, Zenon DEF Safe, Noted
  <2>4. CatchesUp'
    <3>1. Fetched(t)' = Fetched(t)
      <4>1. data' = data
        BY Zenon
      <4> QED
        BY <1>2, <4>1 DEF Fetched, Applied
    <3>2. \A d \in Doc : Agrees(d) => Agrees(d)'
      BY <1>3, <1>m, <3>1, Zenon DEF Agrees
    <3> QED
      BY <1>2, <1>3, <3>2, Zenon DEF Safe, CatchesUp
  <2> QED
    BY <1>2, <1>3, <2>1, <2>2, <2>3, <2>4, RecipientSafe, Zenon
<1>4. CASE ~(move.pc \in Receiving /\ t = move.to)
  <2>1. \A u \in Shard : recv'[u].move \in {0, recv[u].move}
    BY <1>2, Zenon
  <2>2. ~recv'[Owner].active
    BY <1>2, <1>k, Zenon
  <2>3. move.pc \in Receiving => recv'[move.to] = recv[move.to] /\ deletes[move.to] = 0
    <3>1. move.pc \in Receiving => move.to \in Shard
      BY OwnerFacts, Zenon DEF Logging
    <3> QED
      BY <1>2, <1>4, <3>1, Zenon DEF Safe, Receiver
  <2>4. move.pc = "config" => ~recv'[move.to].active /\ deletes[move.to] = 0
    <3>1. move.pc = "config" => move.to \in Shard /\ ~recv[move.to].active /\ deletes[move.to] = 0
      BY OwnerFacts, Zenon DEF Safe, Received
    <3> QED
      BY <1>2, <3>1, Zenon
  <2> QED
    BY <1>k, <1>m, <2>1, <2>2, <2>3, <2>4, QuietSafe, Zenon
<1> QED
    BY <1>3, <1>4, Zenon

LEMMA CommitReturnsSafe ==
    ASSUME IInv, Shaped, Shaped', Safe, NEW c \in commands, CommitReturns(c)
    PROVE  Safe'
<1> DEFINE t == c[1]
<1>1. /\ UNCHANGED <<owners, moves, data, saved, deletes, truth, from>> /\ t \in Shard
      /\ \/ ~recv[t].active /\ recv' = recv
         \/ recv[t].active /\ recv' = [recv EXCEPT ![t].state = "FAIL"]
    BY Zenon DEF CommitReturns, storage, history, counters, Shaped, RestOK
<1>o. Owner' = Owner /\ Version' = Version
    BY <1>1, OwnerSame, Zenon
<1>k. /\ data[Owner] = truth /\ saved[Owner] = truth /\ ~recv[Owner].active
      /\ deletes[Owner] = 0 /\ Owner \in Shard
    BY OwnerFacts, Zenon DEF Safe, Kept
<1>2. CASE move.pc = "reply" /\ c = <<move.to, moves>>
  <2>1. t = move.to
    BY <1>2, Zenon
  <2> DEFINE ok == ~recv[t].active /\ recv[t].state = "DONE"
             p == IF ok THEN "config" ELSE "undo"
  <2>2. Go(p)
    BY <1>2, Zenon DEF CommitReturns, At
  <2>3. /\ move'.pc = p /\ move'.to = t /\ move'.from = move.from
        /\ move'.version = move.version
    BY <2>1, <2>2, Zenon DEF Go, IInv, Typed, MoveType
  <2>4. CASE ok
    <3>1. recv' = recv /\ move'.pc = "config"
      BY <1>1, <2>3, <2>4, Zenon
    <3>2. Received'
      <4>1. deletes[t] = 0 /\ data[t] = truth /\ saved[t] = truth
        BY <1>2, <2>1, <2>4, Zenon DEF Safe, Receiver, Receiving
      <4> QED
        BY <1>1, <2>3, <2>4, <3>1, <4>1, Zenon DEF Received
    <3>3. Kept' /\ Committed'
      BY <1>1, <1>o, <1>k, <3>1, Zenon DEF Kept, Committed
    <3>4. Numbered'
      <4>1. move.pc # "idle"
        BY <1>2, Zenon
      <4> QED
        BY <1>1, <2>1, <2>3, <3>1, <4>1, Zenon DEF Safe, Numbered
    <3>5. Receiver' /\ LogAgrees' /\ Cloned' /\ Noted' /\ CatchesUp'
      BY <3>1, Zenon DEF Receiver, LogAgrees, Cloned, Noted, CatchesUp, Logging, Receiving
    <3> QED
      BY <3>2, <3>3, <3>4, <3>5, Zenon DEF Safe
  <2>5. CASE ~ok
    <3>1. \A u \in Shard : recv'[u].move \in {0, recv[u].move}
      BY <1>1 DEF Shaped, RecvOK, RecvType
    <3>2. ~recv'[Owner].active
      <4>1. Owner # t
        BY <1>2, <2>1, OwnerFacts, Zenon DEF Logging, Receiving
      <4> QED
        BY <1>1, <1>k, <4>1, Zenon DEF Shaped, RecvOK
    <3> QED
      BY <1>1, <1>2, <1>k, <2>1, <2>3, <2>5, <3>1, <3>2, OverSafe, Zenon
  <2> QED
    BY <2>4, <2>5, Zenon
<1>3. CASE ~(move.pc = "reply" /\ c = <<move.to, moves>>)
  <2>1. move' = move
    BY <1>3, Zenon DEF CommitReturns, At
  <2>2. CASE recv[t].active /\ recv' = [recv EXCEPT ![t].state = "FAIL"]
    BY <1>1, <2>1, <2>2, TimedOutSafe, Zenon
  <2>3. CASE recv' = recv
    <3>1. \A u \in Shard : recv'[u].move \in {0, recv[u].move}
      BY <2>3, Zenon
    <3>2. /\ move.pc \in Receiving => deletes[move.to] = 0
          /\ move.pc = "config" => ~recv[move.to].active /\ deletes[move.to] = 0
      BY Zenon DEF Safe, Receiver, Received
    <3> QED
      BY <1>1, <1>k, <2>1, <2>3, <3>1, <3>2, ListsSame, QuietSafe, Zenon
  <2> QED
    BY <1>1, <2>2, <2>3, Zenon
<1> QED
    BY <1>2, <1>3, Zenon

\* What Safe says of the owner, and of a recipient that is not to be touched.
LEMMA KeptFacts ==
    ASSUME IInv, Safe
    PROVE  /\ Owner \in Shard /\ data[Owner] = truth /\ saved[Owner] = truth
           /\ ~recv[Owner].active /\ deletes[Owner] = 0
           /\ move.pc \in Receiving \union {"config"} =>
                 move.to \in Shard \ {Owner} /\ deletes[move.to] = 0
           /\ move.pc = "config" =>
                 /\ data[move.to] = truth /\ saved[move.to] = truth
                 /\ ~recv[move.to].active
BY OwnerFacts, Zenon DEF Safe, Kept, Receiver, Received, Logging

\* The status, its absence, giving up, and the undoing of a donation.
LEMMA ReturnSafe ==
    ASSUME IInv, Shaped, Safe, move'.pc = "idle",
           UNCHANGED <<owners, moves, truth, data, saved>>,
           \A u \in Shard : recv'[u].move \in {0, recv[u].move},
           ~recv'[Owner].active, deletes'[Owner] = 0
    PROVE  Safe'
BY KeptFacts, OverSafe, Zenon

LEMMA StatusSafe ==
    ASSUME IInv, Shaped, Safe,
           RecvChunkStatus \/ NoMoreStatus \/ GiveUp \/ DonateChunk \/ UndoDonateChunk
              \/ LockExpires
    PROVE  Safe'
<1>1. UNCHANGED <<owners, moves, truth, recv, data, saved, deletes>>
    BY Zenon DEF RecvChunkStatus, NoMoreStatus, GiveUp, DonateChunk, UndoDonateChunk, LockExpires,
           storage, history, counters
<1>2. \A u \in Shard : recv'[u].move \in {0, recv[u].move}
    BY <1>1, Zenon
<1>3. \/ Return
      \/ move' = Idle
      \/ move.pc = "wait" /\ Go("check") /\ from' = from
      \/ move.pc = "check" /\ Go("commit") /\ from' = from /\ from.cloneLocs = {}
    BY Zenon DEF RecvChunkStatus, NoMoreStatus, GiveUp, DonateChunk, UndoDonateChunk,
                 LockExpires, At
<1>4. CASE Return \/ move' = Idle
  <2>1. move'.pc = "idle"
    BY <1>4 DEF Return, Idle
  <2> QED
    BY <1>1, <1>2, <2>1, KeptFacts, ReturnSafe, Zenon
<1>5. CASE move.pc = "wait" /\ Go("check") /\ from' = from
  <2>1. "check" \in {"check", "commit"} /\ "check" # "commit" /\ move.pc \in {"wait", "check"}
    BY <1>5, Zenon
  <2> QED
    BY <1>1, <1>5, <2>1, GoSafe, Zenon
<1>6. CASE move.pc = "check" /\ Go("commit") /\ from' = from /\ from.cloneLocs = {}
  <2>1. "commit" \in {"check", "commit"} /\ move.pc \in {"wait", "check"}
    BY <1>6, Zenon
  <2> QED
    BY <1>1, <1>6, <2>1, GoSafe, Zenon
<1> QED
    BY <1>3, <1>4, <1>5, <1>6, Zenon

LEMMA AbortSafe ==
    ASSUME IInv, Shaped, Safe, AbortMove
    PROVE  Safe'
<1>1. /\ move.pc = "wait" /\ UNCHANGED <<owners, moves, truth, data, saved, deletes>>
      /\ move' = Idle /\ recv' = [recv EXCEPT ![move.to].state = "ABORT"]
    BY Zenon DEF AbortMove, At, storage, history, Return
<1>2. move.to \in Shard \ {Owner} /\ Owner \in Shard
    BY <1>1, KeptFacts, Zenon DEF Receiving
<1>3. \A u \in Shard : recv'[u].move \in {0, recv[u].move}
    BY <1>1, <1>2, Zenon DEF Shaped, RecvOK, RecvType
<1>4. recv'[Owner] = recv[Owner]
    BY <1>1, <1>2, Zenon DEF Shaped, RecvOK
<1>5. move'.pc = "idle"
    BY <1>1, Zenon DEF Idle
<1> QED
    BY <1>1, <1>3, <1>4, <1>5, KeptFacts, ReturnSafe, Zenon

LEMMA ReplyLostSafe ==
    ASSUME IInv, Shaped, Safe, ReplyLost
    PROVE  Safe'
<1>1. /\ move.pc \in {"commit", "reply"}
      /\ UNCHANGED <<owners, moves, truth, recv, data, saved, deletes>>
      /\ Go("undo")
    BY Zenon DEF ReplyLost, At, storage, history
<1>2. move'.pc = "undo" /\ move'.to = move.to
    BY <1>1, Zenon DEF Go, IInv, Typed, MoveType
<1>3. \A u \in Shard : recv'[u].move \in {0, recv[u].move}
    BY <1>1, Zenon
<1> QED
    BY <1>1, <1>2, <1>3, KeptFacts, OverSafe, Zenon

\* The commit: the recipient has what the owner has, and becomes the owner.
LEMMA ApplyOpsSafe ==
    ASSUME IInv, Shaped, Safe, ApplyOps
    PROVE  Safe'
<1>1. move.pc = "config" /\ UNCHANGED <<moves, truth, recv, data, saved, deletes>>
    BY Zenon DEF ApplyOps, At, storage, history
<1>2. /\ move.version = Version /\ move.to \in Shard \ {Owner} /\ owners \in Seq(Shard)
      /\ Version \in Nat \ {0}
    BY <1>1, OwnerFacts, Zenon DEF IInv, Typed
<1>3. PICK p \in {"done", "confirm", "undo"} :
         /\ Go(p)
         /\ \/ p # "undo" /\ owners' = Append(owners, move.to)
            \/ p # "done" /\ owners' = owners
    BY Zenon DEF ApplyOps
<1>4. move'.pc = p /\ move'.to = move.to /\ move'.version = move.version
    BY <1>3, Zenon DEF Go, IInv, Typed, MoveType
<1>5. CASE owners' = owners /\ p # "done"
  <2>1. \A u \in Shard : recv'[u].move \in {0, recv[u].move}
    BY <1>1, Zenon
  <2> QED
    BY <1>1, <1>2, <1>3, <1>4, <1>5, <2>1, KeptFacts, OverSafe, Zenon
<1>6. CASE owners' = Append(owners, move.to)
  <2>1. Owner' = move.to
    BY <1>2, <1>6 DEF Owner, Version
  <2>2. Kept'
    BY <1>1, <2>1, KeptFacts, Zenon DEF Kept
  <2>3. Numbered'
    <3>1. move.pc # "idle" /\ move'.pc # "idle" /\ move'.pc \notin {"scan", "start"}
      BY <1>1, <1>4, Zenon
    <3> QED
      BY <1>1, <1>4, <3>1, Zenon DEF Safe, Numbered
  <2>4. Committed' /\ Received'
    BY <1>4, <2>1, Zenon DEF Committed, Received
  <2>5. Receiver' /\ LogAgrees' /\ Cloned' /\ Noted' /\ CatchesUp'
    BY <1>4, Zenon DEF Receiver, LogAgrees, Cloned, Noted, CatchesUp, Logging, Receiving
  <2> QED
    BY <2>2, <2>3, <2>4, <2>5, Zenon DEF Safe
<1> QED
    BY <1>3, <1>5, <1>6, Zenon

\* A restart or a failover: the documents of the owner are durable, and a
\* recipient that has lost its thread never answers that it is done.
LEMMA LoseSafe ==
    ASSUME IInv, Shaped, Shaped', Safe, NEW s \in Shard, Lose(s),
           UNCHANGED <<owners, moves, truth>>
    PROVE  Safe'
<1>1. /\ data' \in [Shard -> [Doc -> Content]] /\ data'[s] \in {data[s], saved[s]}
      /\ saved'[s] = data'[s] /\ recv'[s] = NoRecv /\ deletes'[s] = 0
      /\ \A u \in Shard \ {s} : /\ data'[u] = data[u] /\ saved'[u] = saved[u]
                                /\ recv'[u] = recv[u] /\ deletes'[u] = deletes[u]
  <2>1. PICK e \in {data[s], saved[s]} : data' = [data EXCEPT ![s] = e]
    BY Zenon DEF Lose
  <2>2. /\ saved' = [saved EXCEPT ![s] = data'[s]] /\ recv' = [recv EXCEPT ![s] = NoRecv]
        /\ deletes' = [deletes EXCEPT ![s] = 0]
    BY Zenon DEF Lose
  <2>3. /\ recv \in [Shard -> RecvType] /\ data \in [Shard -> [Doc -> Content]]
        /\ saved \in [Shard -> [Doc -> Content]] /\ deletes \in [Shard -> Nat]
    BY Zenon DEF Shaped, RecvOK, DataOK, RestOK
  <2> QED
    BY <2>1, <2>2, <2>3, Zenon
<1>2. \A u \in Shard : recv'[u].move \in {0, recv[u].move}
  <2>1. NoRecv.move = 0
    BY Zenon DEF NoRecv
  <2> QED
    BY <1>1, <2>1, Zenon
<1>3. /\ data'[Owner] = truth /\ saved'[Owner] = truth /\ ~recv'[Owner].active
      /\ deletes'[Owner] = 0
    BY <1>1, KeptFacts, NoRecvType, Zenon
<1>4. CASE move.from = s
  <2>1. Go("dead")
    BY <1>4, Zenon DEF Lose
  <2>2. move'.pc = "dead" /\ move'.to = move.to
    BY <2>1, Zenon DEF Go, IInv, Typed, MoveType
  <2>3. move.pc # "idle"
    BY <1>4, MigrationAssumption DEF Shaped, FromOK, Idle
  <2> QED
    BY <1>2, <1>3, <2>2, <2>3, OverSafe, Zenon
<1>5. CASE move.from # s
  <2>1. move' = move /\ from' = from
    BY <1>5, Zenon DEF Lose
  <2>m. /\ Deleted' = Deleted /\ Reload' = Reload
        /\ from'.next = from.next /\ from'.cloneLocs = from.cloneLocs
    BY <2>1, ListsSame, Zenon
  <2>2. CASE move.pc \in Receiving /\ s = move.to
    <3>1. Receiver'
      <4>1. /\ NoRecv.state = "READY" /\ NoRecv.pc = "none" /\ NoRecv.after = FALSE
        BY Zenon DEF NoRecv
      <4> QED
        BY <1>1, <2>1, <2>2, <4>1, Zenon DEF Receiver
    <3>2. LogAgrees'
      <4>1. move.from \in Shard \ {s}
        BY <1>5, <2>2, OwnerFacts, Zenon DEF Logging
      <4> QED
        BY <1>1, <2>1, <2>m, <4>1, Zenon DEF Safe, LogAgrees
    <3>3. Noted' /\ CatchesUp'
      BY <1>1, <2>1, <2>2, NoRecvType, Zenon DEF Noted, CatchesUp, Filling, Receiving
    <3>4. /\ \A u \in Shard \ {move.to} : /\ recv'[u] = recv[u] /\ data'[u] = data[u]
                                          /\ saved'[u] = saved[u] /\ deletes'[u] = deletes[u]
          /\ recv'[move.to].move \in {0, recv[move.to].move}
      BY <1>1, <1>2, <2>2, Zenon
    <3> QED
      BY <2>1, <2>2, <2>m, <3>1, <3>2, <3>3, <3>4, RecipientSafe, Zenon
  <2>3. CASE ~(move.pc \in Receiving /\ s = move.to)
    <3>1. move.pc \in Receiving => /\ recv'[move.to] = recv[move.to] /\ deletes'[move.to] = 0
                                   /\ data'[move.to] = data[move.to]
                                   /\ saved'[move.to] = saved[move.to]
      BY <1>1, <2>3, KeptFacts, Zenon
    <3>2. move.pc = "config" => /\ ~recv'[move.to].active /\ deletes'[move.to] = 0
                                /\ data'[move.to] = data[move.to]
                                /\ saved'[move.to] = saved[move.to]
      BY <1>1, KeptFacts, NoRecvType, Zenon
    <3> QED
      BY <1>2, <1>3, <2>1, <2>m, <3>1, <3>2, KeptFacts, QuietSafe, Zenon
  <2> QED
    BY <2>2, <2>3, Zenon
<1> QED
    BY <1>4, <1>5, Zenon

LEMMA ConfirmSafe ==
    ASSUME IInv, Shaped, Shaped', Safe, ConfirmCommit
    PROVE  Safe'
<1>1. move.pc = "confirm" /\ UNCHANGED <<owners, moves, truth>>
    BY Zenon DEF ConfirmCommit, At, counters, history
<1>2. CASE Lose(move.from)
  <2>1. move.from \in Shard
    BY <1>1, Zenon DEF Shaped, FromOK
  <2> QED
    BY <1>1, <1>2, <2>1, LoseSafe, Zenon
<1>3. CASE /\ Version = move.version + 1 /\ Go("done")
           /\ UNCHANGED <<from, recv, commands, meta, loaded, storage, deletes>>
  <2>1. move'.pc = "done" /\ move'.to = move.to /\ UNCHANGED <<recv, data, saved, deletes>>
    BY <1>3, Zenon DEF Go, IInv, Typed, MoveType, storage
  <2>o. Owner' = Owner
    BY <1>1, OwnerSame, Zenon
  <2>2. move.version # Version
    BY <1>3 DEF IInv, Typed, MoveType
  <2>3. Committed'
    BY <1>1, <2>1, <2>o, <2>2, Zenon DEF Safe, Committed
  <2>4. Kept'
    BY <1>1, <2>1, <2>o, KeptFacts, Zenon DEF Kept
  <2>5. Numbered'
    <3>1. move.pc # "idle" /\ move'.pc # "idle" /\ move'.pc \notin {"scan", "start"}
      BY <1>1, <2>1, Zenon
    <3> QED
      BY <1>1, <2>1, <3>1, Zenon DEF Safe, Numbered
  <2>6. Received' /\ Receiver' /\ LogAgrees' /\ Cloned' /\ Noted' /\ CatchesUp'
    BY <2>1, Zenon DEF Received, Receiver, LogAgrees, Cloned, Noted, CatchesUp, Logging, Receiving
  <2> QED
    BY <2>3, <2>4, <2>5, <2>6, Zenon DEF Safe
<1> QED
    BY <1>2, <1>3, Zenon DEF ConfirmCommit

LEMMA QueueDeleteSafe ==
    ASSUME IInv, Shaped, Safe, QueueDelete
    PROVE  Safe'
<1>1. /\ move.pc = "done" /\ UNCHANGED <<owners, moves, truth, recv, data, saved>>
      /\ move' = Idle /\ deletes' = [deletes EXCEPT ![move.from] = @ + 1]
    BY Zenon DEF QueueDelete, At, storage, history, counters, Return
<1>2. Owner # move.from
    BY <1>1, Zenon DEF Safe, Committed, Shaped, FromOK
<1>3. deletes'[Owner] = 0
    BY <1>1, <1>2, KeptFacts, Zenon DEF Shaped, RestOK
<1>4. move'.pc = "idle" /\ \A u \in Shard : recv'[u].move \in {0, recv[u].move}
    BY <1>1, Zenon DEF Idle
<1> QED
    BY <1>1, <1>3, <1>4, KeptFacts, ReturnSafe, Zenon

\* The range deleter, and the steps that change metadata only.
LEMMA RestSafe ==
    ASSUME IInv, Shaped, Shaped', Safe, NEW s \in Shard,
           DeleteRange(s) \/ LoadMetadata(s) \/ InstallMetadata(s) \/ UNCHANGED vars
    PROVE  Safe'
<1>1. UNCHANGED <<owners, move, moves, truth, recv, saved, from>>
    BY Zenon DEF DeleteRange, LoadMetadata, InstallMetadata, vars, storage, history, counters
<1>2. \/ UNCHANGED <<data, deletes>>
      \/ /\ deletes[s] > 0
         /\ \A u \in Shard \ {s} : data'[u] = data[u] /\ deletes'[u] = deletes[u]
  <2>1. CASE DeleteRange(s)
    BY <2>1, Zenon DEF DeleteRange, Shaped, DataOK, RestOK
  <2>2. CASE LoadMetadata(s) \/ InstallMetadata(s) \/ UNCHANGED vars
    BY <2>2, Zenon DEF LoadMetadata, InstallMetadata, vars, storage
  <2> QED
    BY <2>1, <2>2, Zenon
<1>3. \A u \in Shard : deletes[u] = 0 => data'[u] = data[u] /\ deletes'[u] = 0
    BY <1>2
<1>4. \A u \in Shard : recv'[u].move \in {0, recv[u].move}
    BY <1>1, Zenon
<1>5. data'[Owner] = data[Owner] /\ deletes'[Owner] = 0 /\ ~recv'[Owner].active
    BY <1>1, <1>3, KeptFacts, Zenon
<1>6. move.pc \in Receiving \union {"config"} =>
         data'[move.to] = data[move.to] /\ deletes'[move.to] = 0
    BY <1>3, KeptFacts, Zenon
<1> QED
    BY <1>1, <1>4, <1>5, <1>6, KeptFacts, ListsSame, QuietSafe, Zenon

\* A write of a client, which only the owner takes: it is in the log of the
\* donor if a migration is under way.
LEMMA ChangeSafe ==
    ASSUME IInv, Shaped, Safe, NEW s \in Shard, NEW d \in Doc, NEW c, Change(s, d, c),
           move.pc \in Logging =>
              /\ from'.next = from.next /\ from.cloneLocs \ {d} \subseteq from'.cloneLocs
              /\ \/ c # Absent /\ Deleted' = Deleted /\ Reload' = Reload \union {d}
                 \/ c = Absent /\ Deleted' = Deleted \union {d} /\ Reload' = Reload
    PROVE  Safe'
<1>1. /\ UNCHANGED <<owners, move, recv, deletes, moves>> /\ meta[s].owns
      /\ data' = [data EXCEPT ![s][d] = c] /\ saved' = [saved EXCEPT ![s] = data'[s]]
      /\ truth' = [truth EXCEPT ![d] = c]
    BY Zenon DEF Change
<1>t. data \in [Shard -> [Doc -> Content]] /\ saved \in [Shard -> [Doc -> Content]]
      /\ truth \in [Doc -> Content]
    BY Zenon DEF Shaped, DataOK
<1>o. Owner' = Owner /\ Version' = Version
    BY <1>1, OwnerSame, Zenon
<1>w. /\ s = Owner
      /\ move.pc \notin {"commit", "reply", "undo", "config"}
      /\ move.pc \in Logging => move.from = s /\ move.to \in Shard \ {s}
    BY <1>1, OwnerFacts, Zenon DEF IInv, AcceptedByOwnerOnly
<1>2. /\ data'[s] = truth' /\ saved'[s] = truth' /\ data'[s][d] = c
      /\ \A e \in Doc \ {d} : data'[s][e] = data[s][e]
      /\ \A u \in Shard \ {s} : data'[u] = data[u] /\ saved'[u] = saved[u]
  <2>1. data[s] = truth
    BY <1>w, KeptFacts, Zenon
  <2>2. data'[s] = [data[s] EXCEPT ![d] = c]
    BY <1>1, <1>t, Zenon
  <2>3. data'[s] = truth' /\ saved'[s] = truth'
    BY <1>1, <1>t, <2>1, <2>2, Zenon
  <2>4. data'[s][d] = c /\ \A e \in Doc \ {d} : data'[s][e] = data[s][e]
    BY <1>t, <2>2, Zenon
  <2>5. \A u \in Shard \ {s} : data'[u] = data[u] /\ saved'[u] = saved[u]
    BY <1>1, <1>t, Zenon
  <2> QED
    BY <2>3, <2>4, <2>5, Zenon
<1>3. Kept'
    BY <1>1, <1>2, <1>o, <1>w, KeptFacts, Zenon DEF Kept
<1>4. Numbered' /\ Committed'
    BY <1>1, <1>o, Zenon DEF Safe, Numbered, Committed
<1>5. Received' /\ Cloned'
    BY <1>1, <1>w, Zenon DEF Received, Cloned
<1>l. Receiving \subseteq Logging
    BY Zenon DEF Logging
<1>6. Receiver'
  <2> SUFFICES ASSUME move.pc \in Receiving PROVE Receiver'
    BY <1>1, Zenon DEF Receiver
  <2> DEFINE r == recv[move.to]
  <2>1. move.pc # "reply"
    BY <1>w, Zenon
  <2>2. /\ deletes[move.to] = 0
        /\ r = NoRecv \/ r.move = moves
        /\ r.state # "ABORT"
        /\ r.state \notin {"COMMIT_START", "DONE"} /\ ~r.after
        /\ r.pc \in {"top", "pull", "test"} =>
              r.state \in {"STEADY", "COMMIT_START", "FAIL"}
    BY <2>1, Zenon DEF Safe, Receiver
  <2> QED
    BY <1>1, <2>1, <2>2, Zenon DEF Receiver
<1>7. LogAgrees'
  <2> SUFFICES ASSUME move.pc \in Logging, NEW e \in Deleted', e \notin Reload'
               PROVE  data'[s][e] = Absent
    BY <1>1, <1>w, Zenon DEF LogAgrees
  <2>1. CASE e = d
    BY <1>2, <2>1, Zenon
  <2>2. CASE e # d
    <3>1. e \in Deleted /\ e \notin Reload
      BY <2>2, Zenon
    <3>2. data[s][e] = Absent /\ e \in Doc
      <4>1. Deleted \subseteq Doc
        BY DEF Deleted, Ids, Shaped, FromOK, FromType
      <4> QED
        BY <1>w, <3>1, <4>1, Zenon DEF Safe, LogAgrees
    <3> QED
      BY <1>2, <2>2, <3>2, Zenon
  <2> QED
    BY <2>1, <2>2, Zenon
<1>8. Noted'
  <2> SUFFICES ASSUME move.pc \in Logging,
                      \/ move.pc \in {"scan", "start"}
                      \/ move.pc \in Receiving /\ recv[move.to].pc = "clean",
                      NEW e \in Doc
               PROVE  \/ data'[s][e] = Absent \/ e \in from'.cloneLocs \/ e \in Reload'
                      \/ move.pc = "scan" /\ e >= from'.next
    BY <1>1, <1>w, Zenon DEF Noted, Logging
  <2>1. \/ data[s][e] = Absent \/ e \in from.cloneLocs \/ e \in Reload
        \/ move.pc = "scan" /\ e >= from.next
    BY <1>w, Zenon DEF Safe, Noted
  <2> QED
    BY <1>2, <2>1, Zenon
<1>9. CatchesUp'
  <2> SUFFICES ASSUME move.pc \in Receiving, recv[move.to].pc \in Filling, NEW e \in Doc
               PROVE  Agrees(e)'
    BY <1>1, Zenon DEF CatchesUp
  <2>1. move.pc \in Logging /\ move.from = s /\ move.to \in Shard \ {s}
    BY <1>l, <1>w, Zenon
  <2>2. Fetched(move.to)' = Fetched(move.to)
    <3>1. data'[move.to] = data[move.to] /\ recv' = recv /\ move' = move
      BY <1>1, <1>2, <2>1, Zenon
    <3> QED
      BY <3>1, Zenon DEF Fetched, Applied
  <2>3. Agrees(e)
    BY Zenon DEF Safe, CatchesUp
  <2>4. \/ Fetched(move.to)[e] = data[s][e]
        \/ e \in from.cloneLocs \/ e \in Deleted \/ e \in Reload
    BY <2>1, <2>3, Zenon DEF Agrees
  <2>5. data[s][e] = Absent => Fetched(move.to)[e] = Absent \/ e \in Deleted
    BY <2>1, <2>3, Zenon DEF Agrees
  <2> DEFINE f == Fetched(move.to)
  <2> HIDE DEF f
  <2>6. \/ f[e] = data'[s][e]
        \/ e \in from'.cloneLocs \/ e \in Deleted' \/ e \in Reload'
    <3>1. CASE e = d
      BY <2>1, <3>1, Zenon
    <3>2. CASE e # d
      <4>1. data'[s][e] = data[s][e]
        BY <1>2, <3>2, Zenon
      <4> QED
        BY <2>1, <2>4, <3>2, <4>1, Zenon DEF f
    <3> QED
      BY <3>1, <3>2, Zenon
  <2>7. data'[s][e] = Absent => f[e] = Absent \/ e \in Deleted'
    <3>1. CASE e = d
      BY <1>2, <2>1, <3>1, Zenon
    <3>2. CASE e # d
      <4>1. data'[s][e] = data[s][e]
        BY <1>2, <3>2
      <4> QED
        BY <2>1, <2>5, <3>2, <4>1, Zenon DEF f
    <3> QED
      BY <3>1, <3>2, Zenon
  <2> QED
    BY <1>1, <2>1, <2>2, <2>6, <2>7, Zenon DEF Agrees, f
<1> QED
    BY <1>3, <1>4, <1>5, <1>6, <1>7, <1>8, <1>9, Zenon DEF Safe

LEMMA WriteSafe ==
    ASSUME IInv, Shaped, Safe, NEW s \in Shard, NEW d \in Doc, Put(s, d) \/ Remove(s, d)
    PROVE  Safe'
<1>t. /\ from \in FromType /\ from.deleted \in Seq(Doc) /\ from.reload \in Seq(Doc)
      /\ from.cloneLocs \in SUBSET Doc
    BY Zenon DEF Shaped, FromOK, FromType
<1>1. ASSUME meta[s].owns, move.pc \in Logging PROVE Logs(s)
  <2>1. s = Owner /\ move.from = Owner
    BY <1>1, OwnerFacts, Zenon DEF IInv, AcceptedByOwnerOnly
  <2>2. from.active
    BY <1>1, Zenon DEF Shaped, FromOK, Logging, Receiving
  <2> QED
    BY <2>1, <2>2, Zenon DEF Logs
<1>2. CASE Put(s, d)
  <2> DEFINE c == writes + 2
  <2>1. Change(s, d, c) /\ c # Absent
    <3>1. Change(s, d, c)
      BY <1>2, Zenon DEF Put
    <3>2. c # Absent
      BY DEF Absent, Shaped, RestOK
    <3> QED
      BY <3>1, <3>2, Zenon
  <2>2. ASSUME move.pc \in Logging
        PROVE  /\ from'.next = from.next /\ from.cloneLocs \ {d} \subseteq from'.cloneLocs
               /\ Deleted' = Deleted /\ Reload' = Reload \union {d}
    <3>1. Logs(s)
      BY <1>1, <2>1, <2>2, Zenon DEF Change
    <3> DEFINE L == Append(from.reload, d)
    <3>2. PICK gone \in SUBSET {d} :
             from' = [from EXCEPT !.reload = L, !.cloneLocs = from.cloneLocs \ gone]
      BY <1>2, <3>1, Zenon DEF Put
    <3> DEFINE C == from.cloneLocs \ gone
    <3>3. L \in Seq(Doc) /\ Ids(L, Len(L)) = Reload \union {d}
      <4> DEFINE q == from.reload
      <4>1. q \in Seq(Doc)
        BY <1>t, Zenon
      <4> HIDE DEF q
      <4>2. /\ Append(q, d) \in Seq(Doc)
            /\ Ids(Append(q, d), Len(Append(q, d))) = Ids(q, Len(q)) \union {d}
        BY <4>1, IdsOfAppend
      <4> QED
        BY <4>2, Zenon DEF Reload, q
    <3>c. C \in SUBSET Doc /\ from.cloneLocs \ {d} \subseteq C
      BY <1>t, Zenon
    <3> HIDE DEF L, C
    <3>4. /\ from'.next = from.next /\ from'.cloneLocs = C
          /\ from'.deleted = from.deleted /\ from'.reload = L
      <4>1. from' = [from EXCEPT !.reload = L, !.cloneLocs = C]
        BY <3>2, Zenon DEF C
      <4> QED
        BY <1>t, <3>3, <3>c, <4>1, Zenon DEF FromType
    <3>5. Deleted' = Deleted /\ Reload' = Ids(L, Len(L))
      BY <3>4, Zenon DEF Deleted, Reload, Ids
    <3> QED
      BY <3>3, <3>4, <3>5, <3>c, Zenon
  <2> HIDE DEF c
  <2> QED
    BY <2>1, <2>2, ChangeSafe, Zenon
<1>3. CASE Remove(s, d)
  <2>1. Change(s, d, Absent)
    BY <1>3, Zenon DEF Remove
  <2>2. ASSUME move.pc \in Logging
        PROVE  /\ from'.next = from.next /\ from.cloneLocs \ {d} \subseteq from'.cloneLocs
               /\ Deleted' = Deleted \union {d} /\ Reload' = Reload
    <3>1. Logs(s)
      BY <1>1, <2>1, <2>2, Zenon DEF Change
    <3> DEFINE L == Append(from.deleted, d)
               C == from.cloneLocs \ {d}
    <3>2. from' = [from EXCEPT !.deleted = L, !.cloneLocs = C]
      BY <1>3, <3>1, Zenon DEF Remove
    <3>3. L \in Seq(Doc) /\ Ids(L, Len(L)) = Deleted \union {d}
      <4> DEFINE q == from.deleted
      <4>1. q \in Seq(Doc)
        BY <1>t, Zenon
      <4> HIDE DEF q
      <4>2. /\ Append(q, d) \in Seq(Doc)
            /\ Ids(Append(q, d), Len(Append(q, d))) = Ids(q, Len(q)) \union {d}
        BY <4>1, IdsOfAppend
      <4> QED
        BY <4>2, Zenon DEF Deleted, q
    <3>c. C \in SUBSET Doc /\ from.cloneLocs \ {d} \subseteq C
      BY <1>t, Zenon
    <3> HIDE DEF L, C
    <3>4. /\ from'.next = from.next /\ from'.cloneLocs = C
          /\ from'.deleted = L /\ from'.reload = from.reload
      BY <1>t, <3>2, <3>3, <3>c, Zenon DEF FromType
    <3>5. Deleted' = Ids(L, Len(L)) /\ Reload' = Reload
      BY <3>4, Zenon DEF Deleted, Reload, Ids
    <3> QED
      BY <3>3, <3>4, <3>5, <3>c, Zenon
  <2> QED
    BY <2>1, <2>2, ChangeSafe, Zenon
<1> QED
    BY <1>2, <1>3, Zenon

\* What a step of a migrateThread leaves alone.
Stays(t) ==
    /\ \A u \in Shard \ {t} : recv'[u] = recv[u]
    /\ recv'[t].move = recv[t].move

LEMMA SetsStays ==
    ASSUME NEW t, NEW a, NEW q, NEW p, NEW f, NEW x, Sets(t, a, q, p, f, x)
    PROVE  Stays(t)
BY Zenon DEF Sets, Stays

LEMMA ThreadStays ==
    ASSUME Shaped, NEW t \in Shard, RecvStep(t) \/ ThreadFails(t)
    PROVE  Stays(t) /\ recv[t].active
<1>t. /\ recv[t] \in RecvType /\ recv[t].state \in RecvState
      /\ RecvOK /\ (recv[t].pc # "none" => recv[t].active)
  <2>1. recv[t] \in RecvType
    BY Zenon DEF Shaped, RecvOK
  <2>2. recv[t].state \in RecvState
    BY <2>1, Zenon DEF RecvType
  <2>3. RecvOK /\ (recv[t].pc # "none" => recv[t].active)
    BY Zenon DEF Shaped, RecvOK
  <2> QED
    BY <2>1, <2>2, <2>3, Zenon
<1>p. {"clone", "mods", "flush", "top", "pull", "test", "end", "exit", "pend", "begin"}
        \subseteq RecvPc
    BY Zenon DEF RecvPc
<1>q. {"FAIL", "CLONE", "CATCHUP", "STEADY"} \subseteq RecvState
    BY Zenon DEF RecvState
<1>1. recv[t].active
  <2>1. recv[t].pc # "none"
    <3>1. CASE RemoveRange(t) \/ NotePending(t) \/ BeginClone(t) \/ Clone(t) \/ CatchUp(t)
      BY <3>1, Zenon DEF RemoveRange, NotePending, BeginClone, Clone, CatchUp, R
    <3>2. CASE EnterSteady(t) \/ SteadyTop(t) \/ SteadyPull(t) \/ SteadyTest(t)
      BY <3>2, Zenon DEF EnterSteady, SteadyTop, SteadyPull, SteadyTest, Tested, R
    <3>3. CASE ForgetPending(t) \/ ThreadEnds(t) \/ ThreadFails(t)
      BY <3>3, Zenon DEF ForgetPending, ThreadEnds, ThreadFails, R
    <3> QED
      BY <3>1, <3>2, <3>3, Zenon DEF RecvStep
  <2> QED
    BY <1>t, <2>1, Zenon
<1>2. Stays(t)
  <2>a. ASSUME NEW p \in RecvPc, RGo(t, p) PROVE Stays(t)
    BY <1>t, <2>a, SetsPc, SetsStays, Zenon
  <2>b. ASSUME NEW p \in RecvPc, NEW q \in RecvState, RGoState(t, p, q) PROVE Stays(t)
    BY <1>t, <2>b, SetsPcState, SetsStays, Zenon
  <2>1. CASE RemoveRange(t) \/ BeginClone(t) \/ EnterSteady(t) \/ ForgetPending(t)
    BY <1>p, <1>q, <2>1, <2>a, <2>b, Zenon DEF RemoveRange, BeginClone, EnterSteady, ForgetPending
  <2>2. CASE NotePending(t)
    BY <1>t, <1>p, <1>q, <2>2, <2>b, Zenon DEF NotePending
  <2>4. CASE Clone(t)
    <3>1. CASE recv' = recv
      BY <3>1, Zenon DEF Stays
    <3> QED
      BY <1>p, <1>q, <2>4, <2>b, <3>1, Zenon DEF Clone
  <2>5. CASE CatchUp(t)
    BY <1>p, <1>q, <2>5, <2>a, <2>b, Zenon DEF CatchUp
  <2>7. CASE SteadyTop(t)
    BY <1>t, <2>7, TopSets, SetsStays, Zenon
  <2>8. CASE SteadyPull(t)
    <3>2. CASE ~FromActive(t)
      BY <1>p, <1>q, <2>8, <2>b, <3>2, Zenon DEF SteadyPull
    <3>3. CASE FromActive(t)
      <4>1. from \in FromType /\ TransferMods /\ move.from \in Shard /\ DataOK
        BY <2>8, <3>3, Zenon DEF SteadyPull, FromActive, Shaped, FromOK
      <4>2. Mods \in XferType
        BY <4>1, TransferFacts, ModsFacts, Zenon
      <4>3. recv' = [recv EXCEPT ![t].pc = "test", ![t].xfer = Mods]
        BY <2>8, <3>3, Zenon DEF SteadyPull
      <4> QED
        BY <1>t, <4>2, <4>3, PullSets, SetsStays, Zenon
    <3> QED
      BY <3>2, <3>3, Zenon
  <2>9. CASE SteadyTest(t)
    BY <1>t, <2>9, TestSets, SetsStays, Zenon
  <2>11. CASE ThreadEnds(t)
    BY <1>t, <2>11, EndSets, SetsStays, Zenon
  <2>12. CASE ThreadFails(t)
    BY <1>t, <2>12, FailSets, SetsStays, Zenon
  <2> QED
    BY <2>1, <2>2, <2>4, <2>5, <2>7, <2>8, <2>9, <2>11, <2>12, Zenon DEF RecvStep
<1> QED
    BY <1>1, <1>2, Zenon

LEMMA ThreadEffects ==
    ASSUME Shaped, NEW t \in Shard, RecvStep(t) \/ ThreadFails(t)
    PROVE  /\ UNCHANGED <<owners, move, moves, truth>>
           /\ \A u \in Shard \ {t} : /\ data'[u] = data[u] /\ saved'[u] = saved[u]
                                     /\ deletes'[u] = deletes[u]
           /\ \/ from' = from
              \/ crossed' \/ moves = recv[t].move
              \/ TransferMods /\ ~HasMods
<1>t. /\ data \in [Shard -> [Doc -> Content]] /\ saved \in [Shard -> [Doc -> Content]]
      /\ deletes \in [Shard -> Nat]
    BY Zenon DEF Shaped, DataOK, RestOK
<1>1. CASE RemoveRange(t) \/ NotePending(t) \/ BeginClone(t) \/ EnterSteady(t) \/ SteadyTop(t)
    BY <1>1, <1>t, Zenon DEF RemoveRange, NotePending, BeginClone, EnterSteady, SteadyTop, counters,
                      history, storage
<1>2. CASE Clone(t)
    BY <1>2, <1>t, Zenon DEF Clone, counters, Crosses
<1>3. CASE CatchUp(t)
    BY <1>3, <1>t, Zenon DEF CatchUp, counters, Crosses
<1>4. CASE SteadyPull(t)
    BY <1>4, <1>t, Zenon DEF SteadyPull, counters, storage, Crosses
<1>5. CASE SteadyTest(t)
    BY <1>5, <1>t, Zenon DEF SteadyTest, Tested, counters
<1>6. CASE ForgetPending(t) \/ ThreadEnds(t) \/ ThreadFails(t)
    BY <1>6, <1>t, Zenon DEF ForgetPending, ThreadEnds, ThreadFails, counters, history, storage
<1> QED
    BY <1>1, <1>2, <1>3, <1>4, <1>5, <1>6, Zenon DEF RecvStep

\* A thread that is not the current recipient's takes nothing from the donor,
\* or it has crossed.
LEMMA StrangerSafe ==
    ASSUME IInv, Shaped, Shaped', Safe, ~crossed', NEW t \in Shard,
           RecvStep(t) \/ ThreadFails(t), ~(move.pc \in Receiving /\ t = move.to)
    PROVE  Safe'
<1>1. /\ UNCHANGED <<owners, move, moves, truth>>
      /\ \A u \in Shard \ {t} : /\ data'[u] = data[u] /\ saved'[u] = saved[u]
                                /\ deletes'[u] = deletes[u] /\ recv'[u] = recv[u]
      /\ recv'[t].move = recv[t].move /\ recv[t].active
    BY ThreadEffects, ThreadStays, Zenon DEF Stays
<1>2. \A u \in Shard : recv'[u].move \in {0, recv[u].move}
    BY <1>1, Zenon
<1>3. Owner # t /\ (move.pc \in Receiving \union {"config"} => move.to \in Shard \ {t})
    BY <1>1, KeptFacts, Zenon
<1>4. ASSUME move.pc \in Logging
      PROVE  /\ from'.next = from.next /\ from'.cloneLocs = from.cloneLocs
             /\ Deleted' = Deleted /\ Reload' = Reload
  <2>1. moves # recv[t].move
    <3>1. recv[t].move < moves /\ recv[t].move \in Nat /\ moves \in Nat
      BY <1>4, Zenon DEF Logging, Receiving, Safe, Numbered, Shaped, RecvOK, RecvType, RestOK
    <3> QED
      BY <3>1
  <2>2. CASE from' = from
    BY <2>2, ListsSame, Zenon
  <2>3. CASE TransferMods /\ ~HasMods
    <3>1. from \in FromType
      BY Zenon DEF Shaped, FromOK
    <3>2. Deleted = {} /\ Reload = {}
      BY <2>3, <3>1, NoMods, Zenon
    <3> QED
      BY <2>3, <3>1, <3>2, TransferFacts, Zenon
  <2> QED
    BY <2>1, <2>2, <2>3, ThreadEffects, Zenon
<1> QED
    BY <1>1, <1>2, <1>3, <1>4, KeptFacts, QuietSafe, Zenon

-----------------------------------------------------------------------------
(* The steps of the recipient's thread. *)

\* What Receiver says of a thread that is under way.
LEMMA ReceiverFacts ==
    ASSUME IInv, Shaped, Safe, NEW t \in Shard, move.pc \in Receiving, t = move.to,
           recv[t].active
    PROVE  /\ deletes[t] = 0 /\ recv[t].move = moves /\ recv[t].state # "ABORT"
           /\ move.pc # "reply" =>
                 recv[t].state \notin {"COMMIT_START", "DONE"} /\ ~recv[t].after
           /\ recv[t].state = "DONE" => /\ recv[t].pc \in {"end", "exit", "none"}
                                        /\ data[t] = truth /\ saved[t] = truth
           /\ recv[t].pc \in {"top", "pull", "test"} =>
                 recv[t].state \in {"STEADY", "COMMIT_START", "FAIL"}
           /\ recv[t].pc = "test" /\ recv[t].after /\ ~recv[t].xfer.sized =>
                 Deleted = {} /\ Reload = {}
           /\ move.from \in Shard \ {t} /\ data[move.from] = truth
           /\ recv[t].pc \in Filling => \A d \in Doc : Agrees(d)
<1>1. recv[t] # NoRecv
    BY NoRecvType, Zenon
<1>2. move.from = Owner /\ move.from \in Shard \ {t} /\ data[move.from] = truth
    BY OwnerFacts, KeptFacts, Zenon DEF Logging
<1> QED
    BY <1>1, <1>2, Zenon DEF Safe, Receiver, CatchesUp

\* A step that takes nothing from the donor.
LEMMA OwnStepSafe ==
    ASSUME IInv, Shaped, Safe, NEW t \in Shard, move.pc \in Receiving, t = move.to,
           RecvStep(t) \/ ThreadFails(t), from' = from, deletes'[t] = 0,
           recv'[t].state # "ABORT",
           move.pc # "reply" => recv'[t].state \notin {"COMMIT_START", "DONE"} /\ ~recv'[t].after,
           recv'[t].state = "DONE" => /\ recv'[t].pc \in {"end", "exit", "none"}
                                      /\ data'[t] = truth /\ saved'[t] = truth,
           recv'[t].pc \in {"top", "pull"} =>
              recv'[t].state \in {"STEADY", "COMMIT_START", "FAIL"},
           recv'[t].pc \notin {"clean", "test"},
           recv'[t].pc \in Filling =>
              \A d \in Doc :
                 /\ \/ data'[t][d] = data[move.from][d]
                    \/ d \in from.cloneLocs \/ d \in Deleted \/ d \in Reload
                 /\ data[move.from][d] = Absent => data'[t][d] = Absent \/ d \in Deleted
    PROVE  Safe'
<1>1. /\ UNCHANGED <<owners, move, moves, truth>>
      /\ \A u \in Shard \ {t} : /\ data'[u] = data[u] /\ saved'[u] = saved[u]
                                /\ deletes'[u] = deletes[u] /\ recv'[u] = recv[u]
      /\ recv'[t].move = recv[t].move /\ recv[t].active
    BY ThreadEffects, ThreadStays DEF Stays
<1>2. recv[t].move = moves /\ move.from \in Shard \ {t}
    BY <1>1, ReceiverFacts, Zenon
<1>m. /\ Deleted' = Deleted /\ Reload' = Reload
      /\ from'.next = from.next /\ from'.cloneLocs = from.cloneLocs
    BY ListsSame, Zenon
<1>3. Receiver'
    BY <1>1, <1>2, Zenon DEF Receiver
<1>4. LogAgrees'
    BY <1>1, <1>2, <1>m, Zenon DEF Safe, LogAgrees
<1>5. Noted'
    BY <1>1, Zenon DEF Noted, Receiving
<1>6. CatchesUp'
  <2> SUFFICES ASSUME recv'[t].pc \in Filling, NEW d \in Doc PROVE Agrees(d)'
    BY <1>1, Zenon DEF CatchesUp
  <2>1. Fetched(move.to)' = data'[t]
    BY <1>1, Zenon DEF Fetched
  <2>2. data'[move.from] = data[move.from]
    BY <1>1, <1>2, Zenon
  <2> QED
    BY <1>1, <1>m, <2>1, <2>2 DEF Agrees
<1>7. recv'[move.to].move \in {0, recv[move.to].move}
    BY <1>1, Zenon
<1> QED
    BY <1>1, <1>3, <1>4, <1>5, <1>6, <1>7, <1>m, RecipientSafe, Zenon

\* A transfer of changes, as it is when it has been applied.
LEMMA TransferAgrees ==
    ASSUME IInv, Shaped, Safe, NEW t \in Shard, move.pc \in Receiving, t = move.to,
           recv[t].active, recv[t].pc \in Filling \ {"test"}, TransferMods
    PROVE  /\ \A d \in Deleted' : data[move.from][d] = Absent \/ d \in Reload'
           /\ \A d \in Doc :
                 /\ \/ Applied(data[t], Mods)[d] = data[move.from][d]
                    \/ d \in from.cloneLocs \/ d \in Deleted' \/ d \in Reload'
                 /\ data[move.from][d] = Absent =>
                       Applied(data[t], Mods)[d] = Absent \/ d \in Deleted'
<1>1. from \in FromType /\ DataOK /\ move.from \in Shard
    BY ReceiverFacts, Zenon DEF Shaped, FromOK
<1>2. /\ Deleted = Sent \union Deleted' /\ Reload = Looked \union Reload'
      /\ Looked # {} => Deleted' = {}
      /\ Sent \subseteq Doc /\ Looked \subseteq Doc
    BY <1>1, TransferFacts, Zenon
<1>3. /\ Mods.del = Sent
      /\ DOMAIN Mods.put = {d \in Looked : data[move.from][d] # Absent}
      /\ \A d \in DOMAIN Mods.put : Mods.put[d] = data[move.from][d]
    BY <1>1, <1>2, ModsFacts, Zenon
<1>4. \A d \in Deleted : data[move.from][d] = Absent \/ d \in Reload
    BY Zenon DEF Safe, LogAgrees, Logging
<1>5. \A d \in Deleted' : data[move.from][d] = Absent \/ d \in Reload'
    BY <1>2, <1>4, Zenon
<1> DEFINE g == data[t]
           D == data[move.from]
           f == Applied(g, Mods)
<1>6. ASSUME NEW d \in Doc
      PROVE  /\ g[d] = D[d] \/ d \in from.cloneLocs \/ d \in Deleted \/ d \in Reload
             /\ D[d] = Absent => g[d] = Absent \/ d \in Deleted
  <2>1. Agrees(d) /\ Fetched(move.to) = g
    BY ReceiverFacts, Zenon DEF Fetched
  <2> QED
    BY <2>1, Zenon DEF Agrees
<1>7. ASSUME NEW d \in Doc
      PROVE  f[d] = IF d \in Looked /\ D[d] # Absent THEN D[d]
                    ELSE IF d \in Sent THEN Absent ELSE g[d]
    BY <1>3, Zenon DEF Applied
<1> HIDE DEF f, g, D
<1>8. \A d \in Doc : /\ f[d] = D[d] \/ d \in from.cloneLocs \/ d \in Deleted' \/ d \in Reload'
                     /\ D[d] = Absent => f[d] = Absent \/ d \in Deleted'
  <2> SUFFICES ASSUME NEW d \in Doc
               PROVE  /\ \/ f[d] = D[d] \/ d \in from.cloneLocs
                         \/ d \in Deleted' \/ d \in Reload'
                      /\ D[d] = Absent => f[d] = Absent \/ d \in Deleted'
    BY Zenon
  <2>1. CASE d \in Looked /\ D[d] # Absent
    BY <1>7, <2>1, Zenon
  <2>2. CASE ~(d \in Looked /\ D[d] # Absent) /\ d \in Sent
    <3>1. f[d] = Absent
      BY <1>7, <2>2, Zenon
    <3>2. D[d] = Absent \/ d \in Reload
      BY <1>2, <1>4, <2>2, Zenon DEF D
    <3> QED
      BY <1>2, <2>2, <3>1, <3>2, Zenon
  <2>3. CASE ~(d \in Looked /\ D[d] # Absent) /\ d \notin Sent
    <3>1. f[d] = g[d]
      BY <1>7, <2>3, Zenon
    <3> QED
      BY <1>2, <1>6, <2>3, <3>1, Zenon
  <2> QED
    BY <2>1, <2>2, <2>3, Zenon
<1> QED
    BY <1>5, <1>8, Zenon DEF f, g, D

\* A step of the recipient's thread that leaves its documents as they are.
LEMMA IdleStepSafe ==
    ASSUME IInv, Shaped, Safe, NEW t \in Shard, move.pc \in Receiving, t = move.to,
           RecvStep(t) \/ ThreadFails(t), from' = from, deletes'[t] = 0,
           recv[t].pc # "test",
           recv'[t].pc \in Filling => recv[t].pc \in Filling,
           data'[t] = data[t],
           recv'[t].state # "ABORT",
           move.pc # "reply" => recv'[t].state \notin {"COMMIT_START", "DONE"} /\ ~recv'[t].after,
           recv'[t].state = "DONE" =>
              recv[t].state = "DONE" /\ recv'[t].pc \in {"end", "exit", "none"}
              /\ saved'[t] = saved[t],
           recv'[t].pc \in {"top", "pull"} =>
              recv'[t].state \in {"STEADY", "COMMIT_START", "FAIL"},
           recv'[t].pc \notin {"clean", "test"}
    PROVE  Safe'
<1>1. recv[t].active
    BY ThreadStays, Zenon
<1>2. /\ recv[t].state = "DONE" => data[t] = truth /\ saved[t] = truth
      /\ recv[t].pc \in Filling => \A d \in Doc : Agrees(d)
    BY <1>1, ReceiverFacts, Zenon
<1>3. Fetched(move.to) = data[t]
    BY Zenon DEF Fetched
<1>4. recv[t].pc \in Filling =>
         \A d \in Doc :
            /\ \/ data[t][d] = data[move.from][d]
               \/ d \in from.cloneLocs \/ d \in Deleted \/ d \in Reload
            /\ data[move.from][d] = Absent => data[t][d] = Absent \/ d \in Deleted
    BY <1>2, <1>3, Zenon DEF Agrees
<1>5. /\ recv'[t].pc \in Filling =>
            \A d \in Doc :
               /\ \/ data'[t][d] = data[move.from][d]
                  \/ d \in from.cloneLocs \/ d \in Deleted \/ d \in Reload
               /\ data[move.from][d] = Absent => data'[t][d] = Absent \/ d \in Deleted
      /\ recv'[t].state = "DONE" => /\ recv'[t].pc \in {"end", "exit", "none"}
                                    /\ data'[t] = truth /\ saved'[t] = truth
    BY <1>2, <1>4, Zenon
<1> QED
    BY <1>5, OwnStepSafe, Zenon

LEMMA RemoveRangeSafe ==
    ASSUME IInv, Shaped, Safe, NEW t \in Shard, move.pc \in Receiving, t = move.to,
           RemoveRange(t)
    PROVE  Safe'
<1>s. RecvStep(t)
    BY Zenon DEF RecvStep
<1>1. /\ recv[t].pc = "clean" /\ RGo(t, "pend") /\ UNCHANGED <<from, saved, deletes>>
      /\ data' = [data EXCEPT ![t] = [d \in Doc |-> Absent]]
    BY Zenon DEF RemoveRange, R
<1>2. Sets(t, recv[t].active, recv[t].state, "pend", recv[t].after, recv[t].xfer)
  <2>1. "pend" \in RecvPc /\ RecvOK
    BY Zenon DEF RecvPc, Shaped
  <2> QED
    BY <1>1, <2>1, SetsPc, Zenon
<1>3. recv'[t].pc = "pend" /\ recv'[t].state = recv[t].state /\ recv'[t].after = recv[t].after
    BY <1>2, Zenon DEF Sets
<1>4. recv[t].active
    BY <1>s, ThreadStays, Zenon
<1>5. /\ deletes[t] = 0 /\ recv[t].state # "ABORT" /\ recv[t].state # "DONE"
      /\ move.pc # "reply" => recv[t].state \notin {"COMMIT_START", "DONE"} /\ ~recv[t].after
    BY <1>1, <1>4, ReceiverFacts, Zenon
<1>6. \A d \in Doc : data'[t][d] = Absent
    BY <1>1, Zenon DEF Shaped, DataOK
<1>7. \A d \in Doc : data[move.from][d] = Absent \/ d \in from.cloneLocs \/ d \in Reload
  <2>1. move.pc # "scan"
    BY Zenon DEF Receiving
  <2> QED
    BY <1>1, <2>1, Zenon DEF Safe, Noted
<1>8. \A d \in Doc : /\ \/ data'[t][d] = data[move.from][d]
                        \/ d \in from.cloneLocs \/ d \in Deleted \/ d \in Reload
                     /\ data[move.from][d] = Absent => data'[t][d] = Absent \/ d \in Deleted
    BY <1>6, <1>7, Zenon
<1>9. /\ deletes'[t] = 0 /\ recv'[t].state # "ABORT" /\ recv'[t].state # "DONE"
      /\ move.pc # "reply" => recv'[t].state \notin {"COMMIT_START", "DONE"} /\ ~recv'[t].after
    BY <1>1, <1>3, <1>5, Zenon
<1>10. recv'[t].pc \notin {"top", "pull", "clean", "test"}
    BY <1>3, Zenon
<1> QED
    BY <1>s, <1>1, <1>8, <1>9, <1>10, OwnStepSafe, Zenon

\* The steps that change neither the documents nor the lists.
LEMMA PlainStepSafe ==
    ASSUME IInv, Shaped, Safe, ~doomed', NEW t \in Shard, move.pc \in Receiving, t = move.to,
           NotePending(t) \/ BeginClone(t) \/ EnterSteady(t) \/ SteadyTop(t)
              \/ ForgetPending(t) \/ ThreadEnds(t)
    PROVE  Safe'
<1>s. RecvStep(t)
    BY Zenon DEF RecvStep
<1>4. recv[t].active
    BY <1>s, ThreadStays, Zenon
<1>5. /\ deletes[t] = 0 /\ recv[t].state # "ABORT"
      /\ recv[t].state = "DONE" => recv[t].pc \in {"end", "exit", "none"}
      /\ move.pc # "reply" => recv[t].state \notin {"COMMIT_START", "DONE"} /\ ~recv[t].after
      /\ recv[t].pc \in {"top", "pull", "test"} =>
            recv[t].state \in {"STEADY", "COMMIT_START", "FAIL"}
    BY <1>4, ReceiverFacts, Zenon
<1>t. /\ recv[t] \in RecvType /\ recv[t].state \in RecvState /\ RecvOK
  <2>1. recv[t] \in RecvType /\ RecvOK
    BY Zenon DEF Shaped, RecvOK
  <2> QED
    BY <2>1, Zenon DEF RecvType
<1>p. {"begin", "clone", "top", "pull", "end", "exit", "none"} \subseteq RecvPc
    BY Zenon DEF RecvPc
<1>q. {"FAIL", "CLONE", "STEADY"} \subseteq RecvState
    BY Zenon DEF RecvState
<1>1. CASE NotePending(t)
  <2>1. recv[t].pc = "pend" /\ UNCHANGED <<from, data, saved, deletes>>
    BY <1>1, Zenon DEF NotePending, R, storage
  <2>2. PICK p \in {"begin", "end"}, q \in {recv[t].state, "FAIL"} : RGoState(t, p, q)
    BY <1>1, Zenon DEF NotePending
  <2>3. Sets(t, recv[t].active, q, p, recv[t].after, recv[t].xfer)
    BY <1>t, <1>p, <1>q, <2>2, SetsPcState, Zenon
  <2>4. recv'[t].pc = p /\ recv'[t].state = q /\ recv'[t].after = recv[t].after
    BY <2>3, Zenon DEF Sets
  <2>5. /\ recv[t].pc # "test" /\ recv[t].pc \in Filling
        /\ recv'[t].pc \notin {"top", "pull", "clean", "test"} /\ recv'[t].state # "ABORT"
        /\ recv'[t].state # "DONE"
        /\ move.pc # "reply" => recv'[t].state # "COMMIT_START" /\ ~recv'[t].after
    BY <1>5, <2>1, <2>4, Zenon DEF Filling
  <2> QED
    BY <1>s, <1>5, <2>1, <2>5, IdleStepSafe, Zenon
<1>2. CASE BeginClone(t)
  <2>1. recv[t].pc = "begin" /\ UNCHANGED <<from, data, saved>> /\ RGoState(t, "clone", "CLONE")
    BY <1>2, Zenon DEF BeginClone, R, storage
  <2>d. deletes' = deletes
    BY <1>2, <1>5, Zenon DEF BeginClone
  <2>3. Sets(t, recv[t].active, "CLONE", "clone", recv[t].after, recv[t].xfer)
    BY <1>t, <1>p, <1>q, <2>1, SetsPcState, Zenon
  <2>4. recv'[t].pc = "clone" /\ recv'[t].state = "CLONE" /\ recv'[t].after = recv[t].after
    BY <2>3, Zenon DEF Sets
  <2>5. /\ recv[t].pc # "test" /\ recv[t].pc \in Filling
        /\ recv'[t].pc \notin {"top", "pull", "clean", "test"} /\ recv'[t].state # "ABORT"
        /\ recv'[t].state # "DONE"
        /\ move.pc # "reply" => recv'[t].state # "COMMIT_START" /\ ~recv'[t].after
    BY <1>5, <2>1, <2>4, Zenon DEF Filling
  <2> QED
    BY <1>s, <1>5, <2>1, <2>5, <2>d, IdleStepSafe, Zenon
<1>3. CASE EnterSteady(t)
  <2>1. recv[t].pc = "flush" /\ UNCHANGED <<from, data, deletes>> /\ RGoState(t, "top", "STEADY")
    BY <1>3, Zenon DEF EnterSteady, R
  <2>3. Sets(t, recv[t].active, "STEADY", "top", recv[t].after, recv[t].xfer)
    BY <1>t, <1>p, <1>q, <2>1, SetsPcState, Zenon
  <2>4. recv'[t].pc = "top" /\ recv'[t].state = "STEADY" /\ recv'[t].after = recv[t].after
    BY <2>3, Zenon DEF Sets
  <2>5. /\ recv[t].pc # "test" /\ recv[t].pc \in Filling
        /\ recv'[t].pc \notin {"clean", "test"} /\ recv'[t].state # "ABORT"
        /\ recv'[t].state # "DONE" /\ recv'[t].state = "STEADY"
        /\ move.pc # "reply" => recv'[t].state # "COMMIT_START" /\ ~recv'[t].after
    BY <1>5, <2>1, <2>4, Zenon DEF Filling
  <2> QED
    BY <1>s, <1>5, <2>1, <2>5, IdleStepSafe, Zenon
<1>6. CASE SteadyTop(t)
  <2>1. recv[t].pc = "top" /\ UNCHANGED <<from, data, saved, deletes>>
    BY <1>6, Zenon DEF SteadyTop, R, storage
  <2>b. /\ recv[t].pc # "test" /\ recv[t].pc \in Filling /\ deletes'[t] = 0
    BY <1>5, <2>1, Zenon DEF Filling
  <2>2. CASE /\ recv[t].state \in {"STEADY", "COMMIT_START"}
             /\ Sets(t, recv[t].active, recv[t].state, "pull",
                     recv[t].after \/ recv[t].state = "COMMIT_START", recv[t].xfer)
    <3>1. /\ recv'[t].pc = "pull" /\ recv'[t].state = recv[t].state
          /\ recv'[t].after = (recv[t].after \/ recv[t].state = "COMMIT_START")
      BY <2>2, Zenon DEF Sets
    <3>2. move.pc # "reply" => ~recv'[t].after
      BY <1>5, <3>1, Zenon
    <3>3. /\ recv'[t].pc \notin {"clean", "test"} /\ recv'[t].state # "ABORT"
          /\ recv'[t].state # "DONE" /\ recv'[t].state \in {"STEADY", "COMMIT_START"}
          /\ move.pc # "reply" => recv'[t].state # "COMMIT_START" /\ ~recv'[t].after
      BY <1>5, <2>2, <3>1, <3>2, Zenon
    <3> QED
      BY <1>s, <2>1, <2>b, <3>3, IdleStepSafe, Zenon
  <2>3. CASE /\ recv[t].state \notin {"STEADY", "COMMIT_START"}
             /\ Sets(t, recv[t].active, Ended(recv[t].state), "end", recv[t].after,
                     recv[t].xfer)
    <3>1. /\ recv'[t].pc = "end" /\ recv'[t].state = Ended(recv[t].state)
          /\ recv'[t].after = recv[t].after
      BY <2>3, Zenon DEF Sets
    <3>2. recv[t].state = "FAIL"
      BY <1>5, <2>1, <2>3, Zenon
    <3>3. recv'[t].state = "FAIL"
      BY <3>1, <3>2, Zenon DEF Ended
    <3>4. /\ recv'[t].pc \notin {"top", "pull", "clean", "test"} /\ recv'[t].state # "ABORT"
          /\ recv'[t].state # "DONE"
          /\ move.pc # "reply" => recv'[t].state # "COMMIT_START" /\ ~recv'[t].after
      BY <1>5, <3>1, <3>3, Zenon
    <3> QED
      BY <1>s, <2>1, <2>b, <3>4, IdleStepSafe, Zenon
  <2> QED
    BY <1>6, <1>t, <2>2, <2>3, TopSets, Zenon
<1>7. CASE ForgetPending(t)
  <2>1. recv[t].pc = "end" /\ UNCHANGED <<from, data, saved, deletes>> /\ RGo(t, "exit")
    BY <1>7, Zenon DEF ForgetPending, R, storage
  <2>3. Sets(t, recv[t].active, recv[t].state, "exit", recv[t].after, recv[t].xfer)
    BY <1>t, <1>p, <2>1, SetsPc, Zenon
  <2>4. recv'[t].pc = "exit" /\ recv'[t].state = recv[t].state /\ recv'[t].after = recv[t].after
    BY <2>3, Zenon DEF Sets
  <2>5. /\ recv[t].pc # "test" /\ recv'[t].pc \notin Filling
        /\ recv'[t].pc \notin {"top", "pull", "clean", "test"} /\ recv'[t].state # "ABORT"
        /\ recv'[t].state = "DONE" => recv[t].state = "DONE"
        /\ recv'[t].pc \in {"end", "exit", "none"}
        /\ move.pc # "reply" => recv'[t].state \notin {"COMMIT_START", "DONE"} /\ ~recv'[t].after
    BY <1>5, <2>1, <2>4, Zenon DEF Filling
  <2> QED
    BY <1>s, <1>5, <2>1, <2>5, IdleStepSafe, Zenon
<1>8. CASE ThreadEnds(t)
  <2>1. recv[t].pc = "exit" /\ UNCHANGED <<from, data, saved, deletes>>
    BY <1>8, Zenon DEF ThreadEnds, R, storage
  <2>3. Sets(t, FALSE, recv[t].state, "none", FALSE, recv[t].xfer)
    BY <1>t, <1>8, EndSets, Zenon
  <2>4. recv'[t].pc = "none" /\ recv'[t].state = recv[t].state /\ recv'[t].after = FALSE
    BY <2>3, Zenon DEF Sets
  <2>5. /\ recv[t].pc # "test" /\ recv'[t].pc \notin Filling
        /\ recv'[t].pc \notin {"top", "pull", "clean", "test"} /\ recv'[t].state # "ABORT"
        /\ recv'[t].state = "DONE" => recv[t].state = "DONE"
        /\ recv'[t].pc \in {"end", "exit", "none"}
        /\ move.pc # "reply" => recv'[t].state \notin {"COMMIT_START", "DONE"} /\ ~recv'[t].after
    BY <1>5, <2>1, <2>4, Zenon DEF Filling
  <2> QED
    BY <1>s, <1>5, <2>1, <2>5, IdleStepSafe, Zenon
<1> QED
    BY <1>1, <1>2, <1>3, <1>6, <1>7, <1>8, Zenon

\* A thread that fails, of itself or because the donor has no migration.
LEMMA FailStepSafe ==
    ASSUME IInv, Shaped, Safe, NEW t \in Shard, move.pc \in Receiving, t = move.to,
           RecvStep(t) \/ ThreadFails(t), UNCHANGED <<from, data, saved, deletes>>,
           recv'[t].pc = "end", recv'[t].state = "FAIL", recv'[t].after = recv[t].after
    PROVE  Safe'
<1>1. recv[t].active
    BY ThreadStays, Zenon
<1>2. deletes[t] = 0 /\ (move.pc # "reply" => ~recv[t].after)
    BY <1>1, ReceiverFacts, Zenon
<1>3. /\ recv'[t].pc \notin Filling /\ recv'[t].pc \notin {"top", "pull", "clean", "test"}
      /\ recv'[t].state \notin {"ABORT", "DONE", "COMMIT_START"} /\ deletes'[t] = 0
      /\ move.pc # "reply" => ~recv'[t].after
    BY <1>2, Zenon DEF Filling
<1> QED
    BY <1>3, OwnStepSafe, Zenon

\* A step of the recipient's thread that takes from the donor's lists.
LEMMA TakeStepSafe ==
    ASSUME IInv, Shaped, Safe, NEW t \in Shard, move.pc \in Receiving, t = move.to,
           RecvStep(t), UNCHANGED <<saved, deletes>>, recv[t].pc \in Filling,
           recv'[t].state = recv[t].state, recv'[t].after = recv[t].after,
           recv'[t].pc \in {"clone", "mods", "test"},
           recv'[t].pc = "test" => recv[t].state \in {"STEADY", "COMMIT_START", "FAIL"},
           recv'[t].pc = "test" /\ ~recv'[t].xfer.sized => Deleted' = {} /\ Reload' = {},
           from'.cloneLocs \subseteq from.cloneLocs,
           \A d \in Deleted' : data[move.from][d] = Absent \/ d \in Reload',
           \A d \in Doc :
              /\ \/ Fetched(t)'[d] = data[move.from][d]
                 \/ d \in from'.cloneLocs \/ d \in Deleted' \/ d \in Reload'
              /\ data[move.from][d] = Absent => Fetched(t)'[d] = Absent \/ d \in Deleted'
    PROVE  Safe'
<1>1. /\ UNCHANGED <<owners, move, moves, truth>>
      /\ \A u \in Shard \ {t} : /\ data'[u] = data[u] /\ saved'[u] = saved[u]
                                /\ deletes'[u] = deletes[u] /\ recv'[u] = recv[u]
      /\ recv'[t].move = recv[t].move /\ recv[t].active
    BY ThreadEffects, ThreadStays DEF Stays
<1>2. /\ deletes[t] = 0 /\ recv[t].move = moves /\ recv[t].state # "ABORT"
      /\ move.pc # "reply" => recv[t].state \notin {"COMMIT_START", "DONE"} /\ ~recv[t].after
      /\ recv[t].state = "DONE" => recv[t].pc \in {"end", "exit", "none"}
      /\ move.from \in Shard \ {t}
    BY <1>1, ReceiverFacts, Zenon
<1>3. Receiver'
  <2>1. recv[t].state # "DONE"
    BY <1>2, Zenon DEF Filling
  <2> QED
    BY <1>1, <1>2, <2>1, Zenon DEF Receiver
<1>d. data'[move.from] = data[move.from]
    BY <1>1, <1>2, Zenon
<1>4. LogAgrees'
    BY <1>1, <1>d, Zenon DEF LogAgrees
<1>5. Noted'
    BY <1>1, Zenon DEF Noted, Receiving
<1>6. CatchesUp'
  <2>1. Fetched(move.to)' = Fetched(t)'
    BY <1>1, Zenon DEF Fetched, Applied
  <2> QED
    BY <1>1, <1>d, <2>1, Zenon DEF CatchesUp, Agrees
<1>7. recv'[move.to].move \in {0, recv[move.to].move}
    BY <1>1, Zenon
<1> QED
    BY <1>1, <1>3, <1>4, <1>5, <1>6, <1>7, RecipientSafe, Zenon

LEMMA CloneSafe ==
    ASSUME IInv, Shaped, Safe, NEW t \in Shard, move.pc \in Receiving, t = move.to, Clone(t)
    PROVE  Safe'
<1>s. RecvStep(t)
    BY Zenon DEF RecvStep
<1>1. recv[t].pc = "clone" /\ UNCHANGED <<saved, deletes>>
    BY Zenon DEF Clone, R
<1>4. recv[t].active /\ RecvOK
    BY <1>s, ThreadStays, Zenon DEF Shaped
<1>5. /\ deletes[t] = 0 /\ recv[t].state \notin {"ABORT", "DONE"}
      /\ move.pc # "reply" => recv[t].state # "COMMIT_START" /\ ~recv[t].after
      /\ \A d \in Doc : Agrees(d)
    BY <1>1, <1>4, ReceiverFacts, Zenon DEF Filling
<1>p. {"end", "mods"} \subseteq RecvPc /\ {"FAIL", "CATCHUP"} \subseteq RecvState
    BY Zenon DEF RecvPc, RecvState
<1>2. CASE RGoState(t, "end", "FAIL") /\ UNCHANGED <<from, data>>
  <2>1. Sets(t, recv[t].active, "FAIL", "end", recv[t].after, recv[t].xfer)
    BY <1>2, <1>4, <1>p, SetsPcState, Zenon
  <2>2. recv'[t].pc = "end" /\ recv'[t].state = "FAIL" /\ recv'[t].after = recv[t].after
    BY <2>1, Zenon DEF Sets
  <2> QED
    BY <1>s, <1>1, <1>2, <2>2, FailStepSafe, Zenon
<1>3. CASE RGoState(t, "mods", "CATCHUP") /\ UNCHANGED <<from, data>>
  <2>1. Sets(t, recv[t].active, "CATCHUP", "mods", recv[t].after, recv[t].xfer)
    BY <1>3, <1>4, <1>p, SetsPcState, Zenon
  <2>2. recv'[t].pc = "mods" /\ recv'[t].state = "CATCHUP" /\ recv'[t].after = recv[t].after
    BY <2>1, Zenon DEF Sets
  <2>3. /\ recv[t].pc # "test" /\ recv[t].pc \in Filling /\ deletes'[t] = 0
        /\ recv'[t].pc \notin {"top", "pull", "clean", "test"} /\ recv'[t].state # "ABORT"
        /\ recv'[t].state # "DONE"
        /\ move.pc # "reply" => recv'[t].state # "COMMIT_START" /\ ~recv'[t].after
    BY <1>1, <1>5, <2>2, Zenon DEF Filling
  <2> QED
    BY <1>s, <1>1, <1>3, <2>3, IdleStepSafe, Zenon
<1>6. ASSUME NEW batch \in SUBSET from.cloneLocs,
             from' = [from EXCEPT !.cloneLocs = @ \ batch],
             data' = [data EXCEPT ![t] =
                [d \in Doc |-> IF d \in batch THEN data[move.from][d] ELSE @[d]]],
             recv' = recv
      PROVE  Safe'
  <2> DEFINE C == from.cloneLocs \ batch
  <2>1. /\ from'.cloneLocs = C /\ from'.deleted = from.deleted /\ from'.reload = from.reload
    <3>1. from \in FromType /\ C \in SUBSET Doc
      BY Zenon DEF Shaped, FromOK, FromType
    <3>2. from' = [from EXCEPT !.cloneLocs = C]
      BY <1>6, Zenon
    <3> HIDE DEF C
    <3> QED
      BY <3>1, <3>2, Zenon DEF FromType
  <2>2. Deleted' = Deleted /\ Reload' = Reload
    BY <2>1, Zenon DEF Deleted, Reload, Ids
  <2>3. \A d \in Doc : data'[t][d] = IF d \in batch THEN data[move.from][d] ELSE data[t][d]
    BY <1>6, Zenon DEF Shaped, DataOK
  <2>4. Fetched(t)' = data'[t] /\ Fetched(move.to) = data[t]
    BY <1>1, <1>6, Zenon DEF Fetched
  <2>5. \A d \in Doc :
           /\ \/ data[t][d] = data[move.from][d]
              \/ d \in from.cloneLocs \/ d \in Deleted \/ d \in Reload
           /\ data[move.from][d] = Absent => data[t][d] = Absent \/ d \in Deleted
    BY <1>5, <2>4, Zenon DEF Agrees
  <2>6. \A d \in Doc :
           /\ \/ data'[t][d] = data[move.from][d]
              \/ d \in C \/ d \in Deleted \/ d \in Reload
           /\ data[move.from][d] = Absent => data'[t][d] = Absent \/ d \in Deleted
    BY <2>3, <2>5, Zenon
  <2>7. \A d \in Deleted : data[move.from][d] = Absent \/ d \in Reload
    BY Zenon DEF Safe, LogAgrees, Logging
  <2>8. /\ recv[t].pc \in Filling /\ recv'[t].pc \in {"clone", "mods", "test"}
        /\ recv'[t].pc # "test" /\ recv'[t] = recv[t] /\ C \subseteq from.cloneLocs
    BY <1>1, <1>6, Zenon DEF Filling
  <2> HIDE DEF C
  <2> QED
    BY <1>s, <1>1, <2>1, <2>2, <2>4, <2>6, <2>7, <2>8, TakeStepSafe, Zenon
<1> QED
    BY <1>2, <1>3, <1>6, Zenon DEF Clone

LEMMA CatchUpSafe ==
    ASSUME IInv, Shaped, Safe, NEW t \in Shard, move.pc \in Receiving, t = move.to, CatchUp(t)
    PROVE  Safe'
<1>s. RecvStep(t)
    BY Zenon DEF RecvStep
<1>1. recv[t].pc = "mods" /\ UNCHANGED <<saved, deletes>>
    BY Zenon DEF CatchUp, R
<1>4. recv[t].active /\ RecvOK
    BY <1>s, ThreadStays DEF Shaped
<1>5. /\ deletes[t] = 0 /\ recv[t].state \notin {"ABORT", "DONE"}
      /\ move.pc # "reply" => recv[t].state # "COMMIT_START" /\ ~recv[t].after
    BY <1>1, <1>4, ReceiverFacts, Zenon
<1>p. {"end", "mods", "flush"} \subseteq RecvPc /\ "FAIL" \in RecvState
    BY Zenon DEF RecvPc, RecvState
<1>2. CASE RGoState(t, "end", "FAIL") /\ UNCHANGED <<from, data>>
  <2>1. Sets(t, recv[t].active, "FAIL", "end", recv[t].after, recv[t].xfer)
    BY <1>2, <1>4, <1>p, SetsPcState, Zenon
  <2>2. recv'[t].pc = "end" /\ recv'[t].state = "FAIL" /\ recv'[t].after = recv[t].after
    BY <2>1, Zenon DEF Sets
  <2> QED
    BY <1>s, <1>1, <1>2, <2>2, FailStepSafe, Zenon
<1>3. CASE RGo(t, "flush") /\ UNCHANGED <<from, data>>
  <2>1. Sets(t, recv[t].active, recv[t].state, "flush", recv[t].after, recv[t].xfer)
    BY <1>3, <1>4, <1>p, SetsPc, Zenon
  <2>2. recv'[t].pc = "flush" /\ recv'[t].state = recv[t].state /\ recv'[t].after = recv[t].after
    BY <2>1, Zenon DEF Sets
  <2>3. /\ recv[t].pc # "test" /\ recv[t].pc \in Filling /\ deletes'[t] = 0
        /\ recv'[t].pc \notin {"top", "pull", "clean", "test"} /\ recv'[t].state # "ABORT"
        /\ recv'[t].state # "DONE"
        /\ move.pc # "reply" => recv'[t].state # "COMMIT_START" /\ ~recv'[t].after
    BY <1>1, <1>5, <2>2, Zenon DEF Filling
  <2> QED
    BY <1>s, <1>1, <1>3, <2>3, IdleStepSafe, Zenon
<1>6. CASE TransferMods /\ data' = [data EXCEPT ![t] = Applied(@, Mods)] /\ RGo(t, "mods")
  <2>1. Sets(t, recv[t].active, recv[t].state, "mods", recv[t].after, recv[t].xfer)
    BY <1>4, <1>6, <1>p, SetsPc, Zenon
  <2>2. recv'[t].pc = "mods" /\ recv'[t].state = recv[t].state /\ recv'[t].after = recv[t].after
    BY <2>1, Zenon DEF Sets
  <2>3. data'[t] = Applied(data[t], Mods)
    BY <1>6, Zenon DEF Shaped, DataOK
  <2>4. Fetched(t)' = data'[t]
    BY <2>2, Zenon DEF Fetched
  <2>5. recv[t].pc \in Filling \ {"test"}
    BY <1>1, Zenon DEF Filling
  <2>6. /\ \A d \in Deleted' : data[move.from][d] = Absent \/ d \in Reload'
        /\ \A d \in Doc :
              /\ \/ Fetched(t)'[d] = data[move.from][d]
                 \/ d \in from.cloneLocs \/ d \in Deleted' \/ d \in Reload'
              /\ data[move.from][d] = Absent => Fetched(t)'[d] = Absent \/ d \in Deleted'
    BY <1>4, <1>6, <2>3, <2>4, <2>5, TransferAgrees, Zenon
  <2>7. from'.cloneLocs = from.cloneLocs
    BY <1>6, TransferFacts, Zenon DEF Shaped, FromOK
  <2>8. recv'[t].pc \in {"clone", "mods", "test"} /\ recv'[t].pc # "test"
        /\ from'.cloneLocs \subseteq from.cloneLocs
    BY <2>2, <2>7, Zenon
  <2> QED
    BY <1>s, <1>1, <2>2, <2>5, <2>6, <2>7, <2>8, TakeStepSafe, Zenon
<1> QED
    BY <1>2, <1>3, <1>5, <1>6, Zenon DEF CatchUp

LEMMA SteadyPullSafe ==
    ASSUME IInv, Shaped, Safe, NEW t \in Shard, move.pc \in Receiving, t = move.to,
           SteadyPull(t)
    PROVE  Safe'
<1>s. RecvStep(t)
    BY Zenon DEF RecvStep
<1>1. recv[t].pc = "pull" /\ UNCHANGED <<data, saved, deletes>>
    BY Zenon DEF SteadyPull, R, storage
<1>4. recv[t].active /\ RecvOK
    BY <1>s, ThreadStays DEF Shaped
<1>5. recv[t].state \in {"STEADY", "COMMIT_START", "FAIL"} /\ move.from \in Shard
    BY <1>1, <1>4, ReceiverFacts, Zenon
<1>2. CASE ~FromActive(t)
  <2>1. RGoState(t, "end", "FAIL") /\ from' = from
    BY <1>2, Zenon DEF SteadyPull
  <2>2. "end" \in RecvPc /\ "FAIL" \in RecvState
    BY Zenon DEF RecvPc, RecvState
  <2>3. Sets(t, recv[t].active, "FAIL", "end", recv[t].after, recv[t].xfer)
    BY <1>4, <2>1, <2>2, SetsPcState, Zenon
  <2>4. recv'[t].pc = "end" /\ recv'[t].state = "FAIL" /\ recv'[t].after = recv[t].after
    BY <2>3, Zenon DEF Sets
  <2> QED
    BY <1>s, <1>1, <2>1, <2>4, FailStepSafe, Zenon
<1>3. CASE FromActive(t)
  <2>1. TransferMods /\ recv' = [recv EXCEPT ![t].pc = "test", ![t].xfer = Mods]
    BY <1>3, Zenon DEF SteadyPull
  <2>2. from \in FromType /\ DataOK
    BY Zenon DEF Shaped, FromOK
  <2>3. /\ Sent \subseteq Doc /\ Looked \subseteq Doc /\ from'.cloneLocs = from.cloneLocs
        /\ Deleted = Sent \union Deleted' /\ Reload = Looked \union Reload'
    BY <2>1, <2>2, TransferFacts, Zenon
  <2>4. Mods \in XferType /\ Mods.sized = HasMods
    BY <1>5, <2>2, <2>3, ModsFacts, Zenon
  <2>5. Sets(t, recv[t].active, recv[t].state, "test", recv[t].after, Mods)
    BY <1>4, <2>1, <2>4, PullSets, Zenon
  <2>6. /\ recv'[t].pc = "test" /\ recv'[t].state = recv[t].state
        /\ recv'[t].after = recv[t].after /\ recv'[t].xfer = Mods
    BY <2>5, Zenon DEF Sets
  <2>7. ~recv'[t].xfer.sized => Deleted' = {} /\ Reload' = {}
    <3>1. ~HasMods => Deleted = {} /\ Reload = {}
      BY <2>2, NoMods, Zenon
    <3> QED
      BY <2>3, <2>4, <2>6, <3>1, Zenon
  <2>8. Fetched(t)' = Applied(data[t], Mods)
    <3>1. data'[t] = data[t]
      BY <1>1, Zenon
    <3> QED
      BY <2>6, <3>1, Zenon DEF Fetched, Applied
  <2>9. recv[t].pc \in Filling \ {"test"}
    BY <1>1, Zenon DEF Filling
  <2>10. /\ \A d \in Deleted' : data[move.from][d] = Absent \/ d \in Reload'
         /\ \A d \in Doc :
              /\ \/ Fetched(t)'[d] = data[move.from][d]
                 \/ d \in from.cloneLocs \/ d \in Deleted' \/ d \in Reload'
              /\ data[move.from][d] = Absent => Fetched(t)'[d] = Absent \/ d \in Deleted'
    BY <1>4, <2>1, <2>8, <2>9, TransferAgrees, Zenon
  <2>11. recv'[t].pc \in {"clone", "mods", "test"} /\ from'.cloneLocs \subseteq from.cloneLocs
    BY <2>3, <2>6, Zenon
  <2> QED
    BY <1>s, <1>1, <1>5, <2>3, <2>6, <2>7, <2>9, <2>10, <2>11, TakeStepSafe
<1> QED
    BY <1>2, <1>3, Zenon

\* The end of the loop: with success only when everything has come.
LEMMA SteadyTestSafe ==
    ASSUME IInv, Shaped, Safe, ~leftBehind', NEW t \in Shard, move.pc \in Receiving,
           t = move.to, SteadyTest(t)
    PROVE  Safe'
<1>s. RecvStep(t)
    BY Zenon DEF RecvStep
<1>1. /\ recv[t].pc = "test" /\ UNCHANGED <<from, deletes>>
      /\ data' = [data EXCEPT ![t] = Applied(@, recv[t].xfer)]
    BY Zenon DEF SteadyTest, Tested, R
<1>4. recv[t].active /\ RecvOK
    BY <1>s, ThreadStays, Zenon DEF Shaped
<1>5. /\ deletes[t] = 0 /\ recv[t].state \in {"STEADY", "COMMIT_START", "FAIL"}
      /\ move.pc # "reply" => recv[t].state # "COMMIT_START" /\ ~recv[t].after
      /\ recv[t].after /\ ~recv[t].xfer.sized => Deleted = {} /\ Reload = {}
      /\ data[move.from] = truth
      /\ \A d \in Doc : Agrees(d)
    BY <1>1, <1>4, ReceiverFacts, Zenon DEF Filling
<1>2. data'[t] = Fetched(move.to)
    BY <1>1, Zenon DEF Shaped, DataOK, Fetched
<1>3. \A d \in Doc :
         /\ \/ data'[t][d] = data[move.from][d]
            \/ d \in from.cloneLocs \/ d \in Deleted \/ d \in Reload
         /\ data[move.from][d] = Absent => data'[t][d] = Absent \/ d \in Deleted
    BY <1>2, <1>5, Zenon DEF Agrees
<1>6. CASE /\ recv[t].state = "COMMIT_START" /\ recv[t].after
           /\ Sets(t, recv[t].active, "DONE", "end", recv[t].after, NoXfer)
           /\ saved' = [saved EXCEPT ![t] = data'[t]]
           /\ leftBehind' = (leftBehind \/ (recv[t].xfer.sized /\ HasMods))
  <2>1. recv'[t].pc = "end" /\ recv'[t].state = "DONE" /\ recv'[t].after = recv[t].after
    BY <1>6, Zenon DEF Sets
  <2>2. move.pc = "reply"
    BY <1>5, <1>6, Zenon
  <2>3. from.cloneLocs = {}
    BY <2>2, Zenon DEF Safe, Cloned
  <2>4. Deleted = {} /\ Reload = {}
    <3>1. CASE ~recv[t].xfer.sized
      BY <1>5, <1>6, <3>1, Zenon
    <3>2. CASE recv[t].xfer.sized
      <4>1. ~HasMods
        BY <1>6, <3>2, Zenon
      <4> QED
        BY <4>1, NoMods, Zenon DEF Shaped, FromOK
    <3> QED
      BY <3>1, <3>2, Zenon
  <2>5. data'[t] = truth
    <3>1. \A d \in Doc : data'[t][d] = truth[d]
      BY <1>3, <1>5, <2>3, <2>4, Zenon
    <3>2. truth \in [Doc -> Content] /\ data'[t] = [d \in Doc |-> data'[t][d]]
      BY <1>1, Zenon DEF Shaped, DataOK, Applied
    <3> QED
      BY <3>1, <3>2, Zenon
  <2>6. saved'[t] = truth
    BY <1>6, <2>5, Zenon DEF Shaped, DataOK
  <2>7. recv'[t].pc \notin Filling
    BY <2>1, Zenon DEF Filling
  <2>8. deletes'[t] = 0
    BY <1>1, <1>5, Zenon
  <2> QED
    BY <1>s, <1>1, <2>1, <2>2, <2>5, <2>6, <2>7, <2>8, OwnStepSafe
<1>7. CASE Sets(t, recv[t].active, recv[t].state, "top", recv[t].after, NoXfer)
  <2>1. recv'[t].pc = "top" /\ recv'[t].state = recv[t].state /\ recv'[t].after = recv[t].after
    BY <1>7, Zenon DEF Sets
  <2>2. /\ recv'[t].pc \notin {"clean", "test"} /\ deletes'[t] = 0
        /\ recv'[t].state \in {"STEADY", "COMMIT_START", "FAIL"}
        /\ recv'[t].state \notin {"ABORT", "DONE"}
        /\ move.pc # "reply" => recv'[t].state # "COMMIT_START" /\ ~recv'[t].after
    BY <1>1, <1>5, <2>1, Zenon
  <2> QED
    BY <1>s, <1>1, <1>3, <2>2, OwnStepSafe, Zenon
<1>8. recv[t].state # "ABORT"
    BY <1>5, Zenon
<1> QED
    BY <1>4, <1>6, <1>7, <1>8, TestSets, Zenon

LEMMA ThreadSafe ==
    ASSUME IInv, Shaped, Shaped', Safe, ~Excepted', NEW t \in Shard,
           RecvStep(t) \/ ThreadFails(t)
    PROVE  Safe'
<1>x. ~crossed' /\ ~leftBehind' /\ ~doomed'
    BY Zenon DEF Excepted
<1>1. CASE ~(move.pc \in Receiving /\ t = move.to)
    BY <1>1, <1>x, StrangerSafe, Zenon
<1>2. CASE move.pc \in Receiving /\ t = move.to
  <2>1. CASE RemoveRange(t)
    BY <1>2, <2>1, RemoveRangeSafe, Zenon
  <2>2. CASE NotePending(t) \/ BeginClone(t) \/ EnterSteady(t) \/ SteadyTop(t)
                \/ ForgetPending(t) \/ ThreadEnds(t)
    BY <1>2, <1>x, <2>2, PlainStepSafe
  <2>3. CASE Clone(t)
    BY <1>2, <2>3, CloneSafe
  <2>4. CASE CatchUp(t)
    BY <1>2, <2>4, CatchUpSafe
  <2>5. CASE SteadyPull(t)
    BY <1>2, <2>5, SteadyPullSafe
  <2>6. CASE SteadyTest(t)
    BY <1>2, <1>x, <2>6, SteadyTestSafe, Zenon
  <2>7. CASE ThreadFails(t)
    <3>1. UNCHANGED <<from, data, saved, deletes>>
      BY <2>7, Zenon DEF ThreadFails, storage
    <3>2. Sets(t, recv[t].active, "FAIL", "end", recv[t].after, NoXfer)
      BY <2>7, FailSets, Zenon DEF Shaped
    <3>3. recv'[t].pc = "end" /\ recv'[t].state = "FAIL" /\ recv'[t].after = recv[t].after
      BY <3>2, Zenon DEF Sets
    <3> QED
      BY <1>2, <2>7, <3>1, <3>3, FailStepSafe, Zenon
  <2> QED
    BY <2>1, <2>2, <2>3, <2>4, <2>5, <2>6, <2>7, Zenon DEF RecvStep
<1> QED
    BY <1>1, <1>2, Zenon

LEMMA NextSafe ==
    ASSUME IInv, Shaped, Shaped', Safe, ~Excepted', [Next]_vars
    PROVE  Safe'
<1>1. CASE UNCHANGED vars
  <2>1. Home \in Shard
    BY MigrationAssumption, Zenon
  <2> QED
    BY <1>1, <2>1, RestSafe, Zenon
<1>2. CASE MoveStep \/ NoMoreStatus \/ GiveUp \/ AbortMove
    BY <1>2, ScanSafe, RecvChunkStartSafe, StatusSafe, AbortSafe, StartCommitSafe, ReplyLostSafe,
       ApplyOpsSafe, ConfirmSafe, QueueDeleteSafe DEF MoveStep
<1>3. ASSUME NEW s \in Shard, NEW t \in Shard, StartMove(s, t) PROVE Safe'
    BY <1>3, StartMoveSafe, Zenon
<1>4. ASSUME NEW c \in commands, CommitReturns(c) PROVE Safe'
    BY <1>4, CommitReturnsSafe, Zenon
<1>5. ASSUME NEW s \in Shard, RecvStep(s) \/ ThreadFails(s) PROVE Safe'
    BY <1>5, ThreadSafe, Zenon
<1>6. ASSUME NEW s \in Shard, DeleteRange(s) \/ LoadMetadata(s) \/ InstallMetadata(s) PROVE Safe'
    BY <1>6, RestSafe, Zenon
<1>7. ASSUME NEW s \in Shard, Crash(s) PROVE Safe'
    BY <1>7, LoseSafe, Zenon DEF Crash, history
<1>8. ASSUME NEW s \in Shard, NEW d \in Doc, Put(s, d) \/ Remove(s, d) PROVE Safe'
    BY <1>8, WriteSafe, Zenon
<1> QED
    BY <1>1, <1>2, <1>3, <1>4, <1>5, <1>6, <1>7, <1>8 DEF Next

\* An exception stays one.
LEMMA ExceptedStays ==
    ASSUME Excepted, [Next]_vars PROVE Excepted'
<1>h. ASSUME UNCHANGED <<crossed, leftBehind, doomed>> PROVE Excepted'
    BY <1>h, Zenon DEF Excepted
<1>1. CASE UNCHANGED vars
    BY <1>1, <1>h, Zenon DEF vars
<1>2. CASE MoveStep \/ NoMoreStatus \/ GiveUp \/ AbortMove
  <2>1. UNCHANGED history
    BY <1>2, Zenon DEF MoveStep, StoreCurrentLocs, RecvChunkStart, RecvChunkStatus, DonateChunk,
       StartCommit, UndoDonateChunk, ApplyOps, ConfirmCommit, QueueDelete, LockExpires,
       ReplyLost, NoMoreStatus, GiveUp, AbortMove
  <2> QED
    BY <1>h, <2>1, Zenon DEF history
<1>3. ASSUME NEW s \in Shard, NEW t \in Shard, StartMove(s, t) PROVE Excepted'
    BY <1>3, <1>h, Zenon DEF StartMove, history
<1>4. ASSUME NEW c \in commands, CommitReturns(c) PROVE Excepted'
    BY <1>4, <1>h, Zenon DEF CommitReturns, history
<1>5. ASSUME NEW s \in Shard, RecvStep(s) \/ ThreadFails(s) PROVE Excepted'
  <2>1. CASE RemoveRange(s) \/ NotePending(s) \/ EnterSteady(s) \/ SteadyTop(s)
                \/ ForgetPending(s) \/ ThreadEnds(s) \/ ThreadFails(s)
    BY <1>h, <2>1, Zenon DEF RemoveRange, NotePending, EnterSteady, SteadyTop, ForgetPending,
       ThreadEnds, ThreadFails, history
  <2>2. CASE BeginClone(s)
    BY <2>2, Zenon DEF BeginClone, Excepted
  <2>3. CASE Clone(s) \/ CatchUp(s) \/ SteadyPull(s)
    <3>1. leftBehind' = leftBehind /\ doomed' = doomed /\ (crossed => crossed')
      BY <2>3, Zenon DEF Clone, CatchUp, SteadyPull, Crosses
    <3> QED
      BY <3>1, Zenon DEF Excepted
  <2>4. CASE SteadyTest(s)
    <3>1. crossed' = crossed /\ doomed' = doomed
      BY <2>4, Zenon DEF SteadyTest, Tested
    <3>2. PICK b \in BOOLEAN : leftBehind' = (leftBehind \/ b) \/ leftBehind' = leftBehind
      <4>1. (recv[s].xfer.sized /\ HasMods) \in BOOLEAN
        BY Zenon
      <4> QED
        BY <2>4, <4>1, Zenon DEF SteadyTest, Tested
    <3> QED
      BY <3>1, <3>2, Zenon DEF Excepted
  <2> QED
    BY <1>5, <2>1, <2>2, <2>3, <2>4, Zenon DEF RecvStep
<1>6. ASSUME NEW s \in Shard, DeleteRange(s) \/ LoadMetadata(s) \/ InstallMetadata(s) \/ Crash(s)
      PROVE  Excepted'
    BY <1>6, <1>h, Zenon DEF DeleteRange, LoadMetadata, InstallMetadata, Crash, history
<1>7. ASSUME NEW s \in Shard, NEW d \in Doc, Put(s, d) \/ Remove(s, d) PROVE Excepted'
    BY <1>7, <1>h, Zenon DEF Put, Remove, Change
<1> QED
    BY <1>1, <1>2, <1>3, <1>4, <1>5, <1>6, <1>7, Zenon DEF Next

LEMMA InitSafe == Init => Safe
<1> SUFFICES ASSUME Init PROVE Safe
    BY Zenon
<1>1. /\ owners = <<Home>> /\ move = Idle /\ moves = 0 /\ Home \in Shard
      /\ recv = [s \in Shard |-> NoRecv] /\ deletes = [s \in Shard |-> 0]
      /\ truth = data[Home] /\ saved = data
    BY MigrationAssumption, Zenon DEF Init
<1>2. Owner = Home /\ move.pc = "idle" /\ NoRecv.move = 0
    BY <1>1, Zenon DEF Owner, Version, Idle, NoRecv
<1>3. Kept
    BY <1>1, <1>2, NoRecvType, Zenon DEF Kept
<1>4. Numbered
    BY <1>1, <1>2 DEF Numbered
<1>5. Committed /\ Received /\ Cloned
    BY <1>2, Zenon DEF Committed, Received, Cloned
<1>6. Receiver /\ LogAgrees /\ Noted /\ CatchesUp
    BY <1>2, Zenon DEF Receiver, LogAgrees, Noted, CatchesUp, Logging, Receiving
<1> QED
    BY <1>3, <1>4, <1>5, <1>6, Zenon DEF Safe

SInv == Shaped /\ (Excepted \/ Safe)

\* No acknowledged write is lost: whatever the interleaving of moveChunk, the
\* migrateThreads, the range deleters, clients, crashes and failovers, the shard
\* that config.chunks names has, in memory and on disk, what the clients left,
\* unless one of the three histories that OwnerHasData excepts has happened.
THEOREM NoWriteIsLost == Spec => []OwnerHasData
<1>1. Init => SInv
    BY InitShaped, InitSafe, Zenon DEF SInv
<1>2. IInv /\ IInv' /\ SInv /\ [Next]_vars => SInv'
  <2> SUFFICES ASSUME IInv, SInv, [Next]_vars PROVE SInv'
    BY Zenon
  <2>1. Shaped /\ Shaped'
    BY NextShaped, Zenon DEF SInv
  <2>2. CASE Excepted
    BY <2>1, <2>2, ExceptedStays, Zenon DEF SInv
  <2>3. CASE Safe
    BY <2>1, <2>3, NextSafe, Zenon DEF SInv
  <2> QED
    BY <2>2, <2>3, Zenon DEF SInv
<1>3. SInv => OwnerHasData
    BY Zenon DEF SInv, Excepted, Safe, Kept, OwnerHasData
<1> QED
    BY <1>1, <1>2, <1>3, Invariance, PTL DEF Spec

=============================================================================
