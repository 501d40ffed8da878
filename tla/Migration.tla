----------------------------- MODULE Migration -----------------------------
(***************************************************************************)
(* Chunk migration (s/d_migrate.cpp): the moveChunk command on the donor,  *)
(* the migrateThread and the _recvChunk* commands on the recipient, the    *)
(* commit at the config servers, the shards' cached metadata               *)
(* (s/d_state.cpp) and the deletion of the range that was moved away.      *)
(*                                                                         *)
(* One chunk with the documents 1 .. NumDocs moves among the shards.  The  *)
(* version of the collection is the number of commits: owners[v] is the    *)
(* shard that has the chunk at version v, and config.chunks is owners.     *)
(* Every shard has another chunk too, which never moves.  A document is a  *)
(* number, the write that gave it its content, or Absent.                  *)
(***************************************************************************)
EXTENDS Integers, Sequences, FiniteSets

CONSTANTS Shard, NoShard,
          Home,        \* the shard that has the chunk at first
          NumDocs,     \* documents of the chunk
          XferLimit,   \* ids that fit in a reply to _transferMods (maxSize)
          MaxWrites,   \* bound: writes of the clients
          MaxMoves,    \* bound: moveChunk commands
          MaxFaults    \* bound: failures of messages, threads and processes

ASSUME MigrationAssumption ==
    /\ Home \in Shard /\ NoShard \notin Shard
    /\ NumDocs \in Nat \ {0} /\ XferLimit \in Nat \ {0}
    /\ MaxWrites \in Nat /\ MaxMoves \in Nat /\ MaxFaults \in Nat

Doc == 1 .. NumDocs
Absent == 0

VARIABLES
    owners,     \* the config servers: the owner of the chunk at each version
    move,       \* the moveChunk command that has the distributed lock
    from,       \* MigrateFromStatus of the shard where it runs
    recv,       \* of each shard: MigrateStatus and its migrateThread
    commands,   \* _recvChunkCommit commands under way: <<shard, move>>
    meta,       \* of each shard: its CollectionMetadata
    loaded,     \* of each shard: a version loaded and not installed, or 0
    data,       \* of each shard: the documents in the range of the chunk
    saved,      \* of each shard: what a restart or a failover keeps
    deletes,    \* of each shard: deletes of the range with the range deleter
    writes, moves, faults,
    truth,      \* history: the documents as the clients left them
    crossed,    \* history: a migrateThread took what another was to get
    leftBehind, \* history: a migrateThread took changes that are all gone for
                \* the end of the changes
    doomed      \* history: a migrateThread that was failed by the timeout of an
                \* older commit queued a delete of its range, and went on

vars == <<owners, move, from, recv, commands, meta, loaded, data, saved, deletes,
          writes, moves, faults, truth, crossed, leftBehind, doomed>>
counters == <<writes, moves, faults>>
history == <<truth, crossed, leftBehind, doomed>>
storage == <<data, saved>>

Version == Len(owners)
Owner == owners[Version]

Idle == [pc |-> "idle", from |-> NoShard, to |-> NoShard, version |-> 0]
NoFrom == [active |-> FALSE, next |-> 1, cloneLocs |-> {}, deleted |-> << >>,
           reload |-> << >>]
NoXfer == [sized |-> FALSE, del |-> {}, put |-> << >>]
NoRecv == [active |-> FALSE, state |-> "READY", pc |-> "none", from |-> NoShard,
           move |-> 0, after |-> FALSE, xfer |-> NoXfer]
NoMeta == [version |-> 0, owns |-> FALSE, pending |-> FALSE]

Init ==
    /\ owners = <<Home>>
    /\ move = Idle
    /\ from = NoFrom
    /\ recv = [s \in Shard |-> NoRecv]
    /\ commands = {}
    /\ meta = [s \in Shard |-> [version |-> 1, owns |-> s = Home, pending |-> FALSE]]
    /\ loaded = [s \in Shard |-> 0]
    /\ data = [s \in Shard |-> [d \in Doc |-> IF s = Home /\ d = 1 THEN 1 ELSE Absent]]
    /\ saved = data
    /\ deletes = [s \in Shard |-> 0]
    /\ writes = 0 /\ moves = 0 /\ faults = 0
    /\ truth = data[Home]
    /\ crossed = FALSE /\ leftBehind = FALSE /\ doomed = FALSE

Fault == faults < MaxFaults /\ faults' = faults + 1

-----------------------------------------------------------------------------
(* The metadata of a shard. *)

\* What doRefreshMetadata installs when it has loaded version v: nothing unless
\* v is newer.  A pending chunk that has become the shard's own is promoted.
Refreshed(s, v) ==
    IF v > meta[s].version
      THEN [version |-> v, owns |-> owners[v] = s,
            pending |-> meta[s].pending /\ owners[v] # s]
      ELSE meta[s]

\* The chunks of s that commit v gave a new version: the one that moved, or
\* the one that stayed with the donor.
Bumped(s, v) == s = owners[v] \/ (v > 1 /\ s = owners[v - 1])

\* doRefreshMetadata for a client, whose version of the shard is newer: the
\* load, outside of all locks ...
LoadMetadata(s) ==
    /\ loaded[s] = 0
    /\ \E v \in meta[s].version + 1 .. Version : meta[s].version = 0 \/ Bumped(s, v)
    /\ loaded' = [loaded EXCEPT ![s] = Version]
    /\ UNCHANGED <<owners, move, from, recv, commands, meta, storage, deletes,
                   counters, history>>

\* ... and the installation, in the write lock.
InstallMetadata(s) ==
    /\ loaded[s] # 0
    /\ meta' = [meta EXCEPT ![s] = Refreshed(s, loaded[s])]
    /\ loaded' = [loaded EXCEPT ![s] = 0]
    /\ UNCHANGED <<owners, move, from, recv, commands, storage, deletes,
                   counters, history>>

-----------------------------------------------------------------------------
(* Clients.  checkShardVersion, in the write lock, refuses a write unless the
   client and the shard agree on the version, and both versions then say who
   has the chunk.  An acknowledged write is durable, with what is before it. *)

Change(s, d, content) ==
    /\ meta[s].owns
    /\ writes < MaxWrites
    /\ writes' = writes + 1
    /\ data' = [data EXCEPT ![s][d] = content]
    /\ saved' = [saved EXCEPT ![s] = data'[s]]
    /\ truth' = [truth EXCEPT ![d] = content]
    /\ UNCHANGED <<owners, move, recv, commands, meta, loaded, deletes, moves,
                   faults, crossed, leftBehind, doomed>>

Logs(s) == from.active /\ move.from = s

\* An insert or an update, and MigrateFromStatus::logOp.  An update may move
\* the document, and its old place is then no longer to be cloned.
Put(s, d) ==
    /\ Change(s, d, writes + 2)
    /\ IF Logs(s)
         THEN \E gone \in SUBSET {d} :
                 from' = [from EXCEPT !.reload = Append(@, d),
                                      !.cloneLocs = @ \ gone]
         ELSE UNCHANGED from

\* A delete: aboutToDelete, then logOp.
Remove(s, d) ==
    /\ data[s][d] # Absent
    /\ Change(s, d, Absent)
    /\ from' = IF Logs(s) THEN [from EXCEPT !.deleted = Append(@, d),
                                            !.cloneLocs = @ \ {d}]
                          ELSE from

-----------------------------------------------------------------------------
(* The donor: MoveChunkCommand::run. *)

At(pc) == move.pc = pc
Go(pc) == move' = [move EXCEPT !.pc = pc]

\* A return: ~MigrateStatusHolder calls done(), and ~ScopedDistributedLock
\* releases the lock.
Return == move' = Idle /\ from' = NoFrom

\* Steps 1 and 2, with the lock: the checks against the config servers, the
\* refresh, and MigrateFromStatus::start.
StartMove(s, t) ==
    /\ At("idle")
    /\ moves < MaxMoves
    /\ s = Owner /\ t # s
    /\ moves' = moves + 1
    /\ move' = [pc |-> "scan", from |-> s, to |-> t, version |-> Version]
    /\ meta' = [meta EXCEPT ![s] = Refreshed(s, Version)]
    /\ from' = [NoFrom EXCEPT !.active = TRUE]
    /\ UNCHANGED <<owners, recv, commands, loaded, storage, deletes, writes,
                   faults, history>>

\* storeCurrentLocs visits the documents in key order and may yield.
StoreCurrentLocs ==
    /\ At("scan")
    /\ IF from.next \in Doc
         THEN /\ from' = [from EXCEPT
                            !.next = @ + 1,
                            !.cloneLocs = IF data[move.from][from.next] = Absent
                                            THEN @ ELSE @ \union {from.next}]
              /\ UNCHANGED move
         ELSE /\ Go("start")
              /\ UNCHANGED from
    /\ UNCHANGED <<owners, recv, commands, meta, loaded, storage, deletes,
                   counters, history>>

\* The tests of _recvChunkStart.
Accepts(t) == ~recv[t].active /\ deletes[t] = 0

\* _recvChunkStart: refresh, prepare() and the thread.  If the answer is lost
\* the donor fails all the same.
RecvChunkStart ==
    /\ At("start")
    /\ LET t == move.to
       IN  \/ /\ Accepts(t)
              /\ meta' = [meta EXCEPT ![t] = Refreshed(t, Version)]
              /\ recv' = [recv EXCEPT ![t] = [NoRecv EXCEPT !.active = TRUE,
                                                            !.pc = "clean",
                                                            !.from = move.from,
                                                            !.move = moves]]
              /\ \/ Go("wait") /\ UNCHANGED <<from, faults>>
                 \/ Fault /\ Return
           \/ /\ ~Accepts(t)
              /\ Return
              /\ UNCHANGED <<meta, recv, faults>>
    /\ UNCHANGED <<owners, commands, loaded, storage, deletes, writes, moves,
                   history>>

\* Step 4, an answer to _recvChunkStatus.  The answer may be about another
\* migration, or from a process that was restarted.
RecvChunkStatus ==
    /\ At("wait")
    /\ LET r == recv[move.to]
       IN  \/ (r.from # move.from \/ r.state = "FAIL") /\ Return
           \/ r.from = move.from /\ r.state = "STEADY" /\ Go("check") /\ UNCHANGED from
    /\ UNCHANGED <<owners, recv, commands, meta, loaded, storage, deletes,
                   counters, history>>

\* 86400 answers without success, for a day: the loop ends, and step 5 begins.
NoMoreStatus ==
    /\ At("wait")
    /\ Fault
    /\ Go("check")
    /\ UNCHANGED <<owners, from, recv, commands, meta, loaded, storage, deletes,
                   writes, moves, history>>

\* No connection, an interruption, a chunk too big, a lock that is not held.
GiveUp ==
    /\ move.pc \in {"scan", "start", "wait", "check"}
    /\ Fault
    /\ Return
    /\ UNCHANGED <<owners, recv, commands, meta, loaded, storage, deletes,
                   writes, moves, history>>

\* Too much memory (mbUsed(), in MB, above 500 * 1024 * 1024): the recipient is
\* told to abort.
AbortMove ==
    /\ At("wait")
    /\ Fault
    /\ recv' = [recv EXCEPT ![move.to].state = "ABORT"]
    /\ Return
    /\ UNCHANGED <<owners, commands, meta, loaded, storage, deletes, writes,
                   moves, history>>

\* Step 5.a: with everything cloned, donateChunk forgets the chunk and sets the
\* next version.
DonateChunk ==
    /\ At("check")
    /\ IF from.cloneLocs = {}
         THEN /\ meta' = [meta EXCEPT ![move.from] =
                            [version |-> move.version + 1, owns |-> FALSE,
                             pending |-> meta[move.from].pending]]
              /\ Go("commit")
              /\ UNCHANGED from
         ELSE Return /\ UNCHANGED meta
    /\ UNCHANGED <<owners, recv, commands, loaded, storage, deletes, counters,
                   history>>

\* 5.b: _recvChunkCommit arrives, startCommit tests and sets the state.
StartCommit ==
    /\ At("commit")
    /\ IF recv[move.to].state = "STEADY"
         THEN /\ recv' = [recv EXCEPT ![move.to].state = "COMMIT_START"]
              /\ commands' = commands \union {<<move.to, moves>>}
              /\ Go("reply")
         ELSE Go("undo") /\ UNCHANGED <<recv, commands>>
    /\ UNCHANGED <<owners, from, meta, loaded, storage, deletes, counters, history>>

\* A slip: startCommit waits without a timeout.
CommitWaits(c) ==
    LET t == c[1]
    IN  /\ ~recv[t].active
        /\ commands' = commands \ {c}
        /\ IF At("reply") /\ c = <<move.to, moves>>
             THEN Go(IF recv[t].state = "DONE" THEN "config" ELSE "undo")
             ELSE UNCHANGED move
        /\ UNCHANGED <<owners, from, recv, meta, loaded, storage, deletes, counters,
                       history>>

\* startCommit waits for the thread to end, and gives up after 30 seconds.
CommitReturns(c) ==
    LET t == c[1]
        ok == ~recv[t].active /\ recv[t].state = "DONE"
    IN  /\ \/ ~recv[t].active /\ UNCHANGED recv
           \/ recv[t].active /\ recv' = [recv EXCEPT ![t].state = "FAIL"]
        /\ commands' = commands \ {c}
        /\ IF At("reply") /\ c = <<move.to, moves>>
             THEN Go(IF ok THEN "config" ELSE "undo")
             ELSE UNCHANGED move
        /\ UNCHANGED <<owners, from, meta, loaded, storage, deletes, counters,
                       history>>

\* The connection breaks before the command has arrived or while it is waited for, or
\* the recipient has gone.
ReplyLost ==
    /\ \/ At("reply") /\ <<move.to, moves>> \notin commands /\ UNCHANGED faults
       \/ (At("commit") \/ At("reply")) /\ Fault
    /\ Go("undo")
    /\ UNCHANGED <<owners, from, recv, commands, meta, loaded, storage, deletes,
                   writes, moves, history>>

\* A slip: the donation is not undone.
UndoNothing ==
    /\ At("undo")
    /\ Return
    /\ UNCHANGED <<owners, recv, commands, meta, loaded, storage, deletes,
                   counters, history>>

\* undoDonateChunk, then the return.
UndoDonateChunk ==
    /\ At("undo")
    /\ meta' = [meta EXCEPT ![move.from] = [version |-> move.version,
                                            owns |-> TRUE, pending |-> FALSE]]
    /\ Return
    /\ UNCHANGED <<owners, recv, commands, loaded, storage, deletes, counters,
                   history>>

\* 5.c: applyOps at the config servers, on the condition that the version is
\* still the one at the start.  An exception leaves open if it was applied,
\* except when the servers were found unreachable before it was sent.
ApplyOps ==
    /\ At("config")
    /\ \/ /\ Version = move.version
          /\ owners' = Append(owners, move.to)
          /\ Go("done")
          /\ UNCHANGED faults
       \/ /\ Fault
          /\ \/ Version = move.version /\ owners' = Append(owners, move.to)
             \/ UNCHANGED owners
          /\ Go("confirm")
       \/ /\ Fault
          /\ Go("undo")
          /\ UNCHANGED owners
    /\ UNCHANGED <<from, recv, commands, meta, loaded, storage, deletes, writes,
                   moves, history>>

\* What is left of a shard when its process ends, or when its primary changes.
\* The lock of a donor stays until it is found dead.
Lose(s) ==
    /\ \E d \in {data[s], saved[s]} : data' = [data EXCEPT ![s] = d]
    /\ saved' = [saved EXCEPT ![s] = data'[s]]
    /\ meta' = [meta EXCEPT ![s] = NoMeta]
    /\ loaded' = [loaded EXCEPT ![s] = 0]
    /\ recv' = [recv EXCEPT ![s] = NoRecv]
    /\ commands' = {c \in commands : c[1] # s}
    /\ deletes' = [deletes EXCEPT ![s] = 0]
    /\ IF move.from = s THEN Go("dead") /\ from' = NoFrom
                        ELSE UNCHANGED <<move, from>>

\* A slip: an exception is taken to mean that nothing was applied.
ConfirmNothing ==
    /\ At("confirm")
    /\ Go("undo")
    /\ UNCHANGED <<owners, from, recv, commands, meta, loaded, storage, deletes,
                   counters, history>>

\* Was it applied?  If not, or if there is no answer, dbexit.
ConfirmCommit ==
    /\ At("confirm")
    /\ \/ /\ Version = move.version + 1
          /\ Go("done")
          /\ UNCHANGED <<from, recv, commands, meta, loaded, storage, deletes>>
       \/ Lose(move.from)
    /\ UNCHANGED <<owners, counters, history>>

\* A slip: done() is left out.
QueueDeleteOnly ==
    /\ At("done")
    /\ deletes' = [deletes EXCEPT ![move.from] = @ + 1]
    /\ move' = Idle
    /\ UNCHANGED <<owners, from, recv, commands, meta, loaded, storage, counters,
                   history>>

\* 5.d and 6, with the lock: done() and queueDelete, then the return.
QueueDelete ==
    /\ At("done")
    /\ deletes' = [deletes EXCEPT ![move.from] = @ + 1]
    /\ Return
    /\ UNCHANGED <<owners, recv, commands, meta, loaded, storage, counters, history>>

\* The lock of a donor that is found dead is taken over.
LockExpires ==
    /\ At("dead")
    /\ move' = Idle
    /\ UNCHANGED <<owners, from, recv, commands, meta, loaded, storage, deletes,
                   counters, history>>

-----------------------------------------------------------------------------
(* The recipient: MigrateStatus::_go.  Its requests go to the shard it was
   told of, which answers them for the migration that it is in. *)

R(t, pc) == recv[t].pc = pc
RGo(t, pc) == recv' = [recv EXCEPT ![t].pc = pc]
RGoState(t, pc, state) == recv' = [recv EXCEPT ![t].pc = pc, ![t].state = state]

FromActive(t) == from.active /\ move.from = recv[t].from

Crosses(t, something) == crossed' = (crossed \/ (something /\ moves # recv[t].move))

\* Step 2: remove what is in the range, ...
RemoveRange(t) ==
    /\ R(t, "clean")
    /\ data' = [data EXCEPT ![t] = [d \in Doc |-> Absent]]
    /\ RGo(t, "pend")
    /\ UNCHANGED <<owners, move, from, commands, meta, loaded, saved, deletes,
                   counters, history>>

\* ... and protect the range, which fails if the shard has the chunk.
NotePending(t) ==
    LET ok == meta[t].version # 0 /\ ~meta[t].owns
    IN  /\ R(t, "pend")
        /\ meta' = [meta EXCEPT ![t].pending = @ \/ ok]
        /\ RGoState(t, IF ok THEN "begin" ELSE "end",
                       IF ok THEN recv[t].state ELSE "FAIL")
        /\ UNCHANGED <<owners, move, from, commands, loaded, storage, deletes,
                       counters, history>>

\* After an abort or a failure the range is to be deleted, and the thread
\* goes on.
BeginClone(t) ==
    /\ R(t, "begin")
    /\ deletes' = IF recv[t].state \in {"FAIL", "ABORT"}
                    THEN [deletes EXCEPT ![t] = @ + 1] ELSE deletes
    /\ doomed' = (doomed \/ recv[t].state = "FAIL")
    /\ RGoState(t, "clone", "CLONE")
    /\ UNCHANGED <<owners, move, from, commands, meta, loaded, storage, counters,
                   truth, crossed, leftBehind>>

\* Step 3: _migrateClone takes some of the documents.  Those that are left
\* were written last.
Clone(t) ==
    /\ R(t, "clone")
    /\ IF ~FromActive(t)
         THEN RGoState(t, "end", "FAIL") /\ UNCHANGED <<from, data, crossed>>
         ELSE IF from.cloneLocs = {}
                THEN RGoState(t, "mods", "CATCHUP") /\ UNCHANGED <<from, data, crossed>>
                ELSE \E batch \in SUBSET from.cloneLocs \ {{}} :
                        /\ from' = [from EXCEPT !.cloneLocs = @ \ batch]
                        /\ data' = [data EXCEPT ![t] =
                              [d \in Doc |-> IF d \in batch THEN data[move.from][d] ELSE @[d]]]
                        /\ Crosses(t, TRUE)
                        /\ UNCHANGED recv
    /\ UNCHANGED <<owners, move, commands, meta, loaded, saved, deletes, counters,
                   truth, leftBehind, doomed>>

\* transferMods: what fits of the deleted ids, then of the ids to reload, which
\* are looked up.  One that is gone counts for the size and is not sent.
DelCount == IF Len(from.deleted) < XferLimit THEN Len(from.deleted) ELSE XferLimit
RelCount == IF Len(from.reload) < XferLimit - DelCount THEN Len(from.reload)
                                                      ELSE XferLimit - DelCount
HasMods == from.deleted # << >> \/ from.reload # << >>
Ids(list, n) == {list[i] : i \in 1 .. n}
Mods == [sized |-> HasMods,
         del |-> Ids(from.deleted, DelCount),
         put |-> [d \in {e \in Ids(from.reload, RelCount) : data[move.from][e] # Absent}
                     |-> data[move.from][d]]]
TransferMods ==
    from' = [from EXCEPT !.deleted = SubSeq(@, DelCount + 1, Len(@)),
                         !.reload = SubSeq(@, RelCount + 1, Len(@))]

\* MigrateStatus::apply, and if it did anything.
Applied(docs, xfer) ==
    [d \in Doc |-> IF d \in DOMAIN xfer.put THEN xfer.put[d]
                   ELSE IF d \in xfer.del THEN Absent ELSE docs[d]]
DidAnything(xfer) == xfer.del # {} \/ DOMAIN xfer.put # {}

\* Step 4: transfer and apply until there is nothing to transfer.
CatchUp(t) ==
    /\ R(t, "mods")
    /\ IF ~FromActive(t)
         THEN RGoState(t, "end", "FAIL") /\ UNCHANGED <<from, data, crossed>>
         ELSE IF ~HasMods
                THEN RGo(t, "flush") /\ UNCHANGED <<from, data, crossed>>
                ELSE /\ TransferMods
                     /\ data' = [data EXCEPT ![t] = Applied(@, Mods)]
                     /\ RGo(t, IF recv[t].state = "ABORT" THEN "end" ELSE "mods")
                     /\ Crosses(t, TRUE)
    /\ UNCHANGED <<owners, move, commands, meta, loaded, saved, deletes, counters,
                   truth, leftBehind, doomed>>

\* flushPendingWrites, or 600 minutes without success; then step 5.
EnterSteady(t) ==
    /\ R(t, "flush")
    /\ \E d \in {data[t], saved[t]} : saved' = [saved EXCEPT ![t] = d]
    /\ RGoState(t, "top", "STEADY")
    /\ UNCHANGED <<owners, move, from, commands, meta, loaded, data, deletes,
                   counters, history>>

\* The end of _go: a timeout of the commit, or DONE.
Ended(state) == IF state = "FAIL" THEN "FAIL" ELSE "DONE"

\* The head of the loop.  An abort ends it like a success.
SteadyTop(t) ==
    LET r == recv[t]
    IN  /\ R(t, "top")
        /\ recv' = [recv EXCEPT ![t] =
              IF r.state \in {"STEADY", "COMMIT_START"}
                THEN [r EXCEPT !.pc = "pull", !.after = @ \/ r.state = "COMMIT_START"]
                ELSE [r EXCEPT !.pc = "end", !.state = Ended(@)]]
        /\ UNCHANGED <<owners, move, from, commands, meta, loaded, storage, deletes,
                       counters, history>>

\* A slip: a donor that has no migration answers that there is nothing.
PullNothing(t) ==
    /\ R(t, "pull")
    /\ IF ~FromActive(t)
         THEN RGo(t, "test") /\ UNCHANGED <<from, crossed>>
         ELSE /\ TransferMods
              /\ recv' = [recv EXCEPT ![t].pc = "test", ![t].xfer = Mods]
              /\ Crosses(t, HasMods)
    /\ UNCHANGED <<owners, move, commands, meta, loaded, storage, deletes, counters,
                   truth, leftBehind, doomed>>

\* The request for more changes, ...
SteadyPull(t) ==
    /\ R(t, "pull")
    /\ IF ~FromActive(t)
         THEN RGoState(t, "end", "FAIL") /\ UNCHANGED <<from, crossed>>
         ELSE /\ TransferMods
              /\ recv' = [recv EXCEPT ![t].pc = "test", ![t].xfer = Mods]
              /\ Crosses(t, HasMods)
    /\ UNCHANGED <<owners, move, commands, meta, loaded, storage, deletes, counters,
                   truth, leftBehind, doomed>>

\* ... and what follows the answer: apply it, or find out if this is the end.
\* flushPendingWrites may be too early.
Tested(t, mayCommit) ==
    LET r == recv[t]
        did == DidAnything(r.xfer)
        rest == [r EXCEPT !.xfer = NoXfer]
    IN  /\ R(t, "test")
        /\ data' = [data EXCEPT ![t] = Applied(@, r.xfer)]
        /\ \/ /\ ~did /\ r.state # "ABORT" /\ mayCommit
              /\ recv' = [recv EXCEPT ![t] = [rest EXCEPT !.pc = "end", !.state = Ended(@)]]
              /\ saved' = [saved EXCEPT ![t] = data'[t]]
              /\ leftBehind' = (leftBehind \/ (r.xfer.sized /\ HasMods))
           \/ /\ recv' = [recv EXCEPT ![t] =
                    [rest EXCEPT !.pc = IF ~did /\ r.state = "ABORT" THEN "end" ELSE "top"]]
              /\ UNCHANGED <<saved, leftBehind>>
        /\ UNCHANGED <<owners, move, from, commands, meta, loaded, deletes, counters,
                       truth, crossed, doomed>>

\* A slip: any transfer will do as the last one.
SteadyTestEarly(t) == Tested(t, recv[t].state = "COMMIT_START")

SteadyTest(t) == Tested(t, recv[t].state = "COMMIT_START" /\ recv[t].after)

\* go: unprotect the range, ...
ForgetPending(t) ==
    /\ R(t, "end")
    /\ meta' = [meta EXCEPT ![t].pending = @ /\ recv[t].state = "DONE"]
    /\ RGo(t, "exit")
    /\ UNCHANGED <<owners, move, from, commands, loaded, storage, deletes, counters,
                   history>>

\* ... and setActive(false).
ThreadEnds(t) ==
    /\ R(t, "exit")
    /\ recv' = [recv EXCEPT ![t].pc = "none", ![t].active = FALSE, ![t].after = FALSE]
    /\ UNCHANGED <<owners, move, from, commands, meta, loaded, storage, deletes,
                   counters, history>>

\* An exception in the thread, or an error return of one of its steps.
ThreadFails(t) ==
    /\ recv[t].pc \in {"clean", "pend", "clone", "mods", "flush", "pull", "test"}
    /\ Fault
    /\ recv' = [recv EXCEPT ![t].pc = "end", ![t].state = "FAIL", ![t].xfer = NoXfer]
    /\ UNCHANGED <<owners, move, from, commands, meta, loaded, storage, deletes,
                   writes, moves, history>>

-----------------------------------------------------------------------------
(* The rest of a shard. *)

\* The range deleter removes one document after the other in the write lock,
\* and stops when the shard has the chunk, expects it or knows nothing of it.
DeleteRange(s) ==
    LET orphan == meta[s].version # 0 /\ ~meta[s].owns /\ ~meta[s].pending
        left == {d \in Doc : data[s][d] # Absent}
    IN  /\ deletes[s] > 0
        /\ \/ /\ orphan
              /\ \E d \in left : data' = [data EXCEPT ![s][d] = Absent]
              /\ UNCHANGED deletes
           \/ /\ ~orphan \/ left = {}
              /\ deletes' = [deletes EXCEPT ![s] = @ - 1]
              /\ UNCHANGED data
        /\ UNCHANGED <<owners, move, from, recv, commands, meta, loaded, saved,
                       counters, history>>

Crash(s) ==
    /\ Fault
    /\ Lose(s)
    /\ UNCHANGED <<owners, writes, moves, history>>

MoveStep ==
    \/ StoreCurrentLocs \/ RecvChunkStart \/ RecvChunkStatus \/ DonateChunk
    \/ StartCommit \/ UndoDonateChunk \/ ApplyOps \/ ConfirmCommit
    \/ QueueDelete \/ LockExpires \/ ReplyLost

RecvStep(t) ==
    \/ RemoveRange(t) \/ NotePending(t) \/ BeginClone(t) \/ Clone(t) \/ CatchUp(t)
    \/ EnterSteady(t) \/ SteadyTop(t) \/ SteadyPull(t) \/ SteadyTest(t)
    \/ ForgetPending(t) \/ ThreadEnds(t)

Next ==
    \/ MoveStep
    \/ NoMoreStatus \/ GiveUp \/ AbortMove
    \/ \E s, t \in Shard : StartMove(s, t)
    \/ \E c \in commands : CommitReturns(c)
    \/ \E s \in Shard :
          \/ RecvStep(s) \/ ThreadFails(s)
          \/ LoadMetadata(s) \/ InstallMetadata(s)
          \/ DeleteRange(s) \/ Crash(s)
          \/ \E d \in Doc : Put(s, d) \/ Remove(s, d)

Spec == Init /\ [][Next]_vars

\* The command and the threads run.  startCommit waits for 30 seconds at most.
\* A client that a shard refuses makes the shard refresh, and tries again.
Fairness ==
    /\ WF_vars(MoveStep)
    /\ WF_vars(\E c \in commands : CommitReturns(c))
    /\ \A s \in Shard : /\ WF_vars(RecvStep(s))
                        /\ WF_vars(LoadMetadata(s) \/ InstallMetadata(s))

FairSpec == Spec /\ Fairness

-----------------------------------------------------------------------------
Content == 0 .. MaxWrites + 1

\* Types, and what goes together: a donor's status is empty when no command is
\* under way, and a chunk is not pending on a shard that has it.
TypeOK ==
    /\ owners \in Seq(Shard) /\ owners # << >>
    /\ move.pc \in {"idle", "scan", "start", "wait", "check", "commit", "reply",
                    "undo", "config", "confirm", "done", "dead"}
    /\ from.cloneLocs \subseteq Doc
    /\ from.deleted \in Seq(Doc) /\ from.reload \in Seq(Doc)
    /\ ~from.active => from = NoFrom
    /\ from.active => move.from \in Shard /\ move.to \in Shard \ {move.from}
    /\ \A s \in Shard : /\ recv[s].active <=> recv[s].pc # "none"
                        /\ loaded[s] <= Version
                        /\ meta[s].owns => ~meta[s].pending
    /\ data \in [Shard -> [Doc -> Content]]
    /\ saved \in [Shard -> [Doc -> Content]]
    /\ deletes \in [Shard -> Nat]

\* The shard that config.chunks names has every document as the clients left
\* it, and would have it after a crash: neither the clone, the changes that are
\* logged during it, a commit that was retried, nor a delete of the range that
\* is still under way loses a write.  Three things are excepted: crossed, when a
\* migrateThread of a migration that its donor has given up takes documents from
\* the donor's next migration; leftBehind; and doomed, when a delete of the range
\* waits on a shard that has received the chunk, and may run when the shard is
\* next in the critical section of a donation.
OwnerHasData ==
    \/ crossed \/ leftBehind \/ doomed
    \/ data[Owner] = truth /\ saved[Owner] = truth

\* A shard takes writes for the chunk only if config.chunks names it: the donor
\* stops before the commit, resumes only when the commit cannot happen, and no
\* metadata that was loaded earlier brings an old owner back.
AcceptedByOwnerOnly == \A s \in Shard : meta[s].owns => s = Owner

\* From the donation to the commit at the config servers, or back.
CriticalSection == {"commit", "reply", "undo", "config", "confirm"}

\* When the owner does not take writes, it is in the critical section of a
\* donation, or its metadata is older than the config servers' and a refresh
\* will install newer: it never knows the newest version without the chunk.
ChunkIsServable ==
    \/ meta[Owner].owns
    \/ meta[Owner].version < Version
    \/ move.from = Owner /\ move.pc \in CriticalSection

\* The chunk does not stay without a shard that takes its writes, whatever
\* fails in the critical section.
ChunkIsServed == []<>(meta[Owner].owns)

\* moveChunk returns, and gives back the lock.
MoveReturns == []<>(move.pc = "idle")

\* The migrateThread of a migration that its donor has given up ends too, so
\* that the shard can be a recipient again.
RecvThreadEnds == \A t \in Shard : []<>(~recv[t].active)

=============================================================================
