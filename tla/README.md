# Formal models of the MongoDB 2.6.7 server core in sipx-externals

The repository packages third-party software that sipXecs depends on. Most of it is
vendored unchanged and is a library of data conversions, a packaging recipe or a
build tool. The part with real concurrent and distributed control is the MongoDB
server, `src/mongodb-2.6.7/src/mongo/`, and it is what these modules model. Paths
below are relative to that directory unless they start with `src/`.

## Inventory

| part | source | state | hard behaviour | modules |
|---|---|---|---|---|
| global lock | `util/concurrency/qlock.h` | counters and condition variables of r, w, R, W, U, X; pending writes; X generations | filtered notifications, greedy writers, values compared after a sleep, timeouts | `QLock`, `QuadLock`, `QLockProofs` |
| background sync | `db/repl/bgsync.cpp`, `rs_sync.cpp`, `rs.cpp`, `util/queue.h` | buffer, fetch position, three flags, member state | three threads, two flags set in different critical sections, an election in the middle | `BgSync`, `BgSyncProofs` |
| range deleter | `db/range_deleter.cpp` | two queues, set of deletes, black list, counters | the mutex is released between reserving and queueing; shutdown | `RangeDeleter`, `RangeDeleterProofs` |
| journal | `db/dur*.cpp`, `util/concurrency/synchronization.cpp` | write intents, the commit under way, journal files, lsn file, three copies of the data | a crash at every step of a group commit and of the recovery itself, power failures, a flush beside it | `Journal`, `JournalProofs` |
| elections, heartbeats, StateBox | `db/repl/consensus.cpp`, `manager.cpp`, `heartbeat.cpp`, `rs.h` | last yea and its lease, votes in flight, election times, each member's view of the others | leases, stale views, two primaries, a vote in two steps, restarts | `Election`, `ElectionProofs` |
| distributed lock | `s/distlock.cpp`, `client/syncclusterconnection.cpp` | one document per config server, lock IDs, the pinger's old IDs | updates that reach the servers one by one, a tournament among attempts, takeover by age, late unlocks, lost answers | `DistLock`, `DistLockProofs` |
| chunk migration, shard metadata | `s/d_migrate.cpp`, `s/d_state.cpp`, `db/dbhelpers.cpp` | the moveChunk command, the donor's change log, the recipient's thread, config.chunks, each shard's cached metadata | lost commit answers, a thread that outlives its migration, metadata loaded outside of locks, crashes of either side | `Migration`, `MigrationProofs`, `MigrationData` |

Every other part that the source names is listed in `PROJECT.json` with the reason
why it is out; see "Not modelled" below.

The parts meet as follows. Every read and write of the server takes the global
lock; a group commit takes it too, which is where `Journal` gets its lock rules
from. The threads of background sync write the oplog under it, and an election
needs it exclusively: `BgSync` models what a won election of `Election` starts in
`assumePrimary`. A migration holds a distributed lock and queues the ranges it has
moved away on the range deleter, which takes the global lock to delete;
`Migration` keeps of the lock that it is exclusive, and of the deleter that it removes
documents one by one after a test.

## The models

### `QuadLock` and `QLock`: the global lock

`QuadLock` is the compatibility table of the class comment (`qlock.h:60-68`) as a
state machine over the mode each thread holds. `QLock` is the code: one action per
critical section of the lock's mutex. `n` holds the counters of the six condition
variables, `pc` what each thread holds or waits for. A sleeper may wake
spuriously, the timed calls may expire at any moment, and a failed `fassert` sets
`aborted`. The notification filter (`i_block`, `notifyWeUnlocked`) is translated
literally, because a thread that is not notified stays asleep.

Callers keep to the protocol of `d_concurrency.cpp`: a thread unlocks what it
holds, and only one holder of R upgrades.

### `BgSync`: fetching and applying the oplog

Three threads of one member: the producer (`BackgroundSync::produce` and what it
calls), the sync thread (`SyncTail::oplogApplication`) and the manager
(`assumePrimary`, `relinquish`). An action is one critical section of
`BackgroundSync::_mutex` or of the buffer, or one read of shared state that no lock
protects; `producer`, `applier` and `manager` are program counters. The operations
of the sync source are `1..MaxOp`.

Details that matter and are kept: `_appliedBuffer` is cleared before the push, in a
critical section of its own; `notify()` runs after every logged operation and once
more after the batch; operations leave the buffer when they join a batch, before
they are applied; `_assumingPrimary` is cleared before the state changes;
`DBWrite("local")` is held while a batch is logged and excludes the global write
lock. `massert` 16235 and 16620 unwind to the thread's outer loop.

`oplog` is a set. An operation can be logged twice: `notify()` after the first
operation of a batch lets the producer query again, and if that query finds
nothing, `stop()` and `start()` move the fetch position back to
`lastOpTimeWritten`. `_logOpObjRS` tests for this case and logs it.

A second election is possible and in the bounds. It may hang: once a batch has been
left behind at `massert` 16620, nothing sets `_appliedBuffer` again unless another
operation is applied, and `stopReplicationAndFlushBuffer` waits for that flag.
`BecomesPrimary` excepts exactly the behaviours in which such a batch exists.

Sources share one history, so rollback does not arise. Stale sources, initial
sync, slave delay, the notifier thread and a primary's own writes are left out, and
so is time: the one-second sleeps of the loops make some interleavings unlikely,
but nothing in the code excludes them.

### `RangeDeleter`: deleting migrated ranges

Callers of `queueDelete` and `deleteNow`, the worker, the black list and
`stopWorkers`, one action per critical section of `_queueMutex`, call of
`stopRequested()` or call of the environment. Ranges are pairs of naturals, upper
bound exclusive. A task remembers the cursors that were open when it was accepted
(`openBefore`), which only the properties read. A refused call changes nothing and
is not a step. `queueDelete` reads `_stopRequested` without its mutex; taking
`_queueMutex` just before makes the read current, and it is modelled so. In this
version only tests call `stopWorkers`; mongod ends the worker with `inShutdown()`,
which is not modelled.

Nothing bounds the number of calls. `doWork` looks at the not-ready queue only after a
timed wait that ended with an empty `_taskQueue`, so callers who keep handing it ready
deletes starve those that wait for a cursor (`range_deleter.cpp`, `doWork`).
`DeletesComplete` excepts behaviours with ready deletes arriving for ever and no others;
without that exception TLC finds the starvation.

`canEnqueue_inlock` refuses the identical range, not an overlapping one, although
its header comment speaks of intersection; deletes of overlapping ranges do run
together in the model.

In two further situations the code does what no document forbids, so no run states
them: an operation can be logged twice (above), and `stopWorkers` returns while a
caller is still between the two critical sections of `queueDelete`, or past the
first test of `deleteNow` (`range_deleter.cpp:199`, `321`).

### `Journal`: group commit and recovery

An operation of a thread makes one or more writes, and a write has a place in the data
files that others may share. A copy of the data is the set of writes whose effect it
shows: `view` (private views), `dataFile` (page cache) and `disk`. The buffer of a
commit is what the views hold at the places of the intents (`Content`), as
`prepBasicWrites` copies memory when the commit begins and not when the intent was
declared. A buffer is copied over the data files (`Overwrite`, the `memcpy` of
`RecoveryJob::write`): at its places it replaces what was there, newer or older.

`DeclareWriteIntent`, `ReleaseWriteLock` and `AwaitBeyondNow`/`Acknowledge` are a client
thread. The group commit is one action per step that others can see: begin
(`PREPLOGBUFFER` under both locks), the append to the journal, the lsn file, rotation,
notification, `WRITETODATAFILES`, and for `_groupCommit` the reset and remap that
`_groupCommitWithLimitedLocks` does before or not at all. `PreFlush` and `PostFlush` are
the DataFileSync thread, `WriteBack` the kernel, place by place. A crash may come in
every state and may take the page cache with it. Recovery goes through the sections that
are there (`BeginReplay`, `ReplaySection`), copies or skips each, flushes, removes the
files one by one and the lsn file last, and may crash between any two of these. What
`removeJournalFiles` has removed a power failure may bring back until the directory is
synced (`unlinked`).

`log` keeps the sections of removed files, marked by their file's absence from `files`,
for the history variables: `commits` (sections that reached the journal) and the three
ways to lose a write, together `Lost`:

- `skipped`: the data files lacked the write when recovery skipped its section by the
  lsn file (the third finding);
- `dropped`: the write was not on disk when the file of its section was removed as
  unneeded (the remark on `dur_journal.cpp:672`);
- `reverted`: its section was gone when a recovery began that still found an older one.
  `removeJournalFiles` follows the order of the directory, so that a crash in the middle
  may leave an older file without a newer one. `getFiles` refuses a gap only; a missing
  end looks like the end, and the older sections are copied over what the earlier
  recovery had already made of the data files.

`OnlySkippedAreLost` and `AllOrNothing` say that there is no fourth way. Each of the
three is needed: with any one of them taken out of `Lost`, TLC violates both properties on
the instance of `journal_all`.

Two steps are coarser than the code. `WRITETODATAFILES` copies its entries in one step;
what a crash of the process in the middle leaves, a power failure after a partial
`WriteBack` leaves too. `Rotate` removes old files and opens the next one in one step; a
crash between the two is not separate.

Not in the model: preallocated and recycled files, `FileCreated` and `DropDb`
operations, a spool that overflows, `syncDataAndTruncateJournal`, a clean shutdown,
and a second flusher beside DataFileSync.

### `Election`: votes, leases and primaries

One action per handler or per part of it between two reads of shared state. A
candidate sends `replSetElect` to the others (`ElectSelf`); a voter reads the
primary it knows (`ReadPrimary`) and votes later (`GiveVote`), as the code does
without a lock over both; answers are counted when the candidate closes the election
(`Succeed`, `Lose`), so commands of a failed election go on arriving. The election time
is a step of its own (`SetElectionTime`): `_electSelf` checks that fewer than 30 seconds
have passed, then `setElectionTime(OpTime::now(mutex))` waits for a mutex and reads the
clock again. `overran` remembers an election whose time was taken after the leases it
began with. `CheckNewState` is
`msgCheckNewState` of the manager after any of its heartbeats were renewed or
failed: it notes another primary, steps down for it or does nothing. `Relinquish` is
the step down on another thread. `Restart` forgets the lease, which the code keeps
in memory only.

Freshness, priorities and which members seem up would only restrict who stands and
who is voted for; the model takes either outcome. A remote primary from before 2.6, whose
heartbeat has no election time (`manager.cpp:98-103`), is left out: all members run this
version. Every member has one vote, the
configuration is constant and the members read one clock.

### `DistLock`: the lock on the config servers

A process is in `lock_try` (read, force, acquire, tournament, finalize), holds the
lock, or unlocks; its pinger unlocks old IDs beside it. `WriteNext` is one server's
share of `SyncClusterConnection::update`; an error leaves the write applied or not
and the remaining servers written or not, and is told apart only as the code tells
it; a write with an error is applied at once or never, not late. The tournament reads
and grabs server by server. IDs of one process grow; with `Skewed` those of two processes
come in any order.

Time is not counted. The code forces a lock after 15 minutes without a change, and
takes for granted that the attempt that wrote the ID is over by then and that a
process which has not pinged for so long is dead; these are the guards.

### `Migration`: moving a chunk

One chunk moves among the shards; every shard keeps another one, so that each commit
gives both sides a new version. The version of the collection is the number of
commits, and `owners` is `config.chunks` with its history.

- The donor: `move` is the moveChunk command that has the distributed lock, `from`
  its `MigrateFromStatus` (the locations still to clone, the deleted ids, the ids to
  reload). The steps of `MoveChunkCommand::run` are `StartMove`, `StoreCurrentLocs`,
  `RecvChunkStart`, `RecvChunkStatus`, `DonateChunk` (5.a), `StartCommit` and
  `CommitReturns` or `ReplyLost` (5.b; the commit may not reach the recipient, or its
  answer not the donor), `ApplyOps` and `ConfirmCommit` (5.c), `QueueDelete` (5.d
  and 6); every return runs `done()`.
- The recipient: `recv` is `MigrateStatus` and its thread, one action per request or
  per read of the `state` that the commands change without a lock. `commands` are
  the `_recvChunkCommit` calls that wait in `startCommit`; one that the donor has
  given up goes on waiting and may still set FAIL.
- The metadata: a refresh is a load and, later, an installation (`LoadMetadata`,
  `InstallMetadata`), as in `doRefreshMetadata`; `Refreshed` is the choice of the
  newest version with the promotion of a pending chunk.
- Clients write through `Change`, which is `checkShardVersion`; `Put` and `Remove`
  add what `logOp` and `aboutToDelete` record. `DeleteRange` is the range deleter
  with the orphan test of `removeRange`.
- Failures: requests and answers are lost, the thread throws, a process ends or its
  primary changes (`Lose`). `data` is what a shard has, `saved` what it would keep;
  acknowledged writes are durable, documents that were cloned only once
  `flushPendingWrites` has succeeded.

Four history variables serve `OwnerHasData`: `truth`, the documents as the clients
left them, and the three excepted situations `crossed`, `leftBehind` and `doomed`
(see the remarks under Findings).

Left out: collections and indexes that the recipient creates, epochs and dropped
collections, `_id` conflicts, `secondaryThrottle`, a write that yields across the
donation, and more than one config server: an `applyOps` whose answer is lost takes
effect before the ten seconds are over or never. The memory limit that aborts a
migration compares megabytes with a number of bytes (`d_migrate.cpp:1156`), so the
code hardly takes that branch; the model may.

## Runs

| run | bounds | shows |
|---|---|---|
| `qlock_all` | 4 threads, 7 calls, symmetry | exclusion, exact counters, no failed `fassert`, every step a step of the table |
| `qlock_live` | 4 threads, 5 calls, no `lock_W_try` | no thread sleeps that could be granted its mode; every call returns |
| `qlock_try` (violation) | 3 threads, 3 calls | the first finding |
| `bgsync_all` | 4 operations, buffer 2, batch limit 1, 2 breaks, 2 elections | no hole in the oplog but a batch left at `massert` 16620, no stranded sleeper, a member without elections catches up, an election that is won makes the member primary unless such a batch was left |
| `bgsync_consume` (violation) | 3 operations, 1 election | the second finding |
| `deleter_all` | 3 callers, 2 ranges, 1 cursor, any number of calls | exact delete set and counters, black list kept, open cursors spared, `stopWorkers` returns, deletes end unless ready ones keep arriving for ever |
| `journal_all` | 2 operations with 3 writes at 2 places, 2 crashes, files of 1 section, 2 instants, power loss | write-ahead, acknowledged means journaled, nothing lost but in the three named ways, whole sections, final recoveries, waiters return |
| `journal_crash` (violation) | the same operations, 1 crash of the process, margin 1, 4 instants | the third finding |
| `election_all` | 3 members, 2 candidates, lease 1, 3 instants, 1 restart, symmetry | two primaries have different election times unless a lease was forgotten or outrun, the older one yields, state and primary pointer agree |
| `distlock_all` | 3 processes, 2 servers, 1 crash, and 3 lock IDs or 2 and an error; symmetry | exclusive, with every document the holder's, unless a document is opened beside an attempt |
| `distlock_race` (violation) | 2 processes, no faults | the fourth finding |
| `migration_all` | 2 shards, 2 documents, 1 id per transfer, 2 writes, 2 moves, 1 fault | no write is lost but in three known ways, only the owner takes writes, it can or soon will, moveChunk returns, the recipient's thread ends |

Bounds. `QLock`: four threads put a holder, a pending writer, a waiting reader and a
thread that parks or times out in the lock at once; seven calls let three of them
call again. `BgSync`: four operations against a
buffer of two fill it, and a batch limit of one gives batches of one and two; two breaks
allow a query that finds nothing after a cursor that ended; two elections have a step
down between them. `RangeDeleter`: three callers and two overlapping ranges give a delete
that waits for the cursor, one that is ready and a third call that is between its two
critical sections; the single cursor may be open before a delete or opened after it, not
both at once. `Journal`: two operations let one be in a commit while the other is spooled,
joins the next commit or waits; they write to one place, so that the section of the first
takes back what the second has written there, and the second has a write elsewhere, so
that its section can be torn; files of one section rotate at every commit; two crashes let
a recovery crash, or a recovered server crash again.
`Election`: a lease of one tick in three gives two lease periods, and the
tick on their border where the comparison matters; behaviours are followed up to a
restart within a lease (`LeasesKept`), after which the property is not promised.
`DistLock`: two servers already give every split of an update, and three IDs one
holder and two attempts against it; with an error the exploration stops at the second
ID (`ErrorOrThirdID`), which leaves an old ID with a pinger and a new attempt beside it.
Behaviours are followed until a document is
opened beside an attempt (`NotOpened`), for the same reason. `Migration`: two moves
let a thread of the first meet the second, and take the chunk away and back again
over the delete of its first copy; transfers of one id make the last batch differ
from the last change. Three shards, with one document and one write, were checked
aside with the same result. For all invariants and action properties of the passing
runs the proofs below lift these bounds; for liveness the bounds stay.

`MaxCalls`, `MaxElections`, `MaxBreaks`, `MaxTime`, `MaxCrashes`, `MaxErrors`,
`MaxRestarts`, `MaxTs`, `MaxWrites`, `MaxMoves` and `MaxFaults` only bound the
exploration. Runs that end when they are used up do not check for deadlock; their
liveness properties cover getting stuck before that.

Fairness. `QLock`: a thread that is awake goes on, a deadline passes, and a holder
releases, which the scoped lock objects of `d_concurrency.h` do. `BgSync`: each of
the three threads goes on when it can, and the source answers. Elections, step
downs and broken cursors are never promised. `RangeDeleter`: an accepted call goes
on, the worker and `stopWorkers` run, and cursors are closed or time out. `Journal`:
the journal thread loops (`durThread`), a writer releases its lock, a signalled
waiter wakes; no flush, crash, restart or further write is promised. `Migration`:
the command and the thread go on, `startCommit` returns after 30 seconds at the
latest, the lock of a dead donor is taken over, and a shard whose clients know a
newer version refreshes (`refreshMetadataIfNeeded`). Writes, deletes of ranges and
failures are not promised. `Election` and `DistLock` state no liveness:
candidates may tie for ever, and so may attempts.

## Findings

1. `lock_W_try` withdraws its pending write on timeout without notifying
   (`qlock.h:236`). A reader that only this request held back sleeps on although the
   table admits it, for ever if only readers come and go.
2. An operation taken into a batch is lost if the member becomes primary at that
   moment (`rs_sync.cpp:395`, `557`); after a step down the next operation is logged
   without it. The way there is that `stopReplicationAndFlushBuffer` clears
   `_assumingPrimary` (`bgsync.cpp:617`) before `assumePrimary` has the global lock.
   After that loss `_appliedBuffer` stays false with nothing left to apply, and the
   producer waits in `getOplogReader` for ever (`bgsync.cpp:477`). A second election
   waits for the same flag, which is the exception in `BecomesPrimary`.
3. A section is stamped with the time of the last completed flush when its buffer is
   prepared (`dur_preplogbuffer.cpp:171`). If a flush completes before the journal
   call of the same commit writes the lsn file, the lsn is newer than the stamp by
   the time between two flushes, and recovery skips the section
   (`dur_recover.cpp:397`) although its write was acknowledged and has not reached
   the data files. A crash of the process is enough.
4. Two processes can hold a distributed lock at once without any fault. The
   tournament counts one server after the other; a loser that has counted the first
   server goes on after the winner has taken, held and released the lock, grabs the
   second server's open document and finalizes by name (`distlock.cpp:963`, `1004`),
   while a later attempt, in a tournament of its own, grabs the finalized documents
   because their ID is smaller. `distlock_all` shows that opening a document in the
   middle of somebody else's attempt is the only way to this.

Remarks without a run. In `Migration`, an owner can lack a write in three ways, all
excepted in `OwnerHasData` and all reached by TLC without the exception.
`_migrateClone` and `_transferMods` name no migration, so a thread of a migration that
its donor has given up takes documents and changes from the donor's next one, which
goes to another shard or follows after an abort (`crossed`). And a reply that
is full of ids whose documents have been deleted since has a size but gives `apply`
nothing to do (`d_migrate.cpp:1908`), which the thread takes for the end although more
ids are queued behind them (`leftBehind`): three writes, no fault. Last, a
`_recvChunkCommit` that its donor has given up waits on in `startCommit` and, after its
30 seconds, fails whatever migration the shard receives by then. If that one has not
begun to clone, it queues a delete of its own range, sets its state back to CLONE and
goes on (`d_migrate.cpp:1746`). The delete tests each document against the metadata,
so it waits harmlessly while the shard serves the chunk; when the shard later is in
the critical section of a donation it removes documents of a chunk that the shard
still owns (`doomed`): three migrations, one fault.
The bounds of `migration_all` do not reach this one; the attempt to prove the invariant
did.

`removeUnneededJournalFiles` adds the margin
`ExtraKeepTimeMs` to the flush time where it would have to take it away
(`dur_journal.cpp:672`), so that a file closed within the margin after the flush
began is removed although the flush may not have had its writes. `_rotate` runs inside
`journal()`, before the buffer is written to the data files, and may remove the very file
it has just closed: a commit that fills a file within the margin of a flush loses its
own section before `WRITETODATAFILES`, and a crash of the process between the two is then
enough to lose its acknowledged writes. For older files a power failure is needed.

## Proofs

Assumptions are the named `ASSUME`s of the modules: natural numbers for bounds and
times, a finite set of threads, members, callers, ranges or cursors, at least two config
servers, `FileLimit` at least one.

`QLockProofs`, for any finite set of threads, any set of operations and any number
of calls: `TypeCorrect`, `Exclusion`, `NoAbort`, `Counters` (the invariants of
`qlock_all`), `Refinement` (`Spec` implements `QuadLock`) and `Invariance`, the
inductive invariant they follow from. The invariant joins `TypeOK`,
`MutualExclusion`, `CountersAgree` and `NeverAborts` with two facts that make it
inductive. The grant tests look at counters only, so exclusion needs the counters to
be exact. `X_to_w` moves all of `X.n` to `w.n` at once while the parked threads wake
later, so the counters are exact only if the generations say who is still parked:
`GenerationsAgree`. The upgrade `R_to_W` tests that it is alone, which needs
`OneUpgrader`. The proof groups the actions by what they do to the modes (nothing,
grant, release, promote), has one lemma for each group, and one per action that puts
it in its group. Refinement comes from the same lemmas: every step is a step of the
table or leaves the modes alone.

The second half of `QLockProofs` is about notifications. `NoLostWakeup` is read thread
by thread and split by who waits. `WritersWoken` (who waits for W, X or the upgrade) is
kept by every step, hence `WritersNeverForgotten` for any use of the lock.
`ReadersWoken` (who waits for r, w or R) is kept only as long as every pending write
ends in a grant, since a grant is followed by a release that notifies; `lock_W_try`
breaks that when it times out (the first finding). So `NobodyForgotten` assumes that
it is not among the operations, and covers every other entry point.

`BgSyncProofs`, for any number of operations, buffer size, batch limit, broken cursors
and elections: `TypeCorrect`, `OnlyDroppedAreSkipped` (`HolesAreDropped`),
`NobodyStranded` (`SleepersAreWoken`) and `NoHoleWithoutElection`. An operation goes
from the cursor to the buffer, the batch and the oplog, and the invariant says that
nothing overtakes on this way: below an operation at one of these places, every other
one is in the oplog, was left behind, or is further ahead (`OplogOrder`, `OpsOrder`,
`BufferOrder`), and the producer never asks for more than what follows the operations
it has passed on (`CursorOrder`). `Control` says what the program counters imply for
the local variables. `SleepersAreWoken` is inductive beside these. A batch is left
behind by a primary only, and a primary has won an election (`DropsAfterElection`).

`RangeDeleterProofs`, for any finite sets of callers, ranges and cursors and any number
of calls: `TypeCorrect`, `NoRangeTwice` (`DeleteSetIsExact`), `BlackListKept`
(`BlackListDisjoint`), `NoOpenCursorLosesDocuments` (`CursorsAreSpared`) and
`CountersAgree` (`StatsAgree`), every invariant of `deleter_all`. A delete is in one
queue, in the hands of one caller or in those of the worker; `OnePlace` says so by the
ranges at each place, and `Reserved` that together they are `_deleteSet`. `Counted`
takes the counters from these sets, since cardinalities of disjoint sets are what the
provers can add and subtract. `Spared` adds that a cursor that was open at acceptance
is not new again, so that an intersection with the open cursors never forgets one.
The moves between the queues (`CheckNotReady`) are described by order preserving
functions (`InOrder`), about which the lemmas can reason without induction.

`ElectionProofs`, for any finite set of members, any lease and any number of
restarts: `TypeCorrect`, `ElectionTimesDiffer`, `StateBoxAligned` and
`PrimaryYieldsToNewer`. The argument: a yea is held (`Held`) for its candidate until
the lease is over, so the yeas of a running election are held for as long as it may
succeed (`YeasHeld`), and an elected member has a majority that kept its votes past
the election time (`MajorityHeld`). Two majorities share a voter, who cannot have
held both votes in one tick; hence `ElectedApart`. All this is given up once a voter
forgot its lease in a restart (`forgotten`) or a candidate took its election time after
the leases (`overran`); until then a count that has succeeded still has its yeas held
(`CountHeld`); the alignment of the box, the order of
times and `HbInfoBehind` (a heartbeat is never ahead of the member it is about) need
no lease, and the last is what makes a primary yield to a newer one only.

`JournalProofs`, for any operations, writes and places, any file size, margin, time and
number of crashes, with power failures: `TypeCorrect`, `JournalBeforeData`,
`AcknowledgedIsJournaled`, `NothingElseLost`, `RecoveryIsAtomic` and `RecoveryIsFinal`. The
inductive invariant has six parts, each with one lemma per conjunct and in it one step
per group of actions. Types, and an open file (`HasFile`). `Control`: a commit that keeps
its lock carries every intent (`JobAgrees`), which is why the reset at its end forgets
nothing. `LogInv`: sections and buffers past the append are `commits`. `AckInv`: tickets
and commit numbers come from one counter, so that a notification passes only waiters
whose write the commit carries (`Tickets`), and a released write is in the job, in the
buffer or in the journal (`OnItsWay`). `SeenInv`: the views hold the data files and the
pending writes and nothing else (`ViewAgrees`), so that a remap loses nothing; the buffer of
the commit under way has all that the data files and the journal have for its places
(`BufferFresh`), so that copying it takes nothing back; readers see what is kept (`Seen`).
`KeptInv` carries the writes that are journaled and not `Lost` through a crash. Each is in
the data files or in a section that is there, for the page cache and for the disk
(`Durable`). That is not enough for a recovery, which copies old sections over newer
data: what a section takes back, itself or a later one gives again (`Covered`), and while
replaying, a section that is gone behind one that is there is `Lost`. So every write is in
the data files or in a section still to come, until the flush and the removal of the
files. The whole invariant was checked by TLC on the instance of `journal_all` before the
proof.

`DistLockProofs`, for any processes, two or more config servers, any number of lock
IDs, errors and crashes, with clocks that agree or not: `TypeCorrect` and
`ExclusiveHolder` (`ExclusiveUnlessOpened`). Exclusion is proved up to the moment when
a document is opened beside another attempt (`opened`); after that the fourth finding
applies. The core is `Witness`: whoever won a document in the update that acquires has
a server that speaks for its ID. That document stays set with this ID or a larger one,
nobody else has won it, and whoever has passed it in a tournament carries a maximum at
least as large; so an attempt with a smaller ID cannot finish (`Witnessed`). Around it:
IDs belong to one process and grow (`IDs`), the ID of an open document will not be
written again (`Spent`), a grab finds the document it has read or fails (`Grabbing`),
the servers that a tournament has passed are set and out of reach of the process's own
late unlocks (`PassedAreSet`), and what was finalized stays (`Finals`). Lemmas say what
keeps these for each kind of step (a new ID, a document acquired, grabbed, finalized or
opened, an attempt that goes on or ends), and every action is one of the kinds.

`MigrationProofs`, for any shards, documents, transfer limit, writes, moves and
faults: `OnlyTheOwnerAccepts` (`AcceptedByOwnerOnly`) and `TheOwnerCanServe`
(`ChunkIsServable`), from `Invariance`. That only the owner takes writes is not
inductive: an undone donation, a commit and a late installation could each bring an
old owner back. The invariant adds that moveChunk works from the current version until
its own commit (`MoveAgrees`), that the donor has stopped by then at the next version
(`Stopped`), that nobody else is ahead of the config servers (`NotAhead`), that the
owner knows the chunk if it knows the newest version (`NewestServes`), and that a load
that found the chunk is current or will not be installed (`LoadIsFresh`). One lemma
says that a step which leaves owners, metadata and the move's place alone keeps it;
the others are about a refresh, a lost process, donation, undo and commit, and every
action comes down to one of them.
`TypeCorrect` (`TypeOK`) is in the same module; `Shaped` adds to the types what goes
together in the records of the command, the log and the thread.

`MigrationData` extends it with `NoWriteIsLost` (`OwnerHasData`), under the same
generality and up to the three excepted histories. The owner has what the clients left,
and no thread or delete is about to change it (`Kept`). A commit hands this over, so the
recipient must have it by the time of the commit (`Received`), which follows from what a
transfer is: until the thread begins, every document is in the list to clone, is listed
to be reloaded or is still ahead of the scan (`Noted`); from then on each document
agrees on both sides or is in one of the donor's lists (`CatchesUp`), a deleted document
that is listed is gone or put again (`LogAgrees`), and nothing is left to clone in the
critical section (`Cloned`). The thread ends with DONE only after a transfer that began
in the critical section and found the lists empty (`Receiver`). `Numbered` tells the
thread of this migration from older ones, `Committed` says who owns the chunk when the
answer was lost. Each of these was checked by TLC as part of `SInv` on three
instances before the proof. The lemmas are by the kind of step: elsewhere, on the
recipient, a client's write, an end of the migration, the commit.

Only model-checked: liveness (`EveryCallReturns`, `CatchesUp`, `BecomesPrimary`,
`StopReturns`, `DeletesComplete`, `WaitersReturn`, `ChunkIsServed`, `MoveReturns`,
`RecvThreadEnds`), which needs fairness and `ENABLED` and is out of the prover's reach.
Every invariant, action property and refinement of the passing runs is a theorem.
The properties of the runs that expect a violation are false of the code, so there is
nothing to prove; the theorems next to them say under which condition they hold
(`NobodyForgotten`, `NoHoleWithoutElection`, `NothingElseLost`, `ExclusiveHolder`).

The proof modules are longer than the models. Most leaves name Zenon, which is the
faster prover for the set and function reasoning in them; those without a name
need the arithmetic of the SMT solver.

## Not modelled

- Rollback, initial sync, write concern and sync source feedback, the lock layer over
  `QLock`, write batches in mongos, file preallocation: state machines that could be
  modelled next, in this order. `rs_rollback.cpp` is the one whose failures are hardest
  to test.
- Splits and merges of chunk maps and the balancer policy: pure functions, to be
  checked against reference definitions.
- Storage layout, query engine, aggregation, BSON, networking, logging, options,
  shell and tools, authentication: sequential evaluation over documents or pure I/O,
  with far more data than control.
- The other vendored packages (cfengine, net-snmp, the Dart SDK, the C++ driver, the
  Ruby libraries) and the packaging: not the repository's own control logic. They
  are most of its lines, so the share of the repository that is modelled is small.
