------------------------------ MODULE Journal ------------------------------
(***************************************************************************)
(* The write-ahead journal of mongod (db/dur*.cpp): group commit, the      *)
(* acknowledgement of getLastError j:true, the flush of the data files,    *)
(* journal rotation, crash and recovery.                                   *)
(*                                                                         *)
(* A member of Op is one operation of one thread, which makes the writes w *)
(* with op[w] = o.  Each changes one place of the data files, place[w].    *)
(* The content of a place is the set of the writes to it that it reflects, *)
(* and a view of the data is the set of the writes that its places reflect:*)
(*   view      the private views, what the database reads and changes      *)
(*   dataFile  the shared views, that is the page cache of the data files  *)
(*   disk      what the data files hold after a power failure              *)
(* A section of the journal holds the content of the places it touches,    *)
(* and to apply it replaces theirs, by an older one if need be.            *)
(* Time is counted in ticks of Listener::getElapsedTimeMillis, which       *)
(* starts again from 0 in every process.                                   *)
(***************************************************************************)
EXTENDS Integers, Sequences, FiniteSets

CONSTANTS Op,          \* the operations
          Write,       \* the writes
          op,          \* the operation that each write is part of
          Loc,         \* the places of the data files
          place,       \* the place that each write changes
          Keep,        \* ExtraKeepTimeMs, in ticks
          FileLimit,   \* sections a journal file takes (DataLimitPerJournalFile)
          MaxTime,     \* bound: ticks a process lives
          MaxCrashes,  \* bound: crashes
          PowerLoss    \* may a crash lose the page cache too?

ASSUME JournalAssumption ==
    /\ op \in [Write -> Op] /\ place \in [Write -> Loc]
    /\ Keep \in Nat /\ MaxTime \in Nat /\ MaxCrashes \in Nat
    /\ FileLimit \in Nat \ {0}
    /\ PowerLoss \in BOOLEAN

VARIABLES
    mode,       \* "up", "down", "replaying", "cleaning" (recovery), "refused"
    next,       \* recovery: the section it has come to
    crashes,    \* crashes so far
    clock,      \* Listener::getElapsedTimeMillis
    thread,     \* of each operation: what its thread is doing
    ticket,     \* of each operation: the When its awaitBeyondNow waits to pass
    view,
    dataFile,
    disk,
    job,        \* commitJob: _hasWritten and the intents
    notify,     \* NotifyAll: _lastDone, _lastReturned
    commit,     \* the group commit under way: pc, whether it keeps its lock,
                \* _commitNumber, the buffer and its header's seqNumber
    log,        \* the sections written since the last recovery, each with the
                \* number of its file, its content and its header's seqNumber
    files,      \* the numbers, from 1 on, of the j._ files in the directory
    unlinked,   \* those removed with the directory not synced since
    closed,     \* _oldJournalFiles: lastEventTimeMs of each file before the open one
    lsn,        \* the content of the lsn file, 0 if there is none
    flush,      \* flushAll under way, and the places it has still to sync
    stamp,      \* _preFlushTime, _lastFlushTime, _writeToLSNNeeded
    commits,    \* history: every section that reached the journal
    skipped,    \* history: writes of sections that a recovery passed over,
                \* which the data files did not have
    dropped,    \* history: writes of files removed as no longer needed, which
                \* the data files did not have on disk
    reverted    \* history: writes of sections gone when a recovery met older ones

vars == <<mode, next, crashes, clock, thread, ticket, view, dataFile, disk, job,
          notify, commit, log, files, unlinked, closed, lsn, flush, stamp,
          commits, skipped, dropped, reverted>>

process == <<mode, next, crashes>>
threads == <<thread, ticket>>
journal == <<log, files, unlinked, closed, lsn>>
history == <<commits, skipped, dropped, reverted>>

NoJob == [hasWritten |-> FALSE, intents |-> {}]
NoCommit == [pc |-> "idle", full |-> FALSE, number |-> 0, buffer |-> {},
             seqNumber |-> 0]
NoFlush == [on |-> FALSE, must |-> {}]
NoStamp == [pre |-> 0, last |-> 0, writeLSN |-> FALSE]

\* The writes of an operation, the places of some writes, what a view holds
\* there, and the view after a buffer is copied over it (memcpy of each entry).
WritesOf(o) == {w \in Write : op[w] = o}
Touched(writes) == {place[w] : w \in writes}
Content(data, places) == {w \in data : place[w] \in places}
Overwrite(data, buffer) == {w \in data : place[w] \notin Touched(buffer)} \union buffer

\* The section k is in a file of the journal directory.
Present(k) == log[k].file \in files

Init ==
    /\ mode = "up" /\ next = 1 /\ crashes = 0 /\ clock = 0
    /\ thread = [o \in Op |-> "new"]
    /\ ticket = [o \in Op |-> 0]
    /\ view = {} /\ dataFile = {} /\ disk = {}
    /\ job = NoJob
    /\ notify = [done |-> 0, returned |-> 0]
    /\ commit = NoCommit
    /\ log = << >> /\ files = {1} /\ unlinked = {} /\ closed = << >>
    /\ lsn = 0
    /\ flush = NoFlush
    /\ stamp = NoStamp
    /\ commits = {} /\ skipped = {} /\ dropped = {} /\ reverted = {}

-----------------------------------------------------------------------------
(* Writers and those who wait for them. *)

\* dbMutex: a commit that has not released its lock keeps writers out, and a
\* writer, which keeps its w lock until its intents are unspooled, keeps out
\* a commit.
CommitHoldsLock == commit.pc # "idle" /\ commit.full
WriterHoldsLock == \E o \in Op : thread[o] = "spooled"

\* groupCommitMutex.
MutexFree == commit.pc = "idle"

\* declareWriteIntent: the private view changes, the intent is kept in the
\* thread and _hasWritten is set without the mutex.
DeclareWriteIntent(o) ==
    /\ mode = "up"
    /\ thread[o] = "new"
    /\ ~CommitHoldsLock
    /\ view' = view \union WritesOf(o)
    /\ thread' = [thread EXCEPT ![o] = "spooled"]
    /\ job' = [job EXCEPT !.hasWritten = TRUE]
    /\ UNCHANGED <<process, clock, ticket, dataFile, disk, notify, commit,
                   journal, flush, stamp, history>>

\* releasingWriteLock: the intents move to the commit job under the mutex.
ReleaseWriteLock(o) ==
    /\ mode = "up"
    /\ thread[o] = "spooled"
    /\ MutexFree
    /\ thread' = [thread EXCEPT ![o] = "written"]
    /\ job' = [job EXCEPT !.intents = @ \union WritesOf(o)]
    /\ UNCHANGED <<process, clock, ticket, view, dataFile, disk, notify, commit,
                   journal, flush, stamp, history>>

\* awaitCommit, on the thread that made the write.
AwaitBeyondNow(o) ==
    /\ mode = "up"
    /\ thread[o] = "written"
    /\ thread' = [thread EXCEPT ![o] = "waiting"]
    /\ notify' = [notify EXCEPT !.returned = @ + 1]
    /\ ticket' = [ticket EXCEPT ![o] = notify.returned + 1]
    /\ UNCHANGED <<process, clock, view, dataFile, disk, job, commit,
                   journal, flush, stamp, history>>

Passed(e) == notify.done > e

Acknowledge(o) ==
    /\ mode = "up"
    /\ thread[o] = "waiting"
    /\ Passed(ticket[o])
    /\ thread' = [thread EXCEPT ![o] = "acked"]
    /\ ticket' = [ticket EXCEPT ![o] = 0]
    /\ UNCHANGED <<process, clock, view, dataFile, disk, job, notify,
                   commit, journal, flush, stamp, history>>

-----------------------------------------------------------------------------
(* Group commit. *)

Waiting == {o \in Op : thread[o] = "waiting"}

\* A slip: a commit that finds nothing to do returns without notifying.
CommitNothingSilent == FALSE

\* commitingBegin, with both locks: the commit takes a number.  When nothing
\* has been written the waiters are notified and the commit is over.  A commit
\* with neither writes nor waiters only moves the counters and is left out.
CommitNothing ==
    /\ mode = "up"
    /\ MutexFree /\ ~WriterHoldsLock
    /\ ~job.hasWritten
    /\ \E o \in Waiting : ~Passed(ticket[o])
    /\ notify' = [done |-> notify.returned + 1, returned |-> notify.returned + 1]
    /\ UNCHANGED <<process, clock, threads, view, dataFile, disk, job, commit,
                   journal, flush, stamp, history>>

\* PREPLOGBUFFER copies what the private views hold at the places of the intents
\* and stamps the section header with the time of the last flush.
PrepLogBuffer(full) ==
    commit' = [pc |-> "prepped", full |-> full, number |-> notify.returned + 1,
               buffer |-> Content(view, Touched(job.intents)),
               seqNumber |-> stamp.last]

\* _groupCommitWithLimitedLocks resets the job and lets writers in before the
\* journal is written; _groupCommit (every tenth commit, and early commits)
\* keeps its lock to the end.
BeginCommit(full) ==
    /\ mode = "up"
    /\ MutexFree /\ ~WriterHoldsLock
    /\ job.hasWritten
    /\ PrepLogBuffer(full)
    /\ notify' = [notify EXCEPT !.returned = @ + 1]
    /\ job' = IF full THEN job ELSE NoJob
    /\ UNCHANGED <<process, clock, threads, view, dataFile, disk,
                   journal, flush, stamp, history>>

\* The number of the open file, and the sections it has.
Cur == Len(closed) + 1
Filled == Cardinality({k \in DOMAIN log : log[k].file = Cur})

\* Journal::journal up to the synchronous append: on disk when it returns, and
\* rejected by its checksum when the process or the machine stops before.
WriteToJournal ==
    /\ mode = "up"
    /\ commit.pc = "prepped"
    /\ log' = Append(log, [file |-> Cur, buffer |-> commit.buffer,
                           seqNumber |-> commit.seqNumber])
    /\ commits' = commits \union {commit.buffer}
    /\ commit' = [commit EXCEPT !.pc = "appended"]
    /\ UNCHANGED <<process, clock, threads, view, dataFile, disk, job, notify,
                   files, unlinked, closed, lsn, flush, stamp, skipped, dropped,
                   reverted>>

\* A slip: the lsn is one more than the time of the flush.
UpdateLSNFileAhead ==
    /\ mode = "up"
    /\ commit.pc = "appended"
    /\ lsn' = IF stamp.writeLSN THEN stamp.last + 1 ELSE lsn
    /\ stamp' = [stamp EXCEPT !.writeLSN = FALSE]
    /\ commit' = [commit EXCEPT !.pc = "lsnSet"]
    /\ UNCHANGED <<process, clock, threads, view, dataFile, disk, job, notify,
                   log, files, unlinked, closed, flush, history>>

\* updateLSNFile, at the start of _rotate.
UpdateLSNFile ==
    /\ mode = "up"
    /\ commit.pc = "appended"
    /\ lsn' = IF stamp.writeLSN THEN stamp.last ELSE lsn
    /\ stamp' = [stamp EXCEPT !.writeLSN = FALSE]
    /\ commit' = [commit EXCEPT !.pc = "lsnSet"]
    /\ UNCHANGED <<process, clock, threads, view, dataFile, disk, job, notify,
                   log, files, unlinked, closed, flush, history>>

\* removeUnneededJournalFiles: from the oldest closed file on, as long as the
\* files are eligible.
Unneeded(lastEvent) == lastEvent < stamp.last + Keep

\* It removes the closed files up to number n.
RemovesUpTo(old, n) ==
    /\ \A f \in files : f <= n => Unneeded(old[f])
    /\ n + 1 \in files => ~Unneeded(old[n + 1])

\* The rest of _rotate: close a full file, remove old ones, open the next.  A new
\* file is opened with a sync of the directory.
Rotate ==
    /\ mode = "up"
    /\ commit.pc = "lsnSet"
    /\ commit' = [commit EXCEPT !.pc = "journaled"]
    /\ IF Filled < FileLimit
         THEN UNCHANGED <<files, closed, dropped>>
         ELSE /\ closed' = Append(closed, clock)
              /\ \E n \in 0 .. Cur :
                    /\ RemovesUpTo(closed', n)
                    /\ files' = {f \in files : f > n} \union {Cur + 1}
                    /\ dropped' = dropped \union
                          {w \in Write \ disk :
                             \E k \in DOMAIN log : /\ Present(k) /\ log[k].file <= n
                                                  /\ w \in log[k].buffer}
    /\ UNCHANGED <<process, clock, threads, view, dataFile, disk, job, notify,
                   log, unlinked, lsn, flush, stamp, commits, skipped, reverted>>

NotifyCommitted ==
    /\ mode = "up"
    /\ commit.pc = "journaled"
    /\ notify' = [notify EXCEPT !.done = commit.number]
    /\ commit' = [commit EXCEPT !.pc = "notified"]
    /\ UNCHANGED <<process, clock, threads, view, dataFile, disk, job,
                   journal, flush, stamp, history>>

\* A slip: the data files may be written before the journal.
WriteToDataFilesEarly ==
    /\ mode = "up"
    /\ commit.pc \in {"prepped", "notified"}
    /\ dataFile' = Overwrite(dataFile, commit.buffer)
    /\ commit' = IF commit.full THEN [commit EXCEPT !.pc = "applied"]
                                ELSE NoCommit
    /\ UNCHANGED <<process, clock, threads, view, disk, job, notify,
                   journal, flush, stamp, history>>

\* A slip: the job is reset when the commit ends, with writers at work.
WriteToDataFilesReset ==
    /\ mode = "up"
    /\ commit.pc = "notified"
    /\ dataFile' = Overwrite(dataFile, commit.buffer)
    /\ commit' = IF commit.full THEN [commit EXCEPT !.pc = "applied"]
                                ELSE NoCommit
    /\ job' = NoJob
    /\ UNCHANGED <<process, clock, threads, view, disk, notify,
                   journal, flush, stamp, history>>

\* A slip: private views are remapped after a commit with limited locks.
WriteToDataFilesRemap ==
    /\ mode = "up"
    /\ commit.pc = "notified"
    /\ dataFile' = Overwrite(dataFile, commit.buffer)
    /\ view' = dataFile'
    /\ commit' = IF commit.full THEN [commit EXCEPT !.pc = "applied"]
                                ELSE NoCommit
    /\ UNCHANGED <<process, clock, threads, disk, job, notify,
                   journal, flush, stamp, history>>

\* WRITETODATAFILES; the commit with limited locks is over then.  What a crash in
\* the middle leaves is also left by a power failure after it, when only some of
\* the places had been written back.
WriteToDataFiles ==
    /\ mode = "up"
    /\ commit.pc = "notified"
    /\ dataFile' = Overwrite(dataFile, commit.buffer)
    /\ commit' = IF commit.full THEN [commit EXCEPT !.pc = "applied"]
                                ELSE NoCommit
    /\ UNCHANGED <<process, clock, threads, view, disk, job, notify,
                   journal, flush, stamp, history>>

\* The end of _groupCommit: committingReset, then REMAPPRIVATEVIEW in the
\* write lock, which gives some files a fresh private view of their data.
ResetAndRemap ==
    /\ mode = "up"
    /\ commit.pc = "applied"
    /\ job' = NoJob
    /\ \E remapped \in SUBSET Loc :
          view' = Content(view, Loc \ remapped) \union Content(dataFile, remapped)
    /\ commit' = NoCommit
    /\ UNCHANGED <<process, clock, threads, dataFile, disk, notify,
                   journal, flush, stamp, history>>

-----------------------------------------------------------------------------
(* The flush of the data files, and time. *)

Dirty == Touched((dataFile \ disk) \union (disk \ dataFile))

\* flushAll(true) by the DataFileSync thread: preFlush reads the clock.
PreFlush ==
    /\ mode = "up"
    /\ ~flush.on
    /\ stamp' = [stamp EXCEPT !.pre = clock]
    /\ flush' = [on |-> TRUE, must |-> Dirty]
    /\ UNCHANGED <<process, clock, threads, view, dataFile, disk, job, notify,
                   commit, journal, history>>

\* Every file has been synced: what was dirty at the start has been written.
PostFlush ==
    /\ mode = "up"
    /\ flush.on /\ flush.must = {}
    /\ flush' = NoFlush
    /\ stamp' = [stamp EXCEPT !.last = stamp.pre, !.writeLSN = TRUE]
    /\ UNCHANGED <<process, clock, threads, view, dataFile, disk, job, notify,
                   commit, journal, history>>

\* A place is written to disk, for the flush or because the kernel likes to.
WriteBack(l) ==
    /\ l \in Dirty
    /\ disk' = Content(disk, Loc \ {l}) \union Content(dataFile, {l})
    /\ flush' = [flush EXCEPT !.must = @ \ {l}]
    /\ UNCHANGED <<process, clock, threads, view, dataFile, job, notify, commit,
                   journal, stamp, history>>

Tick ==
    /\ mode = "up"
    /\ clock < MaxTime
    /\ clock' = clock + 1
    /\ UNCHANGED <<process, threads, view, dataFile, disk, job, notify, commit,
                   journal, flush, stamp, history>>

-----------------------------------------------------------------------------
(* Crash and recovery. *)

\* The process stops in any state, or the machine with the page cache.  The
\* lsn file is not synced: after a power failure it may be empty.  Removed files
\* may come back as long as the directory is not synced.
Crash ==
    /\ mode # "down"
    /\ crashes < MaxCrashes
    /\ crashes' = crashes + 1
    /\ mode' = "down" /\ next' = 1
    /\ \/ UNCHANGED <<dataFile, lsn, files, unlinked>>
       \/ /\ PowerLoss
          /\ dataFile' = disk
          /\ lsn' \in {0, lsn}
          /\ \E back \in SUBSET unlinked : files' = files \union back
          /\ unlinked' = {}
    /\ thread' = [o \in Op |->
                    IF thread[o] \in {"new", "acked"} THEN thread[o] ELSE "gone"]
    /\ ticket' = [o \in Op |-> 0]
    /\ view' = {}
    /\ clock' = 0
    /\ job' = NoJob
    /\ notify' = [done |-> 0, returned |-> 0]
    /\ commit' = NoCommit
    /\ flush' = NoFlush
    /\ stamp' = NoStamp
    /\ closed' = << >>
    /\ UNCHANGED <<disk, log, history>>

\* getFiles: the numbers of the journal files must follow one another.
InOrder == \A f, g \in files : f .. g \subseteq files

\* The sections that processSection passes over: the lsn says that the data
\* files were synced after they were written.
Skips(section) == lsn > section.seqNumber + Keep

\* The database opens, with an empty journal.
Open ==
    /\ mode' = "up"
    /\ view' = dataFile
    /\ log' = << >> /\ files' = {1} /\ unlinked' = {}

\* startup -> recover, with no journal files: nothing to do, not even to the
\* lsn file.
RecoverNothing ==
    /\ mode = "down"
    /\ files = {}
    /\ Open
    /\ UNCHANGED <<next, crashes, clock, threads, dataFile, disk, job, notify,
                   commit, closed, lsn, flush, stamp, history>>

\* getFiles throws (13532) and the server does not start.
RecoverRefuses ==
    /\ mode = "down"
    /\ ~InOrder
    /\ mode' = "refused"
    /\ UNCHANGED <<next, crashes, clock, threads, view, dataFile, disk, job, notify,
                   commit, journal, flush, stamp, history>>

\* The sections that are gone although older ones are there.
GoneBeforeOlder ==
    {k \in DOMAIN log : ~Present(k) /\ \E j \in 1 .. k - 1 : Present(j)}

\* RecoveryJob::go begins with the oldest file there is.
BeginReplay ==
    /\ mode = "down"
    /\ files # {} /\ InOrder
    /\ mode' = "replaying"
    /\ reverted' = reverted \union UNION {log[k].buffer : k \in GoneBeforeOlder}
    /\ UNCHANGED <<next, crashes, clock, threads, view, dataFile, disk, job, notify,
                   commit, journal, flush, stamp, commits, skipped, dropped>>

\* processSection, for the sections of all files in order: the section is
\* written over the data files or passed over.
ReplaySection ==
    /\ mode = "replaying"
    /\ next \in DOMAIN log
    /\ next' = next + 1
    /\ \/ ~Present(next) /\ UNCHANGED <<dataFile, skipped>>
       \/ /\ Present(next) /\ Skips(log[next])
          /\ skipped' = skipped \union (log[next].buffer \ dataFile)
          /\ UNCHANGED dataFile
       \/ /\ Present(next) /\ ~Skips(log[next])
          /\ dataFile' = Overwrite(dataFile, log[next].buffer)
          /\ UNCHANGED skipped
    /\ UNCHANGED <<mode, crashes, clock, threads, view, disk, job, notify, commit,
                   journal, flush, stamp, commits, dropped, reverted>>

Replayed == mode = "replaying" /\ next \notin DOMAIN log

\* A slip: the journal is removed before the data files are flushed.
CloseWithoutFlush ==
    /\ Replayed
    /\ mode' = "cleaning" /\ next' = 1
    /\ stamp' = [pre |-> clock, last |-> clock, writeLSN |-> TRUE]
    /\ UNCHANGED <<crashes, clock, threads, view, dataFile, disk, job, notify,
                   commit, journal, flush, history>>

\* RecoveryJob::close flushes the data files, which stamps a flush time too.
CloseReplayed ==
    /\ Replayed
    /\ mode' = "cleaning" /\ next' = 1
    /\ disk' = dataFile
    /\ stamp' = [pre |-> clock, last |-> clock, writeLSN |-> TRUE]
    /\ UNCHANGED <<crashes, clock, threads, view, dataFile, job, notify, commit,
                   journal, flush, history>>

\* removeJournalFiles: the j._ files in the order of the directory ...
RemoveJournalFile(f) ==
    /\ mode = "cleaning"
    /\ files' = files \ {f}
    /\ unlinked' = unlinked \union {f}
    /\ UNCHANGED <<process, clock, threads, view, dataFile, disk, job, notify,
                   commit, log, closed, lsn, flush, stamp, history>>

\* A slip: the database opens while old journal files are still there.
OpenBeforeCleaning ==
    /\ mode = "cleaning"
    /\ mode' = "up"
    /\ view' = dataFile
    /\ lsn' = 0
    /\ closed' = [k \in DOMAIN log |-> 0]
    /\ files' = files \union {Len(log) + 1}
    /\ UNCHANGED <<next, crashes, clock, threads, dataFile, disk, job, notify, commit,
                   log, unlinked, flush, stamp, history>>

\* ... and then the lsn file, with a sync of the directory.
RemoveLSNFile ==
    /\ mode = "cleaning"
    /\ files = {}
    /\ lsn' = 0
    /\ Open
    /\ UNCHANGED <<next, crashes, clock, threads, dataFile, disk, job, notify, commit,
                   closed, flush, stamp, history>>

-----------------------------------------------------------------------------
CommitStep ==
    \/ CommitNothing
    \/ \E full \in BOOLEAN : BeginCommit(full)
    \/ WriteToJournal \/ UpdateLSNFile \/ Rotate \/ NotifyCommitted
    \/ WriteToDataFiles \/ ResetAndRemap

RecoveryStep ==
    \/ RecoverNothing \/ RecoverRefuses
    \/ BeginReplay \/ ReplaySection \/ CloseReplayed
    \/ \E f \in files : RemoveJournalFile(f)
    \/ RemoveLSNFile

Next ==
    \/ \E o \in Op : \/ DeclareWriteIntent(o) \/ ReleaseWriteLock(o)
                     \/ AwaitBeyondNow(o) \/ Acknowledge(o)
    \/ \E l \in Loc : WriteBack(l)
    \/ CommitStep
    \/ PreFlush \/ PostFlush \/ Tick
    \/ Crash
    \/ RecoveryStep

Spec == Init /\ [][Next]_vars

\* The journal thread runs in a loop until shutdown, a thread that holds a
\* lock goes on, and a thread whose condition is signalled wakes.  Nothing
\* forces a client to write, a flush to start, or a server to be restarted.
FairSpec ==
    /\ Spec
    /\ WF_vars(CommitStep)
    /\ \A o \in Op : /\ WF_vars(ReleaseWriteLock(o))
                     /\ WF_vars(Acknowledge(o))
-----------------------------------------------------------------------------
(* Properties. *)

Acked == {w \in Write : thread[op[w]] = "acked"}
Journaled == UNION commits
Lost == skipped \union dropped \union reverted

Times == 0 .. MaxTime

\* Types of all the state.
TypeOK ==
    /\ mode \in {"up", "down", "replaying", "cleaning", "refused"}
    /\ next \in Nat \ {0}
    /\ crashes \in 0 .. MaxCrashes
    /\ clock \in Times
    /\ thread \in [Op -> {"new", "spooled", "written", "waiting", "acked", "gone"}]
    /\ ticket \in [Op -> Nat]
    /\ view \subseteq Write /\ dataFile \subseteq Write /\ disk \subseteq Write
    /\ job \in [hasWritten : BOOLEAN, intents : SUBSET Write]
    /\ notify \in [done : Nat, returned : Nat]
    /\ commit \in [pc : {"idle", "prepped", "appended", "lsnSet", "journaled",
                         "notified", "applied"},
                   full : BOOLEAN, number : Nat, buffer : SUBSET Write,
                   seqNumber : Times]
    /\ log \in Seq([file : Nat \ {0}, buffer : SUBSET Write, seqNumber : Times])
    /\ files \subseteq Nat \ {0} /\ unlinked \subseteq Nat \ {0}
    /\ closed \in Seq(Times)
    /\ lsn \in Times
    /\ flush \in [on : BOOLEAN, must : SUBSET Loc]
    /\ stamp \in [pre : Times, last : Times, writeLSN : BOOLEAN]
    /\ commits \subseteq SUBSET Write
    /\ skipped \subseteq Write /\ dropped \subseteq Write /\ reverted \subseteq Write

\* Write-ahead: a data file, cached or on disk, never holds a write that is not
\* in a complete section of the journal ("apply the writes back to the
\* non-private MMF after they are for certain in redo log"), although the
\* buffer is written outside the database lock.
WriteAhead == dataFile \union disk \subseteq Journaled

\* awaitBeyondNow returns to a thread only when the thread's own write is in
\* the journal, although _hasWritten is set without the mutex and a commit that
\* finds it clear acknowledges everybody at once: committingReset never clears
\* the flag of a write that is still in its thread's spool.
AckedIsJournaled == Acked \subseteq Journaled

\* While the server runs, no write that was made and no write that was
\* acknowledged before a crash disappears from what readers see, although a
\* recovery writes old sections over newer data on its way.  Excepted are the
\* writes that the data files lacked when recovery skipped their section by the
\* lsn file, those not yet on disk when the file of their section was removed as
\* unneeded, and those of sections that an interrupted removeJournalFiles had
\* removed before an older one: the next recovery brings back what was before.
OnlySkippedAreLost ==
    mode = "up" =>
        \A w \in Write :
            thread[op[w]] \in {"spooled", "written", "waiting", "acked"} =>
                w \in view \union Lost

\* "Either the entire section should be applied, or nothing": while the server
\* runs, the readers see every group commit that reached the journal whole, also
\* one that nobody was told of, and even if the kernel had written some of its
\* pages before the crash and not others, except for the writes lost as above.
AllOrNothing ==
    mode = "up" => \A section \in commits : section \subseteq view \union Lost

\* The outcome of a recovery is final: while the server runs, the journal holds
\* no section whose writes the readers do not see, so that no later recovery
\* can bring back what an earlier one passed over.
NothingStaleInJournal ==
    mode = "up" => \A k \in DOMAIN log : Present(k) => log[k].buffer \subseteq view

\* The journal thread serves every thread that waits in awaitCommit, unless the
\* server crashes: awaitBeyondNow misses no notification.
WaitersReturn ==
    \A o \in Op : thread[o] = "waiting" ~> thread[o] \in {"acked", "gone"}

\* "data is now in the journal, which is sufficient for acknowledging
\* getLastError. (ok to crash after that)": an acknowledged write is there
\* after every recovery.
AckedSurvive == mode = "up" => Acked \subseteq view
=============================================================================
