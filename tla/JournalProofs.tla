--------------------------- MODULE JournalProofs ---------------------------
(***************************************************************************)
(* What Journal guarantees for every set of operations and writes, every   *)
(* layout of the data files, every size of a journal file, every margin    *)
(* ExtraKeepTimeMs and any number of crashes.                              *)
(***************************************************************************)
EXTENDS Journal, SequenceTheorems, TLAPS

SectionType == [file : Nat \ {0}, buffer : SUBSET Write, seqNumber : Times]
CommitType == [pc : {"idle", "prepped", "appended", "lsnSet", "journaled",
                     "notified", "applied"},
               full : BOOLEAN, number : Nat, buffer : SUBSET Write,
               seqNumber : Times]

\* The writes of the threads that have not released their lock.
Spooled == {w \in Write : thread[op[w]] = "spooled"}

\* The writes that may be in the private views alone.
Pending == job.intents \union commit.buffer \union Spooled

\* The writes that the journal has promised to keep.
Kept == Journaled \ Lost

\* A running process has an open journal file.
HasFile == mode = "up" => Cur \in files

\* A process that is not up has no commit, no flush and no thread at work, and a
\* recovery starts with the first section.
Quiet ==
    /\ mode # "up" =>
        /\ job = NoJob /\ commit = NoCommit /\ flush = NoFlush /\ closed = << >>
        /\ \A o \in Op : thread[o] \in {"new", "acked", "gone"}
    /\ mode # "replaying" => next = 1

\* The commit job, the commit under way and the two locks.
JobAgrees ==
    /\ commit.pc = "idle" => commit = NoCommit
    /\ job.intents # {} \/ Spooled # {} => job.hasWritten
    /\ commit.pc # "idle" /\ commit.full =>
          job.intents \subseteq commit.buffer /\ Spooled = {}
    /\ commit.pc = "applied" => commit.full /\ commit.buffer \subseteq dataFile

\* A buffer that is past the journal write, and every section, is one of the
\* commits.
Logged ==
    /\ commit.pc \notin {"idle", "prepped"} => commit.buffer \in commits
    /\ \A k \in DOMAIN log : log[k].buffer \in commits

\* A released write is on its way to the journal or there.
OnItsWay ==
    \A w \in Write : thread[op[w]] \in {"written", "waiting"} =>
        w \in job.intents \union commit.buffer \union Journaled

\* Commit numbers and tickets come from one counter; a waiter whose write is
\* not in the journal has not been passed, and the commit under way passes
\* only waiters whose write it carries.
Tickets ==
    /\ notify.done <= notify.returned
    /\ commit.number <= notify.returned
    /\ \A w \in Write : thread[op[w]] = "waiting" =>
          /\ ticket[op[w]] <= notify.returned
          /\ w \notin Journaled => notify.done <= ticket[op[w]]
          /\ ticket[op[w]] < commit.number => w \in commit.buffer \union Journaled

\* In a running process the disk is behind the data files, which are behind the
\* private views, by no more than what is pending.
ViewAgrees ==
    mode = "up" =>
        /\ disk \subseteq dataFile /\ dataFile \subseteq view
        /\ view \subseteq dataFile \union Pending
        /\ Pending \subseteq view

\* The buffer of the commit under way has all of what the data files and, before
\* it is journaled, the journal have for the places it touches: to write it over
\* them takes nothing back.
BufferFresh ==
    /\ mode = "up" =>
          \A w \in dataFile : place[w] \in Touched(commit.buffer) => w \in commit.buffer
    /\ commit.pc = "prepped" =>
          \A w \in Kept : place[w] \in Touched(commit.buffer) => w \in commit.buffer

\* Readers see all that is kept, and all that the journal of this process has.
Seen ==
    mode = "up" =>
        /\ Kept \subseteq view
        /\ \A k \in DOMAIN log : log[k].buffer \subseteq view

\* What a section takes back of what is kept, itself or a later section of the log
\* gives again.
Covered ==
    \A j \in DOMAIN log : \A w \in Kept :
        place[w] \in Touched(log[j].buffer) =>
            \E k \in DOMAIN log : k >= j /\ w \in log[k].buffer

\* A write is in a section, from the n-th on, that recovery will find.
InJournal(w, n) == \E k \in DOMAIN log : k >= n /\ Present(k) /\ w \in log[k].buffer

\* Of what is kept, a set of data files and the journal together have all.
Safe(data) == \A w \in Kept : w \in data \/ InJournal(w, 1)

\* What a crash leaves is enough: a recovery moves it from the journal to the data
\* files, these to disk, and only then removes the journal.
Durable ==
    /\ Safe(dataFile) /\ Safe(disk)
    /\ mode = "replaying" =>
          /\ \A w \in Kept : w \in dataFile \/ InJournal(w, next)
          /\ \A j, k \in DOMAIN log : j < k /\ Present(j) /\ ~Present(k) =>
                log[k].buffer \subseteq Lost
    /\ mode = "cleaning" => Kept \subseteq dataFile /\ disk = dataFile
    /\ mode # "up" /\ files = {} => disk = dataFile

Control == Quiet /\ JobAgrees
LogInv == Logged /\ WriteAhead
AckInv == OnItsWay /\ AckedIsJournaled /\ Tickets
SeenInv == ViewAgrees /\ BufferFresh /\ Seen
KeptInv == Covered /\ Durable

IInv == TypeOK /\ HasFile /\ Control /\ LogInv /\ AckInv /\ SeenInv /\ KeptInv

-----------------------------------------------------------------------------
(* Places, overwriting and the sequence of sections. *)

\* A buffer written over some data leaves what it does not touch, adds what it
\* has, and keeps all of the data if it has what they have where it touches.
LEMMA OverwriteFacts ==
    ASSUME NEW data, NEW buffer
    PROVE  /\ buffer \subseteq Overwrite(data, buffer)
           /\ Overwrite(data, buffer) \subseteq data \union buffer
           /\ \A w \in data : place[w] \notin Touched(buffer) => w \in Overwrite(data, buffer)
           /\ (\A w \in data : place[w] \in Touched(buffer) => w \in buffer) =>
                 data \subseteq Overwrite(data, buffer)
BY Zenon DEF Overwrite

\* PREPLOGBUFFER: the buffer has what the view holds at the places it touches,
\* the intents among them.
LEMMA ContentFacts ==
    ASSUME NEW data, NEW writes, NEW buffer, buffer = Content(data, Touched(writes))
    PROVE  /\ buffer \subseteq data
           /\ writes \subseteq data => writes \subseteq buffer
           /\ \A w \in data : place[w] \in Touched(buffer) => w \in buffer
<1>1. buffer \subseteq data
    BY Zenon DEF Content
<1>2. Touched(buffer) \subseteq Touched(writes)
    BY Zenon DEF Content, Touched
<1>3. \A w \in data : place[w] \in Touched(writes) => w \in buffer
    BY Zenon DEF Content
<1>4. writes \subseteq data => writes \subseteq buffer
    BY <1>3, Zenon DEF Touched
<1> QED
    BY <1>1, <1>2, <1>3, <1>4, Zenon

\* journal(): the log has one more section, in the open file.
LEMMA AppendFacts ==
    ASSUME TypeOK, WriteToJournal
    PROVE  /\ log' \in Seq(SectionType)
           /\ Len(log) \in Nat /\ Len(log) + 1 \in DOMAIN log'
           /\ DOMAIN log = 1 .. Len(log) /\ DOMAIN log' = 1 .. Len(log) + 1
           /\ \A k \in DOMAIN log : k \in DOMAIN log' /\ log'[k] = log[k]
           /\ log'[Len(log) + 1].buffer = commit.buffer
           /\ log'[Len(log) + 1].file = Cur
<1> DEFINE sec == [file |-> Cur, buffer |-> commit.buffer, seqNumber |-> commit.seqNumber]
<1>1. log \in Seq(SectionType) /\ closed \in Seq(Times) /\ commit \in CommitType
    BY Zenon DEF TypeOK, SectionType, CommitType
<1>2. Cur \in Nat \ {0}
    BY <1>1, LenProperties DEF Cur
<1>3. sec \in SectionType
    BY <1>1, <1>2, Zenon DEF SectionType, CommitType
<1>4. log' = Append(log, sec)
    BY Zenon DEF WriteToJournal
<1>5. Len(log) \in Nat /\ DOMAIN log = 1 .. Len(log)
    BY <1>1, LenProperties
<1>6. sec.buffer = commit.buffer /\ sec.file = Cur
    BY Zenon
<1> HIDE DEF sec
<1>7. /\ log' \in Seq(SectionType) /\ Len(log') = Len(log) + 1
      /\ \A k \in 1 .. Len(log) : log'[k] = log[k]
      /\ log'[Len(log) + 1] = sec
    BY <1>1, <1>3, <1>4, AppendProperties
<1>8. DOMAIN log' = 1 .. Len(log) + 1
    BY <1>7, LenProperties
<1> QED
    BY <1>5, <1>6, <1>7, <1>8

\* A section of the log is well formed.
LEMMA SectionTyped ==
    ASSUME TypeOK, NEW k \in DOMAIN log
    PROVE  /\ k \in Nat /\ log[k].file \in Nat \ {0} /\ log[k].buffer \subseteq Write
           /\ log[k].seqNumber \in Times
<1>1. log \in Seq(SectionType)
    BY Zenon DEF TypeOK, SectionType
<1>2. log[k] \in SectionType /\ k \in Nat
    BY <1>1, ElementOfSeq, LenProperties
<1> QED
    BY <1>2, Zenon DEF SectionType

\* _rotate: the number of the open file and what is left of the files and of the
\* sections in them.
LEMMA RotateFacts ==
    ASSUME TypeOK, HasFile, Rotate
    PROVE  /\ files' \subseteq Nat \ {0} /\ closed' \in Seq(Times)
           /\ Cur' \in files'
           /\ dropped \subseteq dropped' /\ dropped' \subseteq Write
           /\ \A k \in DOMAIN log : Present(k) =>
                 log[k].file \in files' \/ log[k].buffer \subseteq dropped' \union disk
<1>1. /\ closed \in Seq(Times) /\ clock \in Times /\ files \subseteq Nat \ {0}
      /\ dropped \subseteq Write
    BY Zenon DEF TypeOK
<1>2. CASE UNCHANGED <<files, closed, dropped>>
    BY <1>1, <1>2, Zenon DEF HasFile, Rotate, Present, Cur
<1>3. CASE ~UNCHANGED <<files, closed, dropped>>
  <2>1. closed' = Append(closed, clock)
    BY <1>3, Zenon DEF Rotate
  <2>2. PICK n \in 0 .. Cur :
           /\ files' = {f \in files : f > n} \union {Cur + 1}
           /\ dropped' = dropped \union
                 {w \in Write \ disk :
                    \E k \in DOMAIN log : /\ Present(k) /\ log[k].file <= n
                                         /\ w \in log[k].buffer}
    BY <1>3, Zenon DEF Rotate
  <2>3. /\ closed' \in Seq(Times) /\ Len(closed') = Len(closed) + 1
        /\ Len(closed) \in Nat
    BY <1>1, <2>1, AppendProperties, LenProperties
  <2>4. Cur' = Cur + 1 /\ Cur + 1 \in Nat \ {0}
    BY <2>3 DEF Cur
  <2>5. files' \subseteq Nat \ {0} /\ Cur' \in files'
    BY <1>1, <2>2, <2>4, Zenon
  <2>6. dropped \subseteq dropped' /\ dropped' \subseteq Write
    BY <1>1, <2>2, Zenon
  <2>7. ASSUME NEW k \in DOMAIN log, Present(k)
        PROVE  log[k].file \in files' \/ log[k].buffer \subseteq dropped' \union disk
    <3>1. log[k].file \in Nat /\ log[k].buffer \subseteq Write
        BY SectionTyped, Zenon
    <3>2. n \in Int
        BY <2>4
    <3>3. log[k].file > n \/ log[k].file <= n
        BY <3>1, <3>2
    <3>4. CASE log[k].file > n
        BY <2>2, <2>7, <3>4, Zenon DEF Present
    <3>5. CASE log[k].file <= n
        BY <2>2, <2>7, <3>1, <3>5, Zenon
    <3> QED
        BY <3>3, <3>4, <3>5, Zenon
  <2> QED
    BY <2>3, <2>5, <2>6, <2>7, Zenon
<1> QED
    BY <1>2, <1>3, Zenon

-----------------------------------------------------------------------------
(* Types. *)

\* The initial state is well typed.
LEMMA InitTyped == Init => TypeOK /\ HasFile
<1> SUFFICES ASSUME Init PROVE TypeOK /\ HasFile
    BY Zenon
<1>1. 0 \in Times /\ 0 \in 0 .. MaxCrashes /\ 1 \in Nat \ {0} /\ 0 \in Nat
    BY JournalAssumption DEF Times
<1>2. log \in Seq(SectionType) /\ closed \in Seq(Times)
    BY EmptySeq, Zenon DEF Init
<1>3. Cur = 1
    BY DEF Cur, Init
<1> QED
    BY <1>1, <1>2, <1>3, Zenon DEF Init, TypeOK, HasFile, NoJob, NoCommit, NoFlush, NoStamp,
       SectionType

\* No step leaves the types, and a running process keeps a journal file open.
LEMMA TypedStep ==
    ASSUME TypeOK, HasFile, Quiet, [Next]_vars
    PROVE  TypeOK' /\ HasFile'
<1> USE JournalAssumption
<1> USE DEF Times
<1> DEFINE FilesOK ==
             /\ log' \in Seq(SectionType)
             /\ files' \subseteq Nat \ {0} /\ unlinked' \subseteq Nat \ {0}
             /\ closed' \in Seq(Times)
             /\ HasFile'
           ThreadsOK ==
             /\ thread' \in [Op -> {"new", "spooled", "written", "waiting", "acked",
                                    "gone"}]
             /\ ticket' \in [Op -> Nat]
             /\ job' \in [hasWritten : BOOLEAN, intents : SUBSET Write]
             /\ notify' \in [done : Nat, returned : Nat]
             /\ commit' \in CommitType
           DataOK ==
             /\ view' \subseteq Write /\ dataFile' \subseteq Write /\ disk' \subseteq Write
             /\ flush' \in [on : BOOLEAN, must : SUBSET Loc]
             /\ commits' \subseteq SUBSET Write
             /\ skipped' \subseteq Write /\ dropped' \subseteq Write
             /\ reverted' \subseteq Write
           RestOK ==
             /\ mode' \in {"up", "down", "replaying", "cleaning", "refused"}
             /\ next' \in Nat \ {0}
             /\ crashes' \in 0 .. MaxCrashes
             /\ clock' \in Times
             /\ lsn' \in Times
             /\ stamp' \in [pre : Times, last : Times, writeLSN : BOOLEAN]
<1>s. FilesOK /\ ThreadsOK /\ DataOK /\ RestOK => TypeOK' /\ HasFile'
    BY Zenon DEF TypeOK, SectionType, CommitType
<1>l. log \in Seq(SectionType) /\ commit \in CommitType
    BY Zenon DEF TypeOK, SectionType, CommitType
<1>f. UNCHANGED <<mode, log, files, unlinked, closed>> => FilesOK
    BY <1>l, Zenon DEF TypeOK, HasFile, Cur
<1>h. UNCHANGED <<thread, ticket, job, notify, commit>> => ThreadsOK
    BY <1>l, Zenon DEF TypeOK
<1>d. UNCHANGED <<view, dataFile, disk, flush, commits, skipped, dropped, reverted>> => DataOK
    BY Zenon DEF TypeOK
<1>r. UNCHANGED <<mode, next, crashes, clock, lsn, stamp>> => RestOK
    BY Zenon DEF TypeOK
<1>1. ASSUME NEW o \in Op, DeclareWriteIntent(o) PROVE TypeOK' /\ HasFile'
  <2>1. ThreadsOK
    BY <1>1, <1>l, Zenon DEF TypeOK, DeclareWriteIntent
  <2>2. DataOK
    BY <1>1, Zenon DEF TypeOK, DeclareWriteIntent, WritesOf, history
  <2> QED
    BY <1>1, <1>s, <1>f, <1>r, <2>1, <2>2, Zenon DEF DeclareWriteIntent, process, journal
<1>2. ASSUME NEW o \in Op, ReleaseWriteLock(o) PROVE TypeOK' /\ HasFile'
  <2>0. WritesOf(o) \subseteq Write
    BY Zenon DEF WritesOf
  <2>1. ThreadsOK
    BY <1>2, <1>l, <2>0 DEF TypeOK, ReleaseWriteLock
  <2> QED
    BY <1>2, <1>s, <1>f, <1>d, <1>r, <2>1, Zenon
       DEF ReleaseWriteLock, process, journal, history
<1>3. ASSUME NEW o \in Op, AwaitBeyondNow(o) PROVE TypeOK' /\ HasFile'
  <2>1. notify \in [done : Nat, returned : Nat] /\ ticket \in [Op -> Nat]
    BY Zenon DEF TypeOK
  <2>2. notify' \in [done : Nat, returned : Nat] /\ ticket' \in [Op -> Nat]
    BY <1>3, <2>1 DEF AwaitBeyondNow
  <2>3. ThreadsOK
    BY <1>3, <1>l, <2>2, Zenon DEF TypeOK, AwaitBeyondNow
  <2> QED
    BY <1>3, <1>s, <1>f, <1>d, <1>r, <2>3, Zenon DEF AwaitBeyondNow, process, journal, history
<1>4. ASSUME NEW o \in Op, Acknowledge(o) PROVE TypeOK' /\ HasFile'
  <2>1. ThreadsOK
    BY <1>4, <1>l, Zenon DEF TypeOK, Acknowledge
  <2> QED
    BY <1>4, <1>s, <1>f, <1>d, <1>r, <2>1, Zenon DEF Acknowledge, process, journal, history
<1>5. ASSUME NEW l \in Loc, WriteBack(l) PROVE TypeOK' /\ HasFile'
  <2>1. DataOK
    BY <1>5, Zenon DEF TypeOK, WriteBack, Content, history
  <2> QED
    BY <1>5, <1>s, <1>f, <1>h, <1>r, <2>1, Zenon DEF WriteBack, process, threads, journal
<1>6. CASE CommitNothing
  <2>1. notify \in [done : Nat, returned : Nat]
    BY Zenon DEF TypeOK
  <2>2. notify' \in [done : Nat, returned : Nat]
    BY <1>6, <2>1 DEF CommitNothing
  <2>3. ThreadsOK
    BY <1>6, <1>l, <2>2, Zenon DEF TypeOK, CommitNothing, threads
  <2> QED
    BY <1>6, <1>s, <1>f, <1>d, <1>r, <2>3, Zenon DEF CommitNothing, process, journal, history
<1>7. ASSUME NEW full \in BOOLEAN, BeginCommit(full) PROVE TypeOK' /\ HasFile'
  <2>1. /\ notify \in [done : Nat, returned : Nat]
        /\ job \in [hasWritten : BOOLEAN, intents : SUBSET Write]
        /\ stamp \in [pre : Times, last : Times, writeLSN : BOOLEAN]
        /\ Content(view, Touched(job.intents)) \subseteq Write
    BY Zenon DEF TypeOK, Content
  <2>2. notify' \in [done : Nat, returned : Nat]
    BY <1>7, <2>1 DEF BeginCommit
  <2>3. job' \in [hasWritten : BOOLEAN, intents : SUBSET Write]
    BY <1>7, <2>1, Zenon DEF BeginCommit, NoJob
  <2>4. commit' \in CommitType
    BY <1>7, <2>1 DEF BeginCommit, PrepLogBuffer, CommitType
  <2>5. ThreadsOK
    BY <1>7, <2>2, <2>3, <2>4, Zenon DEF TypeOK, BeginCommit, threads
  <2> QED
    BY <1>7, <1>s, <1>f, <1>d, <1>r, <2>5, Zenon DEF BeginCommit, process, journal, history
<1>8. CASE WriteToJournal
  <2>1. commit' \in CommitType /\ commit.buffer \subseteq Write
    BY <1>8, <1>l, Zenon DEF WriteToJournal, CommitType
  <2>2. FilesOK
    BY <1>8, AppendFacts, Zenon DEF TypeOK, HasFile, Cur, WriteToJournal, process
  <2>3. ThreadsOK
    BY <1>8, <2>1, Zenon DEF TypeOK, WriteToJournal, threads
  <2>4. DataOK
    BY <1>8, <2>1, Zenon DEF TypeOK, WriteToJournal
  <2> QED
    BY <1>8, <1>s, <1>r, <2>2, <2>3, <2>4, Zenon DEF WriteToJournal, process
<1>9. CASE UpdateLSNFile
  <2>1. ThreadsOK
    BY <1>9, <1>l, Zenon DEF TypeOK, UpdateLSNFile, threads, CommitType
  <2>2. RestOK
    BY <1>9, Zenon DEF TypeOK, UpdateLSNFile, process
  <2> QED
    BY <1>9, <1>s, <1>f, <1>d, <2>1, <2>2, Zenon DEF UpdateLSNFile, process, history
<1>10. CASE Rotate
  <2>1. FilesOK
    BY <1>10, <1>l, RotateFacts, Zenon DEF TypeOK, HasFile, Rotate, process
  <2>2. ThreadsOK
    BY <1>10, <1>l, Zenon DEF TypeOK, Rotate, threads, CommitType
  <2>3. DataOK
    BY <1>10, RotateFacts, Zenon DEF TypeOK, Rotate
  <2> QED
    BY <1>10, <1>s, <1>r, <2>1, <2>2, <2>3, Zenon DEF Rotate, process
<1>11. CASE NotifyCommitted
  <2>1. ThreadsOK
    BY <1>11, <1>l, Zenon DEF TypeOK, NotifyCommitted, threads, CommitType
  <2> QED
    BY <1>11, <1>s, <1>f, <1>d, <1>r, <2>1, Zenon DEF NotifyCommitted, process, journal, history
<1>12. CASE WriteToDataFiles
  <2>1. commit' \in CommitType /\ commit.buffer \subseteq Write
    BY <1>12, <1>l DEF WriteToDataFiles, NoCommit, CommitType
  <2>2. ThreadsOK
    BY <1>12, <2>1, Zenon DEF TypeOK, WriteToDataFiles, threads
  <2>3. Overwrite(dataFile, commit.buffer) \subseteq Write
    <3>1. dataFile \subseteq Write
        BY Zenon DEF TypeOK
    <3> QED
        BY <2>1, <3>1, Zenon DEF Overwrite
  <2>4. DataOK
    BY <1>12, <2>3, Zenon DEF TypeOK, WriteToDataFiles, history
  <2> QED
    BY <1>12, <1>s, <1>f, <1>r, <2>2, <2>4, Zenon DEF WriteToDataFiles, process, journal
<1>13. CASE ResetAndRemap
  <2>1. NoCommit \in CommitType /\ NoJob \in [hasWritten : BOOLEAN, intents : SUBSET Write]
    BY DEF NoCommit, CommitType, NoJob
  <2>2. ThreadsOK
    BY <1>13, <2>1, Zenon DEF TypeOK, ResetAndRemap, threads
  <2>3. DataOK
    BY <1>13, Zenon DEF TypeOK, ResetAndRemap, Content, history
  <2> QED
    BY <1>13, <1>s, <1>f, <1>r, <2>2, <2>3, Zenon DEF ResetAndRemap, process, journal
<1>14. CASE PreFlush
  <2>0. Dirty \subseteq Loc
    <3>1. dataFile \subseteq Write /\ disk \subseteq Write
        BY Zenon DEF TypeOK
    <3> QED
        BY <3>1, SMT DEF Dirty, Touched
  <2>1. DataOK
    BY <1>14, <2>0, Zenon DEF TypeOK, PreFlush, history
  <2>2. RestOK
    BY <1>14, Zenon DEF TypeOK, PreFlush, process, journal
  <2> QED
    BY <1>14, <1>s, <1>f, <1>h, <2>1, <2>2, Zenon DEF PreFlush, process, threads, journal
<1>15. CASE PostFlush
  <2>1. DataOK
    BY <1>15, Zenon DEF TypeOK, PostFlush, NoFlush, history
  <2>2. RestOK
    BY <1>15, Zenon DEF TypeOK, PostFlush, process, journal
  <2> QED
    BY <1>15, <1>s, <1>f, <1>h, <2>1, <2>2, Zenon DEF PostFlush, process, threads, journal
<1>16. CASE Tick
  <2>1. clock' \in Times
    BY <1>16 DEF TypeOK, Tick
  <2>2. RestOK
    BY <1>16, <2>1, Zenon DEF TypeOK, Tick, process, journal
  <2> QED
    BY <1>16, <1>s, <1>f, <1>h, <1>d, <2>2, Zenon DEF Tick, process, threads, journal, history
<1>17. CASE Crash
  <2>1. /\ crashes' \in 0 .. MaxCrashes /\ 0 \in Times /\ 1 \in Nat \ {0} /\ 0 \in Nat
        /\ NoCommit \in CommitType
    BY <1>17 DEF TypeOK, Crash, NoCommit, CommitType
  <2>2. FilesOK
    BY <1>17, <1>l, EmptySeq, Zenon DEF TypeOK, HasFile, Crash
  <2>3. ThreadsOK
    BY <1>17, <2>1, Zenon DEF TypeOK, Crash, NoJob
  <2>4. DataOK
    BY <1>17, Zenon DEF TypeOK, Crash, NoFlush, history
  <2>5. RestOK
    BY <1>17, <2>1, Zenon DEF TypeOK, Crash, NoStamp
  <2> QED
    BY <1>s, <2>2, <2>3, <2>4, <2>5, Zenon
<1>o. ASSUME Open, UNCHANGED closed, mode # "up" PROVE FilesOK
  <2>1. closed' = << >>
    BY <1>o, Zenon DEF Quiet
  <2>2. Cur' = 1
    BY <2>1 DEF Cur
  <2>3. << >> \in Seq(SectionType) /\ << >> \in Seq(Times)
    BY EmptySeq, Zenon
  <2>4. {1} \subseteq Nat \ {0}
    OBVIOUS
  <2> QED
    BY <1>o, <2>1, <2>2, <2>3, <2>4, Zenon DEF Open, HasFile
<1>18. CASE RecoverNothing
  <2>1. FilesOK
    BY <1>18, <1>o, Zenon DEF RecoverNothing
  <2>2. DataOK
    BY <1>18, Zenon DEF TypeOK, RecoverNothing, Open, history
  <2>3. RestOK
    BY <1>18, Zenon DEF TypeOK, RecoverNothing, Open
  <2> QED
    BY <1>18, <1>s, <1>h, <2>1, <2>2, <2>3, Zenon DEF RecoverNothing, threads
<1>19. CASE RecoverRefuses
  <2>1. FilesOK
    BY <1>19, <1>l, Zenon DEF TypeOK, HasFile, RecoverRefuses, journal
  <2>2. RestOK
    BY <1>19, Zenon DEF TypeOK, RecoverRefuses, journal
  <2> QED
    BY <1>19, <1>s, <1>h, <1>d, <2>1, <2>2, Zenon DEF RecoverRefuses, threads, history
<1>20. CASE BeginReplay
  <2>1. FilesOK
    BY <1>20, <1>l, Zenon DEF TypeOK, HasFile, BeginReplay, journal
  <2>2. RestOK
    BY <1>20, Zenon DEF TypeOK, BeginReplay, journal
  <2>3. \A k \in GoneBeforeOlder : log[k].buffer \subseteq Write
    BY SectionTyped, Zenon DEF GoneBeforeOlder
  <2>4. UNION {log[k].buffer : k \in GoneBeforeOlder} \subseteq Write
    BY <2>3, Zenon
  <2>5. reverted' \subseteq Write
    <3>1. reverted \subseteq Write
        BY Zenon DEF TypeOK
    <3> QED
        BY <1>20, <2>4, <3>1, Zenon DEF BeginReplay
  <2>6. DataOK
    BY <1>20, <2>5, Zenon DEF TypeOK, BeginReplay
  <2> QED
    BY <1>20, <1>s, <1>h, <2>1, <2>2, <2>6, Zenon DEF BeginReplay, threads
<1>21. CASE ReplaySection
  <2>1. log[next].buffer \subseteq Write
    BY <1>21, SectionTyped, Zenon DEF ReplaySection
  <2>2. Overwrite(dataFile, log[next].buffer) \subseteq Write
    <3>1. dataFile \subseteq Write
        BY Zenon DEF TypeOK
    <3> QED
        BY <2>1, <3>1, Zenon DEF Overwrite
  <2>3. DataOK
    BY <1>21, <2>1, <2>2, Zenon DEF TypeOK, ReplaySection
  <2>4. next' \in Nat \ {0}
    BY <1>21 DEF TypeOK, ReplaySection
  <2>5. RestOK
    BY <1>21, <2>4, Zenon DEF TypeOK, ReplaySection, journal
  <2> QED
    BY <1>21, <1>s, <1>f, <1>h, <2>3, <2>5, Zenon DEF ReplaySection, threads, journal
<1>22. CASE CloseReplayed
  <2>1. FilesOK
    BY <1>22, <1>l, Zenon DEF TypeOK, HasFile, CloseReplayed, journal
  <2>2. 1 \in Nat \ {0}
    OBVIOUS
  <2>3. RestOK
    BY <1>22, <2>2, Zenon DEF TypeOK, CloseReplayed, journal
  <2>4. DataOK
    BY <1>22, Zenon DEF TypeOK, CloseReplayed, history
  <2> QED
    BY <1>22, <1>s, <1>h, <2>1, <2>3, <2>4, Zenon DEF CloseReplayed, threads
<1>23. ASSUME NEW f \in files, RemoveJournalFile(f) PROVE TypeOK' /\ HasFile'
  <2>1. files' \subseteq Nat \ {0} /\ unlinked' \subseteq Nat \ {0}
    <3>1. files \subseteq Nat \ {0} /\ unlinked \subseteq Nat \ {0}
        BY Zenon DEF TypeOK
    <3> QED
        BY <1>23, <3>1, Zenon DEF RemoveJournalFile
  <2>2. FilesOK
    BY <1>23, <1>l, <2>1, Zenon DEF TypeOK, HasFile, RemoveJournalFile, process
  <2> QED
    BY <1>23, <1>s, <1>h, <1>d, <1>r, <2>2, Zenon
       DEF RemoveJournalFile, process, threads, history
<1>24. CASE RemoveLSNFile
  <2>1. FilesOK
    BY <1>24, <1>o, Zenon DEF RemoveLSNFile
  <2>2. DataOK
    BY <1>24, Zenon DEF TypeOK, RemoveLSNFile, Open, history
  <2>3. 0 \in Times
    OBVIOUS
  <2>4. RestOK
    BY <1>24, <2>3, Zenon DEF TypeOK, RemoveLSNFile, Open
  <2> QED
    BY <1>24, <1>s, <1>h, <2>1, <2>2, <2>4, Zenon DEF RemoveLSNFile, threads
<1>25. CASE UNCHANGED vars
    BY <1>25, <1>s, <1>f, <1>h, <1>d, <1>r, Zenon DEF vars
<1> QED
    BY <1>1, <1>2, <1>3, <1>4, <1>5, <1>6, <1>7, <1>8, <1>9, <1>10, <1>11, <1>12, <1>13,
       <1>14, <1>15, <1>16, <1>17, <1>18, <1>19, <1>20, <1>21, <1>22, <1>23, <1>24, <1>25,
       Zenon DEF Next, CommitStep, RecoveryStep

-----------------------------------------------------------------------------
(* The job, the commit under way and the locks. *)

\* A process starts with nothing under way.
LEMMA InitControl == Init => Control
<1> SUFFICES ASSUME Init PROVE Control
    BY Zenon
<1>1. Spooled = {}
    BY JournalAssumption, Zenon DEF Init, Spooled
<1>2. JobAgrees
    BY <1>1 DEF Init, JobAgrees, NoJob, NoCommit
<1> QED
    BY <1>2, Zenon DEF Init, Control, Quiet

\* Nothing is at work outside a running process.
LEMMA QuietStep ==
    ASSUME TypeOK, Quiet, [Next]_vars
    PROVE  Quiet'
<1>u. CASE UNCHANGED <<mode, next, job, commit, flush, closed, thread>>
    BY <1>u, Zenon DEF Quiet
<1>1. CASE mode = "up" /\ UNCHANGED <<mode, next>>
    BY <1>1, Zenon DEF Quiet
<1>2. ASSUME NEW l \in Loc, WriteBack(l) PROVE Quiet'
  <2>1. flush = NoFlush => flush' = NoFlush
    BY <1>2 DEF WriteBack, NoFlush
  <2> QED
    BY <1>2, <2>1, Zenon DEF Quiet, WriteBack, process, threads, journal
<1>3. CASE Crash
    BY <1>3, Zenon DEF Quiet, Crash
<1>4. CASE RecoverNothing \/ RemoveLSNFile
    BY <1>4, Zenon DEF Quiet, RecoverNothing, RemoveLSNFile, Open
<1>5. CASE RecoverRefuses \/ BeginReplay
    BY <1>5, Zenon DEF Quiet, RecoverRefuses, BeginReplay, threads, journal
<1>6. CASE ReplaySection \/ CloseReplayed
    BY <1>6, Zenon DEF Quiet, ReplaySection, CloseReplayed, Replayed, threads, journal
<1> QED
    BY <1>u, <1>1, <1>2, <1>3, <1>4, <1>5, <1>6, Zenon DEF Next, CommitStep, RecoveryStep,
       DeclareWriteIntent, ReleaseWriteLock, AwaitBeyondNow, Acknowledge, CommitNothing,
       BeginCommit, WriteToJournal, UpdateLSNFile, Rotate, NotifyCommitted,
       WriteToDataFiles, ResetAndRemap, PreFlush, PostFlush, Tick, RemoveJournalFile,
       process, threads, journal, history, vars

\* The locks keep the job, the spooled writes and the commit under way together.
LEMMA JobStep ==
    ASSUME TypeOK, Control, SeenInv, [Next]_vars
    PROVE  JobAgrees'
<1>t. /\ thread \in [Op -> {"new", "spooled", "written", "waiting", "acked", "gone"}]
      /\ job \in [hasWritten : BOOLEAN, intents : SUBSET Write]
      /\ commit \in CommitType
      /\ op \in [Write -> Op]
    BY JournalAssumption, Zenon DEF TypeOK, CommitType
<1>a. JobAgrees
    BY Zenon DEF Control
<1>u. CASE UNCHANGED <<commit, job, thread, dataFile>>
    BY <1>a, <1>u, Zenon DEF JobAgrees, Spooled
<1>1. ASSUME NEW o \in Op, DeclareWriteIntent(o) PROVE JobAgrees'
    BY <1>t, <1>a, <1>1, Zenon DEF JobAgrees, Spooled, CommitHoldsLock, NoCommit, DeclareWriteIntent
<1>2. ASSUME NEW o \in Op, ReleaseWriteLock(o) PROVE JobAgrees'
  <2>1. /\ commit.pc = "idle" /\ UNCHANGED <<commit, dataFile>>
        /\ job'.hasWritten = job.hasWritten
        /\ job'.intents = job.intents \union WritesOf(o)
    BY <1>t, <1>2, Zenon DEF ReleaseWriteLock, MutexFree
  <2>2. Spooled' \subseteq Spooled /\ WritesOf(o) \subseteq Spooled
    BY <1>t, <1>2, Zenon DEF ReleaseWriteLock, Spooled, WritesOf
  <2> QED
    BY <1>a, <2>1, <2>2, Zenon DEF JobAgrees
<1>3. ASSUME NEW o \in Op, AwaitBeyondNow(o) \/ Acknowledge(o) PROVE JobAgrees'
  <2>1. UNCHANGED <<commit, job, dataFile>>
    BY <1>3, Zenon DEF AwaitBeyondNow, Acknowledge
  <2>2. Spooled' = Spooled
    BY <1>t, <1>3, Zenon DEF Spooled, AwaitBeyondNow, Acknowledge
  <2> QED
    BY <1>a, <2>1, <2>2, Zenon DEF JobAgrees
<1>4. ASSUME NEW full \in BOOLEAN, BeginCommit(full) PROVE JobAgrees'
  <2>1. Spooled = {} /\ Spooled' = Spooled
    BY <1>t, <1>4, Zenon DEF BeginCommit, WriterHoldsLock, Spooled, threads
  <2>2. job.intents \subseteq view
    BY <1>4, Zenon DEF SeenInv, ViewAgrees, Pending, BeginCommit
  <2>3. /\ commit'.pc = "prepped" /\ commit'.full = full
        /\ commit'.buffer = Content(view, Touched(job.intents))
    BY <1>4, Zenon DEF BeginCommit, PrepLogBuffer
  <2>4. job.intents \subseteq commit'.buffer
    BY <2>2, <2>3, Zenon DEF Content, Touched
  <2>5. job' = job \/ job' = NoJob
    BY <1>4, Zenon DEF BeginCommit
  <2>6. job'.intents \subseteq commit'.buffer /\ (job'.intents # {} => job'.hasWritten)
    BY <1>a, <2>4, <2>5 DEF JobAgrees, NoJob
  <2> QED
    BY <2>1, <2>3, <2>6, Zenon DEF JobAgrees
<1>5. CASE WriteToJournal \/ UpdateLSNFile \/ Rotate \/ NotifyCommitted
  <2>1. /\ commit.pc # "idle" /\ commit'.pc \notin {"idle", "applied"}
        /\ commit'.full = commit.full /\ commit'.buffer = commit.buffer
        /\ UNCHANGED <<job, thread, dataFile>>
    BY <1>t, <1>5, Zenon DEF WriteToJournal, UpdateLSNFile, Rotate, NotifyCommitted, threads,
       CommitType
  <2> QED
    BY <1>a, <2>1, Zenon DEF JobAgrees, Spooled
<1>6. CASE WriteToDataFiles
  <2>1. commit.buffer \subseteq dataFile'
    BY <1>6, OverwriteFacts, Zenon DEF WriteToDataFiles
  <2> QED
    BY <1>t, <1>a, <1>6, <2>1, Zenon DEF JobAgrees, Spooled, NoCommit, WriteToDataFiles, threads,
       CommitType
<1>7. CASE ResetAndRemap
    BY <1>t, <1>a, <1>7, Zenon DEF JobAgrees, Spooled, NoJob, NoCommit, ResetAndRemap, threads
<1>8. CASE Crash
    BY <1>t, <1>8, Zenon DEF JobAgrees, Spooled, NoJob, NoCommit, Crash
<1>9. CASE ReplaySection
  <2>1. commit = NoCommit /\ UNCHANGED <<commit, job, thread>>
    BY <1>9, Zenon DEF Control, Quiet, ReplaySection, threads
  <2>2. commit.pc = "idle"
    BY <2>1 DEF NoCommit
  <2> QED
    BY <1>a, <2>1, <2>2, Zenon DEF JobAgrees, Spooled
<1> QED
    BY <1>u, <1>1, <1>2, <1>3, <1>4, <1>5, <1>6, <1>7, <1>8, <1>9, Zenon DEF Next,
       CommitStep, RecoveryStep, WriteBack, CommitNothing, PreFlush, PostFlush, Tick,
       RecoverNothing, RecoverRefuses, BeginReplay, CloseReplayed, RemoveJournalFile,
       RemoveLSNFile, Open, process, threads, journal, history, vars

-----------------------------------------------------------------------------
(* The journal is ahead of the data files. *)

\* Nothing is written at first.
LEMMA InitLog == Init => LogInv
BY DEF Init, LogInv, Logged, WriteAhead, Journaled, NoCommit

\* The journal never forgets, and nor do the sets of lost writes.
LEMMA HistoryGrows ==
    ASSUME TypeOK, HasFile, [Next]_vars
    PROVE  /\ commits \subseteq commits' /\ Journaled \subseteq Journaled'
           /\ commits' = commits => Journaled' = Journaled
           /\ Lost \subseteq Lost'
           /\ ~WriteToJournal => commits' = commits
           /\ ~(Rotate \/ BeginReplay \/ ReplaySection) => Lost' = Lost
<1>1. /\ commits \subseteq commits'
      /\ ~WriteToJournal => commits' = commits
      /\ ~(Rotate \/ BeginReplay \/ ReplaySection) => Lost' = Lost
  <2>1. CASE UNCHANGED history
    BY <2>1, Zenon DEF history, Lost
  <2>2. CASE WriteToJournal
    BY <2>2, Zenon DEF WriteToJournal, Lost
  <2>3. CASE Rotate \/ BeginReplay \/ ReplaySection
    BY <2>3, Zenon DEF Rotate, BeginReplay, ReplaySection
  <2>4. UNCHANGED history \/ WriteToJournal \/ Rotate \/ BeginReplay \/ ReplaySection
    BY Zenon DEF Next, CommitStep, RecoveryStep, DeclareWriteIntent, ReleaseWriteLock,
       AwaitBeyondNow, Acknowledge, WriteBack, CommitNothing, BeginCommit, UpdateLSNFile,
       NotifyCommitted, WriteToDataFiles, ResetAndRemap, PreFlush, PostFlush, Tick, Crash,
       RecoverNothing, RecoverRefuses, CloseReplayed, RemoveJournalFile, RemoveLSNFile,
       Open, history, vars
  <2> QED
    BY <2>1, <2>2, <2>3, <2>4, Zenon
<1>2. Journaled \subseteq Journaled' /\ (commits' = commits => Journaled' = Journaled)
    BY <1>1, Zenon DEF Journaled
<1>3. Rotate => Lost \subseteq Lost'
    BY RotateFacts, Zenon DEF Lost, Rotate
<1>4. BeginReplay \/ ReplaySection => Lost \subseteq Lost'
    BY Zenon DEF Lost, BeginReplay, ReplaySection
<1> QED
    BY <1>1, <1>2, <1>3, <1>4, Zenon

\* A buffer becomes one of the commits before its commit goes on.
LEMMA LoggedStep ==
    ASSUME TypeOK, HasFile, Control, LogInv, [Next]_vars
    PROVE  Logged'
<1>t. commit \in CommitType
    BY Zenon DEF TypeOK, CommitType
<1>a. Logged
    BY Zenon DEF LogInv
<1>u. CASE UNCHANGED <<commit, log, commits>>
    BY <1>a, <1>u, Zenon DEF Logged
<1>1. ASSUME NEW full \in BOOLEAN, BeginCommit(full) PROVE Logged'
    BY <1>a, <1>1, Zenon DEF Logged, BeginCommit, PrepLogBuffer, journal, history
<1>2. CASE WriteToJournal
  <2>1. commit.buffer \in commits' /\ commits \subseteq commits' /\ commit'.buffer = commit.buffer
    BY <1>t, <1>2, Zenon DEF WriteToJournal, CommitType
  <2>2. \A k \in DOMAIN log' : k \in DOMAIN log \/ k = Len(log) + 1
    BY <1>2, AppendFacts
  <2>3. \A k \in DOMAIN log : log'[k] = log[k]
    BY <1>2, AppendFacts, Zenon
  <2>4. log'[Len(log) + 1].buffer = commit.buffer
    BY <1>2, AppendFacts, Zenon
  <2> QED
    BY <1>a, <2>1, <2>2, <2>3, <2>4, Zenon DEF Logged
<1>3. CASE UpdateLSNFile \/ Rotate \/ NotifyCommitted
  <2>1. /\ commit.pc \notin {"idle", "prepped"} /\ commit'.buffer = commit.buffer
        /\ UNCHANGED <<log, commits>>
    BY <1>t, <1>3, Zenon DEF UpdateLSNFile, Rotate, NotifyCommitted, journal, history, CommitType
  <2> QED
    BY <1>a, <2>1, Zenon DEF Logged
<1>4. CASE WriteToDataFiles \/ ResetAndRemap
  <2>1. /\ commit' = NoCommit \/ (commit.pc = "notified" /\ commit'.buffer = commit.buffer)
        /\ UNCHANGED <<log, commits>>
    BY <1>t, <1>4, Zenon DEF WriteToDataFiles, ResetAndRemap, journal, history, CommitType
  <2>2. commit' = NoCommit => commit'.pc = "idle"
    BY DEF NoCommit
  <2> QED
    BY <1>a, <2>1, <2>2, Zenon DEF Logged
<1>5. CASE Crash
    BY <1>a, <1>5, Zenon DEF Logged, Crash, NoCommit, history
<1>6. CASE RecoverNothing \/ RemoveLSNFile
  <2>1. log' = << >> /\ UNCHANGED <<commit, commits>>
    BY <1>6, Zenon DEF RecoverNothing, RemoveLSNFile, Open, history
  <2>2. DOMAIN log' = {}
    BY <2>1
  <2> QED
    BY <1>a, <2>1, <2>2, Zenon DEF Logged
<1> QED
    BY <1>u, <1>1, <1>2, <1>3, <1>4, <1>5, <1>6, Zenon DEF Next, CommitStep, RecoveryStep,
       DeclareWriteIntent, ReleaseWriteLock, AwaitBeyondNow, Acknowledge, WriteBack,
       CommitNothing, PreFlush, PostFlush, Tick, RecoverRefuses, BeginReplay, ReplaySection,
       CloseReplayed, RemoveJournalFile, process, threads, journal, history, vars

\* Only journaled buffers reach the data files, and only these reach the disk.
LEMMA WriteAheadStep ==
    ASSUME TypeOK, HasFile, LogInv, [Next]_vars
    PROVE  WriteAhead'
<1>a. dataFile \subseteq Journaled /\ disk \subseteq Journaled
    BY Zenon DEF LogInv, WriteAhead
<1>j. Journaled \subseteq Journaled'
    BY HistoryGrows, Zenon
<1>u. CASE UNCHANGED <<dataFile, disk>>
    BY <1>a, <1>j, <1>u, Zenon DEF WriteAhead
<1>1. ASSUME NEW l \in Loc, WriteBack(l) PROVE WriteAhead'
    BY <1>a, <1>j, <1>1, Zenon DEF WriteAhead, WriteBack, Content
<1>2. CASE WriteToDataFiles
  <2>1. commit.buffer \subseteq Journaled
    BY <1>2, Zenon DEF LogInv, Logged, WriteToDataFiles, Journaled
  <2>2. dataFile' \subseteq dataFile \union commit.buffer
    BY <1>2, OverwriteFacts, Zenon DEF WriteToDataFiles
  <2> QED
    BY <1>a, <1>j, <1>2, <2>1, <2>2, Zenon DEF WriteAhead, WriteToDataFiles
<1>3. CASE Crash
    BY <1>a, <1>j, <1>3, Zenon DEF WriteAhead, Crash
<1>4. CASE ReplaySection
  <2>1. log[next].buffer \subseteq Journaled
    BY <1>4, Zenon DEF LogInv, Logged, ReplaySection, Journaled
  <2>2. dataFile' \subseteq dataFile \union log[next].buffer
    BY <1>4, Zenon DEF ReplaySection, Overwrite
  <2> QED
    BY <1>a, <1>j, <1>4, <2>1, <2>2, Zenon DEF WriteAhead, ReplaySection
<1>5. CASE CloseReplayed
    BY <1>a, <1>j, <1>5, Zenon DEF WriteAhead, CloseReplayed
<1> QED
    BY <1>u, <1>1, <1>2, <1>3, <1>4, <1>5, Zenon DEF Next, CommitStep, RecoveryStep,
       DeclareWriteIntent, ReleaseWriteLock, AwaitBeyondNow, Acknowledge, CommitNothing,
       BeginCommit, WriteToJournal, UpdateLSNFile, Rotate, NotifyCommitted, ResetAndRemap,
       PreFlush, PostFlush, Tick, RecoverNothing, RecoverRefuses, BeginReplay,
       RemoveJournalFile, RemoveLSNFile, Open, process, threads, journal, history, vars

-----------------------------------------------------------------------------
(* An acknowledgement means journaled. *)

\* Nobody waits at first.
LEMMA InitAck == Init => AckInv
<1> SUFFICES ASSUME Init PROVE AckInv
    BY Zenon
<1>1. \A w \in Write : thread[op[w]] = "new"
    BY JournalAssumption, Zenon DEF Init
<1> QED
    BY <1>1 DEF Init, AckInv, OnItsWay, AckedIsJournaled, Acked, Tickets, NoCommit

\* Resetting the job and ending a commit leave no released write behind.
LEMMA OnItsWayStep ==
    ASSUME TypeOK, HasFile, Control, LogInv, AckInv, SeenInv, [Next]_vars
    PROVE  OnItsWay'
<1>t. /\ thread \in [Op -> {"new", "spooled", "written", "waiting", "acked", "gone"}]
      /\ job \in [hasWritten : BOOLEAN, intents : SUBSET Write]
      /\ commit \in CommitType
      /\ op \in [Write -> Op]
    BY JournalAssumption, Zenon DEF TypeOK, CommitType
<1>a. OnItsWay
    BY Zenon DEF AckInv
<1>j. Journaled \subseteq Journaled'
    BY HistoryGrows, Zenon
<1>u. CASE UNCHANGED <<thread, job, commit>>
    BY <1>a, <1>j, <1>u, Zenon DEF OnItsWay
<1>1. ASSUME NEW o \in Op, DeclareWriteIntent(o) PROVE OnItsWay'
    BY <1>t, <1>a, <1>j, <1>1, Zenon DEF OnItsWay, DeclareWriteIntent
<1>2. ASSUME NEW o \in Op, ReleaseWriteLock(o) PROVE OnItsWay'
    BY <1>t, <1>a, <1>j, <1>2, Zenon DEF OnItsWay, ReleaseWriteLock, WritesOf
<1>3. ASSUME NEW o \in Op, AwaitBeyondNow(o) \/ Acknowledge(o) PROVE OnItsWay'
  <2>1. UNCHANGED <<job, commit>>
    BY <1>3, Zenon DEF AwaitBeyondNow, Acknowledge
  <2>2. \A w \in Write : thread'[op[w]] \in {"written", "waiting"} =>
                            thread[op[w]] \in {"written", "waiting"}
    BY <1>t, <1>3, Zenon DEF AwaitBeyondNow, Acknowledge
  <2> QED
    BY <1>a, <1>j, <2>1, <2>2, Zenon DEF OnItsWay
<1>4. ASSUME NEW full \in BOOLEAN, BeginCommit(full) PROVE OnItsWay'
  <2>1. commit.buffer = {}
    BY <1>4 DEF Control, JobAgrees, BeginCommit, MutexFree, NoCommit
  <2>2. job.intents \subseteq view
    BY <1>4, Zenon DEF SeenInv, ViewAgrees, Pending, BeginCommit
  <2>3. commit'.buffer = Content(view, Touched(job.intents)) /\ UNCHANGED thread
    BY <1>4, Zenon DEF BeginCommit, PrepLogBuffer, threads
  <2>4. job.intents \subseteq commit'.buffer
    BY <2>2, <2>3, Zenon DEF Content, Touched
  <2> QED
    BY <1>a, <1>j, <2>1, <2>3, <2>4, Zenon DEF OnItsWay
<1>5. CASE WriteToJournal \/ UpdateLSNFile \/ Rotate \/ NotifyCommitted
  <2>1. commit'.buffer = commit.buffer /\ UNCHANGED <<job, thread>>
    BY <1>t, <1>5, Zenon DEF WriteToJournal, UpdateLSNFile, Rotate, NotifyCommitted, threads,
       CommitType
  <2> QED
    BY <1>a, <1>j, <2>1, Zenon DEF OnItsWay
<1>6. CASE WriteToDataFiles \/ ResetAndRemap
  <2>1. commit.buffer \subseteq Journaled
    BY <1>6, Zenon DEF LogInv, Logged, Journaled, WriteToDataFiles, ResetAndRemap
  <2>2. ResetAndRemap => job.intents \subseteq commit.buffer
    BY Zenon DEF Control, JobAgrees, ResetAndRemap
  <2>3. UNCHANGED thread /\ (WriteToDataFiles => UNCHANGED job)
    BY <1>6, Zenon DEF WriteToDataFiles, ResetAndRemap, threads
  <2> QED
    BY <1>a, <1>j, <1>6, <2>1, <2>2, <2>3, Zenon DEF OnItsWay
<1>7. CASE Crash
    BY <1>t, <1>7, Zenon DEF OnItsWay, Crash
<1> QED
    BY <1>u, <1>1, <1>2, <1>3, <1>4, <1>5, <1>6, <1>7, Zenon DEF Next, CommitStep,
       RecoveryStep, WriteBack, CommitNothing, PreFlush, PostFlush, Tick, RecoverNothing,
       RecoverRefuses, BeginReplay, ReplaySection, CloseReplayed, RemoveJournalFile,
       RemoveLSNFile, Open, process, threads, journal, history, vars

\* awaitBeyondNow returns only to waiters whose writes are in the journal.
LEMMA AckedStep ==
    ASSUME TypeOK, HasFile, AckInv, [Next]_vars
    PROVE  AckedIsJournaled'
<1>t. /\ thread \in [Op -> {"new", "spooled", "written", "waiting", "acked", "gone"}]
      /\ notify \in [done : Nat, returned : Nat]
      /\ ticket \in [Op -> Nat]
      /\ op \in [Write -> Op]
    BY JournalAssumption, Zenon DEF TypeOK
<1>a. Acked \subseteq Journaled
    BY Zenon DEF AckInv, AckedIsJournaled
<1>j. Journaled \subseteq Journaled'
    BY HistoryGrows, Zenon
<1>u. CASE UNCHANGED thread
    BY <1>a, <1>j, <1>u, Zenon DEF AckedIsJournaled, Acked
<1>1. ASSUME NEW o \in Op, DeclareWriteIntent(o) \/ ReleaseWriteLock(o) \/ AwaitBeyondNow(o)
      PROVE  AckedIsJournaled'
  <2>1. Acked' \subseteq Acked
    BY <1>t, <1>1, Zenon DEF Acked, DeclareWriteIntent, ReleaseWriteLock, AwaitBeyondNow
  <2> QED
    BY <1>a, <1>j, <2>1, Zenon DEF AckedIsJournaled
<1>2. ASSUME NEW o \in Op, Acknowledge(o) PROVE AckedIsJournaled'
  <2>1. ASSUME NEW w \in Write, op[w] = o PROVE w \in Journaled
    <3>1. thread[op[w]] = "waiting" /\ notify.done > ticket[op[w]]
        BY <1>2, <2>1, Zenon DEF Acknowledge, Passed
    <3>2. w \notin Journaled => notify.done <= ticket[op[w]]
        BY <3>1, Zenon DEF AckInv, Tickets
    <3>3. notify.done \in Nat /\ ticket[op[w]] \in Nat
        BY <1>t, Zenon
    <3> QED
        BY <3>1, <3>2, <3>3
  <2>2. Acked' \subseteq Acked \union WritesOf(o)
    BY <1>t, <1>2, Zenon DEF Acked, Acknowledge, WritesOf
  <2> QED
    BY <1>a, <1>j, <2>1, <2>2, Zenon DEF AckedIsJournaled, WritesOf
<1>3. CASE Crash
  <2>1. Acked' \subseteq Acked
    BY <1>t, <1>3, Zenon DEF Acked, Crash
  <2> QED
    BY <1>a, <1>j, <2>1, Zenon DEF AckedIsJournaled
<1> QED
    BY <1>u, <1>1, <1>2, <1>3, Zenon DEF Next, CommitStep, RecoveryStep, WriteBack,
       CommitNothing, BeginCommit, WriteToJournal, UpdateLSNFile, Rotate, NotifyCommitted,
       WriteToDataFiles, ResetAndRemap, PreFlush, PostFlush, Tick, RecoverNothing,
       RecoverRefuses, BeginReplay, ReplaySection, CloseReplayed, RemoveJournalFile,
       RemoveLSNFile, Open, process, threads, journal, history, vars

\* A commit passes only waiters whose writes are in the journal.
LEMMA TicketsStep ==
    ASSUME TypeOK, HasFile, Control, LogInv, AckInv, SeenInv, [Next]_vars
    PROVE  Tickets'
<1>t. /\ thread \in [Op -> {"new", "spooled", "written", "waiting", "acked", "gone"}]
      /\ job \in [hasWritten : BOOLEAN, intents : SUBSET Write]
      /\ commit \in CommitType
      /\ notify \in [done : Nat, returned : Nat]
      /\ ticket \in [Op -> Nat]
      /\ op \in [Write -> Op]
    BY JournalAssumption, Zenon DEF TypeOK, CommitType
<1>a. Tickets
    BY Zenon DEF AckInv
<1>j. Journaled \subseteq Journaled'
    BY HistoryGrows, Zenon
<1>u. CASE UNCHANGED <<thread, ticket, notify, commit>>
    BY <1>a, <1>j, <1>u, Zenon DEF Tickets
<1>1. ASSUME NEW o \in Op, DeclareWriteIntent(o) \/ ReleaseWriteLock(o) \/ Acknowledge(o)
      PROVE  Tickets'
  <2>1. UNCHANGED <<notify, commit>>
    BY <1>1, Zenon DEF DeclareWriteIntent, ReleaseWriteLock, Acknowledge
  <2>2. \A w \in Write : thread'[op[w]] = "waiting" =>
                            thread[op[w]] = "waiting" /\ ticket'[op[w]] = ticket[op[w]]
    BY <1>t, <1>1, Zenon DEF DeclareWriteIntent, ReleaseWriteLock, Acknowledge
  <2> QED
    BY <1>a, <1>j, <2>1, <2>2, Zenon DEF Tickets
<1>2. ASSUME NEW o \in Op, AwaitBeyondNow(o) PROVE Tickets'
  <2>1. /\ notify'.done = notify.done /\ notify'.returned = notify.returned + 1
        /\ UNCHANGED commit
        /\ \A p \in Op : /\ p # o => thread'[p] = thread[p] /\ ticket'[p] = ticket[p]
                         /\ p = o => ticket'[p] = notify.returned + 1
    BY <1>t, <1>2, Zenon DEF AwaitBeyondNow
  <2>2. /\ notify.done \in Nat /\ notify.returned \in Nat /\ commit.number \in Nat
        /\ \A w \in Write : op[w] \in Op /\ ticket[op[w]] \in Nat
    BY <1>t, Zenon DEF CommitType
  <2>3. notify.done <= notify.returned /\ commit.number <= notify.returned
    BY <1>a, Zenon DEF Tickets
  <2>4. ASSUME NEW w \in Write, thread'[op[w]] = "waiting"
        PROVE  /\ ticket'[op[w]] <= notify'.returned
               /\ w \notin Journaled' => notify'.done <= ticket'[op[w]]
               /\ ticket'[op[w]] < commit'.number => w \in commit'.buffer \union Journaled'
    <3>1. CASE op[w] = o
      <4>1. ticket'[op[w]] = notify.returned + 1
        BY <2>1, <2>2, <3>1, Zenon
      <4> QED
        BY <2>1, <2>2, <2>3, <4>1
    <3>2. CASE op[w] # o
      <4>1. thread[op[w]] = "waiting" /\ ticket'[op[w]] = ticket[op[w]]
        BY <2>1, <2>2, <2>4, <3>2, Zenon
      <4>2. /\ ticket[op[w]] <= notify.returned
            /\ w \notin Journaled => notify.done <= ticket[op[w]]
            /\ ticket[op[w]] < commit.number => w \in commit.buffer \union Journaled
        BY <1>a, <4>1, Zenon DEF Tickets
      <4>3. ticket'[op[w]] <= notify'.returned
        BY <2>1, <2>2, <4>1, <4>2
      <4> QED
        BY <1>j, <2>1, <4>1, <4>2, <4>3, Zenon
    <3> QED
        BY <3>1, <3>2, Zenon
  <2>5. notify'.done <= notify'.returned /\ commit'.number <= notify'.returned
    BY <2>1, <2>2, <2>3
  <2> QED
    BY <2>4, <2>5, Zenon DEF Tickets
<1>n. /\ notify.done \in Nat /\ notify.returned \in Nat /\ commit.number \in Nat
      /\ \A w \in Write : ticket[op[w]] \in Nat
    BY <1>t, Zenon DEF CommitType
<1>3. CASE CommitNothing
  <2>1. commit.buffer = {} /\ job.intents = {}
    BY <1>3, SMTT(30) DEF Control, JobAgrees, CommitNothing, MutexFree, NoCommit
  <2>2. \A w \in Write : thread[op[w]] = "waiting" => w \in Journaled
    BY <2>1, Zenon DEF AckInv, OnItsWay
  <2>3. /\ notify'.done = notify.returned + 1 /\ notify'.returned = notify.returned + 1
        /\ UNCHANGED <<thread, ticket, commit>>
    BY <1>3, Zenon DEF CommitNothing, threads
  <2>4. commit.number <= notify.returned
    BY <1>a, Zenon DEF Tickets
  <2>5. \A w \in Write : thread[op[w]] = "waiting" => ticket[op[w]] <= notify.returned
    BY <1>a, Zenon DEF Tickets
  <2>6. \A w \in Write : thread[op[w]] = "waiting" => ticket'[op[w]] <= notify'.returned
    BY <1>n, <2>3, <2>5
  <2>7. notify'.done <= notify'.returned /\ commit'.number <= notify'.returned
    BY <1>n, <2>3, <2>4
  <2> QED
    BY <1>j, <2>2, <2>3, <2>6, <2>7, Zenon DEF Tickets
<1>4. ASSUME NEW full \in BOOLEAN, BeginCommit(full) PROVE Tickets'
  <2>1. commit.buffer = {}
    BY <1>4 DEF Control, JobAgrees, BeginCommit, MutexFree, NoCommit
  <2>2. job.intents \subseteq view
    BY <1>4, Zenon DEF SeenInv, ViewAgrees, Pending, BeginCommit
  <2>3. /\ commit'.buffer = Content(view, Touched(job.intents))
        /\ commit'.number = notify.returned + 1
        /\ notify'.done = notify.done /\ notify'.returned = notify.returned + 1
        /\ UNCHANGED <<thread, ticket>>
    BY <1>t, <1>4, Zenon DEF BeginCommit, PrepLogBuffer, threads
  <2>4. job.intents \subseteq commit'.buffer
    BY <2>2, <2>3, Zenon DEF Content, Touched
  <2>5. \A w \in Write : thread[op[w]] = "waiting" => w \in commit'.buffer \union Journaled'
    BY <1>j, <2>1, <2>4, Zenon DEF AckInv, OnItsWay
  <2>6. /\ notify.done <= notify.returned
        /\ \A w \in Write : thread[op[w]] = "waiting" =>
              /\ ticket[op[w]] <= notify.returned
              /\ w \notin Journaled => notify.done <= ticket[op[w]]
    BY <1>a, Zenon DEF Tickets
  <2>7. \A w \in Write : thread[op[w]] = "waiting" => ticket'[op[w]] <= notify'.returned
    BY <1>n, <2>3, <2>6
  <2>8. notify'.done <= notify'.returned /\ commit'.number <= notify'.returned
    BY <1>n, <2>3, <2>6
  <2> QED
    BY <1>j, <2>3, <2>5, <2>6, <2>7, <2>8, Zenon DEF Tickets
<1>5. CASE WriteToJournal \/ UpdateLSNFile \/ Rotate
  <2>1. /\ commit'.buffer = commit.buffer /\ commit'.number = commit.number
        /\ UNCHANGED <<thread, ticket, notify>>
    BY <1>t, <1>5, Zenon DEF WriteToJournal, UpdateLSNFile, Rotate, threads, CommitType
  <2> QED
    BY <1>a, <1>j, <2>1, Zenon DEF Tickets
<1>6. CASE NotifyCommitted
  <2>1. commit.buffer \subseteq Journaled
    BY <1>6, Zenon DEF LogInv, Logged, Journaled, NotifyCommitted
  <2>2. /\ notify'.done = commit.number /\ notify'.returned = notify.returned
        /\ commit'.buffer = commit.buffer /\ commit'.number = commit.number
        /\ UNCHANGED <<thread, ticket>>
    BY <1>t, <1>6, Zenon DEF NotifyCommitted, threads, CommitType
  <2>3. ASSUME NEW w \in Write, thread[op[w]] = "waiting", w \notin Journaled
        PROVE  commit.number <= ticket[op[w]]
    <3>1. ~(ticket[op[w]] < commit.number)
        BY <1>a, <2>1, <2>3, Zenon DEF Tickets
    <3> QED
        BY <1>n, <3>1
  <2> QED
    BY <1>a, <1>j, <2>2, <2>3, Zenon DEF Tickets
<1>7. CASE WriteToDataFiles \/ ResetAndRemap
  <2>1. commit.buffer \subseteq Journaled
    BY <1>7, Zenon DEF LogInv, Logged, Journaled, WriteToDataFiles, ResetAndRemap
  <2>2. /\ commit'.number = commit.number \/ commit'.number = 0
        /\ UNCHANGED <<thread, ticket, notify>>
    BY <1>t, <1>7 DEF WriteToDataFiles, ResetAndRemap, NoCommit, threads, CommitType
  <2>3. commit'.number <= notify.returned
    BY <1>a, <1>n, <2>2 DEF Tickets
  <2>4. \A w \in Write : ticket[op[w]] < commit'.number => ticket[op[w]] < commit.number
    BY <1>n, <2>2
  <2>5. \A w \in Write : thread[op[w]] = "waiting" /\ ticket[op[w]] < commit'.number =>
                            w \in Journaled
    BY <1>a, <2>1, <2>4, Zenon DEF Tickets
  <2> QED
    BY <1>a, <1>j, <2>2, <2>3, <2>5, Zenon DEF Tickets
<1>8. CASE Crash
  <2>1. \A w \in Write : thread'[op[w]] # "waiting"
    BY <1>t, <1>8, Zenon DEF Crash
  <2>2. notify'.done <= notify'.returned /\ commit'.number <= notify'.returned
    BY <1>8 DEF Crash, NoCommit
  <2> QED
    BY <2>1, <2>2, Zenon DEF Tickets
<1> QED
    BY <1>u, <1>1, <1>2, <1>3, <1>4, <1>5, <1>6, <1>7, <1>8, Zenon DEF Next, CommitStep,
       RecoveryStep, WriteBack, PreFlush, PostFlush, Tick, RecoverNothing, RecoverRefuses,
       BeginReplay, ReplaySection, CloseReplayed, RemoveJournalFile, RemoveLSNFile, Open,
       process, threads, journal, history, vars

-----------------------------------------------------------------------------
(* What readers see. *)

\* The views and the journal are empty at first.
LEMMA InitSeen == Init => SeenInv /\ KeptInv
<1> SUFFICES ASSUME Init PROVE SeenInv /\ KeptInv
    BY Zenon
<1>1. Spooled = {}
    BY JournalAssumption, Zenon DEF Init, Spooled
<1>2. commit.buffer = {} /\ job.intents = {} /\ commit.pc = "idle"
    BY DEF Init, NoCommit, NoJob
<1>3. Journaled = {} /\ DOMAIN log = {} /\ mode = "up" /\ dataFile = {} /\ disk = {} /\ view = {}
    BY DEF Init, Journaled
<1>4. Kept = {} /\ Pending = {}
    BY <1>1, <1>2, <1>3, Zenon DEF Kept, Pending
<1>5. ViewAgrees
    BY <1>3, <1>4, Zenon DEF ViewAgrees
<1>6. BufferFresh /\ Seen
    BY <1>2, <1>3, <1>4, Zenon DEF BufferFresh, Seen
<1>7. Covered /\ Durable
    BY <1>3, <1>4 DEF Covered, Durable, Safe
<1> QED
    BY <1>5, <1>6, <1>7, Zenon DEF SeenInv, KeptInv

\* Outside of journal() nothing is promised.
LEMMA KeptStep ==
    ASSUME TypeOK, HasFile, [Next]_vars, ~WriteToJournal
    PROVE  Kept' \subseteq Kept
BY HistoryGrows, Zenon DEF Kept

\* When the database opens, the data files have all that is kept, on disk too.
LEMMA OpenFacts ==
    ASSUME Quiet, KeptInv, RecoverNothing \/ RemoveLSNFile
    PROVE  /\ Kept \subseteq dataFile /\ disk = dataFile /\ Open
           /\ mode # "up" /\ commit = NoCommit /\ job = NoJob
           /\ UNCHANGED <<dataFile, disk, commit, job, thread>>
<1>1. /\ Open /\ mode # "up" /\ UNCHANGED <<dataFile, disk, commit, job, thread>>
      /\ files = {}
    BY Zenon DEF RecoverNothing, RemoveLSNFile, threads
<1>2. commit = NoCommit /\ job = NoJob
    BY <1>1, Zenon DEF Quiet
<1>3. disk = dataFile
    BY <1>1, Zenon DEF KeptInv, Durable
<1>4. Kept \subseteq dataFile
    BY <1>1, Zenon DEF KeptInv, Durable, Safe, InJournal, Present
<1> QED
    BY <1>1, <1>2, <1>3, <1>4, Zenon

\* Writing to the data files takes nothing back while the server runs.
LEMMA ApplyFacts ==
    ASSUME TypeOK, SeenInv, WriteToDataFiles
    PROVE  /\ dataFile \subseteq dataFile' /\ commit.buffer \subseteq dataFile'
           /\ dataFile' \subseteq dataFile \union commit.buffer
           /\ \A w \in dataFile' : place[w] \in Touched(commit.buffer) => w \in commit.buffer
<1>1. dataFile' = Overwrite(dataFile, commit.buffer) /\ mode = "up"
    BY Zenon DEF WriteToDataFiles
<1>2. \A w \in dataFile : place[w] \in Touched(commit.buffer) => w \in commit.buffer
    BY <1>1, Zenon DEF SeenInv, BufferFresh
<1> QED
    BY <1>1, <1>2, Zenon DEF Overwrite

\* A remap finds the private views and the data files equal.
LEMMA RemapFacts ==
    ASSUME TypeOK, Control, SeenInv, ResetAndRemap
    PROVE  view = dataFile /\ view' = view /\ Spooled = {}
<1>1. /\ job.intents \subseteq commit.buffer /\ Spooled = {} /\ commit.buffer \subseteq dataFile
    BY Zenon DEF Control, JobAgrees, ResetAndRemap
<1>2. view = dataFile
    BY <1>1, Zenon DEF SeenInv, ViewAgrees, Pending, ResetAndRemap
<1>3. PICK remapped \in SUBSET Loc :
         view' = Content(view, Loc \ remapped) \union Content(dataFile, remapped)
    BY Zenon DEF ResetAndRemap
<1>4. \A w \in view : place[w] \in Loc
    BY JournalAssumption, Zenon DEF TypeOK
<1> QED
    BY <1>1, <1>2, <1>3, <1>4, Zenon DEF Content

\* The private views have what is pending, and little else that the data files
\* have not.
LEMMA ViewStep ==
    ASSUME TypeOK, HasFile, Control, SeenInv, KeptInv, [Next]_vars
    PROVE  ViewAgrees'
<1>t. /\ thread \in [Op -> {"new", "spooled", "written", "waiting", "acked", "gone"}]
      /\ job \in [hasWritten : BOOLEAN, intents : SUBSET Write]
      /\ commit \in CommitType
      /\ op \in [Write -> Op]
    BY JournalAssumption, Zenon DEF TypeOK, CommitType
<1>a. ViewAgrees
    BY Zenon DEF SeenInv
<1>d. CASE mode' # "up"
    BY <1>d, Zenon DEF ViewAgrees
<1>u. CASE UNCHANGED <<mode, view, dataFile, disk>> /\ Pending' = Pending
    BY <1>a, <1>u, Zenon DEF ViewAgrees
<1>v. CASE UNCHANGED <<mode, view, dataFile, disk, job, commit, thread>>
  <2>1. Pending' = Pending
    BY <1>v, Zenon DEF Pending, Spooled
  <2> QED
    BY <1>u, <1>v, <2>1, Zenon
<1>1. ASSUME NEW o \in Op, DeclareWriteIntent(o) PROVE ViewAgrees'
  <2>1. Spooled' = Spooled \union WritesOf(o)
    BY <1>t, <1>1, Zenon DEF Spooled, WritesOf, DeclareWriteIntent
  <2>2. /\ mode = "up" /\ view' = view \union WritesOf(o)
        /\ job'.intents = job.intents /\ UNCHANGED <<dataFile, disk, commit>>
    BY <1>t, <1>1, Zenon DEF DeclareWriteIntent
  <2>3. Pending' = Pending \union WritesOf(o)
    BY <2>1, <2>2, Zenon DEF Pending
  <2> QED
    BY <1>a, <2>2, <2>3, Zenon DEF ViewAgrees
<1>2. ASSUME NEW o \in Op, ReleaseWriteLock(o) PROVE ViewAgrees'
  <2>1. WritesOf(o) \subseteq Spooled /\ Spooled = Spooled' \union WritesOf(o)
    BY <1>t, <1>2, Zenon DEF Spooled, WritesOf, ReleaseWriteLock
  <2>2. /\ job'.intents = job.intents \union WritesOf(o)
        /\ UNCHANGED <<mode, view, dataFile, disk, commit>>
    BY <1>t, <1>2, Zenon DEF ReleaseWriteLock, process
  <2>3. Pending' = Pending
    BY <2>1, <2>2, Zenon DEF Pending
  <2> QED
    BY <1>u, <2>2, <2>3, Zenon
<1>3. ASSUME NEW o \in Op, AwaitBeyondNow(o) \/ Acknowledge(o) PROVE ViewAgrees'
  <2>1. Spooled' = Spooled
    BY <1>t, <1>3, Zenon DEF Spooled, AwaitBeyondNow, Acknowledge
  <2>2. UNCHANGED <<mode, view, dataFile, disk, job, commit>>
    BY <1>3, Zenon DEF AwaitBeyondNow, Acknowledge, process
  <2> QED
    BY <1>u, <2>1, <2>2, Zenon DEF Pending
<1>4. ASSUME NEW l \in Loc, WriteBack(l) PROVE ViewAgrees'
  <2>1. UNCHANGED <<mode, view, dataFile, job, commit, thread>>
    BY <1>4, Zenon DEF WriteBack, process, threads
  <2>2. Pending' = Pending
    BY <2>1, Zenon DEF Pending, Spooled
  <2>3. mode = "up" => disk' \subseteq dataFile
    BY <1>a, <1>4, Zenon DEF ViewAgrees, WriteBack, Content
  <2> QED
    BY <1>a, <2>1, <2>2, <2>3, Zenon DEF ViewAgrees
<1>5. ASSUME NEW full \in BOOLEAN, BeginCommit(full) PROVE ViewAgrees'
  <2>1. commit.buffer = {}
    BY <1>5 DEF Control, JobAgrees, BeginCommit, MutexFree, NoCommit
  <2>2. /\ commit'.buffer = Content(view, Touched(job.intents))
        /\ UNCHANGED <<mode, view, dataFile, disk, thread>> /\ mode = "up"
        /\ job'.intents = job.intents \/ job'.intents = {}
    BY <1>5 DEF BeginCommit, PrepLogBuffer, threads, process, NoJob
  <2>3. job.intents \subseteq view /\ Spooled \subseteq view
    BY <1>a, <2>2, Zenon DEF ViewAgrees, Pending
  <2>4. job.intents \subseteq commit'.buffer /\ commit'.buffer \subseteq view
    BY <2>2, <2>3, Zenon DEF Content, Touched
  <2>5. Spooled' = Spooled
    BY <2>2, Zenon DEF Spooled
  <2>6. Pending \subseteq Pending' /\ Pending' \subseteq view
    BY <2>1, <2>2, <2>3, <2>4, <2>5, Zenon DEF Pending
  <2> QED
    BY <1>a, <2>2, <2>6, Zenon DEF ViewAgrees
<1>6. CASE WriteToJournal \/ UpdateLSNFile \/ Rotate \/ NotifyCommitted
  <2>1. /\ commit'.buffer = commit.buffer
        /\ UNCHANGED <<mode, view, dataFile, disk, job, thread>>
    BY <1>t, <1>6, Zenon DEF WriteToJournal, UpdateLSNFile, Rotate, NotifyCommitted, threads,
       process, CommitType
  <2> QED
    BY <1>u, <2>1, Zenon DEF Pending, Spooled
<1>7. CASE WriteToDataFiles
  <2>1. /\ commit'.buffer \subseteq commit.buffer
        /\ UNCHANGED <<mode, view, disk, job, thread>> /\ mode = "up"
    BY <1>t, <1>7 DEF WriteToDataFiles, NoCommit, CommitType, process, threads
  <2>2. Spooled' = Spooled
    BY <2>1, Zenon DEF Spooled
  <2>3. Pending' \subseteq Pending /\ Pending \subseteq Pending' \union commit.buffer
    BY <2>1, <2>2, Zenon DEF Pending
  <2>4. commit.buffer \subseteq view
    BY <1>a, <2>1, Zenon DEF ViewAgrees, Pending
  <2>5. /\ dataFile \subseteq dataFile' /\ commit.buffer \subseteq dataFile'
        /\ dataFile' \subseteq dataFile \union commit.buffer
    BY <1>7, ApplyFacts, Zenon
  <2> QED
    BY <1>a, <2>1, <2>3, <2>4, <2>5, Zenon DEF ViewAgrees
<1>8. CASE ResetAndRemap
  <2>1. view = dataFile /\ view' = view /\ Spooled = {}
    BY <1>8, RemapFacts, Zenon
  <2>2. commit'.buffer = {} /\ job'.intents = {} /\ UNCHANGED <<mode, dataFile, disk, thread>>
    BY <1>8 DEF ResetAndRemap, NoCommit, NoJob, process, threads
  <2>3. Pending' = {}
    BY <2>1, <2>2, Zenon DEF Pending, Spooled
  <2> QED
    BY <1>a, <2>1, <2>2, <2>3, Zenon DEF ViewAgrees
<1>9. CASE RecoverNothing \/ RemoveLSNFile
  <2>1. /\ disk = dataFile /\ view' = dataFile /\ UNCHANGED <<dataFile, disk, commit, job, thread>>
        /\ commit = NoCommit /\ job = NoJob /\ mode # "up"
    BY <1>9, OpenFacts, Zenon DEF Open, Control
  <2>2. commit.buffer = {} /\ job.intents = {}
    BY <2>1 DEF NoCommit, NoJob
  <2>3. Spooled = {}
    BY <1>t, <2>1, Zenon DEF Spooled, Control, Quiet
  <2>4. Pending' = {}
    BY <2>1, <2>2, <2>3, Zenon DEF Pending, Spooled
  <2> QED
    BY <2>1, <2>4, Zenon DEF ViewAgrees
<1>10. CASE Crash \/ RecoverRefuses \/ BeginReplay \/ ReplaySection \/ CloseReplayed
  <2>1. mode' # "up"
    BY <1>10, Zenon DEF Crash, RecoverRefuses, BeginReplay, ReplaySection, CloseReplayed
  <2> QED
    BY <1>d, <2>1, Zenon
<1> QED
    BY <1>v, <1>1, <1>2, <1>3, <1>4, <1>5, <1>6, <1>7, <1>8, <1>9, <1>10, Zenon DEF Next,
       CommitStep, RecoveryStep, CommitNothing, PreFlush, PostFlush, Tick,
       RemoveJournalFile, process, threads, journal, history, vars

\* The buffer of a commit is as new as all that is in its places.
LEMMA BufferStep ==
    ASSUME TypeOK, HasFile, Control, SeenInv, KeptInv, [Next]_vars
    PROVE  BufferFresh'
<1>t. commit \in CommitType
    BY Zenon DEF TypeOK, CommitType
<1>a. BufferFresh
    BY Zenon DEF SeenInv
<1>n. CASE commit' = NoCommit
  <2>1. commit'.buffer = {} /\ commit'.pc = "idle"
    BY <1>n DEF NoCommit
  <2>2. Touched(commit'.buffer) = {}
    BY <2>1, Zenon DEF Touched
  <2> QED
    BY <2>1, <2>2, Zenon DEF BufferFresh, Touched
<1>u. CASE UNCHANGED <<mode, dataFile, commit>> /\ ~WriteToJournal
    BY <1>a, <1>u, KeptStep, Zenon DEF BufferFresh
<1>1. ASSUME NEW full \in BOOLEAN, BeginCommit(full) PROVE BufferFresh'
  <2>1. /\ commit'.buffer = Content(view, Touched(job.intents))
        /\ mode = "up" /\ UNCHANGED <<mode, dataFile>>
    BY <1>1 DEF BeginCommit, PrepLogBuffer, process
  <2>2. Touched(commit'.buffer) \subseteq Touched(job.intents)
    BY <2>1, Zenon DEF Content, Touched
  <2>3. dataFile \subseteq view /\ Kept \subseteq view
    BY <2>1, Zenon DEF SeenInv, ViewAgrees, Seen
  <2>4. Kept' = Kept
    BY <1>1, Zenon DEF BeginCommit, history, Kept, Journaled, Lost
  <2>5. \A w \in view : place[w] \in Touched(commit'.buffer) => w \in commit'.buffer
    BY <2>1, <2>2, Zenon DEF Content
  <2> QED
    BY <2>1, <2>3, <2>4, <2>5, Zenon DEF BufferFresh
<1>2. CASE WriteToJournal \/ UpdateLSNFile \/ Rotate \/ NotifyCommitted
  <2>1. commit'.buffer = commit.buffer /\ UNCHANGED <<mode, dataFile>>
    BY <1>t, <1>2, Zenon DEF WriteToJournal, UpdateLSNFile, Rotate, NotifyCommitted, process,
       CommitType
  <2>2. commit'.pc \in {"appended", "lsnSet", "journaled", "notified"}
    BY <1>t, <1>2, Zenon DEF WriteToJournal, UpdateLSNFile, Rotate, NotifyCommitted,
       CommitType
  <2>3. commit'.pc # "prepped"
    BY <2>2
  <2> QED
    BY <1>a, <2>1, <2>3, Zenon DEF BufferFresh
<1>3. CASE WriteToDataFiles
  <2>1. CASE commit.full
    <3>1. commit'.buffer = commit.buffer /\ commit'.pc = "applied" /\ UNCHANGED mode
      BY <1>t, <1>3, <2>1, Zenon DEF WriteToDataFiles, process, CommitType
    <3>2. commit'.pc # "prepped"
      BY <3>1
    <3> QED
      BY <1>3, <3>1, <3>2, ApplyFacts, Zenon DEF BufferFresh
  <2>2. CASE ~commit.full
    BY <1>n, <1>3, <2>2, Zenon DEF WriteToDataFiles
  <2> QED
    BY <2>1, <2>2, Zenon
<1>4. CASE ResetAndRemap \/ Crash
    BY <1>n, <1>4, Zenon DEF ResetAndRemap, Crash
<1>5. CASE RecoverNothing \/ RemoveLSNFile
    BY <1>n, <1>5, OpenFacts, Zenon DEF Control
<1>6. CASE RecoverRefuses \/ BeginReplay \/ ReplaySection \/ CloseReplayed
  <2>1. mode # "up" /\ UNCHANGED commit
    BY <1>6, Zenon DEF RecoverRefuses, BeginReplay, ReplaySection, CloseReplayed, Replayed
  <2> QED
    BY <1>n, <2>1, Zenon DEF Control, Quiet
<1> QED
    BY <1>u, <1>1, <1>2, <1>3, <1>4, <1>5, <1>6, Zenon DEF Next, CommitStep, RecoveryStep,
       DeclareWriteIntent, ReleaseWriteLock, AwaitBeyondNow, Acknowledge, WriteBack,
       CommitNothing, PreFlush, PostFlush, Tick, RemoveJournalFile, process, threads,
       journal, history, vars

\* Readers see what is kept: journal() adds what they see, and a recovery ends
\* with all of it in the data files.
LEMMA SeenStep ==
    ASSUME TypeOK, HasFile, Control, SeenInv, KeptInv, [Next]_vars
    PROVE  Seen'
<1>a. Seen
    BY Zenon DEF SeenInv
<1>d. CASE mode' # "up"
    BY <1>d, Zenon DEF Seen
<1>1. ASSUME NEW o \in Op, DeclareWriteIntent(o) PROVE Seen'
  <2>1. UNCHANGED <<mode, log, commits>> /\ view \subseteq view'
    BY <1>1, Zenon DEF DeclareWriteIntent, process, journal, history
  <2>2. Kept' \subseteq Kept
    BY <1>1, Zenon DEF DeclareWriteIntent, history, Kept, Journaled, Lost
  <2> QED
    BY <1>a, <2>1, <2>2, Zenon DEF Seen
<1>2. CASE WriteToJournal
  <2>1. commit.buffer \subseteq view /\ UNCHANGED view /\ mode = "up"
    BY <1>2, Zenon DEF SeenInv, ViewAgrees, Pending, WriteToJournal
  <2>2. Kept' \subseteq Kept \union commit.buffer
    BY <1>2, Zenon DEF WriteToJournal, Kept, Journaled, Lost
  <2>3. \A k \in DOMAIN log' : log'[k].buffer \subseteq view
    <3>1. \A k \in DOMAIN log' : k \in DOMAIN log \/ k = Len(log) + 1
        BY <1>2, AppendFacts
    <3>2. \A k \in DOMAIN log : log[k].buffer \subseteq view
        BY <1>a, <2>1, Zenon DEF Seen
    <3> QED
        BY <1>2, <2>1, <3>1, <3>2, AppendFacts, Zenon
  <2> QED
    BY <1>a, <2>1, <2>2, <2>3, Zenon DEF Seen
<1>3. CASE ResetAndRemap
  <2>1. UNCHANGED <<mode, log, view, commits, skipped, dropped, reverted>>
    BY <1>3, RemapFacts, Zenon DEF ResetAndRemap, process, journal, history
  <2> QED
    BY <1>a, <2>1, Zenon DEF Seen, Kept, Journaled, Lost
<1>4. CASE RecoverNothing \/ RemoveLSNFile
  <2>1. Kept \subseteq dataFile /\ view' = dataFile /\ log' = << >>
    BY <1>4, OpenFacts, Zenon DEF Open, Control
  <2>2. Kept' = Kept
    BY <1>4, Zenon DEF RecoverNothing, RemoveLSNFile, history, Kept, Journaled, Lost
  <2>3. DOMAIN log' = {}
    BY <2>1
  <2> QED
    BY <2>1, <2>2, <2>3, Zenon DEF Seen
<1>5. CASE Crash \/ RecoverRefuses \/ BeginReplay \/ ReplaySection \/ CloseReplayed
  <2>1. mode' # "up"
    BY <1>5, Zenon DEF Crash, RecoverRefuses, BeginReplay, ReplaySection, CloseReplayed
  <2> QED
    BY <1>d, <2>1, Zenon
<1>6. ASSUME UNCHANGED <<mode, log, view, commits, skipped, dropped, reverted>> PROVE Seen'
    BY <1>a, <1>6, Zenon DEF Seen, Kept, Journaled, Lost
<1>7. CASE Rotate
  <2>1. UNCHANGED <<mode, log, view, commits>>
    BY <1>7, Zenon DEF Rotate, process
  <2>2. Kept' \subseteq Kept
    BY <2>1, HistoryGrows, Zenon DEF Kept
  <2> QED
    BY <1>a, <2>1, <2>2, Zenon DEF Seen
<1> QED
    BY <1>1, <1>2, <1>3, <1>4, <1>5, <1>6, <1>7, Zenon DEF Next, CommitStep, RecoveryStep,
       ReleaseWriteLock, AwaitBeyondNow, Acknowledge, WriteBack, CommitNothing, BeginCommit,
       UpdateLSNFile, NotifyCommitted, WriteToDataFiles, PreFlush, PostFlush, Tick,
       RemoveJournalFile, process, threads, journal, history, vars

-----------------------------------------------------------------------------
(* What a crash leaves. *)

\* What a section takes back is in it or in a later one: the buffer of a commit
\* has all that is kept for its places.
LEMMA CoveredStep ==
    ASSUME TypeOK, HasFile, SeenInv, KeptInv, [Next]_vars
    PROVE  Covered'
<1>a. Covered
    BY Zenon DEF KeptInv
<1>u. CASE UNCHANGED log /\ ~WriteToJournal
    BY <1>a, <1>u, KeptStep, Zenon DEF Covered
<1>1. CASE WriteToJournal
  <2>1. \A k \in DOMAIN log' : k \in DOMAIN log \/ k = Len(log) + 1
    BY <1>1, AppendFacts
  <2>2. Kept' \subseteq Kept \union commit.buffer
    BY <1>1, Zenon DEF WriteToJournal, Kept, Journaled, Lost
  <2>3. \A w \in Kept : place[w] \in Touched(commit.buffer) => w \in commit.buffer
    BY <1>1, Zenon DEF SeenInv, BufferFresh, WriteToJournal
  <2>4. \A j \in DOMAIN log' : Len(log) + 1 >= j
    BY <1>1, AppendFacts
  <2>5. ASSUME NEW j \in DOMAIN log', NEW w \in Kept', place[w] \in Touched(log'[j].buffer)
        PROVE  \E k \in DOMAIN log' : k >= j /\ w \in log'[k].buffer
    <3>1. CASE w \in commit.buffer
      BY <1>1, <2>4, <3>1, AppendFacts, Zenon
    <3>2. CASE j \in DOMAIN log /\ w \in Kept
      BY <1>1, <1>a, <2>5, <3>2, AppendFacts, Zenon DEF Covered
    <3>3. CASE j = Len(log) + 1 /\ w \in Kept
      BY <1>1, <2>3, <2>5, <3>1, <3>3, AppendFacts, Zenon
    <3> QED
      BY <2>1, <2>2, <3>1, <3>2, <3>3, Zenon
  <2> QED
    BY <2>5, Zenon DEF Covered
<1>2. CASE RecoverNothing \/ RemoveLSNFile
  <2>1. log' = << >>
    BY <1>2, Zenon DEF RecoverNothing, RemoveLSNFile, Open
  <2>2. DOMAIN log' = {}
    BY <2>1
  <2> QED
    BY <2>2, Zenon DEF Covered
<1> QED
    BY <1>u, <1>1, <1>2, Zenon DEF Next, CommitStep, RecoveryStep, DeclareWriteIntent,
       ReleaseWriteLock, AwaitBeyondNow, Acknowledge, WriteBack, CommitNothing, BeginCommit,
       UpdateLSNFile, Rotate, NotifyCommitted, WriteToDataFiles, ResetAndRemap, PreFlush,
       PostFlush, Tick, Crash, RecoverRefuses, BeginReplay, ReplaySection, CloseReplayed,
       RemoveJournalFile, process, threads, journal, history, vars

\* A section of a file that stays is found later, too.
LEMMA InJournalStays ==
    ASSUME UNCHANGED log, files \subseteq files', NEW w, NEW n, InJournal(w, n)
    PROVE  InJournal(w, n)'
BY Zenon DEF InJournal, Present

\* The step of a recovery keeps what the sections still to come do not have.
LEMMA ReplayFacts ==
    ASSUME TypeOK, KeptInv, ReplaySection, NEW w \in Kept, w \notin Lost'
    PROVE  w \in dataFile' \/ InJournal(w, next + 1)
<1>t. next \in Nat \ {0} /\ DOMAIN log = 1 .. Len(log) /\ Len(log) \in Nat
    BY DEF TypeOK
<1>1. /\ w \in dataFile \/ InJournal(w, next)
      /\ \A j, k \in DOMAIN log : j < k /\ Present(j) /\ ~Present(k) => log[k].buffer \subseteq Lost
    BY Zenon DEF KeptInv, Durable, ReplaySection
<1>2. \A k \in DOMAIN log : k >= next => k = next \/ (k >= next + 1 /\ next < k)
    BY <1>t
<1>3. InJournal(w, next) => InJournal(w, next + 1) \/ (Present(next) /\ w \in log[next].buffer)
    BY <1>2, Zenon DEF InJournal
<1>4. CASE ~Present(next) /\ UNCHANGED dataFile
    BY <1>1, <1>3, <1>4, Zenon
<1>5. CASE UNCHANGED dataFile /\ skipped' = skipped \union (log[next].buffer \ dataFile)
    BY <1>1, <1>3, <1>5, Zenon DEF Lost
<1>6. CASE Present(next) /\ dataFile' = Overwrite(dataFile, log[next].buffer)
  <2>1. CASE w \in log[next].buffer
    BY <1>6, <2>1, Zenon DEF Overwrite
  <2>2. CASE w \in dataFile /\ place[w] \notin Touched(log[next].buffer)
    BY <1>6, <2>2, Zenon DEF Overwrite
  <2>3. CASE w \notin log[next].buffer /\ place[w] \in Touched(log[next].buffer)
    <3>1. PICK k \in DOMAIN log : k >= next /\ w \in log[k].buffer
        BY <2>3, Zenon DEF KeptInv, Covered, ReplaySection
    <3>2. k >= next + 1 /\ next < k
        BY <1>2, <2>3, <3>1, Zenon
    <3>3. Present(k)
        BY <1>1, <1>6, <3>1, <3>2, Zenon DEF ReplaySection, Kept
    <3> QED
        BY <3>1, <3>2, <3>3, Zenon DEF InJournal
  <2> QED
    BY <1>1, <1>3, <2>1, <2>2, <2>3, Zenon
<1> QED
    BY <1>4, <1>5, <1>6, Zenon DEF ReplaySection

\* Whatever is kept is in the data files or in the journal, for the cached data
\* files and for those on disk.
LEMMA DurableStep ==
    ASSUME TypeOK, HasFile, Control, SeenInv, KeptInv, [Next]_vars
    PROVE  Durable'
<1>a. Durable
    BY Zenon DEF KeptInv
<1>k. ~WriteToJournal => Kept' \subseteq Kept
    BY KeptStep, Zenon
<1>u. CASE UNCHANGED <<mode, next, dataFile, disk, log, files, commits, skipped, dropped, reverted>>
  <2>1. Kept' = Kept /\ Lost' = Lost
    BY <1>u, Zenon DEF Kept, Journaled, Lost
  <2>2. Safe(dataFile)' /\ Safe(disk)'
    BY <1>a, <1>u, <2>1, Zenon DEF Durable, Safe, InJournal, Present
  <2>3. mode = "replaying" => \A w \in Kept : w \in dataFile \/ InJournal(w, next)'
    BY <1>a, <1>u, Zenon DEF Durable, InJournal, Present
  <2>4. mode = "replaying" =>
           \A j, k \in DOMAIN log : j < k /\ Present(j)' /\ ~Present(k)' =>
              log[k].buffer \subseteq Lost
    BY <1>a, <1>u, Zenon DEF Durable, Present
  <2> QED
    BY <1>a, <1>u, <2>1, <2>2, <2>3, <2>4, Zenon DEF Durable
<1>1. ASSUME NEW l \in Loc, WriteBack(l) PROVE Durable'
  <2>1. /\ UNCHANGED <<mode, next, dataFile, log, files>> /\ Kept' = Kept /\ Lost' = Lost
        /\ disk' = Content(disk, Loc \ {l}) \union Content(dataFile, {l})
    BY <1>1, Zenon DEF WriteBack, process, journal, history, Kept, Journaled, Lost
  <2>2. \A w \in Kept : place[w] \in Loc
    BY JournalAssumption, Zenon DEF TypeOK, Kept, Journaled
  <2>3. \A w \in Kept : w \in disk' \/ w \notin disk \/ w \notin dataFile
    BY <2>1, <2>2, Zenon DEF Content
  <2>4. \A w, n : InJournal(w, n)' = InJournal(w, n)
    BY <2>1, Zenon DEF InJournal, Present
  <2>5. Safe(dataFile)' /\ Safe(disk)'
    BY <1>a, <2>1, <2>3, Zenon DEF Durable, Safe, InJournal, Present
  <2>6. disk # dataFile
    BY <1>1, Zenon DEF WriteBack, Dirty, Touched
  <2>7. mode # "cleaning" /\ ~(mode # "up" /\ files = {})
    BY <1>a, <2>6, Zenon DEF Durable
  <2>8. mode = "replaying" => \A w \in Kept : w \in dataFile \/ InJournal(w, next)'
    BY <1>a, <2>1, Zenon DEF Durable, InJournal, Present
  <2>9. mode = "replaying" =>
           \A j, k \in DOMAIN log : j < k /\ Present(j)' /\ ~Present(k)' =>
              log[k].buffer \subseteq Lost
    BY <1>a, <2>1, Zenon DEF Durable, Present
  <2> QED
    BY <2>1, <2>5, <2>7, <2>8, <2>9, Zenon DEF Durable
<1>2. CASE WriteToJournal
  <2>1. /\ mode = "up" /\ UNCHANGED <<mode, dataFile, disk, files>>
        /\ Kept' \subseteq Kept \union commit.buffer
    BY <1>2, Zenon DEF WriteToJournal, process, Kept, Journaled, Lost
  <2>2. Len(log) + 1 >= 1 /\ Cur \in files
    BY <1>2, <2>1, AppendFacts DEF HasFile
  <2>3. ASSUME NEW w \in Kept' PROVE InJournal(w, 1)' \/ (w \in dataFile /\ w \in disk)
    <3>1. CASE w \in commit.buffer
        BY <1>2, <2>1, <2>2, <3>1, AppendFacts, Zenon DEF InJournal, Present
    <3>2. CASE InJournal(w, 1)
        BY <1>2, <2>1, <3>2, AppendFacts, Zenon DEF InJournal, Present
    <3> QED
        BY <1>a, <2>1, <3>1, <3>2, Zenon DEF Durable, Safe
  <2>4. Safe(dataFile)' /\ Safe(disk)'
    BY <2>1, <2>3, Zenon DEF Safe
  <2> QED
    BY <2>1, <2>4 DEF Durable
<1>3. CASE Rotate
  <2>1. mode = "up" /\ UNCHANGED <<mode, dataFile, disk, log>> /\ dropped' \subseteq Lost'
    BY <1>3, Zenon DEF Rotate, process, Lost
  <2>2. Kept' \subseteq Kept
    BY <1>3, <1>k, HistoryGrows, Zenon DEF Kept, Rotate
  <2>3. disk \subseteq dataFile
    BY <2>1, Zenon DEF SeenInv, ViewAgrees
  <2>4. ASSUME NEW w \in Kept' PROVE InJournal(w, 1)' \/ (w \in dataFile /\ w \in disk)
    <3>1. CASE InJournal(w, 1)
      <4>1. PICK k \in DOMAIN log : k >= 1 /\ Present(k) /\ w \in log[k].buffer
        BY <3>1, Zenon DEF InJournal
      <4>2. w \notin dropped'
        BY <2>1, <2>4, Zenon DEF Kept
      <4>3. log[k].file \in files' \/ w \in disk
        BY <1>3, <4>1, <4>2, RotateFacts, Zenon
      <4> QED
        BY <2>1, <2>3, <4>1, <4>3, Zenon DEF InJournal, Present
    <3> QED
        BY <1>a, <2>2, <3>1, Zenon DEF Durable, Safe
  <2>5. Safe(dataFile)' /\ Safe(disk)'
    BY <2>1, <2>4, Zenon DEF Safe
  <2> QED
    BY <2>1, <2>5 DEF Durable
<1>4. CASE WriteToDataFiles
  <2>1. /\ mode = "up" /\ UNCHANGED <<mode, disk, log, files>> /\ dataFile \subseteq dataFile'
        /\ Kept' = Kept
    BY <1>4, ApplyFacts, Zenon DEF WriteToDataFiles, process, journal, history, Kept,
       Journaled, Lost
  <2>2. Safe(dataFile)' /\ Safe(disk)'
    BY <1>a, <2>1, Zenon DEF Durable, Safe, InJournal, Present
  <2> QED
    BY <2>1, <2>2 DEF Durable
<1>5. CASE Crash
  <2>1. /\ mode' = "down" /\ UNCHANGED <<disk, log>> /\ Kept' = Kept
        /\ files \subseteq files' /\ (dataFile' = dataFile \/ dataFile' = disk)
        /\ files' = files \/ dataFile' = disk
    BY <1>5, Zenon DEF Crash, history, Kept, Journaled, Lost
  <2>2. \A w : InJournal(w, 1) => InJournal(w, 1)'
    BY <2>1, InJournalStays, Zenon
  <2>3. Safe(dataFile)' /\ Safe(disk)'
    BY <1>a, <2>1, <2>2, Zenon DEF Durable, Safe
  <2>4. files' = {} => disk' = dataFile'
    BY <1>a, <2>1, Zenon DEF Durable, HasFile
  <2> QED
    BY <2>1, <2>3, <2>4 DEF Durable
<1>6. CASE RecoverNothing \/ RemoveLSNFile
  <2>1. /\ Kept \subseteq dataFile /\ disk = dataFile /\ UNCHANGED <<dataFile, disk>>
        /\ mode' = "up"
    BY <1>6, OpenFacts, Zenon DEF Open, Control
  <2>2. Kept' = Kept
    BY <1>6, Zenon DEF RecoverNothing, RemoveLSNFile, history, Kept, Journaled, Lost
  <2>3. Safe(dataFile)' /\ Safe(disk)'
    BY <2>1, <2>2, Zenon DEF Safe
  <2> QED
    BY <2>1, <2>3 DEF Durable
<1>7. CASE RecoverRefuses
  <2>1. /\ mode = "down" /\ mode' = "refused"
        /\ UNCHANGED <<dataFile, disk, log, files>> /\ Kept' = Kept
    BY <1>7, Zenon DEF RecoverRefuses, journal, history, Kept, Journaled, Lost
  <2>2. Safe(dataFile)' /\ Safe(disk)'
    BY <1>a, <2>1, Zenon DEF Durable, Safe, InJournal, Present
  <2>3. files' = {} => disk' = dataFile'
    BY <1>a, <2>1 DEF Durable
  <2> QED
    BY <2>1, <2>2, <2>3 DEF Durable
<1>8. CASE BeginReplay
  <2>1. /\ mode = "down" /\ mode' = "replaying" /\ UNCHANGED <<dataFile, disk, log, files, next>>
        /\ files # {}
    BY <1>8, Zenon DEF BeginReplay, journal
  <2>2. next = 1
    BY <2>1 DEF Control, Quiet
  <2>3. Kept' \subseteq Kept
    BY <1>8, HistoryGrows, Zenon DEF Kept, BeginReplay
  <2>4. Safe(dataFile)' /\ Safe(disk)'
    BY <1>a, <2>1, <2>3, Zenon DEF Durable, Safe, InJournal, Present
  <2>5. \A w \in Kept' : w \in dataFile' \/ InJournal(w, next)'
    BY <2>1, <2>2, <2>4, Zenon DEF Safe, InJournal, Present
  <2>6. ASSUME NEW j \in DOMAIN log, NEW k \in DOMAIN log, j < k, Present(j), ~Present(k)
        PROVE  log[k].buffer \subseteq Lost'
    <3>1. j \in 1 .. k - 1
        BY <2>6 DEF TypeOK
    <3>2. k \in GoneBeforeOlder
        BY <2>6, <3>1, Zenon DEF GoneBeforeOlder
    <3> QED
        BY <1>8, <3>2, Zenon DEF BeginReplay, Lost
  <2>7. \A j, k \in DOMAIN log' : j < k /\ Present(j)' /\ ~Present(k)' =>
           log'[k].buffer \subseteq Lost'
    BY <2>1, <2>6, Zenon DEF Present
  <2> QED
    BY <2>1, <2>4, <2>5, <2>7 DEF Durable
<1>9. CASE ReplaySection
  <2>1. mode = "replaying" /\ UNCHANGED <<mode, disk, log, files>> /\ next' = next + 1
    BY <1>9, Zenon DEF ReplaySection, journal
  <2>2. Kept' \subseteq Kept /\ Lost \subseteq Lost'
    BY <1>9, HistoryGrows, Zenon DEF Kept, ReplaySection
  <2>3. \A w \in Kept' : w \in dataFile' \/ InJournal(w, next + 1)
    BY <1>9, <2>2, ReplayFacts, Zenon DEF Kept
  <2>4. \A w \in Kept' : w \in dataFile' \/ InJournal(w, next)'
    BY <2>1, <2>3, Zenon DEF InJournal, Present
  <2>5. \A k \in DOMAIN log : k >= 1
    BY DEF TypeOK
  <2>6. \A w, n : InJournal(w, n) => InJournal(w, 1)
    BY <2>5, Zenon DEF InJournal
  <2>7. Safe(dataFile)' /\ Safe(disk)'
    BY <1>a, <2>1, <2>2, <2>3, <2>6, Zenon DEF Durable, Safe, InJournal, Present
  <2>8. \A j, k \in DOMAIN log' : j < k /\ Present(j)' /\ ~Present(k)' =>
           log'[k].buffer \subseteq Lost'
    BY <1>a, <2>1, <2>2, Zenon DEF Durable, Present
  <2>9. files' = {} => disk' = dataFile'
    BY <1>9, <1>a, <2>1 DEF Durable, ReplaySection, Present
  <2> QED
    BY <2>1, <2>4, <2>7, <2>8, <2>9 DEF Durable
<1>10. CASE CloseReplayed
  <2>1. /\ mode = "replaying" /\ next \notin DOMAIN log /\ mode' = "cleaning"
        /\ disk' = dataFile /\ UNCHANGED dataFile /\ Kept' = Kept
    BY <1>10, Zenon DEF CloseReplayed, Replayed, history, Kept, Journaled, Lost
  <2>2. \A k \in DOMAIN log : ~(k >= next)
    BY <2>1 DEF TypeOK
  <2>3. Kept \subseteq dataFile
    BY <1>a, <2>1, <2>2, Zenon DEF Durable, InJournal
  <2>4. Safe(dataFile)' /\ Safe(disk)'
    BY <2>1, <2>3, Zenon DEF Safe
  <2> QED
    BY <2>1, <2>3, <2>4 DEF Durable
<1>11. ASSUME NEW f \in files, RemoveJournalFile(f) PROVE Durable'
  <2>1. mode = "cleaning" /\ UNCHANGED <<mode, dataFile, disk>> /\ Kept' = Kept
    BY <1>11, Zenon DEF RemoveJournalFile, process, history, Kept, Journaled, Lost
  <2>2. Kept \subseteq dataFile /\ disk = dataFile
    BY <1>a, <2>1, Zenon DEF Durable
  <2>3. Safe(dataFile)' /\ Safe(disk)'
    BY <2>1, <2>2, Zenon DEF Safe
  <2> QED
    BY <2>1, <2>2, <2>3 DEF Durable
<1> QED
    BY <1>u, <1>1, <1>2, <1>3, <1>4, <1>5, <1>6, <1>7, <1>8, <1>9, <1>10, <1>11, Zenon DEF
       Next, CommitStep, RecoveryStep, DeclareWriteIntent, ReleaseWriteLock, AwaitBeyondNow,
       Acknowledge, CommitNothing, BeginCommit, UpdateLSNFile, NotifyCommitted,
       ResetAndRemap, PreFlush, PostFlush, Tick, process, threads, journal, history, vars

-----------------------------------------------------------------------------
(* The theorems. *)

\* The inductive invariant holds in every reachable state.
THEOREM Invariance == Spec => []IInv
<1>1. Init => IInv
    BY InitTyped, InitControl, InitLog, InitAck, InitSeen, Zenon DEF IInv
<1>2. IInv /\ [Next]_vars => IInv'
  <2> SUFFICES ASSUME IInv, [Next]_vars PROVE IInv'
    BY Zenon
  <2>1. /\ TypeOK /\ HasFile /\ Control /\ Quiet
        /\ LogInv /\ AckInv /\ SeenInv /\ KeptInv
    BY Zenon DEF IInv, Control
  <2>2. TypeOK' /\ HasFile' /\ Control'
    BY <2>1, TypedStep, QuietStep, JobStep, Zenon DEF Control
  <2>3. LogInv' /\ AckInv'
    BY <2>1, LoggedStep, WriteAheadStep, OnItsWayStep, AckedStep, TicketsStep, Zenon
       DEF LogInv, AckInv
  <2>4. SeenInv' /\ KeptInv'
    BY <2>1, ViewStep, BufferStep, SeenStep, CoveredStep, DurableStep, Zenon
       DEF SeenInv, KeptInv
  <2> QED
    BY <2>2, <2>3, <2>4, Zenon DEF IInv
<1> QED
    BY <1>1, <1>2, PTL DEF Spec

\* The state of the journal keeps its types, whatever crashes.
THEOREM TypeCorrect == Spec => []TypeOK
<1>1. IInv => TypeOK
    BY Zenon DEF IInv
<1> QED
    BY <1>1, Invariance, PTL

\* Write-ahead: WRITETODATAFILES and recovery bring only journaled writes to
\* the data files.
THEOREM JournalBeforeData == Spec => []WriteAhead
<1>1. IInv => WriteAhead
    BY Zenon DEF IInv, LogInv
<1> QED
    BY <1>1, Invariance, PTL

\* awaitBeyondNow returns only for writes that are in the journal.
THEOREM AcknowledgedIsJournaled == Spec => []AckedIsJournaled
<1>1. IInv => AckedIsJournaled
    BY Zenon DEF IInv, AckInv
<1> QED
    BY <1>1, Invariance, PTL

\* Commit, remap, crash and a recovery that copies old sections over newer data
\* lose only what recovery skips by the lsn file, what
\* removeUnneededJournalFiles removes, and what an interrupted
\* removeJournalFiles removed before an older section.
THEOREM NothingElseLost == Spec => []OnlySkippedAreLost
<1>1. IInv => OnlySkippedAreLost
  <2> SUFFICES ASSUME IInv, mode = "up", NEW w \in Write,
                      thread[op[w]] \in {"spooled", "written", "waiting", "acked"}
               PROVE  w \in view \union Lost
    BY Zenon DEF OnlySkippedAreLost
  <2>1. Pending \subseteq view
    BY Zenon DEF IInv, SeenInv, ViewAgrees
  <2>2. w \in Journaled => w \in view \union Lost
    BY Zenon DEF IInv, SeenInv, Seen, Kept
  <2>3. CASE thread[op[w]] = "spooled"
    BY <2>1, <2>3, Zenon DEF Pending, Spooled
  <2>4. CASE thread[op[w]] \in {"written", "waiting"}
    BY <2>1, <2>2, <2>4, Zenon DEF IInv, AckInv, OnItsWay, Pending
  <2>5. CASE thread[op[w]] = "acked"
    BY <2>2, <2>5, Zenon DEF IInv, AckInv, AckedIsJournaled, Acked
  <2> QED
    BY <2>3, <2>4, <2>5, Zenon
<1> QED
    BY <1>1, Invariance, PTL

\* Readers see every journaled group commit whole, but for what is lost as above,
\* whichever places the kernel had written and wherever a recovery was stopped.
THEOREM RecoveryIsAtomic == Spec => []AllOrNothing
<1>1. IInv => AllOrNothing
    BY Zenon DEF IInv, SeenInv, Seen, Kept, Journaled, AllOrNothing
<1> QED
    BY <1>1, Invariance, PTL

\* A server that is up has nothing in its journal that its readers do not see:
\* no later recovery brings back what an earlier one has passed over.
THEOREM RecoveryIsFinal == Spec => []NothingStaleInJournal
<1>1. IInv => NothingStaleInJournal
    BY Zenon DEF IInv, SeenInv, Seen, NothingStaleInJournal
<1> QED
    BY <1>1, Invariance, PTL
=============================================================================
