------------------------------ MODULE DistLock ------------------------------
(***************************************************************************)
(* The distributed lock of a sharded cluster (s/distlock.cpp) over the     *)
(* config servers, which SyncClusterConnection (client/                    *)
(* syncclusterconnection.cpp) writes one after the other.                  *)
(*                                                                         *)
(* One lock, whose document is on every server (case 1 of lock_try, which  *)
(* inserts it, is over).  lock_try is called without reenter, as all of    *)
(* its callers outside the tests do.  A lock ID (OID) starts with the      *)
(* seconds of its process's clock, so the IDs of one process grow; those   *)
(* of two processes come in any order if their clocks differ or the second *)
(* is the same.                                                            *)
(*                                                                         *)
(* Timeouts.  The code forces a lock whose ID has not changed for          *)
(* _lockTimeout (15 minutes) since it was first seen and, if the lock is   *)
(* finalized, whose process has not pinged for that long.  What the code   *)
(* takes for granted of the 15 minutes is the model's guard: the attempt   *)
(* that wrote the ID is over, and a process that does not ping is dead.    *)
(***************************************************************************)
EXTENDS Integers, FiniteSets, FiniteSetsExt

CONSTANTS Proc,        \* processes that take the lock
          NoProc,      \* none of them
          NumServers,  \* config servers
          Skewed,      \* the processes' clocks may differ
          MaxTs,       \* bound: lock IDs
          MaxErrors,   \* bound: failed requests
          MaxCrashes   \* bound: crashes of processes

ASSUME DistLockAssumption ==
    /\ NoProc \notin Proc
    /\ NumServers \in Nat \ {0, 1} /\ Skewed \in BOOLEAN
    /\ MaxTs \in Nat /\ MaxErrors \in Nat /\ MaxCrashes \in Nat

Server == 1 .. NumServers
LockID == 1 .. MaxTs

VARIABLES
    doc,       \* of each server: the lock's document: ts, state and process
    owner,     \* of each lock ID: the process that generated it, or NoProc
    job,       \* of each process: its lock_try or unlock, see Idle
    lastPing,  \* of each process: the ts of its lastPingCheck, or 0
    old,       \* of each process: _oldLockOIDs of its pinger
    late,      \* of each process: the late unlock of its pinger, see NotLate
    opened,    \* history: a document was opened beside an attempt, see Opens
    errors,    \* failed requests so far
    crashes    \* crashes so far

vars == <<doc, owner, job, lastPing, old, late, opened, errors, crashes>>

\* The document that case 1 of lock_try inserts.
InitialDoc == [ts |-> 0, state |-> 0, process |-> NoProc]

Idle == [pc     |-> "idle",
         ts     |-> 0,           \* lockDetails' ts
         o      |-> InitialDoc,  \* the document that was read (o, indUpdate)
         at     |-> 1,           \* the server that the update reaches next
         hit    |-> {},          \* the servers on which it matched (n = 1)
         failed |-> FALSE,       \* it had an error on some server
         max    |-> 0]           \* currLock's ts in the tournament

NotLate == [ts |-> 0, at |-> 1, failed |-> FALSE]

Init ==
    /\ doc = [s \in Server |-> InitialDoc]
    /\ owner = [t \in LockID |-> NoProc]
    /\ job = [p \in Proc |-> Idle]
    /\ lastPing = [p \in Proc |-> 0]
    /\ old = [p \in Proc |-> {}]
    /\ late = [p \in Proc |-> NotLate]
    /\ opened = FALSE /\ errors = 0 /\ crashes = 0

Dead(p) == job[p].pc = "dead"

\* OID::gen
NewIDs(p) ==
    {t \in LockID : /\ owner[t] = NoProc
                    /\ \A u \in LockID : owner[u] = p => u < t
                    /\ Skewed \/ \A u \in LockID : u < t <=> owner[u] # NoProc}

-----------------------------------------------------------------------------
(* SyncClusterConnection::update: one write per server, then the results   *)
(* (n) are compared.                                                       *)

Error == errors < MaxErrors /\ errors' = errors + 1

\* An attempt of q that has the lock's document on some server, by itself or
\* through the tournament.
Contends(q) ==
    \/ job[q].pc \in {"compare", "grab", "reread", "finalize"}
    \/ job[q].pc = "acquire" /\ (job[q].hit # {} \/ job[q].failed)

\* The step sets the state of a document to 0 while another process contends.
Opens(p) ==
    opened' = (opened \/ /\ \E s \in Server : doc'[s].state < doc[s].state
                         /\ \E q \in Proc \ {p} : Contends(q))

\* The write of p to its next server, with query q and change c.  On an error
\* it may or may not have been applied, and the other servers are written (only
\* getlasterror failed) or not (the update itself did, or prepare).  An error
\* of the findOne that follows an update looks the same.
WriteNext(p, q, c) ==
    LET s == job[p].at
        applied == IF q THEN [doc EXCEPT ![s] = c] ELSE doc
    IN  /\ s \in Server
        /\ \/ /\ doc' = applied
              /\ job' = [job EXCEPT ![p].at = s + 1,
                                    ![p].hit = IF q THEN @ \union {s} ELSE @]
              /\ UNCHANGED errors
           \/ /\ Error
              /\ doc' \in {doc, applied}
              /\ \E n \in {s + 1, NumServers + 1} :
                    job' = [job EXCEPT ![p].at = n, ![p].failed = TRUE]
        /\ Opens(p)
        /\ UNCHANGED <<owner, lastPing, old, late, crashes>>

Written(p) == job[p].at > NumServers

\* The next update or read of p, about document o, starts from the first
\* server.
To(p, pc, o) == [Idle EXCEPT !.pc = pc, !.ts = job[p].ts, !.o = o]

-----------------------------------------------------------------------------
(* lock_try *)

\* recTSChange or recPingChange: the time starts to count.
Changed(p, d) == lastPing[p] # d.ts \/ (d.state = 2 /\ ~Dead(d.process))

\* elapsed > takeover
Forceable(p, d) == ~Changed(p, d) /\ \A q \in Proc : job[q].ts # d.ts

\* The document is read from some server that answers.  Case 3: a new ID and
\* the update that acquires.  Case 2: a set lock is forced, or its ts noted.
Read(p) ==
    /\ job[p].pc = "idle"
    /\ \E s \in Server :
          LET d == doc[s]
          IN  \/ /\ d.state = 0
                 /\ \E t \in NewIDs(p) :
                       /\ owner' = [owner EXCEPT ![t] = p]
                       /\ job' = [job EXCEPT ![p] = [Idle EXCEPT !.pc = "acquire",
                                                                 !.ts = t, !.o = d]]
                 /\ lastPing' = [lastPing EXCEPT ![p] = 0]
              \/ /\ d.state > 0
                 /\ Forceable(p, d)
                 /\ job' = [job EXCEPT ![p] = [Idle EXCEPT !.pc = "force", !.o = d]]
                 /\ lastPing' = [lastPing EXCEPT ![p] = 0]
                 /\ UNCHANGED owner
              \/ /\ d.state > 0
                 /\ Changed(p, d)
                 /\ lastPing' = [lastPing EXCEPT ![p] = d.ts]
                 /\ UNCHANGED <<owner, job>>
    /\ UNCHANGED <<doc, old, late, opened, errors, crashes>>

\* Slip: the lock is forced whatever its ts has become.
ForceQueryByState(p, d) == d.state = job[p].o.state

\* "Make sure we break the lock with the correct ts".
ForceQuery(p, d) == d.ts = job[p].o.ts /\ d.state = job[p].o.state

ForceNext(p) ==
    /\ job[p].pc = "force"
    /\ LET d == doc[job[p].at]
       IN  WriteNext(p, ForceQuery(p, d), [d EXCEPT !.state = 0])

\* Forced on some server at least: a new ID and on to the update that acquires.
\* On none (another force won), or an exception: the attempt is over.
Forced(p) ==
    /\ job[p].pc = "force"
    /\ Written(p)
    /\ IF job[p].failed \/ job[p].hit = {}
         THEN job' = [job EXCEPT ![p] = Idle] /\ UNCHANGED owner
         ELSE \E t \in NewIDs(p) :
                 /\ owner' = [owner EXCEPT ![t] = p]
                 /\ job' = [job EXCEPT ![p] = [To(p, "acquire", job[p].o) EXCEPT !.ts = t]]
    /\ UNCHANGED <<doc, lastPing, old, late, opened, errors, crashes>>

\* A lock that was found open is acquired with its ts, one that was forced
\* without.
AcquireQuery(p, d) == d.state = 0 /\ (job[p].o.state = 0 => d.ts = job[p].o.ts)

Acquire(p) ==
    /\ job[p].pc = "acquire"
    /\ LET d == doc[job[p].at]
       IN  WriteNext(p, AcquireQuery(p, d),
                     [ts |-> job[p].ts, state |-> 1, process |-> p])

\* Acquired everywhere: finalize.  Nowhere, or an exception: the attempt is
\* over.  UpdateNotTheSame: the tournament.
Acquired(p) ==
    /\ job[p].pc = "acquire"
    /\ Written(p)
    /\ job' = [job EXCEPT ![p] =
                 CASE job[p].failed \/ job[p].hit = {} -> Idle
                   [] job[p].hit = Server /\ ~job[p].failed -> To(p, "finalize", InitialDoc)
                   [] OTHER -> To(p, "compare", InitialDoc)]
    /\ UNCHANGED <<doc, owner, lastPing, old, late, opened, errors, crashes>>

\* A finished attempt, with ID t left to the pinger.  addUnlockOID waits for
\* the _mutex, which the pinger holds through its late unlocks.
LeaveToPinger(p, t) ==
    /\ late[p] = NotLate
    /\ old' = [old EXCEPT ![p] = @ \union {t}]
    /\ job' = [job EXCEPT ![p] = Idle]

\* The next server of the tournament; its document counts.
NextCompare(p, d) ==
    job' = [job EXCEPT ![p] = [To(p, "compare", InitialDoc) EXCEPT
                                 !.at = job[p].at + 1, !.max = Max({job[p].max, d.ts})]]

\* The tournament reads the document of the next server, to grab it if it is
\* older or open.
Grabs(p, d) == d.ts < job[p].ts \/ d.state = 0

Compare(p) ==
    /\ job[p].pc = "compare"
    /\ job[p].at \in Server
    /\ LET d == doc[job[p].at]
       IN  IF Grabs(p, d)
             THEN job' = [job EXCEPT ![p].pc = "grab", ![p].o = d]
             ELSE NextCompare(p, d)
    /\ UNCHANGED <<doc, owner, lastPing, old, late, opened, errors, crashes>>

GrabQuery(p, d) == d.ts = job[p].o.ts

Grab(p) ==
    /\ job[p].pc = "grab"
    /\ LET s == job[p].at
       IN  doc' = IF GrabQuery(p, doc[s])
                    THEN [doc EXCEPT ![s].ts = job[p].ts, ![s].state = 1]
                    ELSE doc
    /\ job' = [job EXCEPT ![p].pc = "reread"]
    /\ UNCHANGED <<owner, lastPing, old, late, opened, errors, crashes>>

\* "The tournament was interfered": the document is open again.
Reread(p) ==
    /\ job[p].pc = "reread"
    /\ LET d == doc[job[p].at]
       IN  IF d.state = 0
             THEN LeaveToPinger(p, job[p].ts)
             ELSE NextCompare(p, d) /\ UNCHANGED old
    /\ UNCHANGED <<doc, owner, lastPing, late, opened, errors, crashes>>

\* An exception of the tournament: nothing is left to the pinger.
CompareFails(p) ==
    /\ job[p].pc \in {"compare", "grab", "reread"}
    /\ Error
    /\ job' = [job EXCEPT ![p] = Idle]
    /\ UNCHANGED <<doc, owner, lastPing, old, late, opened, crashes>>

\* The largest ts is the winner.
Compared(p) ==
    /\ job[p].pc = "compare"
    /\ Written(p)
    /\ IF job[p].max = job[p].ts
         THEN job' = [job EXCEPT ![p] = To(p, "finalize", InitialDoc)] /\ UNCHANGED old
         ELSE LeaveToPinger(p, job[p].ts)
    /\ UNCHANGED <<doc, owner, lastPing, late, opened, errors, crashes>>

\* The update that finalizes has no ts in its query.
Finalize(p) ==
    /\ job[p].pc = "finalize"
    /\ WriteNext(p, TRUE, [ts |-> job[p].ts, state |-> 2, process |-> p])

\* The document is read again; it is what unlock will be given.
Finalized(p) ==
    /\ job[p].pc = "finalize"
    /\ Written(p)
    /\ IF job[p].failed
         THEN LeaveToPinger(p, job[p].ts)
         ELSE /\ \E s \in Server : job' = [job EXCEPT ![p] = To(p, "held", doc[s])]
              /\ UNCHANGED old
    /\ UNCHANGED <<doc, owner, lastPing, late, opened, errors, crashes>>

-----------------------------------------------------------------------------
(* unlock, and the late unlocks of the pinger *)

\* A document that is not finalized is "invalid" and left alone.
Unlock(p) ==
    /\ job[p].pc = "held"
    /\ job' = [job EXCEPT ![p] = IF job[p].o.state = 2 THEN To(p, "unlock", job[p].o) ELSE Idle]
    /\ UNCHANGED <<doc, owner, lastPing, old, late, opened, errors, crashes>>

\* "Use ts when updating lock, so that new locks can be sure they won't get
\* trampled."
UnlockQuery(d, t) == d.ts = t

UnlockNext(p) ==
    /\ job[p].pc = "unlock"
    /\ LET d == doc[job[p].at]
       IN  WriteNext(p, UnlockQuery(d, job[p].o.ts), [d EXCEPT !.state = 0])

\* Unlocked on some server, cleanly or messily.  On none, or an exception: it
\* is tried again, in the end by the pinger.
Unlocked(p) ==
    /\ job[p].pc = "unlock"
    /\ Written(p)
    /\ \/ /\ ~job[p].failed /\ job[p].hit # {}
          /\ job' = [job EXCEPT ![p] = Idle]
          /\ UNCHANGED old
       \/ /\ job[p].failed \/ job[p].hit = {}
          /\ job' = [job EXCEPT ![p] = To(p, "unlock", job[p].o)]
          /\ UNCHANGED old
       \/ /\ job[p].failed \/ job[p].hit = {}
          /\ LeaveToPinger(p, job[p].o.ts)
    /\ UNCHANGED <<doc, owner, lastPing, late, opened, errors, crashes>>

\* Slip: the ID leaves the list before it is known to be unlocked.
LateUnlockTaken(p) ==
    /\ ~Dead(p)
    /\ late[p] = NotLate
    /\ \E t \in old[p] : /\ late' = [late EXCEPT ![p].ts = t]
                         /\ old' = [old EXCEPT ![p] = @ \ {t}]
    /\ UNCHANGED <<doc, owner, job, lastPing, opened, errors, crashes>>

\* The pinger's thread takes an ID of its list.
LateUnlock(p) ==
    /\ ~Dead(p)
    /\ late[p] = NotLate
    /\ \E t \in old[p] : late' = [late EXCEPT ![p].ts = t]
    /\ UNCHANGED <<doc, owner, job, lastPing, old, opened, errors, crashes>>

LateUnlockNext(p) ==
    /\ ~Dead(p)
    /\ late[p].ts # 0
    /\ late[p].at \in Server
    /\ LET s == late[p].at
           d == doc[s]
           applied == IF UnlockQuery(d, late[p].ts)
                        THEN [doc EXCEPT ![s].state = 0] ELSE doc
       IN  \/ /\ doc' = applied
              /\ late' = [late EXCEPT ![p].at = s + 1]
              /\ UNCHANGED errors
           \/ /\ Error
              /\ doc' \in {doc, applied}
              /\ \E n \in {s + 1, NumServers + 1} :
                    late' = [late EXCEPT ![p].at = n, ![p].failed = TRUE]
    /\ Opens(p)
    /\ UNCHANGED <<owner, job, lastPing, old, crashes>>

\* "Either the update went through or it didn't, either way we're done", unless
\* there was an exception.
LateUnlocked(p) ==
    /\ ~Dead(p)
    /\ late[p].at > NumServers
    /\ old' = [old EXCEPT ![p] = IF late[p].failed THEN @ ELSE @ \ {late[p].ts}]
    /\ late' = [late EXCEPT ![p] = NotLate]
    /\ UNCHANGED <<doc, owner, job, lastPing, opened, errors, crashes>>

Crash(p) ==
    /\ ~Dead(p)
    /\ crashes < MaxCrashes
    /\ crashes' = crashes + 1
    /\ job' = [job EXCEPT ![p] = [Idle EXCEPT !.pc = "dead"]]
    /\ old' = [old EXCEPT ![p] = {}]
    /\ late' = [late EXCEPT ![p] = NotLate]
    /\ lastPing' = [lastPing EXCEPT ![p] = 0]
    /\ UNCHANGED <<doc, owner, opened, errors>>

Next ==
    \E p \in Proc :
       \/ Read(p) \/ ForceNext(p) \/ Forced(p) \/ Acquire(p) \/ Acquired(p)
       \/ Compare(p) \/ Grab(p) \/ Reread(p) \/ CompareFails(p) \/ Compared(p)
       \/ Finalize(p) \/ Finalized(p)
       \/ Unlock(p) \/ UnlockNext(p) \/ Unlocked(p)
       \/ LateUnlock(p) \/ LateUnlockNext(p) \/ LateUnlocked(p)
       \/ Crash(p)

Spec == Init /\ [][Next]_vars

-----------------------------------------------------------------------------
(* Properties. *)

\* Types of all the state.
TypeOK ==
    /\ doc \in [Server -> [ts : 0 .. MaxTs, state : 0 .. 2, process : Proc \union {NoProc}]]
    /\ owner \in [LockID -> Proc \union {NoProc}]
    /\ \A p \in Proc :
          /\ job[p].pc \in {"idle", "force", "acquire", "compare", "grab", "reread",
                            "finalize", "held", "unlock", "dead"}
          /\ job[p].ts \in 0 .. MaxTs /\ job[p].max \in 0 .. MaxTs
          /\ job[p].at \in 1 .. NumServers + 1 /\ job[p].hit \subseteq Server
          /\ late[p].ts \in {0} \union old[p] /\ late[p].at \in 1 .. NumServers + 1
    /\ lastPing \in [Proc -> 0 .. MaxTs]
    /\ old \in [Proc -> SUBSET LockID]

\* At most one live process holds the lock.
MutualExclusion ==
    \A p, q \in Proc : job[p].pc = "held" /\ job[q].pc = "held" => p = q

\* "all lock docs are required for a lock to be held": the documents of a held
\* lock are the holder's and finalized, on every server, until it unlocks.
OwnsAll(p) ==
    \A s \in Server : doc[s] = [ts |-> job[p].ts, state |-> 2, process |-> p]

\* The lock is exclusive and its holder has every document, whatever attempts,
\* forced locks, late unlocks, errors and crashes did to the documents before,
\* as long as no document was opened while another process was in the middle
\* of an attempt.
ExclusiveUnlessOpened ==
    opened \/ (MutualExclusion /\ \A p \in Proc : job[p].pc = "held" => OwnsAll(p))
=============================================================================
