---------------------------- MODULE DistLockProofs ----------------------------
(***************************************************************************)
(* Proofs about DistLock for any processes, any number (at least two) of   *)
(* config servers and of lock IDs, clocks that agree or not, and any       *)
(* number of errors and crashes.                                           *)
(***************************************************************************)
EXTENDS DistLock, TLAPS

Doc == [ts : 0 .. MaxTs, state : 0 .. 2, process : Proc \union {NoProc}]

Job == [pc : {"idle", "force", "acquire", "compare", "grab", "reread",
              "finalize", "held", "unlock", "dead"},
        ts : 0 .. MaxTs, o : Doc, at : 1 .. NumServers + 1, hit : SUBSET Server,
        failed : BOOLEAN, max : 0 .. MaxTs]

Late == [ts : 0 .. MaxTs, at : 1 .. NumServers + 1, failed : BOOLEAN]

\* The pcs between OID::gen and the end of lock_try, and of its tournament.
Trying     == {"acquire", "compare", "grab", "reread", "finalize"}
Tournament == {"compare", "grab", "reread"}

\* TypeOK with what the steps need to keep it: documents that are set have an
\* ID, and a process has one from the moment it tries until it has unlocked.
Typed ==
    /\ doc \in [Server -> Doc]
    /\ owner \in [LockID -> Proc \union {NoProc}]
    /\ job \in [Proc -> Job]
    /\ lastPing \in [Proc -> 0 .. MaxTs]
    /\ old \in [Proc -> SUBSET LockID]
    /\ late \in [Proc -> Late]
    /\ \A s \in Server : doc[s].state > 0 => doc[s].ts # 0
    /\ \A p \in Proc :
          /\ job[p].ts # 0 <=> job[p].pc \in Trying \union {"held", "unlock"}
          /\ job[p].o.state > 0 => job[p].o.ts # 0
          /\ job[p].pc = "force" => job[p].o.state > 0
          /\ job[p].pc = "unlock" => job[p].o.ts # 0
          /\ job[p].pc \in {"grab", "reread"} => job[p].at \in Server
          /\ late[p].ts \in {0} \union old[p]

\* An ID belongs to one process, whose IDs grow.
IDs ==
    /\ \A p \in Proc : job[p].ts # 0 => owner[job[p].ts] = p
    /\ \A p \in Proc : \A t \in old[p] :
          owner[t] = p /\ (job[p].ts # 0 => t < job[p].ts)
    /\ \A s \in Server : doc[s].ts # 0 => owner[doc[s].ts] # NoProc
    /\ \A p \in Proc : job[p].o.ts # 0 => owner[job[p].o.ts] # NoProc
    /\ \A p \in Proc : job[p].pc \in {"held", "unlock"} => job[p].o.ts = job[p].ts

\* Nobody will write the ID t into a document any more.
Retired(t) == \A r \in Proc : job[r].ts = t => job[r].pc = "unlock"

\* The ID of an open document is retired; a lock about to be forced is
\* nobody's.
Spent ==
    /\ \A s \in Server : doc[s].state = 0 /\ doc[s].ts # 0 => Retired(doc[s].ts)
    /\ \A p \in Proc : job[p].pc = "force" => \A r \in Proc : job[r].ts # job[p].o.ts

\* What an attempt between Compare and Grab knows of the document it read.
Grabbing ==
    \A p \in Proc : job[p].pc = "grab" =>
       /\ job[p].at \in Server
       /\ job[p].o.state = 0 /\ job[p].o.ts # 0 => Retired(job[p].o.ts)
       /\ job[p].o.state = 0 /\ doc[job[p].at].ts = job[p].o.ts => doc[job[p].at].state = 0
       /\ job[p].o.state > 0 => job[p].o.ts < job[p].ts
       /\ doc[job[p].at].ts = job[p].o.ts \/ doc[job[p].at].ts \notin old[p]

\* The server s, where p was first, speaks for p: its document is set, with the
\* ID of p or a larger one, and everybody who has passed it has seen that.
Witness(p, s) ==
    /\ doc[s].state > 0 /\ doc[s].ts >= job[p].ts
    /\ \A q \in Proc \ {p} :
          /\ job[q].pc = "acquire" => s \notin job[q].hit
          /\ job[q].pc \in Tournament /\ s < job[q].at => job[q].max >= job[p].ts
          /\ job[q].pc \in {"finalize", "held"} => job[q].ts >= job[p].ts

Witnessed ==
    \A p \in Proc :
       /\ job[p].pc = "acquire" => \A s \in job[p].hit : Witness(p, s)
       /\ job[p].pc \in Tournament \union {"finalize", "held"} =>
             \E s \in Server : Witness(p, s)

\* The servers that the tournament of p has passed.
Passed(p) == {s \in Server : \/ job[p].pc \in Tournament /\ s < job[p].at
                             \/ job[p].pc = "finalize"}

\* They are set, and not with an ID that the pinger of p may still unlock.
PassedAreSet ==
    \A p \in Proc :
       /\ \A s \in Passed(p) : doc[s].state > 0 /\ doc[s].ts \notin old[p]
       /\ job[p].pc = "reread" => job[p].at \in Server /\ doc[job[p].at].ts \notin old[p]

\* Nothing touches what has been finalized.
Finals ==
    \A p \in Proc :
       /\ job[p].pc = "finalize" /\ ~job[p].failed =>
             \A s \in Server : s < job[p].at =>
                doc[s] = [ts |-> job[p].ts, state |-> 2, process |-> p]
       /\ job[p].pc = "held" => OwnsAll(p)

Safe == IDs /\ Spent /\ Grabbing /\ Witnessed /\ PassedAreSet /\ Finals

IInv == Typed /\ (opened \/ Safe)

-----------------------------------------------------------------------------
(* Types.                                                                  *)

LEMMA Constants ==
    /\ NumServers \in Nat /\ NumServers >= 2 /\ MaxTs \in Nat /\ NoProc \notin Proc
    /\ 1 \in Server
    /\ \A s \in Server : s \in Nat /\ s + 1 \in 1 .. NumServers + 1
    /\ NumServers + 1 \in 1 .. NumServers + 1
    /\ \A k \in 1 .. NumServers + 1 : k > NumServers <=> k \notin Server
    /\ \A t \in LockID : t \in 0 .. MaxTs /\ t \in Nat /\ t # 0
    /\ \A t \in 0 .. MaxTs : t \in Nat /\ (t # 0 => t \in LockID)
  BY DistLockAssumption DEF Server, LockID

LEMMA IdleType ==
    /\ InitialDoc \in Doc /\ InitialDoc.ts = 0 /\ InitialDoc.state = 0
    /\ Idle \in Job /\ Idle.pc = "idle" /\ Idle.ts = 0 /\ Idle.o = InitialDoc /\ Idle.at = 1
    /\ Idle.hit = {} /\ Idle.failed = FALSE /\ Idle.max = 0
    /\ NotLate \in Late /\ NotLate.ts = 0
<1>1. InitialDoc \in Doc /\ InitialDoc.ts = 0 /\ InitialDoc.state = 0
  BY Constants DEF InitialDoc, Doc
<1>2. /\ Idle.pc = "idle" /\ Idle.ts = 0 /\ Idle.o = InitialDoc /\ Idle.at = 1
      /\ Idle.hit = {} /\ Idle.failed = FALSE /\ Idle.max = 0
  BY Zenon DEF Idle
<1>3. 0 \in 0 .. MaxTs /\ 1 \in 1 .. NumServers + 1 /\ {} \in SUBSET Server
  BY Constants
<1>4. Idle \in Job
  BY <1>1, <1>3, Zenon DEF Idle, Job
<1>5. NotLate \in Late /\ NotLate.ts = 0
  BY <1>3, Zenon DEF NotLate, Late
<1> QED
  BY <1>1, <1>2, <1>4, <1>5, Zenon

LEMMA InitialFields ==
    InitialDoc \in Doc /\ InitialDoc.ts = 0 /\ (InitialDoc.state > 0 => InitialDoc.ts # 0)
  BY IdleType

\* The record that To makes.
LEMMA ToType ==
    ASSUME Typed, NEW p \in Proc, NEW o \in Doc,
           NEW pc \in {"acquire", "compare", "finalize", "held", "unlock"}
    PROVE  /\ To(p, pc, o) \in Job
           /\ To(p, pc, o).pc = pc /\ To(p, pc, o).ts = job[p].ts /\ To(p, pc, o).o = o
           /\ To(p, pc, o).at = 1 /\ To(p, pc, o).hit = {}
<1>1. job[p].ts \in 0 .. MaxTs
  BY Zenon DEF Typed, Job
<1> QED
  BY <1>1, IdleType, Zenon DEF To, Job

LEMMA InitTyped ==
    ASSUME Init
    PROVE  Typed
<1>1. /\ doc \in [Server -> Doc] /\ owner \in [LockID -> Proc \union {NoProc}]
      /\ job \in [Proc -> Job] /\ late \in [Proc -> Late]
  BY IdleType, Zenon DEF Init
<1>5. lastPing \in [Proc -> 0 .. MaxTs] /\ old \in [Proc -> SUBSET LockID]
  BY Constants DEF Init
<1>2. \A s \in Server : doc[s].state = 0
  BY IdleType, Zenon DEF Init
<1>3. \A p \in Proc : /\ job[p].ts = 0 /\ job[p].pc = "idle" /\ job[p].o.state = 0
                      /\ late[p].ts = 0
  BY IdleType, Zenon DEF Init
<1>4. "idle" \notin Trying \union {"held", "unlock"}
  BY Zenon DEF Trying
<1> QED
  BY <1>1, <1>2, <1>3, <1>4, <1>5 DEF Typed

-----------------------------------------------------------------------------
(* What Safe says, in the form the steps use.                              *)

\* The fields of the state that Safe reads, one by one.
LEMMA Fields ==
    ASSUME Typed
    PROVE  /\ \A s \in Server : /\ doc[s] \in Doc
                                /\ doc[s].ts \in 0 .. MaxTs /\ doc[s].ts \in Nat
                                /\ doc[s].state \in 0 .. 2 /\ doc[s].state \in Nat
           /\ \A p \in Proc :
                 /\ job[p] \in Job /\ job[p].o \in Doc
                 /\ job[p].ts \in 0 .. MaxTs /\ job[p].ts \in Nat
                 /\ job[p].o.ts \in 0 .. MaxTs /\ job[p].o.ts \in Nat
                 /\ job[p].o.state \in 0 .. 2 /\ job[p].o.state \in Nat
                 /\ job[p].at \in 1 .. NumServers + 1 /\ job[p].at \in Nat
                 /\ job[p].hit \subseteq Server
                 /\ job[p].max \in 0 .. MaxTs /\ job[p].max \in Nat
                 /\ old[p] \subseteq LockID
<1>1. \A s \in Server : doc[s] \in Doc
  BY Zenon DEF Typed
<1>2. \A p \in Proc : job[p] \in Job /\ old[p] \subseteq LockID
  BY Zenon DEF Typed
<1>3. \A d \in Doc : d.ts \in 0 .. MaxTs /\ d.state \in 0 .. 2
  BY Zenon DEF Doc
<1>4. \A j \in Job : /\ j.o \in Doc /\ j.ts \in 0 .. MaxTs /\ j.at \in 1 .. NumServers + 1
                     /\ j.hit \subseteq Server /\ j.max \in 0 .. MaxTs
  BY Zenon DEF Job
<1>5. /\ \A k \in 0 .. MaxTs : k \in Nat
      /\ \A k \in 0 .. 2 : k \in Nat
      /\ \A k \in 1 .. NumServers + 1 : k \in Nat
  BY Constants
<1> QED
  BY <1>1, <1>2, <1>3, <1>4, <1>5, Zenon

\* IDs in use are not shared, nor left to a pinger.
LEMMA Distinct ==
    ASSUME Typed, IDs, NEW p \in Proc, job[p].ts # 0
    PROVE  /\ \A q \in Proc \ {p} : job[q].ts # job[p].ts
           /\ \A q \in Proc : job[p].ts \notin old[q]
           /\ \A t \in old[p] : t < job[p].ts
           /\ owner[job[p].ts] = p /\ owner[job[p].ts] # NoProc
<1>1. owner[job[p].ts] = p /\ p # NoProc
  BY Constants, Zenon DEF IDs
<1>2. \A q \in Proc \ {p} : job[q].ts # job[p].ts
  BY <1>1, Zenon DEF IDs
<1>3. \A t \in old[p] : t < job[p].ts
  BY Zenon DEF IDs
<1>4. job[p].ts \notin old[p]
  BY <1>3, Fields
<1>5. \A q \in Proc \ {p} : job[p].ts \notin old[q]
  BY <1>1, Zenon DEF IDs
<1> QED
  BY <1>1, <1>2, <1>3, <1>4, <1>5, Zenon

\* Two processes cannot both have won the tournament.
LEMMA OneWinner ==
    ASSUME Typed, IDs, Witnessed, NEW p \in Proc, NEW q \in Proc,
           job[p].pc \in {"finalize", "held"}, job[q].pc \in {"finalize", "held"}
    PROVE  p = q
<1> SUFFICES ASSUME p # q PROVE FALSE
  BY Zenon
<1>1. job[q].ts >= job[p].ts
  BY Zenon DEF Witnessed, Witness
<1>2. job[p].ts >= job[q].ts
  BY Zenon DEF Witnessed, Witness
<1>3. job[p].ts = job[q].ts
  BY <1>1, <1>2, Fields
<1>4. job[p].ts # 0
  BY Zenon DEF Typed, Trying
<1> QED
  BY <1>3, <1>4, Distinct, Zenon

\* The documents of a holder.
LEMMA HolderDocs ==
    ASSUME Finals, NEW q \in Proc, job[q].pc = "held", NEW s \in Server
    PROVE  doc[s].ts = job[q].ts /\ doc[s].state = 2
<1>1. doc[s] = [ts |-> job[q].ts, state |-> 2, process |-> q]
  BY Zenon DEF Finals, OwnsAll
<1> QED
  BY <1>1

\* A step of p leaves the other processes' attempts and lists alone.
OthersStay(p) == \A q \in Proc \ {p} : job'[q] = job[q] /\ old'[q] = old[q]

\* An attempt, or an unlock, of p is over; its ID may go to the pinger.
LEMMA RetreatSafe ==
    ASSUME Typed, Safe, NEW p \in Proc, OthersStay(p), UNCHANGED <<doc, owner>>,
           job'[p].pc \in {"idle", "dead"}, job'[p].ts = 0,
           job'[p].o.ts = 0,
           \A t \in old'[p] : t \in old[p] \/ (t = job[p].ts /\ job[p].ts # 0)
    PROVE  Safe'
<1> USE DEF Safe, OthersStay
<1>1. IDs'
  <2>1. \A q \in Proc \ {p} : /\ job'[q].ts # 0 => owner'[job'[q].ts] = q
                              /\ job'[q].o.ts # 0 => owner'[job'[q].o.ts] # NoProc
                              /\ job'[q].pc \in {"held", "unlock"} => job'[q].o.ts = job'[q].ts
    BY DEF IDs
  <2>2. \A q \in Proc \ {p} : \A t \in old'[q] :
           owner'[t] = q /\ (job'[q].ts # 0 => t < job'[q].ts)
    BY Zenon DEF IDs
  <2>3. \A t \in old'[p] : owner'[t] = p
    BY Zenon DEF IDs
  <2>4. \A s \in Server : doc'[s].ts # 0 => owner'[doc'[s].ts] # NoProc
    BY Zenon DEF IDs
  <2> QED
    BY <2>1, <2>2, <2>3, <2>4, Zenon DEF IDs
<1>2. \A t : t # 0 /\ Retired(t) => Retired(t)'
  BY Zenon DEF Retired
<1>3. Spent'
  <2>1. \A s \in Server : doc[s].state = 0 /\ doc[s].ts # 0 => Retired(doc[s].ts)'
    BY <1>2, Zenon DEF Spent
  <2>2. \A q \in Proc \ {p} : job[q].pc = "force" => \A r \in Proc : job'[r].ts # job[q].o.ts
    <3> SUFFICES ASSUME NEW q \in Proc \ {p}, job[q].pc = "force", NEW r \in Proc
                 PROVE  job'[r].ts # job[q].o.ts
      BY Zenon
    <3>1. job[q].o.ts # 0
      BY Fields, Zenon DEF Typed
    <3> QED
      BY <3>1 DEF Spent
  <2> QED
    BY <2>1, <2>2 DEF Spent
<1>4. Grabbing'
  <2> SUFFICES ASSUME NEW q \in Proc \ {p}, job[q].pc = "grab"
               PROVE  /\ job[q].at \in Server
                      /\ job[q].o.state = 0 /\ job[q].o.ts # 0 => Retired(job[q].o.ts)'
                      /\ job[q].o.state = 0 /\ doc[job[q].at].ts = job[q].o.ts =>
                            doc[job[q].at].state = 0
                      /\ job[q].o.state > 0 => job[q].o.ts < job[q].ts
                      /\ doc[job[q].at].ts = job[q].o.ts \/ doc[job[q].at].ts \notin old[q]
    BY Zenon DEF Grabbing
  <2> QED
    BY <1>2, Zenon DEF Grabbing
<1>5. Witnessed'
  <2>1. \A q \in Proc \ {p} : \A s \in Server : Witness(q, s) => Witness(q, s)'
    BY DEF Witness, Tournament
  <2> QED
    BY <2>1, Fields, Zenon DEF Witnessed, Tournament
<1>6. PassedAreSet'
  BY Zenon DEF PassedAreSet, Passed, Tournament
<1>7. Finals'
  BY DEF Finals, OwnsAll
<1> QED
  BY <1>1, <1>3, <1>4, <1>5, <1>6, <1>7, Zenon

\* A process starts an attempt with a new ID.
LEMMA StartSafe ==
    ASSUME Typed, Safe, NEW p \in Proc, NEW t \in NewIDs(p), OthersStay(p),
           UNCHANGED <<doc, old>>, owner' = [owner EXCEPT ![t] = p],
           job'[p].pc = "acquire", job'[p].ts = t, job'[p].hit = {},
           job'[p].o.ts # 0 => owner[job'[p].o.ts] # NoProc,
           job'[p].o.ts \in 0 .. MaxTs
    PROVE  Safe'
<1> USE DEF Safe, OthersStay
<1>1. /\ t \in LockID /\ t # 0 /\ owner[t] = NoProc /\ p # NoProc
      /\ \A u \in LockID : owner[u] = p => u < t
  BY Constants, Zenon DEF NewIDs
<1>2. /\ \A u \in LockID \ {t} : owner'[u] = owner[u]
      /\ owner'[t] = p
  BY <1>1, Zenon DEF Typed
<1>3. /\ \A s \in Server : doc[s].ts # t
      /\ \A q \in Proc : job[q].ts # t /\ job[q].o.ts # t /\ t \notin old[q]
  <2>1. \A s \in Server : doc[s].ts # t
    BY <1>1, Zenon DEF IDs
  <2>2. \A q \in Proc : job[q].ts # t
    BY <1>1, Constants DEF IDs
  <2>3. \A q \in Proc : job[q].o.ts # t
    BY <1>1, Zenon DEF IDs
  <2>4. \A q \in Proc : t \notin old[q]
    BY <1>1, Constants DEF IDs
  <2> QED
    BY <2>1, <2>2, <2>3, <2>4, Zenon
<1>4. IDs'
  <2>1. \A q \in Proc : job'[q].ts # 0 => owner'[job'[q].ts] = q
    BY <1>2, <1>3, Fields, Constants DEF IDs
  <2>2. \A q \in Proc : \A u \in old[q] : owner'[u] = q /\ (job'[q].ts # 0 => u < job'[q].ts)
    <3>1. \A q \in Proc : \A u \in old[q] : u \in LockID \ {t} /\ owner'[u] = q /\ owner[u] = q
      BY <1>2, <1>3, Fields DEF IDs
    <3> QED
      BY <1>1, <3>1 DEF IDs
  <2>3. \A s \in Server : doc'[s].ts # 0 => owner'[doc'[s].ts] # NoProc
    BY <1>2, <1>3, Fields, Constants DEF IDs
  <2>4. \A q \in Proc \ {p} : job'[q].o.ts # 0 => owner'[job'[q].o.ts] # NoProc
    BY <1>2, <1>3, Fields, Constants DEF IDs
  <2>5. job'[p].o.ts # 0 => owner'[job'[p].o.ts] # NoProc
    BY <1>1, <1>2, Constants, Zenon
  <2>6. \A q \in Proc : job'[q].pc \in {"held", "unlock"} => job'[q].o.ts = job'[q].ts
    BY Zenon DEF IDs
  <2> QED
    BY <2>1, <2>2, <2>3, <2>4, <2>5, <2>6, Zenon DEF IDs
<1>5. \A u : u # t /\ Retired(u) => Retired(u)'
  BY Zenon DEF Retired
<1>6. Spent'
  <2>1. \A s \in Server : doc[s].state = 0 /\ doc[s].ts # 0 => Retired(doc[s].ts)'
    BY <1>3, <1>5, Zenon DEF Spent
  <2>2. \A q \in Proc \ {p} : job[q].pc = "force" => \A r \in Proc : job'[r].ts # job[q].o.ts
    BY <1>3 DEF Spent
  <2> QED
    BY <2>1, <2>2 DEF Spent
<1>7. Grabbing'
  <2> SUFFICES ASSUME NEW q \in Proc \ {p}, job[q].pc = "grab"
               PROVE  /\ job[q].at \in Server
                      /\ job[q].o.state = 0 /\ job[q].o.ts # 0 => Retired(job[q].o.ts)'
                      /\ job[q].o.state = 0 /\ doc[job[q].at].ts = job[q].o.ts =>
                            doc[job[q].at].state = 0
                      /\ job[q].o.state > 0 => job[q].o.ts < job[q].ts
                      /\ doc[job[q].at].ts = job[q].o.ts \/ doc[job[q].at].ts \notin old[q]
    BY Zenon DEF Grabbing
  <2> QED
    BY <1>3, <1>5 DEF Grabbing
<1>8. Witnessed'
  <2>1. \A q \in Proc \ {p} : \A s \in Server : Witness(q, s) => Witness(q, s)'
    BY DEF Witness, Tournament
  <2> QED
    BY <2>1, Fields, Zenon DEF Witnessed, Tournament
<1>9. PassedAreSet'
  BY Zenon DEF PassedAreSet, Passed, Tournament
<1>10. Finals'
  BY DEF Finals, OwnsAll
<1> QED
  BY <1>4, <1>6, <1>7, <1>8, <1>9, <1>10, Zenon

\* A step of p inside an attempt, a force or an unlock: its ID stays.  The two
\* lemmas are what such a step leaves alone.
LEMMA KeepIDs ==
    ASSUME Typed, IDs, NEW p \in Proc, OthersStay(p), UNCHANGED <<owner, old>>,
           job'[p].ts = job[p].ts,
           job'[p].o.ts # 0 => owner[job'[p].o.ts] # NoProc,
           job'[p].pc \in {"held", "unlock"} => job'[p].o.ts = job[p].ts,
           \A s \in Server : doc'[s].ts # 0 => owner[doc'[s].ts] # NoProc
    PROVE  IDs'
<1> USE DEF OthersStay
<1>1. \A q \in Proc : /\ job'[q].ts # 0 => owner'[job'[q].ts] = q
                      /\ job'[q].o.ts # 0 => owner'[job'[q].o.ts] # NoProc
                      /\ job'[q].pc \in {"held", "unlock"} => job'[q].o.ts = job'[q].ts
  BY DEF IDs
<1>2. \A q \in Proc : \A t \in old'[q] :
           owner'[t] = q /\ (job'[q].ts # 0 => t < job'[q].ts)
  BY Zenon DEF IDs
<1> QED
  BY <1>1, <1>2, Zenon DEF IDs

LEMMA KeepRetired ==
    ASSUME NEW p \in Proc, OthersStay(p), job'[p].ts = job[p].ts,
           job[p].pc = "unlock" => job'[p].pc = "unlock"
    PROVE  /\ \A t : Retired(t) => Retired(t)'
           /\ \A t : (\A r \in Proc : job[r].ts # t) => \A r \in Proc : job'[r].ts # t
  BY Zenon DEF Retired, OthersStay

\* A process decides to force the lock.
LEMMA AimSafe ==
    ASSUME Typed, Safe, NEW p \in Proc, OthersStay(p), UNCHANGED <<doc, owner, old>>,
           job[p].pc = "idle", job'[p].pc = "force", job'[p].ts = 0,
           NEW s \in Server, job'[p].o = doc[s], doc[s].state > 0,
           \A q \in Proc : job[q].ts # doc[s].ts
    PROVE  Safe'
<1> USE DEF Safe, OthersStay
<1>1. job[p].ts = 0
  BY Zenon DEF Typed, Trying
<1>2. IDs'
  BY <1>1, KeepIDs DEF IDs
<1>3. /\ \A t : Retired(t) => Retired(t)'
      /\ \A t : (\A r \in Proc : job[r].ts # t) => \A r \in Proc : job'[r].ts # t
  BY <1>1, KeepRetired, Zenon
<1>4. Spent'
  <2>1. \A u \in Server : doc[u].state = 0 /\ doc[u].ts # 0 => Retired(doc[u].ts)'
    BY <1>3, Zenon DEF Spent
  <2>2. \A q \in Proc : job'[q].pc = "force" => \A r \in Proc : job[r].ts # job'[q].o.ts
    BY DEF Spent
  <2> QED
    BY <1>3, <2>1, <2>2, Zenon DEF Spent
<1>5. Grabbing'
  BY <1>3 DEF Grabbing
<1>6. Witnessed'
  <2>1. \A q \in Proc \ {p} : \A u \in Server : Witness(q, u) => Witness(q, u)'
    BY DEF Witness, Tournament
  <2> QED
    BY <2>1, Fields, Zenon DEF Witnessed, Tournament
<1>7. PassedAreSet'
  BY Zenon DEF PassedAreSet, Passed, Tournament
<1>8. Finals'
  BY DEF Finals, OwnsAll
<1> QED
  BY <1>2, <1>4, <1>5, <1>6, <1>7, <1>8, Zenon

\* unlock begins, or begins again.
LEMMA UnlockSafe ==
    ASSUME Typed, Safe, NEW p \in Proc, OthersStay(p), UNCHANGED <<doc, owner, old>>,
           job[p].pc \in {"held", "unlock"}, job'[p].pc = "unlock",
           job'[p].ts = job[p].ts, job'[p].o = job[p].o
    PROVE  Safe'
<1> USE DEF Safe, OthersStay
<1>1. IDs'
  BY KeepIDs DEF IDs
<1>2. /\ \A t : Retired(t) => Retired(t)'
      /\ \A t : (\A r \in Proc : job[r].ts # t) => \A r \in Proc : job'[r].ts # t
  BY KeepRetired, Zenon
<1>3. Spent'
  <2>1. \A u \in Server : doc[u].state = 0 /\ doc[u].ts # 0 => Retired(doc[u].ts)'
    BY <1>2, Zenon DEF Spent
  <2>2. \A q \in Proc : job'[q].pc = "force" => \A r \in Proc : job[r].ts # job'[q].o.ts
    BY Zenon DEF Spent
  <2> QED
    BY <1>2, <2>1, <2>2, Zenon DEF Spent
<1>4. Grabbing'
  BY <1>2 DEF Grabbing
<1>5. Witnessed'
  <2>1. \A q \in Proc \ {p} : \A u \in Server : Witness(q, u) => Witness(q, u)'
    BY DEF Witness, Tournament
  <2> QED
    BY <2>1, Fields, Zenon DEF Witnessed, Tournament
<1>6. PassedAreSet'
  BY Zenon DEF PassedAreSet, Passed, Tournament
<1>7. Finals'
  BY DEF Finals, OwnsAll
<1> QED
  BY <1>1, <1>3, <1>4, <1>5, <1>6, <1>7, Zenon

\* A step of p in a force, an unlock or a late unlock leaves the document of
\* server s alone, or opens it.  Nobody else contends for the lock then, or
\* "opened" records it, and the document is not the one of a holder.
LEMMA OpenSafe ==
    ASSUME Typed, Safe, NEW p \in Proc, NEW s \in Server, UNCHANGED <<owner, old>>,
           \A u \in Server \ {s} : doc'[u] = doc[u],
           doc'[s].ts = doc[s].ts, doc'[s] = doc[s] \/ doc'[s].state = 0,
           \A q \in Proc : /\ job'[q].pc = job[q].pc /\ job'[q].ts = job[q].ts
                           /\ job'[q].o = job[q].o
                           /\ job[q].pc \notin {"force", "unlock"} => job'[q] = job[q],
           doc'[s].state = doc[s].state \/ \A q \in Proc \ {p} : ~Contends(q),
           doc'[s] # doc[s] =>
              /\ Retired(doc[s].ts)
              /\ job[p].pc \in {"force", "unlock"} \/ doc[s].ts \in old[p]
              /\ \A q \in Proc : job[q].pc = "held" => job[q].ts # doc[s].ts
    PROVE  Safe'
<1> USE DEF Safe
<1>1. IDs'
  <2>1. \A q \in Proc : /\ job'[q].ts # 0 => owner'[job'[q].ts] = q
                        /\ job'[q].o.ts # 0 => owner'[job'[q].o.ts] # NoProc
                        /\ job'[q].pc \in {"held", "unlock"} => job'[q].o.ts = job'[q].ts
    BY DEF IDs
  <2>2. \A q \in Proc : \A t \in old'[q] :
           owner'[t] = q /\ (job'[q].ts # 0 => t < job'[q].ts)
    BY DEF IDs
  <2>3. \A u \in Server : doc'[u].ts # 0 => owner'[doc'[u].ts] # NoProc
    BY DEF IDs
  <2> QED
    BY <2>1, <2>2, <2>3, Zenon DEF IDs
<1>2. \A t : Retired(t) => Retired(t)'
  BY Zenon DEF Retired
<1>3. Spent'
  <2>1. \A u \in Server : doc'[u].state = 0 /\ doc'[u].ts # 0 => Retired(doc'[u].ts)
    BY DEF Spent
  <2>2. \A q \in Proc : job'[q].pc = "force" => \A r \in Proc : job'[r].ts # job'[q].o.ts
    BY DEF Spent
  <2> QED
    BY <1>2, <2>1, <2>2, Zenon DEF Spent
<1>4. Grabbing'
  <2> SUFFICES ASSUME NEW q \in Proc, job[q].pc = "grab"
               PROVE  /\ job[q].at \in Server
                      /\ job[q].o.state = 0 /\ job[q].o.ts # 0 => Retired(job[q].o.ts)'
                      /\ job[q].o.state = 0 /\ doc'[job[q].at].ts = job[q].o.ts =>
                            doc'[job[q].at].state = 0
                      /\ job[q].o.state > 0 => job[q].o.ts < job[q].ts
                      /\ doc'[job[q].at].ts = job[q].o.ts \/ doc'[job[q].at].ts \notin old[q]
    BY DEF Grabbing
  <2> QED
    BY <1>2 DEF Grabbing
<1>5. CASE doc'[s] = doc[s]
  <2>1. \A u \in Server : doc'[u] = doc[u]
    BY <1>5, Zenon
  <2>2. Witnessed'
    <3>1. \A q \in Proc : \A u \in Server : Witness(q, u) => Witness(q, u)'
      BY <2>1 DEF Witness, Tournament
    <3> QED
      BY <3>1, Fields, Zenon DEF Witnessed, Tournament
  <2>3. PassedAreSet'
    BY <2>1 DEF PassedAreSet, Passed, Tournament
  <2>4. Finals'
    BY <2>1 DEF Finals, OwnsAll
  <2> QED
    BY <1>1, <1>3, <1>4, <2>2, <2>3, <2>4, Zenon
<1>6. CASE doc'[s] # doc[s] /\ doc'[s].state = doc[s].state
  <2>1. \A u \in Server : doc'[u].ts = doc[u].ts /\ doc'[u].state = doc[u].state
    BY <1>6, Zenon
  <2>2. Witnessed'
    <3>1. \A q \in Proc : \A u \in Server : Witness(q, u) => Witness(q, u)'
      BY <2>1 DEF Witness, Tournament
    <3> QED
      BY <3>1, Fields DEF Witnessed, Tournament
  <2>3. PassedAreSet'
    BY <2>1 DEF PassedAreSet, Passed, Tournament
  <2>4. doc[s].state = 0
    BY <1>6, Zenon
  <2>5. Finals'
    BY <2>4 DEF Finals, OwnsAll
  <2> QED
    BY <1>1, <1>3, <1>4, <2>2, <2>3, <2>5
<1>7. CASE doc'[s] # doc[s] /\ doc'[s].state # doc[s].state
  <2>1. \A q \in Proc : job[q].pc # "held"
    <3>1. \A q \in Proc : job[q].pc = "held" => doc[s].ts = job[q].ts
      BY HolderDocs, Zenon
    <3> QED
      BY <1>7, <3>1, Zenon
  <2>2. \A q \in Proc \ {p} : /\ job[q].pc \notin Tournament \union {"finalize"}
                              /\ job[q].pc = "acquire" => job[q].hit = {}
    BY <1>7, Zenon DEF Contends, Tournament
  <2>3. \/ job[p].pc \in {"force", "unlock"}
        \/ doc[s].ts \in old[p]
    BY <1>7, Zenon
  <2>4. ASSUME job[p].pc \in Trying
        PROVE  doc[s].ts \in old[p] /\ doc[s].ts < job[p].ts /\ job'[p] = job[p]
    <3>1. doc[s].ts \in old[p] /\ job'[p] = job[p]
      BY <2>3, <2>4, Zenon DEF Trying
    <3>2. job[p].ts # 0
      BY <2>4, Zenon DEF Typed
    <3> QED
      BY <3>1, <3>2, Distinct, Zenon
  <2>5. Witnessed'
    <3>1. ASSUME job[p].pc \in Trying, NEW u \in Server, Witness(p, u) PROVE Witness(p, u)'
      <4>1. u # s
        BY <2>4, <3>1, Fields DEF Witness
      <4>2. doc'[u] = doc[u]
        BY <4>1, Zenon
      <4> QED
        BY <3>1, <4>2 DEF Witness, Tournament
    <3>2. job[p].pc = "acquire" => \A u \in job[p].hit : Witness(p, u)'
      BY <3>1, Fields, Zenon DEF Witnessed, Trying
    <3>3. job[p].pc \in Tournament \union {"finalize"} => \E u \in Server : Witness(p, u)'
      BY <3>1, Zenon DEF Witnessed, Trying, Tournament
    <3>4. job[p].pc = "acquire" => job'[p].hit = job[p].hit
      BY <2>4, Zenon DEF Trying
    <3>5. \A q \in Proc \ {p} : job[q].pc = "acquire" => job'[q].hit = {}
      BY <2>2, Zenon
    <3> QED
      BY <2>1, <2>2, <3>2, <3>3, <3>4, <3>5 DEF Witnessed
  <2>6. PassedAreSet'
    <3>1. \A q \in Proc \ {p} : job'[q].pc \notin Tournament \union {"finalize"}
      BY <2>2, Zenon
    <3>2. Passed(p)' = Passed(p)
      BY <2>4, Zenon DEF Passed, Trying, Tournament
    <3>3. \A u \in Passed(p) : doc'[u].state > 0 /\ doc'[u].ts \notin old[p]
      <4>1. \A u \in Passed(p) : job[p].pc \in Trying
        BY Zenon DEF Passed, Trying, Tournament
      <4>2. s \notin Passed(p)
        BY <2>4, <4>1, Zenon DEF PassedAreSet
      <4> QED
        BY <4>2, Zenon DEF PassedAreSet, Passed
    <3>4. job[p].pc = "reread" => job'[p].at \in Server /\ doc'[job'[p].at].ts \notin old[p]
      BY DEF PassedAreSet
    <3> QED
      BY <3>1, <3>2, <3>3, <3>4 DEF PassedAreSet, Passed, Tournament
  <2>7. Finals'
    <3>1. ASSUME job[p].pc = "finalize", ~job[p].failed, NEW u \in Server, u < job[p].at
          PROVE  doc'[u] = [ts |-> job[p].ts, state |-> 2, process |-> p]
      <4>1. doc[u] = [ts |-> job[p].ts, state |-> 2, process |-> p]
        BY <3>1, Zenon DEF Finals
      <4>2. u # s
        BY <2>4, <3>1, <4>1, Fields DEF Trying
      <4> QED
        BY <4>1, <4>2, Zenon
    <3>2. job[p].pc = "finalize" => job'[p] = job[p]
      BY <2>4, Zenon DEF Trying
    <3> QED
      BY <2>1, <2>2, <3>1, <3>2 DEF Finals
  <2> QED
    BY <1>1, <1>3, <1>4, <2>5, <2>6, <2>7
<1> QED
  BY <1>5, <1>6, <1>7, Zenon

\* A document is given the ID of p, which is in the middle of an attempt: the
\* attempts about to grab it find that it has changed.
LEMMA SetGrabbing ==
    ASSUME Typed, IDs, Grabbing, NEW p \in Proc, NEW s \in Server,
           job[p].pc \in Trying, OthersStay(p), UNCHANGED old,
           job'[p].ts = job[p].ts, job'[p].pc # "grab",
           \A u \in Server \ {s} : doc'[u] = doc[u],
           doc'[s] = doc[s] \/ doc'[s].ts = job[p].ts
    PROVE  Grabbing'
<1> USE DEF OthersStay
<1>1. \A t : Retired(t) => Retired(t)'
  BY KeepRetired, Zenon DEF Trying
<1>2. job[p].ts # 0
  BY Zenon DEF Typed
<1>3. \A q \in Proc : job[p].ts \notin old[q]
  BY <1>2, Distinct, Zenon
<1> SUFFICES ASSUME NEW q \in Proc \ {p}, job[q].pc = "grab"
             PROVE  /\ job[q].at \in Server
                    /\ job[q].o.state = 0 /\ job[q].o.ts # 0 => Retired(job[q].o.ts)'
                    /\ job[q].o.state = 0 /\ doc'[job[q].at].ts = job[q].o.ts =>
                          doc'[job[q].at].state = 0
                    /\ job[q].o.state > 0 => job[q].o.ts < job[q].ts
                    /\ doc'[job[q].at].ts = job[q].o.ts \/ doc'[job[q].at].ts \notin old[q]
  BY DEF Grabbing
<1>4. /\ job[q].at \in Server
      /\ job[q].o.state = 0 /\ job[q].o.ts # 0 => Retired(job[q].o.ts)
      /\ job[q].o.state = 0 /\ doc[job[q].at].ts = job[q].o.ts => doc[job[q].at].state = 0
      /\ job[q].o.state > 0 => job[q].o.ts < job[q].ts
      /\ doc[job[q].at].ts = job[q].o.ts \/ doc[job[q].at].ts \notin old[q]
  BY Zenon DEF Grabbing
<1>5. CASE doc'[job[q].at] = doc[job[q].at]
  BY <1>1, <1>4, <1>5, Zenon
<1>6. CASE doc'[job[q].at].ts = job[p].ts
  <2>1. job[q].o.state = 0 => job[q].o.ts # job[p].ts
    BY <1>2, <1>4, Zenon DEF Retired, Trying
  <2> QED
    BY <1>1, <1>3, <1>4, <1>6, <2>1, Zenon
<1> QED
  BY <1>4, <1>5, <1>6, Zenon

\* The update that acquires reaches server s.
LEMMA AcquireSafe ==
    ASSUME Typed, Safe, NEW p \in Proc, NEW s \in Server,
           OthersStay(p), UNCHANGED <<owner, old>>,
           job[p].pc = "acquire", job'[p].pc = "acquire",
           job'[p].ts = job[p].ts, job'[p].o = job[p].o,
           \A u \in Server \ {s} : doc'[u] = doc[u],
           \/ doc'[s] = doc[s] /\ job'[p].hit = job[p].hit
           \/ /\ doc[s].state = 0
              /\ doc'[s].ts = job[p].ts /\ doc'[s].state > 0
              /\ job'[p].hit = job[p].hit \/ job'[p].hit = job[p].hit \union {s}
    PROVE  Safe'
<1> USE DEF Safe, OthersStay
<1>1. /\ job[p].ts # 0 /\ owner[job[p].ts] # NoProc
      /\ \A q \in Proc : job[p].ts \notin old[q]
  <2>1. job[p].ts # 0
    BY Zenon DEF Typed, Trying
  <2> QED
    BY <2>1, Distinct, Zenon
<1>2. IDs'
  <2>1. \A u \in Server : doc'[u].ts # 0 => owner[doc'[u].ts] # NoProc
    BY <1>1 DEF IDs
  <2>2. job'[p].o.ts # 0 => owner[job'[p].o.ts] # NoProc
    BY Zenon DEF IDs
  <2> QED
    BY <2>1, <2>2, KeepIDs, Zenon
<1>3. /\ \A t : Retired(t) => Retired(t)'
      /\ \A t : (\A r \in Proc : job[r].ts # t) => \A r \in Proc : job'[r].ts # t
  BY KeepRetired, Zenon
<1>4. Spent'
  <2>1. \A u \in Server : doc'[u].state = 0 /\ doc'[u].ts # 0 => Retired(doc'[u].ts)
    BY Fields DEF Spent
  <2>2. \A q \in Proc : job'[q].pc = "force" => \A r \in Proc : job[r].ts # job'[q].o.ts
    BY DEF Spent
  <2> QED
    BY <1>3, <2>1, <2>2, Zenon DEF Spent
<1>5. Grabbing'
  BY SetGrabbing, Zenon DEF Trying
<1>6. CASE doc'[s] = doc[s] /\ job'[p].hit = job[p].hit
  <2>1. \A u \in Server : doc'[u] = doc[u]
    BY <1>6, Zenon
  <2>2. Witnessed'
    <3>1. \A q \in Proc : \A u \in Server : Witness(q, u) => Witness(q, u)'
      BY <1>6, <2>1 DEF Witness, Tournament
    <3> QED
      BY <1>6, <3>1, Fields, Zenon DEF Witnessed, Tournament
  <2>3. PassedAreSet'
    BY <2>1 DEF PassedAreSet, Passed, Tournament
  <2>4. Finals'
    BY <2>1 DEF Finals, OwnsAll
  <2> QED
    BY <1>2, <1>4, <1>5, <2>2, <2>3, <2>4, Zenon
<1>7. CASE /\ doc[s].state = 0
           /\ doc'[s].ts = job[p].ts /\ doc'[s].state > 0
           /\ job'[p].hit = job[p].hit \/ job'[p].hit = job[p].hit \union {s}
  <2>1. \A q \in Proc : ~Witness(q, s) /\ s \notin Passed(q) /\ job[q].pc # "held"
    <3>1. \A q \in Proc : ~Witness(q, s)
      BY <1>7 DEF Witness
    <3>2. \A q \in Proc : s \notin Passed(q)
      BY <1>7 DEF PassedAreSet
    <3>3. \A q \in Proc : job[q].pc = "held" => doc[s].state = 2
      BY HolderDocs, Zenon
    <3> QED
      BY <1>7, <3>1, <3>2, <3>3
  <2>2. Witnessed'
    <3>1. ASSUME NEW q \in Proc, NEW u \in Server, Witness(q, u) PROVE Witness(q, u)'
      <4>1. u # s
        BY <2>1, <3>1, Zenon
      <4>2. doc'[u] = doc[u]
        BY <4>1, Zenon
      <4> QED
        BY <1>7, <3>1, <4>1, <4>2, Zenon DEF Witness, Tournament
    <3>2. Witness(p, s)'
      <4>1. \A q \in Proc \ {p} : job[q].pc = "acquire" => s \notin job[q].hit
        BY <2>1, Zenon DEF Witnessed
      <4>2. \A q \in Proc \ {p} : /\ job[q].pc \in Tournament => ~(s < job[q].at)
                                  /\ job[q].pc \notin {"finalize", "held"}
        BY <2>1, Zenon DEF Passed
      <4>3. doc'[s].ts >= job'[p].ts
        BY <1>7, Fields
      <4> QED
        BY <1>7, <4>1, <4>2, <4>3, Zenon DEF Witness
    <3>3. \A u \in job'[p].hit : Witness(p, u)'
      BY <1>7, <3>1, <3>2, Fields, Zenon DEF Witnessed
    <3> QED
      BY <3>1, <3>3, Fields, Zenon DEF Witnessed, Tournament
  <2>3. PassedAreSet'
    <3>1. \A q \in Proc : Passed(q)' = Passed(q)
      BY Zenon DEF Passed, Tournament
    <3>2. \A q \in Proc : \A u \in Passed(q) : doc'[u] = doc[u]
      BY <2>1, Zenon DEF Passed
    <3>3. \A q \in Proc : job'[q].pc = "reread" =>
             job'[q].at \in Server /\ doc'[job'[q].at].ts \notin old'[q]
      BY <1>1, <1>7 DEF PassedAreSet
    <3> QED
      BY <3>1, <3>2, <3>3 DEF PassedAreSet
  <2>4. Finals'
    BY <2>1, Zenon DEF Finals, OwnsAll, Passed
  <2> QED
    BY <1>2, <1>4, <1>5, <2>2, <2>3, <2>4
<1> QED
  BY <1>6, <1>7, Zenon

\* The update that finalizes reaches server s.
LEMMA FinalizeSafe ==
    ASSUME Typed, Safe, NEW p \in Proc, NEW s \in Server,
           OthersStay(p), UNCHANGED <<owner, old>>,
           job[p].pc = "finalize", job'[p].pc = "finalize", s = job[p].at,
           job'[p].ts = job[p].ts, job'[p].o = job[p].o,
           \A u \in Server \ {s} : doc'[u] = doc[u],
           \/ doc'[s] = doc[s]
           \/ doc'[s] = [ts |-> job[p].ts, state |-> 2, process |-> p],
           \/ job'[p].failed
           \/ /\ job'[p].at = s + 1 /\ ~job[p].failed
              /\ doc'[s] = [ts |-> job[p].ts, state |-> 2, process |-> p]
    PROVE  Safe'
<1> USE DEF Safe, OthersStay
<1>0. doc'[s] # doc[s] => doc'[s].ts = job[p].ts /\ doc'[s].state = 2
  OBVIOUS
<1>1. /\ job[p].ts # 0 /\ owner[job[p].ts] # NoProc
      /\ \A q \in Proc : job[p].ts \notin old[q]
  <2>1. job[p].ts # 0
    BY Zenon DEF Typed, Trying
  <2> QED
    BY <2>1, Distinct, Zenon
<1>2. IDs'
  <2>1. \A u \in Server : doc'[u].ts # 0 => owner[doc'[u].ts] # NoProc
    BY <1>0, <1>1 DEF IDs
  <2>2. job'[p].o.ts # 0 => owner[job'[p].o.ts] # NoProc
    BY Zenon DEF IDs
  <2> QED
    BY <2>1, <2>2, KeepIDs, Zenon
<1>3. /\ \A t : Retired(t) => Retired(t)'
      /\ \A t : (\A r \in Proc : job[r].ts # t) => \A r \in Proc : job'[r].ts # t
  BY KeepRetired, Zenon
<1>4. Spent'
  <2>1. \A u \in Server : doc'[u].state = 0 /\ doc'[u].ts # 0 => Retired(doc'[u].ts)
    BY <1>0 DEF Spent
  <2>2. \A q \in Proc : job'[q].pc = "force" => \A r \in Proc : job[r].ts # job'[q].o.ts
    BY DEF Spent
  <2> QED
    BY <1>3, <2>1, <2>2, Zenon DEF Spent
<1>5. Grabbing'
  <2>1. doc'[s] = doc[s] \/ doc'[s].ts = job[p].ts
    BY <1>0, Zenon
  <2> QED
    BY <2>1, SetGrabbing, Zenon DEF Trying
<1>6. Witnessed'
  <2>1. ASSUME NEW q \in Proc, NEW u \in Server, Witness(q, u) PROVE Witness(q, u)'
    <3>1. doc'[u].state > 0 /\ doc'[u].ts >= job[q].ts
      <4>1. CASE doc'[u] = doc[u]
        BY <2>1, <4>1, Zenon DEF Witness
      <4>2. CASE doc'[u] # doc[u]
        <5>1. u = s /\ doc'[u].ts = job[p].ts /\ doc'[u].state = 2
          BY <1>0, <4>2, Zenon
        <5>2. job[p].ts >= job[q].ts
          BY <2>1, Fields DEF Witness
        <5> QED
          BY <5>1, <5>2
      <4> QED
        BY <4>1, <4>2, Zenon
    <3> QED
      BY <2>1, <3>1, Zenon DEF Witness, Tournament
  <2> QED
    BY <2>1, Fields, Zenon DEF Witnessed, Tournament
<1>7. PassedAreSet'
  <2>1. \A q \in Proc : Passed(q)' = Passed(q)
    BY Zenon DEF Passed, Tournament
  <2>2. \A q \in Proc : \A u \in Passed(q) : doc'[u].state > 0 /\ doc'[u].ts \notin old[q]
    BY <1>0, <1>1 DEF PassedAreSet, Passed
  <2>3. \A q \in Proc : job'[q].pc = "reread" =>
           job'[q].at \in Server /\ doc'[job'[q].at].ts \notin old'[q]
    BY <1>0, <1>1 DEF PassedAreSet
  <2> QED
    BY <2>1, <2>2, <2>3, Zenon DEF PassedAreSet
<1>8. Finals'
  <2>1. \A q \in Proc \ {p} : job[q].pc \notin {"finalize", "held"}
    BY OneWinner, Zenon
  <2>2. ASSUME ~job'[p].failed, NEW u \in Server, u < job'[p].at
        PROVE  doc'[u] = [ts |-> job[p].ts, state |-> 2, process |-> p]
    <3>1. CASE u = s
      BY <2>2, <3>1, Zenon
    <3>2. CASE u # s
      <4>1. u < job[p].at /\ ~job[p].failed
        BY <2>2, <3>2, Constants
      <4>2. doc[u] = [ts |-> job[p].ts, state |-> 2, process |-> p]
        BY <4>1, Zenon DEF Finals
      <4> QED
        BY <3>2, <4>2, Zenon
    <3> QED
      BY <3>1, <3>2, Zenon
  <2> QED
    BY <2>1, <2>2 DEF Finals
<1> QED
  BY <1>2, <1>4, <1>5, <1>6, <1>7, <1>8, Zenon

\* The tournament grabs the document of server s, unless its ID has changed.
LEMMA GrabSafe ==
    ASSUME Typed, Safe, NEW p \in Proc, NEW s \in Server,
           OthersStay(p), UNCHANGED <<owner, old>>,
           job[p].pc = "grab", job'[p].pc = "reread", s = job[p].at,
           job'[p].ts = job[p].ts, job'[p].o = job[p].o, job'[p].at = job[p].at,
           job'[p].max = job[p].max,
           \A u \in Server \ {s} : doc'[u] = doc[u],
           \/ doc'[s] = doc[s] /\ doc[s].ts # job[p].o.ts
           \/ /\ doc[s].ts = job[p].o.ts
              /\ doc'[s].ts = job[p].ts /\ doc'[s].state = 1
    PROVE  Safe'
<1> USE DEF Safe, OthersStay
<1>1. /\ job[p].ts # 0 /\ owner[job[p].ts] # NoProc
      /\ \A q \in Proc : job[p].ts \notin old[q]
  <2>1. job[p].ts # 0
    BY Zenon DEF Typed, Trying
  <2> QED
    BY <2>1, Distinct, Zenon
<1>2. IDs'
  <2>1. \A u \in Server : doc'[u].ts # 0 => owner[doc'[u].ts] # NoProc
    BY <1>1 DEF IDs
  <2>2. job'[p].o.ts # 0 => owner[job'[p].o.ts] # NoProc
    BY Zenon DEF IDs
  <2> QED
    BY <2>1, <2>2, KeepIDs, Zenon
<1>3. /\ \A t : Retired(t) => Retired(t)'
      /\ \A t : (\A r \in Proc : job[r].ts # t) => \A r \in Proc : job'[r].ts # t
  BY KeepRetired, Zenon
<1>4. Spent'
  <2>1. \A u \in Server : doc'[u].state = 0 /\ doc'[u].ts # 0 => Retired(doc'[u].ts)
    BY DEF Spent
  <2>2. \A q \in Proc : job'[q].pc = "force" => \A r \in Proc : job[r].ts # job'[q].o.ts
    BY DEF Spent
  <2> QED
    BY <1>3, <2>1, <2>2, Zenon DEF Spent
<1>5. Grabbing'
  BY SetGrabbing, Zenon DEF Trying
<1>6. doc'[s] # doc[s] /\ doc[s].state > 0 => doc[s].ts < job[p].ts
  <2>1. doc[s].ts = job[p].o.ts /\ doc[s].state > 0 => job[p].o.state > 0
    <3>1. job[p].o.state = 0 /\ doc[s].ts = job[p].o.ts => doc[s].state = 0
      BY Zenon DEF Grabbing
    <3> QED
      BY <3>1, Fields
  <2>2. job[p].o.state > 0 => job[p].o.ts < job[p].ts
    BY Zenon DEF Grabbing
  <2> QED
    BY <2>1, <2>2, Zenon
<1>7. Witnessed'
  <2>1. ASSUME NEW q \in Proc, NEW u \in Server, Witness(q, u) PROVE Witness(q, u)'
    <3>1. doc'[u].state > 0 /\ doc'[u].ts >= job[q].ts
      <4>1. CASE doc'[u] = doc[u]
        BY <2>1, <4>1, Zenon DEF Witness
      <4>2. CASE doc'[u] # doc[u]
        <5>1. u = s /\ doc'[u].ts = job[p].ts /\ doc'[u].state = 1
          BY <4>2, Zenon
        <5>2. doc[u].ts < job[p].ts
          BY <1>6, <2>1, <4>2, <5>1, Zenon DEF Witness
        <5>3. doc[u].ts >= job[q].ts
          BY <2>1, Zenon DEF Witness
        <5> QED
          BY <5>1, <5>2, <5>3, Fields
      <4> QED
        BY <4>1, <4>2, Zenon
    <3> QED
      BY <2>1, <3>1 DEF Witness, Tournament
  <2> QED
    BY <2>1, Fields, Zenon DEF Witnessed, Tournament
<1>8. PassedAreSet'
  <2>1. \A q \in Proc : Passed(q)' = Passed(q)
    BY Zenon DEF Passed, Tournament
  <2>2. \A q \in Proc : \A u \in Passed(q) : doc'[u].state > 0 /\ doc'[u].ts \notin old[q]
    BY <1>1 DEF PassedAreSet, Passed
  <2>3. \A q \in Proc \ {p} : job'[q].pc = "reread" =>
           job'[q].at \in Server /\ doc'[job'[q].at].ts \notin old'[q]
    BY <1>1 DEF PassedAreSet
  <2>4. doc'[s].ts \notin old[p]
    BY <1>1, Zenon DEF Grabbing
  <2> QED
    BY <2>1, <2>2, <2>3, <2>4, Zenon DEF PassedAreSet
<1>9. Finals'
  <2>1. ASSUME NEW q \in Proc \ {p}, job[q].pc \in {"finalize", "held"},
               doc[s].ts = job[q].ts, doc[s].state = 2
        PROVE  doc'[s] = doc[s]
    <3>1. job[q].ts >= job[p].ts
      BY <2>1, Zenon DEF Witnessed, Witness, Tournament
    <3> QED
      BY <1>6, <2>1, <3>1, Fields
  <2>2. ASSUME NEW q \in Proc \ {p}, NEW u \in Server, job[q].pc \in {"finalize", "held"},
               doc[u] = [ts |-> job[q].ts, state |-> 2, process |-> q]
        PROVE  doc'[u] = doc[u]
    <3>1. doc[u].ts = job[q].ts /\ doc[u].state = 2
      BY <2>2
    <3> QED
      BY <2>1, <2>2, <3>1, Zenon
  <2> QED
    BY <2>2 DEF Finals, OwnsAll
<1> QED
  BY <1>2, <1>4, <1>5, <1>7, <1>8, <1>9, Zenon

\* A step of an attempt that writes nothing.
Proceeds(p) ==
    /\ OthersStay(p) /\ UNCHANGED <<doc, owner, old>>
    /\ job[p].pc \in Trying /\ job'[p].ts = job[p].ts

LEMMA ProceedKeeps ==
    ASSUME Typed, Safe, NEW p \in Proc, Proceeds(p),
           job'[p].pc \in Trying \union {"held"},
           job'[p].o.ts # 0 => owner[job'[p].o.ts] # NoProc,
           job'[p].pc = "held" => job'[p].o.ts = job[p].ts,
           job'[p].pc = "grab" =>
              /\ job'[p].at \in Server /\ job'[p].o = doc[job'[p].at]
              /\ Grabs(p, doc[job'[p].at])
    PROVE  IDs' /\ Spent' /\ Grabbing'
<1> USE DEF Safe, Proceeds, OthersStay
<1>1. IDs'
  BY KeepIDs, Zenon DEF IDs, Trying
<1>2. /\ \A t : Retired(t) => Retired(t)'
      /\ \A t : (\A r \in Proc : job[r].ts # t) => \A r \in Proc : job'[r].ts # t
  BY KeepRetired, Zenon DEF Trying
<1>3. Spent'
  <2>1. \A u \in Server : doc[u].state = 0 /\ doc[u].ts # 0 => Retired(doc[u].ts)'
    BY <1>2, Zenon DEF Spent
  <2>2. \A q \in Proc : job'[q].pc = "force" => \A r \in Proc : job[r].ts # job'[q].o.ts
    BY DEF Spent, Trying
  <2> QED
    BY <1>2, <2>1, <2>2, Zenon DEF Spent
<1>4. Grabbing'
  <2>1. \A q \in Proc \ {p} : job[q].pc = "grab" =>
           /\ job[q].at \in Server
           /\ job[q].o.state = 0 /\ job[q].o.ts # 0 => Retired(job[q].o.ts)'
           /\ job[q].o.state = 0 /\ doc[job[q].at].ts = job[q].o.ts => doc[job[q].at].state = 0
           /\ job[q].o.state > 0 => job[q].o.ts < job[q].ts
           /\ doc[job[q].at].ts = job[q].o.ts \/ doc[job[q].at].ts \notin old[q]
    BY <1>2, Zenon DEF Grabbing
  <2>2. ASSUME job'[p].pc = "grab"
        PROVE  /\ job'[p].o.state = 0 /\ job'[p].o.ts # 0 => Retired(job[p].o.ts)'
               /\ job'[p].o.state > 0 => job'[p].o.ts < job[p].ts
    <3>1. job'[p].o.state = 0 /\ job'[p].o.ts # 0 => Retired(job[p].o.ts)'
      <4>1. ASSUME job'[p].o.state = 0, job'[p].o.ts # 0, NEW r \in Proc,
                   job'[r].ts = job'[p].o.ts
            PROVE  job'[r].pc = "unlock"
        <5>1. job[r].ts = job'[p].o.ts
          BY <4>1, Zenon
        <5>2. job[r].pc = "unlock"
          BY <2>2, <4>1, <5>1 DEF Spent, Retired
        <5> QED
          BY <5>2, Zenon DEF Trying
      <4> QED
        BY <4>1, Zenon DEF Retired
    <3>2. job'[p].o.state > 0 => job'[p].o.ts < job[p].ts
      BY <2>2, Fields DEF Grabs
    <3> QED
      BY <3>1, <3>2, Zenon
  <2> QED
    BY <2>1, <2>2 DEF Grabbing
<1> QED
  BY <1>1, <1>3, <1>4, Zenon

\* The document of the next server is read, to be grabbed.
LEMMA AimGrabSafe ==
    ASSUME Typed, Safe, NEW p \in Proc, Proceeds(p),
           job[p].pc = "compare", job'[p].pc = "grab", job[p].at \in Server,
           job'[p].at = job[p].at, job'[p].max = job[p].max,
           job'[p].o = doc[job[p].at], Grabs(p, doc[job[p].at])
    PROVE  Safe'
<1> USE DEF Safe
<1>1. IDs' /\ Spent' /\ Grabbing'
  <2>1. job'[p].o.ts # 0 => owner[job'[p].o.ts] # NoProc
    BY Zenon DEF IDs
  <2> QED
    BY <2>1, ProceedKeeps, Zenon DEF Trying
<1> USE DEF Proceeds, OthersStay
<1>2. Witnessed'
  <2>1. \A q \in Proc : \A u \in Server : Witness(q, u) => Witness(q, u)'
    BY DEF Witness, Tournament
  <2> QED
    BY <2>1, Fields, Zenon DEF Witnessed, Tournament
<1>3. PassedAreSet'
  BY Zenon DEF PassedAreSet, Passed, Tournament
<1>4. Finals'
  BY DEF Finals, OwnsAll
<1> QED
  BY <1>1, <1>2, <1>3, <1>4, Zenon

LEMMA MaxOfTwo ==
    ASSUME NEW a \in Nat, NEW b \in Nat
    PROVE  Max({a, b}) >= a /\ Max({a, b}) >= b /\ Max({a, b}) \in {a, b}
<1>1. \E x \in {a, b} : \A y \in {a, b} : x >= y
  <2>1. CASE a >= b  BY <2>1
  <2>2. CASE b >= a  BY <2>2
  <2> QED  BY <2>1, <2>2
<1> QED
  BY <1>1, Zenon DEF Max

\* The tournament passes a server whose document is set.
LEMMA AdvanceSafe ==
    ASSUME Typed, Safe, NEW p \in Proc, Proceeds(p), NEW s \in Server,
           job[p].pc \in Tournament, job'[p].pc = "compare", s = job[p].at,
           job'[p].at = s + 1, job'[p].o.ts = 0,
           job'[p].max >= job[p].max, job'[p].max >= doc[s].ts, job'[p].max \in Nat,
           doc[s].state > 0, doc[s].ts \notin old[p]
    PROVE  Safe'
<1> USE DEF Safe
<1>1. IDs' /\ Spent' /\ Grabbing'
  BY ProceedKeeps, Zenon DEF Trying
<1> USE DEF Proceeds, OthersStay
<1>2. Witnessed'
  <2>1. ASSUME NEW q \in Proc, NEW u \in Server, Witness(q, u) PROVE Witness(q, u)'
    <3>1. p # q /\ u < s + 1 => job'[p].max >= job[q].ts
      <4> SUFFICES ASSUME p # q, u < s + 1 PROVE job'[p].max >= job[q].ts
        BY Zenon
      <4>1. CASE u = s
        <5>1. doc[s].ts >= job[q].ts
          BY <2>1, <4>1, Zenon DEF Witness
        <5> QED
          BY <5>1, Fields
      <4>2. CASE u # s
        <5>1. u < job[p].at
          BY <4>2, Constants
        <5>2. job[p].max >= job[q].ts
          BY <2>1, <5>1, Zenon DEF Witness
        <5> QED
          BY <5>2, Fields
      <4> QED
        BY <4>1, <4>2, Zenon
    <3> QED
      BY <2>1, <3>1 DEF Witness, Tournament
  <2> QED
    BY <2>1, Fields, Zenon DEF Witnessed, Tournament
<1>3. PassedAreSet'
  <2>1. Passed(p)' \subseteq Passed(p) \union {s}
    BY Constants DEF Passed, Tournament
  <2>2. \A u \in Passed(p)' : doc[u].state > 0 /\ doc[u].ts \notin old[p]
    BY <2>1, Zenon DEF PassedAreSet
  <2> QED
    BY <2>2, Zenon DEF PassedAreSet, Passed, Tournament
<1>4. Finals'
  BY DEF Finals, OwnsAll
<1> QED
  BY <1>1, <1>2, <1>3, <1>4, Zenon

\* Acquired on some servers only: the tournament begins.
LEMMA EnterSafe ==
    ASSUME Typed, Safe, NEW p \in Proc, Proceeds(p),
           job[p].pc = "acquire", job[p].hit # {},
           job'[p].pc = "compare", job'[p].at = 1, job'[p].o.ts = 0
    PROVE  Safe'
<1> USE DEF Safe
<1>1. IDs' /\ Spent' /\ Grabbing'
  BY ProceedKeeps, Zenon DEF Trying
<1> USE DEF Proceeds, OthersStay
<1>2. \A u \in Server : ~(u < 1)
  BY DEF Server
<1>3. Witnessed'
  <2>1. \A q \in Proc : \A u \in Server : Witness(q, u) => Witness(q, u)'
    BY <1>2 DEF Witness, Tournament
  <2>2. \E u \in Server : Witness(p, u)
    BY Fields, Zenon DEF Witnessed
  <2> QED
    BY <2>1, <2>2, Fields, Zenon DEF Witnessed, Tournament
<1>4. PassedAreSet'
  BY <1>2, Zenon DEF PassedAreSet, Passed, Tournament
<1>5. Finals'
  BY DEF Finals, OwnsAll
<1> QED
  BY <1>1, <1>3, <1>4, <1>5, Zenon

\* Acquired everywhere, or the tournament is won.
LEMMA WinSafe ==
    ASSUME Typed, Safe, NEW p \in Proc, Proceeds(p),
           \/ job[p].pc = "acquire" /\ job[p].hit = Server
           \/ /\ job[p].pc = "compare" /\ job[p].at > NumServers
              /\ job[p].max = job[p].ts,
           job'[p].pc = "finalize", job'[p].at = 1, job'[p].o.ts = 0
    PROVE  Safe'
<1> USE DEF Safe
<1>1. IDs' /\ Spent' /\ Grabbing'
  BY ProceedKeeps, Zenon DEF Trying
<1> USE DEF Proceeds, OthersStay
<1>2. \A u \in Server : ~(u < 1)
  BY DEF Server
<1>3. job[p].ts # 0
  BY Zenon DEF Typed, Trying
<1>4. \A t \in old[p] : t < job[p].ts
  BY <1>3, Distinct, Zenon
<1>5. CASE job[p].pc = "acquire" /\ job[p].hit = Server
  <2>1. \A u \in Server : Witness(p, u)
    BY <1>5, Zenon DEF Witnessed
  <2>2. \A q \in Proc \ {p} : \A u \in Server : ~Witness(q, u)
    BY <1>5, Zenon DEF Witness
  <2>3. Witnessed'
    <3>1. \A u \in Server : Witness(p, u)'
      BY <2>1 DEF Witness
    <3>2. \A q \in Proc \ {p} : /\ job[q].pc \notin Tournament \union {"finalize", "held"}
                                /\ job[q].pc = "acquire" => job[q].hit = {}
      BY <2>2, Fields, Zenon DEF Witnessed
    <3> QED
      BY <3>1, <3>2, Constants DEF Witnessed
  <2>4. PassedAreSet'
    <3>1. \A u \in Server : doc[u].state > 0 /\ doc[u].ts \notin old[p]
      BY <1>4, <2>1, Fields DEF Witness
    <3> QED
      BY <3>1, Zenon DEF PassedAreSet, Passed, Tournament
  <2>5. Finals'
    BY <1>2 DEF Finals, OwnsAll
  <2> QED
    BY <1>1, <2>3, <2>4, <2>5, Zenon
<1>6. CASE job[p].pc = "compare" /\ job[p].at > NumServers /\ job[p].max = job[p].ts
  <2>1. \A u \in Server : u < job[p].at
    BY <1>6, Constants, Fields DEF Server
  <2>2. Witnessed'
    <3>1. \A q \in Proc : \A u \in Server : Witness(q, u) => Witness(q, u)'
      BY <1>6, <2>1 DEF Witness, Tournament
    <3> QED
      BY <1>6, <3>1, Fields, Zenon DEF Witnessed, Tournament
  <2>3. PassedAreSet'
    <3>1. Passed(p) = Server
      BY <1>6, <2>1, Zenon DEF Passed, Tournament
    <3> QED
      BY <3>1, Zenon DEF PassedAreSet, Passed, Tournament
  <2>4. Finals'
    BY <1>2 DEF Finals, OwnsAll
  <2> QED
    BY <1>1, <2>2, <2>3, <2>4
<1> QED
  BY <1>5, <1>6, Zenon

\* Finalized everywhere: the lock is held.
LEMMA HoldSafe ==
    ASSUME Typed, Safe, NEW p \in Proc, Proceeds(p), NEW s \in Server,
           job[p].pc = "finalize", job[p].at > NumServers, ~job[p].failed,
           job'[p].pc = "held", job'[p].o = doc[s]
    PROVE  Safe'
<1> USE DEF Safe
<1>1. \A u \in Server : u < job[p].at
  BY Constants, Fields DEF Server
<1>2. \A u \in Server : doc[u] = [ts |-> job[p].ts, state |-> 2, process |-> p]
  BY <1>1, Zenon DEF Finals
<1>3. doc[s].ts = job[p].ts
  BY <1>2
<1>4. IDs' /\ Spent' /\ Grabbing'
  <2>1. job'[p].o.ts # 0 => owner[job'[p].o.ts] # NoProc
    BY DEF IDs
  <2> QED
    BY <1>3, <2>1, ProceedKeeps, Zenon DEF Trying
<1> USE DEF Proceeds, OthersStay
<1>5. Witnessed'
  <2>1. \A q \in Proc : \A u \in Server : Witness(q, u) => Witness(q, u)'
    BY DEF Witness, Tournament
  <2> QED
    BY <2>1, Fields, Zenon DEF Witnessed, Tournament
<1>6. PassedAreSet'
  BY Zenon DEF PassedAreSet, Passed, Tournament
<1>7. Finals'
  BY <1>2 DEF Finals, OwnsAll
<1> QED
  BY <1>4, <1>5, <1>6, <1>7, Zenon

-----------------------------------------------------------------------------
(* The actions.  Each keeps Typed, and keeps Safe unless it opens a        *)
(* document beside an attempt.                                             *)

\* The process p goes on with j.
LEMMA TypedMove ==
    ASSUME Typed, NEW p \in Proc, NEW j \in Job, job' = [job EXCEPT ![p] = j],
           j.ts # 0 <=> j.pc \in Trying \union {"held", "unlock"},
           j.o.state > 0 => j.o.ts # 0,
           j.pc = "force" => j.o.state > 0,
           j.pc = "unlock" => j.o.ts # 0,
           j.pc \in {"grab", "reread"} => j.at \in Server,
           doc' \in [Server -> Doc],
           \A s \in Server : doc'[s].state > 0 => doc'[s].ts # 0,
           owner' \in [LockID -> Proc \union {NoProc}],
           lastPing' \in [Proc -> 0 .. MaxTs], old' \in [Proc -> SUBSET LockID],
           late' \in [Proc -> Late], \A q \in Proc : late'[q].ts \in {0} \union old'[q]
    PROVE  /\ Typed' /\ job'[p] = j
           /\ \A q \in Proc \ {p} : job'[q] = job[q]
<1>1. job' \in [Proc -> Job] /\ job'[p] = j /\ \A q \in Proc \ {p} : job'[q] = job[q]
  BY Zenon DEF Typed
<1>2. \A q \in Proc :
          /\ job'[q].ts # 0 <=> job'[q].pc \in Trying \union {"held", "unlock"}
          /\ job'[q].o.state > 0 => job'[q].o.ts # 0
          /\ job'[q].pc = "force" => job'[q].o.state > 0
          /\ job'[q].pc = "unlock" => job'[q].o.ts # 0
          /\ job'[q].pc \in {"grab", "reread"} => job'[q].at \in Server
  BY <1>1, Zenon DEF Typed
<1> QED
  BY <1>1, <1>2, Zenon DEF Typed

\* The same when only job changes.
LEMMA TypedJobMove ==
    ASSUME Typed, NEW p \in Proc, NEW j \in Job, job' = [job EXCEPT ![p] = j],
           j.ts # 0 <=> j.pc \in Trying \union {"held", "unlock"},
           j.o.state > 0 => j.o.ts # 0,
           j.pc = "force" => j.o.state > 0,
           j.pc = "unlock" => j.o.ts # 0,
           j.pc \in {"grab", "reread"} => j.at \in Server,
           UNCHANGED <<doc, owner, lastPing, old, late>>
    PROVE  /\ Typed' /\ job'[p] = j /\ OthersStay(p)
<1>1. /\ doc' \in [Server -> Doc] /\ owner' \in [LockID -> Proc \union {NoProc}]
      /\ \A s \in Server : doc'[s].state > 0 => doc'[s].ts # 0
      /\ lastPing' \in [Proc -> 0 .. MaxTs] /\ old' \in [Proc -> SUBSET LockID]
      /\ late' \in [Proc -> Late] /\ \A q \in Proc : late'[q].ts \in {0} \union old'[q]
  BY Zenon DEF Typed
<1> QED
  BY <1>1, TypedMove, Zenon DEF OthersStay

\* What the two lemmas ask of a process that has nothing to do.
LEMMA IdleRest ==
    /\ Idle \in Job
    /\ Idle.ts # 0 <=> Idle.pc \in Trying \union {"held", "unlock"}
    /\ Idle.o.state > 0 => Idle.o.ts # 0
    /\ Idle.pc = "force" => Idle.o.state > 0
    /\ Idle.pc = "unlock" => Idle.o.ts # 0
    /\ Idle.pc \in {"grab", "reread"} => Idle.at \in Server
<1>1. Idle \in Job /\ Idle.ts = 0 /\ Idle.pc = "idle"
  BY IdleType, Zenon
<1>2. Idle.o.state = 0
  BY IdleType, Zenon
<1> QED
  BY <1>1, <1>2 DEF Trying

\* The attempt, or the unlock, of p ends, with nothing left to the pinger.
LEMMA IdleMove ==
    ASSUME Typed, NEW p \in Proc, job' = [job EXCEPT ![p] = Idle],
           UNCHANGED <<doc, owner, lastPing, old, late>>
    PROVE  Typed' /\ (Safe => Safe')
<1>1. Typed' /\ job'[p] = Idle /\ OthersStay(p)
  BY IdleRest, TypedJobMove, Zenon
<1> QED
  BY <1>1, IdleType, RetreatSafe, Zenon

\* The same with its ID left to the pinger.
LEMMA PingerMove ==
    ASSUME Typed, NEW p \in Proc, NEW t \in LockID, LeaveToPinger(p, t),
           UNCHANGED <<doc, owner, lastPing, late>>
    PROVE  Typed' /\ (Safe /\ t = job[p].ts => Safe')
<1>1. /\ job' = [job EXCEPT ![p] = Idle] /\ late[p] = NotLate
      /\ old' = [old EXCEPT ![p] = old[p] \union {t}]
  BY Zenon DEF LeaveToPinger
<1>3. /\ doc' \in [Server -> Doc] /\ owner' \in [LockID -> Proc \union {NoProc}]
      /\ \A s \in Server : doc'[s].state > 0 => doc'[s].ts # 0
      /\ lastPing' \in [Proc -> 0 .. MaxTs] /\ late' \in [Proc -> Late]
  BY Zenon DEF Typed
<1>4. /\ old' \in [Proc -> SUBSET LockID] /\ old'[p] = old[p] \union {t}
      /\ \A q \in Proc \ {p} : old'[q] = old[q]
  BY <1>1, Zenon DEF Typed
<1>5. \A q \in Proc : late'[q].ts \in {0} \union old'[q]
  BY <1>4, Zenon DEF Typed
<1>6. /\ Typed' /\ job'[p] = Idle
      /\ \A q \in Proc \ {p} : job'[q] = job[q]
  BY <1>1, <1>3, <1>4, <1>5, IdleRest, TypedMove, Zenon
<1>7. ASSUME Safe, t = job[p].ts PROVE Safe'
  <2>1. OthersStay(p)
    BY <1>4, <1>6, Zenon DEF OthersStay
  <2>2. \A u \in old'[p] : u \in old[p] \/ (u = job[p].ts /\ job[p].ts # 0)
    BY <1>4, <1>7, Constants, Zenon
  <2>3. job'[p].pc = "idle" /\ job'[p].ts = 0 /\ job'[p].o.ts = 0
    BY <1>6, IdleType, Zenon
  <2> QED
    BY <1>7, <2>1, <2>2, <2>3, RetreatSafe, Zenon
<1> QED
  BY <1>6, <1>7, Zenon

\* A new ID, and on to the update that acquires.
LEMMA StartMove ==
    ASSUME Typed, NEW p \in Proc, NEW t \in NewIDs(p), NEW j \in Job,
           owner' = [owner EXCEPT ![t] = p], job' = [job EXCEPT ![p] = j],
           j.pc = "acquire", j.ts = t, j.hit = {}, j.o.state > 0 => j.o.ts # 0,
           \/ \E s \in Server : j.o = doc[s]
           \/ j.o = job[p].o,
           lastPing' \in [Proc -> 0 .. MaxTs], UNCHANGED <<doc, old, late>>
    PROVE  Typed' /\ (Safe => Safe')
<1>1. t \in LockID /\ t # 0
  BY Constants, Zenon DEF NewIDs
<1>2. owner' \in [LockID -> Proc \union {NoProc}]
  BY <1>1, Zenon DEF Typed
<1>3. /\ doc' \in [Server -> Doc] /\ old' \in [Proc -> SUBSET LockID]
      /\ \A s \in Server : doc'[s].state > 0 => doc'[s].ts # 0
      /\ late' \in [Proc -> Late] /\ \A q \in Proc : late'[q].ts \in {0} \union old'[q]
  BY Zenon DEF Typed
<1>4. /\ Typed' /\ job'[p] = j
      /\ \A q \in Proc \ {p} : job'[q] = job[q]
  BY <1>1, <1>2, <1>3, TypedMove, Zenon DEF Trying
<1>5. ASSUME Safe PROVE Safe'
  <2>1. job'[p].o.ts # 0 => owner[job'[p].o.ts] # NoProc
    BY <1>4, <1>5 DEF Safe, IDs
  <2>2. job'[p].o.ts \in 0 .. MaxTs
    BY <1>4, Fields, Zenon
  <2>3. OthersStay(p)
    BY <1>4, Zenon DEF OthersStay
  <2> QED
    BY <1>4, <1>5, <2>1, <2>2, <2>3, StartSafe, Zenon
<1> QED
  BY <1>4, <1>5, Zenon

\* Only the lists of the pingers change, and no ID is added to them.
LEMMA ListsSafe ==
    ASSUME Typed, Safe, UNCHANGED <<doc, owner, job>>,
           \A q \in Proc : old'[q] \subseteq old[q]
    PROVE  Safe'
<1> USE DEF Safe
<1>1. IDs'
  BY Zenon DEF IDs
<1>2. Spent'
  BY Zenon DEF Spent, Retired
<1>3. Grabbing'
  BY Zenon DEF Grabbing, Retired
<1>4. Witnessed'
  BY Zenon DEF Witnessed, Witness
<1>5. PassedAreSet'
  BY Zenon DEF PassedAreSet, Passed
<1>6. Finals'
  BY Zenon DEF Finals, OwnsAll
<1> QED
  BY <1>1, <1>2, <1>3, <1>4, <1>5, <1>6, Zenon

LEMMA ReadStep ==
    ASSUME Typed, NEW p \in Proc, Read(p)
    PROVE  Typed' /\ (Safe => Safe')
<1>1. PICK s \in Server :
         \/ /\ doc[s].state = 0
            /\ \E t \in NewIDs(p) :
                  /\ owner' = [owner EXCEPT ![t] = p]
                  /\ job' = [job EXCEPT ![p] = [Idle EXCEPT !.pc = "acquire",
                                                            !.ts = t, !.o = doc[s]]]
            /\ lastPing' = [lastPing EXCEPT ![p] = 0]
         \/ /\ doc[s].state > 0
            /\ Forceable(p, doc[s])
            /\ job' = [job EXCEPT ![p] = [Idle EXCEPT !.pc = "force", !.o = doc[s]]]
            /\ lastPing' = [lastPing EXCEPT ![p] = 0]
            /\ UNCHANGED owner
         \/ /\ doc[s].state > 0
            /\ Changed(p, doc[s])
            /\ lastPing' = [lastPing EXCEPT ![p] = doc[s].ts]
            /\ UNCHANGED <<owner, job>>
  BY Zenon DEF Read
<1>2. UNCHANGED <<doc, old, late>> /\ job[p].pc = "idle"
  BY Zenon DEF Read
<1>3. doc[s] \in Doc /\ doc[s].ts \in 0 .. MaxTs /\ (doc[s].state > 0 => doc[s].ts # 0)
  BY Fields, Zenon DEF Typed
<1>4. lastPing' \in [Proc -> 0 .. MaxTs]
  <2>1. \E t \in 0 .. MaxTs : lastPing' = [lastPing EXCEPT ![p] = t]
    <3>1. 0 \in 0 .. MaxTs
      BY Constants
    <3> QED
      BY <1>1, <1>3, <3>1, Zenon
  <2> QED
    BY <2>1, Zenon DEF Typed
<1>5. ASSUME NEW t \in NewIDs(p), owner' = [owner EXCEPT ![t] = p],
             job' = [job EXCEPT ![p] = [Idle EXCEPT !.pc = "acquire", !.ts = t, !.o = doc[s]]]
      PROVE  Typed' /\ (Safe => Safe')
  <2> DEFINE j == [Idle EXCEPT !.pc = "acquire", !.ts = t, !.o = doc[s]]
  <2>1. j \in Job /\ j.pc = "acquire" /\ j.ts = t /\ j.hit = {} /\ j.o = doc[s]
    <3>1. t \in 0 .. MaxTs
      BY Constants, Zenon DEF NewIDs
    <3> QED
      BY <1>3, <3>1, IdleType, Zenon DEF Job
  <2>2. job' = [job EXCEPT ![p] = j]
    BY <1>5, Zenon
  <2> HIDE DEF j
  <2> QED
    BY <1>2, <1>3, <1>4, <1>5, <2>1, <2>2, StartMove, ZenonT(40)
<1>6. ASSUME doc[s].state > 0, Forceable(p, doc[s]), UNCHANGED owner,
             job' = [job EXCEPT ![p] = [Idle EXCEPT !.pc = "force", !.o = doc[s]]]
      PROVE  Typed' /\ (Safe => Safe')
  <2> DEFINE j == [Idle EXCEPT !.pc = "force", !.o = doc[s]]
  <2>1. j \in Job /\ j.pc = "force" /\ j.ts = 0 /\ j.o = doc[s]
    BY <1>3, IdleType, Zenon DEF Job
  <2>2. job' = [job EXCEPT ![p] = j]
    BY <1>6, Zenon
  <2> HIDE DEF j
  <2>3. /\ doc' \in [Server -> Doc] /\ owner' \in [LockID -> Proc \union {NoProc}]
        /\ \A u \in Server : doc'[u].state > 0 => doc'[u].ts # 0
        /\ old' \in [Proc -> SUBSET LockID]
        /\ late' \in [Proc -> Late] /\ \A q \in Proc : late'[q].ts \in {0} \union old'[q]
    BY <1>2, <1>6, Zenon DEF Typed
  <2>4. /\ Typed' /\ job'[p] = j
        /\ \A q \in Proc \ {p} : job'[q] = job[q]
    BY <1>3, <1>4, <1>6, <2>1, <2>2, <2>3, TypedMove, ZenonT(40) DEF Trying
  <2>5. \A q \in Proc : job[q].ts # doc[s].ts
    BY <1>6, Zenon DEF Forceable
  <2>6. OthersStay(p)
    BY <1>2, <2>4, Zenon DEF OthersStay
  <2> QED
    BY <1>2, <1>6, <2>1, <2>4, <2>5, <2>6, AimSafe, Zenon
<1>7. ASSUME UNCHANGED <<owner, job>> PROVE Typed' /\ (Safe => Safe')
  <2>1. Typed'
    BY <1>2, <1>4, <1>7, Zenon DEF Typed
  <2>2. Safe => Safe'
    BY <1>2, <1>7, ListsSafe
  <2> QED
    BY <2>1, <2>2, Zenon
<1> QED
  BY <1>1, <1>5, <1>6, <1>7, Zenon

LEMMA ForcedStep ==
    ASSUME Typed, NEW p \in Proc, Forced(p)
    PROVE  Typed' /\ (Safe => Safe')
<1>1. job[p].pc = "force" /\ UNCHANGED <<doc, lastPing, old, late>>
  BY Zenon DEF Forced
<1>2. CASE job[p].failed \/ job[p].hit = {}
  <2>1. job' = [job EXCEPT ![p] = Idle] /\ UNCHANGED owner
    BY <1>2, Zenon DEF Forced
  <2> QED
    BY <1>1, <2>1, IdleMove, Zenon
<1>3. CASE ~(job[p].failed \/ job[p].hit = {})
  <2>1. PICK t \in NewIDs(p) :
           /\ owner' = [owner EXCEPT ![t] = p]
           /\ job' = [job EXCEPT ![p] = [To(p, "acquire", job[p].o) EXCEPT !.ts = t]]
    BY <1>3, Zenon DEF Forced
  <2> DEFINE j == [To(p, "acquire", job[p].o) EXCEPT !.ts = t]
  <2>2. t \in 0 .. MaxTs
    BY Constants, Zenon DEF NewIDs
  <2>3. job[p].o \in Doc /\ (job[p].o.state > 0 => job[p].o.ts # 0)
    BY Fields, Zenon DEF Typed
  <2>4. j \in Job /\ j.pc = "acquire" /\ j.ts = t /\ j.hit = {} /\ j.o = job[p].o
    <3> DEFINE k == To(p, "acquire", job[p].o)
    <3>1. k \in Job /\ k.pc = "acquire" /\ k.hit = {} /\ k.o = job[p].o
      BY <2>3, ToType
    <3>2. j = [k EXCEPT !.ts = t]
      BY Zenon
    <3> HIDE DEF j, k
    <3> QED
      BY <2>2, <3>1, <3>2, Zenon DEF Job
  <2>5. job' = [job EXCEPT ![p] = j]
    BY <2>1, Zenon
  <2> HIDE DEF j
  <2>6. lastPing' \in [Proc -> 0 .. MaxTs]
    BY <1>1, Zenon DEF Typed
  <2> QED
    BY <1>1, <2>1, <2>3, <2>4, <2>5, <2>6, StartMove, Zenon
<1> QED
  BY <1>2, <1>3, Zenon

\* An attempt goes on to pc with a fresh record.
LEMMA ToMove ==
    ASSUME Typed, NEW p \in Proc, job[p].pc \in Trying,
           NEW pc \in {"compare", "finalize", "held"}, NEW o \in Doc,
           o.state > 0 => o.ts # 0,
           job' = [job EXCEPT ![p] = To(p, pc, o)],
           UNCHANGED <<doc, owner, lastPing, old, late>>
    PROVE  /\ Typed' /\ Proceeds(p)
           /\ job'[p].pc = pc /\ job'[p].at = 1 /\ job'[p].o = o
<1> DEFINE j == To(p, pc, o)
<1>1. j \in Job /\ j.pc = pc /\ j.ts = job[p].ts /\ j.o = o /\ j.at = 1
  <2>1. pc \in {"acquire", "compare", "finalize", "held", "unlock"}
    BY Zenon
  <2> QED
    BY <2>1, ToType
<1>2. job' = [job EXCEPT ![p] = j]
  BY Zenon
<1>3. job[p].ts # 0
  BY Zenon DEF Typed
<1> HIDE DEF j
<1>4. Typed' /\ job'[p] = j /\ OthersStay(p)
  BY <1>1, <1>2, <1>3, TypedJobMove, Zenon DEF Trying
<1> QED
  BY <1>1, <1>4, Zenon DEF Proceeds

LEMMA AcquiredStep ==
    ASSUME Typed, NEW p \in Proc, Acquired(p)
    PROVE  Typed' /\ (Safe => Safe')
<1>1. job[p].pc = "acquire" /\ UNCHANGED <<doc, owner, lastPing, old, late>>
  BY Zenon DEF Acquired
<1>2. job[p].pc \in Trying
  BY <1>1, Zenon DEF Trying
<1>3. CASE job[p].failed \/ job[p].hit = {}
  <2>1. job' = [job EXCEPT ![p] = Idle]
    BY <1>3, Constants, Zenon DEF Acquired
  <2> QED
    BY <1>1, <2>1, IdleMove, Zenon
<1>4. CASE ~job[p].failed /\ job[p].hit # {} /\ job[p].hit = Server
  <2>1. job' = [job EXCEPT ![p] = To(p, "finalize", InitialDoc)]
    BY <1>4, Zenon DEF Acquired
  <2>2. /\ Typed' /\ Proceeds(p)
        /\ job'[p].pc = "finalize" /\ job'[p].at = 1 /\ job'[p].o = InitialDoc
    BY <1>1, <1>2, <2>1, InitialFields, ToMove, Zenon
  <2> QED
    BY <1>1, <1>4, <2>2, IdleType, WinSafe, Zenon
<1>5. CASE ~job[p].failed /\ job[p].hit # {} /\ job[p].hit # Server
  <2>1. job' = [job EXCEPT ![p] = To(p, "compare", InitialDoc)]
    BY <1>5, Zenon DEF Acquired
  <2>2. /\ Typed' /\ Proceeds(p)
        /\ job'[p].pc = "compare" /\ job'[p].at = 1 /\ job'[p].o = InitialDoc
    BY <1>1, <1>2, <2>1, InitialFields, ToMove, Zenon
  <2> QED
    BY <1>1, <1>5, <2>2, IdleType, EnterSafe, Zenon
<1> QED
  BY <1>3, <1>4, <1>5, Zenon

\* The tournament goes on to the next server.
LEMMA CompareMove ==
    ASSUME Typed, NEW p \in Proc, job[p].pc \in Tournament, job[p].at \in Server,
           NextCompare(p, doc[job[p].at]), UNCHANGED <<doc, owner, lastPing, old, late>>
    PROVE  /\ Typed'
           /\ (/\ Safe /\ doc[job[p].at].state > 0
               /\ doc[job[p].at].ts \notin old[p]) => Safe'
<1> DEFINE s == job[p].at
           m == Max({job[p].max, doc[s].ts})
           k == To(p, "compare", InitialDoc)
           j == [k EXCEPT !.at = s + 1, !.max = m]
<1>1. s \in Server /\ s + 1 \in 1 .. NumServers + 1
  BY Constants, Zenon
<1>2. /\ job[p].max \in 0 .. MaxTs /\ doc[s].ts \in 0 .. MaxTs
      /\ job[p].max \in Nat /\ doc[s].ts \in Nat
  BY <1>1, Fields, Zenon
<1> HIDE DEF s
<1>3. m >= job[p].max /\ m >= doc[s].ts /\ m \in {job[p].max, doc[s].ts}
  BY <1>2, MaxOfTwo, Zenon
<1> HIDE DEF m
<1>4. m \in 0 .. MaxTs /\ m \in Nat
  BY <1>2, <1>3, Zenon
<1>5. k \in Job /\ k.pc = "compare" /\ k.o = InitialDoc /\ k.ts = job[p].ts
  BY InitialFields, ToType
<1> HIDE DEF k
<1>6. /\ j \in Job /\ j.pc = "compare" /\ j.o = InitialDoc /\ j.ts = job[p].ts
      /\ j.at = s + 1 /\ j.max = m
  BY <1>1, <1>4, <1>5, Zenon DEF Job
<1>7. job' = [job EXCEPT ![p] = j]
  BY Zenon DEF NextCompare, s, m, k
<1> HIDE DEF j
<1>8. job[p].ts # 0 /\ job[p].pc \in Trying
  BY Zenon DEF Typed, Trying, Tournament
<1>9. Typed' /\ job'[p] = j /\ OthersStay(p)
  BY <1>6, <1>7, <1>8, InitialFields, TypedJobMove, Zenon DEF Trying
<1>10. Proceeds(p)
  BY <1>6, <1>8, <1>9, Zenon DEF Proceeds
<1>11. job'[p].o.ts = 0
  BY <1>6, <1>9, InitialFields, Zenon
<1>12. ASSUME Safe, doc[s].state > 0, doc[s].ts \notin old[p] PROVE Safe'
  BY <1>1, <1>3, <1>4, <1>6, <1>9, <1>10, <1>11, <1>12, AdvanceSafe, Zenon DEF s
<1> QED
  BY <1>9, <1>12, Zenon DEF s

LEMMA CompareStep ==
    ASSUME Typed, NEW p \in Proc, Compare(p)
    PROVE  Typed' /\ (Safe => Safe')
<1> DEFINE s == job[p].at
           d == doc[s]
<1>1. /\ job[p].pc = "compare" /\ s \in Server /\ d \in Doc
      /\ UNCHANGED <<doc, owner, lastPing, old, late>>
  BY Fields, Zenon DEF Compare
<1>2. CASE Grabs(p, d)
  <2> DEFINE j == [job[p] EXCEPT !.pc = "grab", !.o = d]
  <2>1. job' = [job EXCEPT ![p] = j]
    BY <1>1, <1>2, Fields, Zenon DEF Compare, Typed
  <2>2. /\ j \in Job /\ j.pc = "grab" /\ j.o = d /\ j.ts = job[p].ts
        /\ j.at = s /\ j.max = job[p].max
    <3>1. job[p] \in Job
      BY Fields, Zenon
    <3> QED
      BY <1>1, <3>1, Zenon DEF Job
  <2>3. job[p].ts # 0 /\ job[p].pc \in Trying /\ (d.state > 0 => d.ts # 0)
    BY <1>1, Zenon DEF Typed, Trying
  <2> HIDE DEF j
  <2>4. Typed' /\ job'[p] = j /\ OthersStay(p)
    BY <1>1, <2>1, <2>2, <2>3, TypedJobMove, Zenon DEF Trying
  <2>5. Proceeds(p)
    BY <1>1, <2>2, <2>3, <2>4, Zenon DEF Proceeds
  <2> QED
    BY <1>1, <1>2, <2>2, <2>4, <2>5, AimGrabSafe, Zenon
<1>3. CASE ~Grabs(p, d)
  <2>1. NextCompare(p, d) /\ job[p].pc \in Tournament
    BY <1>1, <1>3, Zenon DEF Compare, Tournament
  <2>2. d.state > 0 /\ d.ts >= job[p].ts
    BY <1>1, <1>3, Fields DEF Grabs
  <2>3. Safe => d.ts \notin old[p]
    <3>1. job[p].ts # 0
      BY <1>1, Zenon DEF Typed, Trying
    <3>2. Safe => \A t \in old[p] : t < job[p].ts
      BY <3>1, Distinct, Zenon DEF Safe
    <3> QED
      BY <1>1, <2>2, <3>2, Fields
  <2> QED
    BY <1>1, <2>1, <2>2, <2>3, CompareMove, Zenon
<1> QED
  BY <1>2, <1>3, Zenon

LEMMA GrabStep ==
    ASSUME Typed, NEW p \in Proc, Grab(p)
    PROVE  Typed' /\ (Safe => Safe')
<1> DEFINE s == job[p].at
           g == GrabQuery(p, doc[s])
           j == [job[p] EXCEPT !.pc = "reread"]
<1>1. /\ job[p].pc = "grab" /\ s \in Server /\ doc[s] \in Doc /\ job[p].ts # 0
      /\ job[p].pc \in Trying /\ UNCHANGED <<owner, lastPing, old, late>>
  BY Fields, Zenon DEF Grab, Typed, Trying
<1>2. doc' = IF g THEN [doc EXCEPT ![s].ts = job[p].ts, ![s].state = 1] ELSE doc
  BY Zenon DEF Grab
<1>3. /\ doc' \in [Server -> Doc]
      /\ \A u \in Server \ {s} : doc'[u] = doc[u]
      /\ ~g => doc'[s] = doc[s]
      /\ g => doc'[s].ts = job[p].ts /\ doc'[s].state = 1
  <2>1. job[p].ts \in 0 .. MaxTs /\ doc \in [Server -> Doc]
    BY Fields, Zenon DEF Typed
  <2> DEFINE x == [doc[s] EXCEPT !.ts = job[p].ts, !.state = 1]
  <2>2. x \in Doc /\ x.ts = job[p].ts /\ x.state = 1
    <3>1. 1 \in 0 .. 2
      OBVIOUS
    <3>2. ASSUME NEW e \in Doc, NEW t \in 0 .. MaxTs
          PROVE  [e EXCEPT !.ts = t, !.state = 1] \in Doc
      BY <3>1, Zenon DEF Doc
    <3>3. ASSUME NEW e \in Doc, NEW t \in 0 .. MaxTs
          PROVE  /\ [e EXCEPT !.ts = t, !.state = 1].ts = t
                 /\ [e EXCEPT !.ts = t, !.state = 1].state = 1
      BY Zenon DEF Doc
    <3> QED
      BY <1>1, <2>1, <3>2, <3>3, Zenon
  <2>3. doc' = IF g THEN [doc EXCEPT ![s] = x] ELSE doc
    BY <1>1, <1>2, <2>1, Zenon
  <2> HIDE DEF s, g, x
  <2> QED
    BY <1>1, <2>1, <2>2, <2>3, Zenon
<1>4. \A u \in Server : doc'[u].state > 0 => doc'[u].ts # 0
  BY <1>1, <1>3, Zenon DEF Typed
<1>5. /\ j \in Job /\ j.pc = "reread" /\ j.o = job[p].o /\ j.ts = job[p].ts
      /\ j.at = s /\ j.max = job[p].max
  <2>1. job[p] \in Job
    BY Fields
  <2> QED
    BY <2>1, Zenon DEF Job
<1>6. job' = [job EXCEPT ![p] = j]
  BY Fields, Zenon DEF Grab, Typed
<1>7. job[p].o.state > 0 => job[p].o.ts # 0
  BY Zenon DEF Typed
<1>8. /\ owner' \in [LockID -> Proc \union {NoProc}]
      /\ lastPing' \in [Proc -> 0 .. MaxTs] /\ old' \in [Proc -> SUBSET LockID]
      /\ late' \in [Proc -> Late] /\ \A q \in Proc : late'[q].ts \in {0} \union old'[q]
  BY <1>1, Zenon DEF Typed
<1> HIDE DEF j
<1>9. /\ Typed' /\ job'[p] = j
      /\ \A q \in Proc \ {p} : job'[q] = job[q]
  BY <1>1, <1>3, <1>4, <1>5, <1>6, <1>7, <1>8, TypedMove, Zenon DEF Trying
<1>10. OthersStay(p)
  BY <1>1, <1>9, Zenon DEF OthersStay
<1>11. \/ doc'[s] = doc[s] /\ doc[s].ts # job[p].o.ts
       \/ /\ doc[s].ts = job[p].o.ts
          /\ doc'[s].ts = job[p].ts /\ doc'[s].state = 1
  BY <1>3, Zenon DEF GrabQuery
<1> QED
  BY <1>1, <1>3, <1>5, <1>9, <1>10, <1>11, GrabSafe, Zenon

LEMMA RereadStep ==
    ASSUME Typed, NEW p \in Proc, Reread(p)
    PROVE  Typed' /\ (Safe => Safe')
<1> DEFINE s == job[p].at
<1>1. /\ job[p].pc = "reread" /\ s \in Server /\ job[p].ts # 0 /\ job[p].ts \in LockID
      /\ UNCHANGED <<doc, owner, lastPing, late>>
  BY Fields, Constants, Zenon DEF Reread, Typed, Trying
<1>2. CASE doc[s].state = 0
  <2>1. LeaveToPinger(p, job[p].ts)
    BY <1>2, Zenon DEF Reread
  <2> QED
    BY <1>1, <2>1, PingerMove, Zenon
<1>3. CASE doc[s].state # 0
  <2>1. NextCompare(p, doc[s]) /\ UNCHANGED old
    BY <1>3, Zenon DEF Reread
  <2>2. job[p].pc \in Tournament /\ doc[s].state > 0
    BY <1>1, <1>3, Fields DEF Tournament
  <2>3. Safe => doc[s].ts \notin old[p]
    BY <1>1, Zenon DEF Safe, PassedAreSet
  <2> QED
    BY <1>1, <2>1, <2>2, <2>3, CompareMove, Zenon
<1> QED
  BY <1>2, <1>3, Zenon

LEMMA CompareFailsStep ==
    ASSUME Typed, NEW p \in Proc, CompareFails(p)
    PROVE  Typed' /\ (Safe => Safe')
  BY IdleMove, Zenon DEF CompareFails

LEMMA ComparedStep ==
    ASSUME Typed, NEW p \in Proc, Compared(p)
    PROVE  Typed' /\ (Safe => Safe')
<1>1. /\ job[p].pc = "compare" /\ job[p].ts # 0 /\ job[p].ts \in LockID
      /\ job[p].pc \in Trying /\ UNCHANGED <<doc, owner, lastPing, late>>
  BY Fields, Constants, Zenon DEF Compared, Typed, Trying
<1>2. CASE job[p].max = job[p].ts
  <2>1. job' = [job EXCEPT ![p] = To(p, "finalize", InitialDoc)] /\ UNCHANGED old
    BY <1>2, Zenon DEF Compared
  <2>2. /\ Typed' /\ Proceeds(p)
        /\ job'[p].pc = "finalize" /\ job'[p].at = 1 /\ job'[p].o = InitialDoc
    BY <1>1, <2>1, InitialFields, ToMove, Zenon
  <2>3. job[p].at > NumServers
    BY Zenon DEF Compared, Written
  <2> QED
    BY <1>1, <1>2, <2>2, <2>3, InitialFields, WinSafe, Zenon
<1>3. CASE job[p].max # job[p].ts
  <2>1. LeaveToPinger(p, job[p].ts)
    BY <1>3, Zenon DEF Compared
  <2> QED
    BY <1>1, <2>1, PingerMove, Zenon
<1> QED
  BY <1>2, <1>3, Zenon

LEMMA FinalizedStep ==
    ASSUME Typed, NEW p \in Proc, Finalized(p)
    PROVE  Typed' /\ (Safe => Safe')
<1>1. /\ job[p].pc = "finalize" /\ job[p].ts # 0 /\ job[p].ts \in LockID
      /\ job[p].pc \in Trying /\ UNCHANGED <<doc, owner, lastPing, late>>
  BY Fields, Constants, Zenon DEF Finalized, Typed, Trying
<1>2. CASE job[p].failed
  <2>1. LeaveToPinger(p, job[p].ts)
    BY <1>2, Zenon DEF Finalized
  <2> QED
    BY <1>1, <2>1, PingerMove, Zenon
<1>3. CASE ~job[p].failed
  <2>1. PICK s \in Server : job' = [job EXCEPT ![p] = To(p, "held", doc[s])]
    BY <1>3, Zenon DEF Finalized
  <2>2. UNCHANGED old /\ job[p].at > NumServers
    BY <1>3, Zenon DEF Finalized, Written
  <2> DEFINE d == doc[s]
  <2>3. d \in Doc /\ (d.state > 0 => d.ts # 0)
    BY Fields, Zenon DEF Typed
  <2>4. job' = [job EXCEPT ![p] = To(p, "held", d)]
    BY <2>1, Zenon
  <2> HIDE DEF d
  <2>5. Typed' /\ Proceeds(p) /\ job'[p].pc = "held" /\ job'[p].o = d
    BY <1>1, <2>2, <2>3, <2>4, ToMove, Zenon
  <2> QED
    BY <1>1, <1>3, <2>2, <2>5, HoldSafe, Zenon DEF d
<1> QED
  BY <1>2, <1>3, Zenon

\* An unlock starts, or is tried again.
LEMMA UnlockMove ==
    ASSUME Typed, NEW p \in Proc, job[p].pc \in {"held", "unlock"}, job[p].o.ts # 0,
           job' = [job EXCEPT ![p] = To(p, "unlock", job[p].o)],
           UNCHANGED <<doc, owner, lastPing, old, late>>
    PROVE  Typed' /\ (Safe => Safe')
<1> DEFINE j == To(p, "unlock", job[p].o)
<1>1. job[p].o \in Doc /\ job[p].ts # 0
  BY Fields, Zenon DEF Typed
<1>2. j \in Job /\ j.pc = "unlock" /\ j.ts = job[p].ts /\ j.o = job[p].o
  BY <1>1, ToType
<1>3. job' = [job EXCEPT ![p] = j]
  BY Zenon
<1> HIDE DEF j
<1>4. Typed' /\ job'[p] = j /\ OthersStay(p)
  BY <1>1, <1>2, <1>3, TypedJobMove, Zenon DEF Trying
<1> QED
  BY <1>2, <1>4, UnlockSafe, Zenon

LEMMA UnlockStep ==
    ASSUME Typed, NEW p \in Proc, Unlock(p)
    PROVE  Typed' /\ (Safe => Safe')
<1>1. job[p].pc = "held" /\ UNCHANGED <<doc, owner, lastPing, old, late>>
  BY Zenon DEF Unlock
<1>2. CASE job[p].o.state = 2
  <2>1. job' = [job EXCEPT ![p] = To(p, "unlock", job[p].o)]
    BY <1>2, Zenon DEF Unlock
  <2>2. job[p].o.ts # 0
    BY <1>2 DEF Typed
  <2> QED
    BY <1>1, <2>1, <2>2, UnlockMove, Zenon
<1>3. CASE job[p].o.state # 2
  <2>1. job' = [job EXCEPT ![p] = Idle]
    BY <1>3, Zenon DEF Unlock
  <2> QED
    BY <1>1, <2>1, IdleMove, Zenon
<1> QED
  BY <1>2, <1>3, Zenon

LEMMA UnlockedStep ==
    ASSUME Typed, NEW p \in Proc, Unlocked(p)
    PROVE  Typed' /\ (Safe => Safe')
<1>1. /\ job[p].pc = "unlock" /\ job[p].o.ts # 0 /\ job[p].o.ts \in LockID
      /\ UNCHANGED <<doc, owner, lastPing, late>>
  BY Fields, Constants, Zenon DEF Unlocked, Typed
<1>2. CASE job' = [job EXCEPT ![p] = Idle] /\ UNCHANGED old
  BY <1>1, <1>2, IdleMove, Zenon
<1>3. CASE job' = [job EXCEPT ![p] = To(p, "unlock", job[p].o)] /\ UNCHANGED old
  BY <1>1, <1>3, UnlockMove, Zenon
<1>4. CASE LeaveToPinger(p, job[p].o.ts)
  <2>1. Safe => job[p].o.ts = job[p].ts
    BY <1>1, Zenon DEF Safe, IDs
  <2> QED
    BY <1>1, <1>4, <2>1, PingerMove, Zenon
<1> QED
  BY <1>2, <1>3, <1>4, Zenon DEF Unlocked

LEMMA LateUnlockStep ==
    ASSUME Typed, NEW p \in Proc, LateUnlock(p)
    PROVE  Typed' /\ (Safe => Safe')
<1>1. PICK t \in old[p] : late' = [late EXCEPT ![p].ts = t]
  BY Zenon DEF LateUnlock
<1>2. UNCHANGED <<doc, owner, job, lastPing, old>>
  BY Zenon DEF LateUnlock
<1>3. late[p] \in Late /\ t \in 0 .. MaxTs
  BY Fields, Constants, Zenon DEF Typed
<1> DEFINE l == [late[p] EXCEPT !.ts = t]
<1>4. l \in Late /\ l.ts = t
  BY <1>3, Zenon DEF Late
<1>5. late' = [late EXCEPT ![p] = l]
  BY <1>1, Zenon DEF Typed
<1> HIDE DEF l
<1>6. late' \in [Proc -> Late] /\ \A q \in Proc : late'[q].ts \in {0} \union old'[q]
  BY <1>2, <1>4, <1>5, Zenon DEF Typed
<1>7. Typed'
  BY <1>2, <1>6, Zenon DEF Typed
<1>8. Safe => Safe'
  BY <1>2, ListsSafe, Zenon
<1> QED
  BY <1>7, <1>8, Zenon

LEMMA LateUnlockedStep ==
    ASSUME Typed, NEW p \in Proc, LateUnlocked(p)
    PROVE  Typed' /\ (Safe => Safe')
<1>1. UNCHANGED <<doc, owner, job, lastPing>> /\ late' = [late EXCEPT ![p] = NotLate]
  BY Zenon DEF LateUnlocked
<1>2. /\ old' \in [Proc -> SUBSET LockID] /\ old'[p] \subseteq old[p]
      /\ \A q \in Proc \ {p} : old'[q] = old[q]
  BY Zenon DEF LateUnlocked, Typed
<1>3. late' \in [Proc -> Late] /\ \A q \in Proc : late'[q].ts \in {0} \union old'[q]
  <2>1. /\ late' \in [Proc -> Late] /\ late'[p].ts = 0
        /\ \A q \in Proc \ {p} : late'[q] = late[q]
    BY <1>1, IdleType, Zenon DEF Typed
  <2> QED
    BY <1>2, <2>1, Zenon DEF Typed
<1>4. Typed'
  BY <1>1, <1>2, <1>3, Zenon DEF Typed
<1>5. Safe => Safe'
  BY <1>1, <1>2, ListsSafe
<1> QED
  BY <1>4, <1>5, Zenon

LEMMA CrashStep ==
    ASSUME Typed, NEW p \in Proc, Crash(p)
    PROVE  Typed' /\ (Safe => Safe')
<1> DEFINE j == [Idle EXCEPT !.pc = "dead"]
<1>1. j \in Job /\ j.pc = "dead" /\ j.ts = 0 /\ j.o = InitialDoc
  BY IdleType, Zenon DEF Job
<1>2. /\ job' = [job EXCEPT ![p] = j] /\ UNCHANGED <<doc, owner>>
      /\ old' = [old EXCEPT ![p] = {}] /\ late' = [late EXCEPT ![p] = NotLate]
      /\ lastPing' = [lastPing EXCEPT ![p] = 0]
  BY Zenon DEF Crash
<1> HIDE DEF j
<1>3. /\ old' \in [Proc -> SUBSET LockID] /\ old'[p] = {}
      /\ \A q \in Proc \ {p} : old'[q] = old[q]
  BY <1>2, Zenon DEF Typed
<1>4. /\ late' \in [Proc -> Late] /\ late'[p].ts = 0
      /\ \A q \in Proc \ {p} : late'[q] = late[q]
  BY <1>2, IdleType, Zenon DEF Typed
<1>5. \A q \in Proc : late'[q].ts \in {0} \union old'[q]
  BY <1>3, <1>4, Zenon DEF Typed
<1>6. lastPing' \in [Proc -> 0 .. MaxTs]
  BY <1>2, Constants DEF Typed
<1>7. /\ doc' \in [Server -> Doc] /\ owner' \in [LockID -> Proc \union {NoProc}]
      /\ \A s \in Server : doc'[s].state > 0 => doc'[s].ts # 0
  BY <1>2, Zenon DEF Typed
<1>8. j.o.ts = 0 /\ (j.o.state > 0 => j.o.ts # 0)
  BY <1>1, InitialFields, Zenon
<1>9. /\ Typed' /\ job'[p] = j
      /\ \A q \in Proc \ {p} : job'[q] = job[q]
  BY <1>1, <1>2, <1>3, <1>4, <1>5, <1>6, <1>7, <1>8, TypedMove, Zenon DEF Trying
<1>10. OthersStay(p)
  BY <1>3, <1>9, Zenon DEF OthersStay
<1> QED
  BY <1>1, <1>2, <1>3, <1>8, <1>9, <1>10, RetreatSafe, Zenon

-----------------------------------------------------------------------------
(* The writes, one per server.                                             *)

\* The job of a process whose write was answered, or was not.
LEMMA WrittenJob ==
    ASSUME NEW j \in Job, NEW n \in 1 .. NumServers + 1, NEW h \in SUBSET Server
    PROVE  /\ [j EXCEPT !.at = n, !.hit = h] \in Job
           /\ [j EXCEPT !.at = n, !.failed = TRUE] \in Job
  BY Zenon DEF Job

\* What one write of p leaves: the document of the server that it reaches is
\* as it was or, if it matched, the change c; of its own job only at, hit and
\* failed have changed.
LEMMA WriteFacts ==
    ASSUME Typed, NEW p \in Proc, NEW q \in BOOLEAN, NEW c \in Doc, WriteNext(p, q, c),
           c.state > 0 => c.ts # 0,
           job[p].pc \in {"force", "acquire", "finalize", "unlock"}
    PROVE  /\ Typed' /\ OthersStay(p) /\ UNCHANGED <<owner, old>>
           /\ job[p].at \in Server
           /\ job'[p].pc = job[p].pc /\ job'[p].ts = job[p].ts /\ job'[p].o = job[p].o
           /\ \A u \in Server \ {job[p].at} : doc'[u] = doc[u]
           /\ \/ doc'[job[p].at] = doc[job[p].at]
              \/ q /\ doc'[job[p].at] = c
           /\ \/ /\ q => doc'[job[p].at] = c
                 /\ job'[p].at = job[p].at + 1 /\ (job'[p].failed <=> job[p].failed)
                 /\ job'[p].hit = IF q THEN job[p].hit \union {job[p].at} ELSE job[p].hit
              \/ job'[p].failed /\ job'[p].hit = job[p].hit
<1> DEFINE s == job[p].at
           h == IF q THEN job[p].hit \union {s} ELSE job[p].hit
           a == [job[p] EXCEPT !.at = s + 1, !.hit = h]
           b(n) == [job[p] EXCEPT !.at = n, !.failed = TRUE]
<1>1. s \in Server /\ UNCHANGED <<owner, lastPing, old, late>>
  BY Zenon DEF WriteNext
<1>2. /\ job[p] \in Job /\ h \in SUBSET Server
      /\ s + 1 \in 1 .. NumServers + 1 /\ NumServers + 1 \in 1 .. NumServers + 1
  BY <1>1, Constants, Fields, Zenon
<1>3. /\ a \in Job /\ a.pc = job[p].pc /\ a.ts = job[p].ts /\ a.o = job[p].o
      /\ a.at = s + 1 /\ a.hit = h /\ a.failed = job[p].failed
  <2>1. a \in Job
    BY <1>2, WrittenJob, Zenon
  <2> QED
    BY <1>2, <2>1, Zenon DEF Job
<1>4. ASSUME NEW n \in {s + 1, NumServers + 1}
      PROVE  /\ b(n) \in Job /\ b(n).pc = job[p].pc /\ b(n).ts = job[p].ts
             /\ b(n).o = job[p].o /\ b(n).hit = job[p].hit /\ b(n).failed = TRUE
  <2>1. n \in 1 .. NumServers + 1
    BY <1>2, Zenon
  <2>2. b(n) \in Job
    BY <1>2, <2>1, WrittenJob, Zenon
  <2> QED
    BY <1>2, <2>2, Zenon DEF Job
<1>5. /\ doc' \in {doc, IF q THEN [doc EXCEPT ![s] = c] ELSE doc}
      /\ \/ /\ doc' = IF q THEN [doc EXCEPT ![s] = c] ELSE doc
            /\ job' = [job EXCEPT ![p] = a]
         \/ \E n \in {s + 1, NumServers + 1} : job' = [job EXCEPT ![p] = b(n)]
  <2>1. CASE /\ doc' = IF q THEN [doc EXCEPT ![s] = c] ELSE doc
             /\ job' = [job EXCEPT ![p].at = s + 1, ![p].hit = IF q THEN @ \union {s} ELSE @]
    BY <1>2, <2>1, Zenon DEF Typed
  <2>2. CASE /\ doc' \in {doc, IF q THEN [doc EXCEPT ![s] = c] ELSE doc}
             /\ \E n \in {s + 1, NumServers + 1} :
                   job' = [job EXCEPT ![p].at = n, ![p].failed = TRUE]
    BY <1>2, <2>2, Zenon DEF Typed
  <2> QED
    BY <2>1, <2>2, Zenon DEF WriteNext
<1> HIDE DEF a, b
<1>6. \E j \in Job : /\ job' = [job EXCEPT ![p] = j] /\ j.pc = job[p].pc
                     /\ j.ts = job[p].ts /\ j.o = job[p].o
  BY <1>3, <1>4, <1>5, Zenon
<1>7. /\ doc' \in [Server -> Doc]
      /\ \A u \in Server \ {s} : doc'[u] = doc[u]
      /\ doc'[s] = doc[s] \/ (q /\ doc'[s] = c)
  BY <1>1, <1>5, Zenon DEF Typed
<1>8. Typed' /\ \A r \in Proc \ {p} : job'[r] = job[r]
  <2>1. \A u \in Server : doc'[u].state > 0 => doc'[u].ts # 0
    BY <1>1, <1>7, Zenon DEF Typed
  <2>2. /\ owner' \in [LockID -> Proc \union {NoProc}]
        /\ lastPing' \in [Proc -> 0 .. MaxTs] /\ old' \in [Proc -> SUBSET LockID]
        /\ late' \in [Proc -> Late] /\ \A r \in Proc : late'[r].ts \in {0} \union old'[r]
    BY <1>1, Zenon DEF Typed
  <2>3. /\ job[p].ts # 0 <=> job[p].pc \in Trying \union {"held", "unlock"}
        /\ job[p].o.state > 0 => job[p].o.ts # 0
        /\ job[p].pc = "force" => job[p].o.state > 0
        /\ job[p].pc = "unlock" => job[p].o.ts # 0
        /\ job[p].pc \notin {"grab", "reread"}
    BY Zenon DEF Typed
  <2>4. PICK j \in Job : /\ job' = [job EXCEPT ![p] = j] /\ j.pc = job[p].pc
                         /\ j.ts = job[p].ts /\ j.o = job[p].o
    BY <1>6, Zenon
  <2>5. /\ j.ts # 0 <=> j.pc \in Trying \union {"held", "unlock"}
        /\ j.o.state > 0 => j.o.ts # 0
        /\ j.pc = "force" => j.o.state > 0
        /\ j.pc = "unlock" => j.o.ts # 0
        /\ j.pc \in {"grab", "reread"} => j.at \in Server
    BY <2>3, <2>4, Zenon
  <2> QED
    BY <1>7, <2>1, <2>2, <2>4, <2>5, TypedMove, Zenon
<1>9. OthersStay(p)
  BY <1>1, <1>8, Zenon DEF OthersStay
<1>10. job'[p].pc = job[p].pc /\ job'[p].ts = job[p].ts /\ job'[p].o = job[p].o
  BY <1>6, Zenon DEF Typed
<1>11. \/ /\ q => doc'[s] = c
          /\ job'[p].at = s + 1 /\ (job'[p].failed <=> job[p].failed)
          /\ job'[p].hit = h
       \/ job'[p].failed /\ job'[p].hit = job[p].hit
  <2>1. CASE /\ doc' = IF q THEN [doc EXCEPT ![s] = c] ELSE doc
             /\ job' = [job EXCEPT ![p] = a]
    <3>1. job'[p] = a
      BY <2>1, Zenon DEF Typed
    <3>2. q => doc'[s] = c
      BY <1>1, <2>1, Zenon DEF Typed
    <3> QED
      BY <1>3, <3>1, <3>2, Zenon
  <2>2. CASE \E n \in {s + 1, NumServers + 1} : job' = [job EXCEPT ![p] = b(n)]
    <3>1. PICK n \in {s + 1, NumServers + 1} : job' = [job EXCEPT ![p] = b(n)]
      BY <2>2, Zenon
    <3>2. job'[p] = b(n)
      BY <3>1, Zenon DEF Typed
    <3> QED
      BY <1>4, <3>2, Zenon
  <2> QED
    BY <1>5, <2>1, <2>2, Zenon
<1> QED
  BY <1>1, <1>7, <1>8, <1>9, <1>10, <1>11, Zenon

LEMMA AcquireStep ==
    ASSUME Typed, NEW p \in Proc, Acquire(p)
    PROVE  Typed' /\ (Safe => Safe')
<1> DEFINE s == job[p].at
           q == AcquireQuery(p, doc[s])
           c == [ts |-> job[p].ts, state |-> 1, process |-> p]
<1>1. job[p].pc = "acquire" /\ job[p].ts # 0 /\ job[p].ts \in 0 .. MaxTs
  BY Fields, Zenon DEF Acquire, Typed, Trying
<1>2. q \in BOOLEAN /\ (q => doc[s].state = 0)
  BY Zenon DEF AcquireQuery
<1>3. c \in Doc /\ c.ts = job[p].ts /\ c.state > 0
  BY <1>1 DEF Doc
<1>4. WriteNext(p, q, c)
  BY Zenon DEF Acquire
<1> HIDE DEF q, c
<1>5. /\ Typed' /\ OthersStay(p) /\ UNCHANGED <<owner, old>> /\ s \in Server
      /\ job'[p].pc = job[p].pc /\ job'[p].ts = job[p].ts /\ job'[p].o = job[p].o
      /\ \A u \in Server \ {s} : doc'[u] = doc[u]
      /\ doc'[s] = doc[s] \/ (q /\ doc'[s] = c)
      /\ \/ /\ q => doc'[s] = c
            /\ job'[p].at = s + 1 /\ (job'[p].failed <=> job[p].failed)
            /\ job'[p].hit = IF q THEN job[p].hit \union {s} ELSE job[p].hit
         \/ job'[p].failed /\ job'[p].hit = job[p].hit
  BY <1>1, <1>2, <1>3, <1>4, WriteFacts, Zenon
<1>6. \/ doc'[s] = doc[s] /\ job'[p].hit = job[p].hit
      \/ /\ doc[s].state = 0
         /\ doc'[s].ts = job[p].ts /\ doc'[s].state > 0
         /\ job'[p].hit = job[p].hit \/ job'[p].hit = job[p].hit \union {s}
  BY <1>2, <1>3, <1>5, Zenon
<1> QED
  BY <1>1, <1>5, <1>6, AcquireSafe, Zenon

LEMMA FinalizeStep ==
    ASSUME Typed, NEW p \in Proc, Finalize(p)
    PROVE  Typed' /\ (Safe => Safe')
<1> DEFINE s == job[p].at
           c == [ts |-> job[p].ts, state |-> 2, process |-> p]
<1>1. job[p].pc = "finalize" /\ job[p].ts # 0 /\ job[p].ts \in 0 .. MaxTs
  BY Fields, Zenon DEF Finalize, Typed, Trying
<1>2. c \in Doc /\ c.ts # 0
  BY <1>1 DEF Doc
<1>3. WriteNext(p, TRUE, c)
  BY Zenon DEF Finalize
<1> HIDE DEF c
<1>4. /\ Typed' /\ OthersStay(p) /\ UNCHANGED <<owner, old>> /\ s \in Server
      /\ job'[p].pc = job[p].pc /\ job'[p].ts = job[p].ts /\ job'[p].o = job[p].o
      /\ \A u \in Server \ {s} : doc'[u] = doc[u]
      /\ doc'[s] = doc[s] \/ doc'[s] = c
      /\ \/ /\ doc'[s] = c
            /\ job'[p].at = s + 1 /\ (job'[p].failed <=> job[p].failed)
         \/ job'[p].failed
  BY <1>1, <1>2, <1>3, WriteFacts, Zenon
<1>5. \/ job'[p].failed
      \/ job'[p].at = s + 1 /\ ~job[p].failed /\ doc'[s] = c
  BY <1>4, Zenon
<1> QED
  BY <1>1, <1>4, <1>5, FinalizeSafe, Zenon DEF c

\* What the history says of a step that has not made it true.
LEMMA NotOpened ==
    ASSUME NEW p \in Proc, Opens(p), ~opened'
    PROVE  \A s \in Server : doc'[s].state < doc[s].state =>
              \A q \in Proc \ {p} : ~Contends(q)
  BY Zenon DEF Opens

\* A write of p that opens documents with the ID of the one it read.
LEMMA OpenMove ==
    ASSUME Typed, NEW p \in Proc, NEW q \in BOOLEAN, NEW c \in Doc, WriteNext(p, q, c),
           job[p].pc \in {"force", "unlock"},
           c.ts = doc[job[p].at].ts, c.state = 0, q => c.ts = job[p].o.ts
    PROVE  Typed' /\ (Safe /\ ~opened' => Safe')
<1> DEFINE s == job[p].at
<1>1. /\ Typed' /\ OthersStay(p) /\ UNCHANGED <<owner, old>> /\ s \in Server
      /\ job'[p].pc = job[p].pc /\ job'[p].ts = job[p].ts /\ job'[p].o = job[p].o
      /\ \A u \in Server \ {s} : doc'[u] = doc[u]
      /\ doc'[s] = doc[s] \/ (q /\ doc'[s] = c)
  <2>1. /\ c.state > 0 => c.ts # 0
        /\ job[p].pc \in {"force", "acquire", "finalize", "unlock"}
    OBVIOUS
  <2> QED
    BY <2>1, WriteFacts, Zenon
<1>2. ASSUME Safe, ~opened' PROVE Safe'
  <2>1. \A r \in Proc : /\ job'[r].pc = job[r].pc /\ job'[r].ts = job[r].ts
                        /\ job'[r].o = job[r].o
                        /\ job[r].pc \notin {"force", "unlock"} => job'[r] = job[r]
    BY <1>1, Zenon DEF OthersStay
  <2>2. doc'[s].ts = doc[s].ts /\ (doc'[s] = doc[s] \/ doc'[s].state = 0)
    BY <1>1, Zenon
  <2>3. doc'[s].state = doc[s].state \/ \A r \in Proc \ {p} : ~Contends(r)
    <3>1. Opens(p)
      BY Zenon DEF WriteNext
    <3>2. doc'[s].state = doc[s].state \/ doc'[s].state < doc[s].state
      <4>1. doc[s].state \in Nat
        BY <1>1, Fields, Zenon
      <4> QED
        BY <2>2, <4>1
    <3> QED
      BY <1>1, <1>2, <3>1, <3>2, NotOpened, Zenon
  <2>4. ASSUME doc'[s] # doc[s]
        PROVE  /\ Retired(doc[s].ts)
               /\ \A r \in Proc : job[r].pc = "held" => job[r].ts # doc[s].ts
    <3>1. doc[s].ts = job[p].o.ts
      BY <1>1, <2>4, Zenon
    <3>2. CASE job[p].pc = "force"
      BY <1>2, <3>1, <3>2, Zenon DEF Safe, Spent, Retired
    <3>3. CASE job[p].pc = "unlock"
      <4>1. doc[s].ts = job[p].ts /\ job[p].ts # 0
        BY <1>2, <3>1, <3>3, Zenon DEF Safe, IDs, Typed
      <4>2. \A r \in Proc \ {p} : job[r].ts # job[p].ts
        BY <1>2, <4>1, Distinct, Zenon DEF Safe
      <4> QED
        BY <3>3, <4>1, <4>2, Zenon DEF Retired
    <3> QED
      BY <3>2, <3>3, Zenon
  <2> QED
    BY <1>1, <1>2, <2>1, <2>2, <2>3, <2>4, OpenSafe, Zenon
<1> QED
  BY <1>1, <1>2, Zenon

\* The change of a forced lock and of an unlock.
LEMMA OpenedDoc ==
    ASSUME NEW d \in Doc
    PROVE  /\ [d EXCEPT !.state = 0] \in Doc /\ [d EXCEPT !.state = 0].state = 0
           /\ [d EXCEPT !.state = 0].ts = d.ts
<1>1. 0 \in 0 .. 2
  OBVIOUS
<1> QED
  BY <1>1, Zenon DEF Doc

LEMMA ForceStep ==
    ASSUME Typed, NEW p \in Proc, ForceNext(p)
    PROVE  Typed' /\ (Safe /\ ~opened' => Safe')
<1> DEFINE d == doc[job[p].at]
           q == ForceQuery(p, d)
           c == [d EXCEPT !.state = 0]
<1>1. job[p].pc = "force" /\ WriteNext(p, q, c)
  BY Zenon DEF ForceNext
<1>2. d \in Doc
  BY <1>1, Fields, Zenon DEF WriteNext
<1>3. c \in Doc /\ c.state = 0 /\ c.ts = d.ts
  BY <1>2, OpenedDoc, Zenon
<1>4. q \in BOOLEAN /\ (q => c.ts = job[p].o.ts)
  BY <1>3, Zenon DEF ForceQuery
<1> HIDE DEF q, c
<1> QED
  BY <1>1, <1>3, <1>4, OpenMove, Zenon

LEMMA UnlockNextStep ==
    ASSUME Typed, NEW p \in Proc, UnlockNext(p)
    PROVE  Typed' /\ (Safe /\ ~opened' => Safe')
<1> DEFINE d == doc[job[p].at]
           q == UnlockQuery(d, job[p].o.ts)
           c == [d EXCEPT !.state = 0]
<1>1. job[p].pc = "unlock" /\ WriteNext(p, q, c)
  BY Zenon DEF UnlockNext
<1>2. d \in Doc
  BY <1>1, Fields, Zenon DEF WriteNext
<1>3. c \in Doc /\ c.state = 0 /\ c.ts = d.ts
  BY <1>2, OpenedDoc
<1>4. q \in BOOLEAN /\ (q => c.ts = job[p].o.ts)
  BY <1>3, Zenon DEF UnlockQuery
<1> HIDE DEF q, c
<1> QED
  BY <1>1, <1>3, <1>4, OpenMove, Zenon

\* The pinger's write.  Its ID is of an attempt that is over.
LEMMA LateUnlockNextStep ==
    ASSUME Typed, NEW p \in Proc, LateUnlockNext(p)
    PROVE  Typed' /\ (Safe /\ ~opened' => Safe')
<1> DEFINE s == late[p].at
           q == UnlockQuery(doc[s], late[p].ts)
           c == [doc[s] EXCEPT !.state = 0]
<1>1. /\ s \in Server /\ late[p].ts # 0 /\ Opens(p)
      /\ UNCHANGED <<owner, job, lastPing, old>>
  BY Zenon DEF LateUnlockNext
<1>2. /\ late[p] \in Late /\ late[p].ts \in old[p] /\ doc[s] \in Doc
      /\ s + 1 \in 1 .. NumServers + 1 /\ NumServers + 1 \in 1 .. NumServers + 1
  BY <1>1, Constants, Zenon DEF Typed
<1>3. c \in Doc /\ c.state = 0 /\ c.ts = doc[s].ts
  BY <1>2, OpenedDoc, Zenon
<1>4. q => doc[s].ts = late[p].ts
  BY Zenon DEF UnlockQuery
<1>5. /\ doc' = doc \/ (q /\ doc' = [doc EXCEPT ![s] = c])
      /\ \/ late' = [late EXCEPT ![p].at = s + 1]
         \/ \E n \in {s + 1, NumServers + 1} :
               late' = [late EXCEPT ![p].at = n, ![p].failed = TRUE]
  <2>1. [doc EXCEPT ![s].state = 0] = [doc EXCEPT ![s] = c]
    BY <1>1, Zenon DEF Typed
  <2> DEFINE w == [doc EXCEPT ![s].state = 0]
             v == [doc EXCEPT ![s] = c]
  <2>2. w = v
    BY <2>1, Zenon
  <2>3. \/ /\ doc' = IF q THEN w ELSE doc
           /\ late' = [late EXCEPT ![p].at = s + 1]
        \/ /\ doc' \in {doc, IF q THEN w ELSE doc}
           /\ \E n \in {s + 1, NumServers + 1} :
                 late' = [late EXCEPT ![p].at = n, ![p].failed = TRUE]
    BY Zenon DEF LateUnlockNext
  <2> HIDE DEF w, v, q, s
  <2>4. doc' = doc \/ (q /\ doc' = v)
    BY <2>2, <2>3, Zenon
  <2> QED
    BY <2>3, <2>4, Zenon DEF v
<1>6. /\ late' \in [Proc -> Late] /\ late'[p].ts = late[p].ts
      /\ \A r \in Proc \ {p} : late'[r] = late[r]
  <2>1. ASSUME NEW n \in 1 .. NumServers + 1
        PROVE  /\ [late[p] EXCEPT !.at = n] \in Late
               /\ [late[p] EXCEPT !.at = n].ts = late[p].ts
               /\ [late[p] EXCEPT !.at = n, !.failed = TRUE] \in Late
               /\ [late[p] EXCEPT !.at = n, !.failed = TRUE].ts = late[p].ts
    <3>1. [late[p] EXCEPT !.at = n, !.failed = TRUE] \in Late
      BY <1>2, Zenon DEF Late
    <3>2. [late[p] EXCEPT !.at = n] \in Late
      BY <1>2, Zenon DEF Late
    <3> QED
      BY <1>2, <3>1, <3>2, Zenon DEF Late
  <2>2. \E l \in Late : late' = [late EXCEPT ![p] = l] /\ l.ts = late[p].ts
    <3>1. CASE late' = [late EXCEPT ![p].at = s + 1]
      <4> DEFINE l == [late[p] EXCEPT !.at = s + 1]
      <4>1. l \in Late /\ l.ts = late[p].ts
        BY <1>2, <2>1, Zenon
      <4>2. late' = [late EXCEPT ![p] = l]
        BY <3>1, Zenon DEF Typed
      <4> HIDE DEF l
      <4> QED
        BY <4>1, <4>2, Zenon
    <3>2. ASSUME NEW n \in {s + 1, NumServers + 1},
                 late' = [late EXCEPT ![p].at = n, ![p].failed = TRUE]
          PROVE  \E l \in Late : late' = [late EXCEPT ![p] = l] /\ l.ts = late[p].ts
      <4> DEFINE l == [late[p] EXCEPT !.at = n, !.failed = TRUE]
      <4>1. l \in Late /\ l.ts = late[p].ts
        BY <1>2, <2>1, Zenon
      <4>2. late' = [late EXCEPT ![p] = l]
        BY <3>2, Zenon DEF Typed
      <4> HIDE DEF l
      <4> QED
        BY <4>1, <4>2, Zenon
    <3> QED
      BY <1>5, <3>1, <3>2, Zenon
  <2> QED
    BY <2>2, Zenon DEF Typed
<1> HIDE DEF c, q
<1>7. /\ doc' \in [Server -> Doc]
      /\ \A u \in Server \ {s} : doc'[u] = doc[u]
      /\ doc'[s] = doc[s] \/ (q /\ doc'[s] = c)
  BY <1>1, <1>3, <1>5 DEF Typed
<1>8. Typed'
  <2>1. \A u \in Server : doc'[u].state > 0 => doc'[u].ts # 0
    <3>1. ~(c.state > 0)
      BY <1>3
    <3> QED
      BY <1>1, <1>7, <3>1, Zenon DEF Typed
  <2>2. \A r \in Proc : late'[r].ts \in {0} \union old'[r]
    BY <1>1, <1>2, <1>6, Zenon DEF Typed
  <2> QED
    BY <1>1, <1>6, <1>7, <2>1, <2>2, Zenon DEF Typed
<1>9. ASSUME Safe, ~opened' PROVE Safe'
  <2>1. doc'[s].ts = doc[s].ts /\ (doc'[s] = doc[s] \/ doc'[s].state = 0)
    BY <1>3, <1>7, Zenon
  <2>2. doc'[s].state = doc[s].state \/ \A r \in Proc \ {p} : ~Contends(r)
    <3>1. doc'[s].state = doc[s].state \/ doc'[s].state < doc[s].state
      <4>1. doc[s].state \in Nat
        BY <1>1, Fields, Zenon
      <4> QED
        BY <2>1, <4>1
    <3> QED
      BY <1>1, <1>9, <3>1, NotOpened, Zenon
  <2>3. ASSUME doc'[s] # doc[s]
        PROVE  /\ doc[s].ts \in old[p] /\ Retired(doc[s].ts)
               /\ \A r \in Proc : job[r].ts # doc[s].ts
    <3>1. doc[s].ts = late[p].ts /\ late[p].ts \in old[p]
      BY <1>2, <1>4, <1>7, <2>3, Zenon
    <3>2. ASSUME NEW r \in Proc, job[r].ts = late[p].ts PROVE FALSE
      BY <1>1, <1>2, <1>9, <3>2, Distinct, Zenon DEF Safe
    <3> QED
      BY <3>1, <3>2, Zenon DEF Retired
  <2> QED
    BY <1>1, <1>7, <1>9, <2>1, <2>2, <2>3, OpenSafe, ZenonT(40)
<1> QED
  BY <1>8, <1>9, Zenon

-----------------------------------------------------------------------------
(* Theorems.                                                               *)

LEMMA InitSafe ==
    ASSUME Init
    PROVE  Safe
<1>1. /\ \A s \in Server : doc[s].ts = 0
      /\ \A p \in Proc : /\ job[p].pc = "idle" /\ job[p].ts = 0 /\ job[p].o.ts = 0
                         /\ old[p] = {}
  BY IdleType, Zenon DEF Init
<1> QED
  BY <1>1, Zenon DEF Safe, IDs, Spent, Grabbing, Witnessed, PassedAreSet, Passed, Finals, Tournament

LEMMA NextStep ==
    ASSUME IInv, [Next]_vars
    PROVE  IInv'
<1>1. Typed
  BY Zenon DEF IInv
<1>2. ASSUME UNCHANGED vars PROVE IInv'
  <2>1. UNCHANGED <<doc, owner, job, lastPing, old, late, opened>>
    BY <1>2, Zenon DEF vars
  <2>2. Typed'
    BY <1>1, <2>1, Zenon DEF Typed
  <2>3. Safe => Safe'
    BY <1>1, <2>1, ListsSafe, Zenon
  <2> QED
    BY <2>1, <2>2, <2>3, Zenon DEF IInv
<1>3. ASSUME NEW p \in Proc, ForceNext(p) \/ UnlockNext(p) \/ LateUnlockNext(p) PROVE IInv'
  <2>1. Typed' /\ (Safe /\ ~opened' => Safe')
    BY <1>1, <1>3, ForceStep, UnlockNextStep, LateUnlockNextStep, Zenon
  <2>2. opened => opened'
    BY <1>3, Zenon DEF ForceNext, UnlockNext, LateUnlockNext, WriteNext, Opens
  <2> QED
    BY <2>1, <2>2, Zenon DEF IInv
<1>4. ASSUME NEW p \in Proc, Acquire(p) \/ Finalize(p) PROVE IInv'
  <2>1. Typed' /\ (Safe => Safe')
    BY <1>1, <1>4, AcquireStep, FinalizeStep, Zenon
  <2>2. opened => opened'
    BY <1>4, Zenon DEF Acquire, Finalize, WriteNext, Opens
  <2> QED
    BY <2>1, <2>2, Zenon DEF IInv
<1>5. ASSUME NEW p \in Proc,
             \/ Read(p) \/ Forced(p) \/ Acquired(p) \/ Compare(p) \/ Grab(p) \/ Reread(p)
             \/ CompareFails(p) \/ Compared(p) \/ Finalized(p) \/ Unlock(p) \/ Unlocked(p)
             \/ LateUnlock(p) \/ LateUnlocked(p) \/ Crash(p)
      PROVE  IInv'
  <2>1. Typed' /\ (Safe => Safe')
    BY <1>1, <1>5, ReadStep, ForcedStep, AcquiredStep, CompareStep, GrabStep, RereadStep,
       CompareFailsStep, ComparedStep, FinalizedStep, UnlockStep, UnlockedStep,
       LateUnlockStep, LateUnlockedStep, CrashStep
  <2>2. UNCHANGED opened
    BY <1>5, Zenon DEF Read, Forced, Acquired, Compare, Grab, Reread, CompareFails, Compared,
                Finalized, Unlock, Unlocked, LateUnlock, LateUnlocked, Crash
  <2> QED
    BY <2>1, <2>2, Zenon DEF IInv
<1> QED
  BY <1>2, <1>3, <1>4, <1>5, Zenon DEF Next

\* IInv is an invariant of every step of lock_try, unlock and the pingers.
THEOREM Invariance == Spec => []IInv
<1>1. Init => IInv
  BY InitTyped, InitSafe, Zenon DEF IInv
<1>2. IInv /\ [Next]_vars => IInv'
  BY NextStep, Zenon
<1> QED
  BY <1>1, <1>2, PTL DEF Spec

\* All the state of s/distlock.cpp has its type: no attempt writes past the
\* last server, and the pinger unlocks nothing that is not on its list.
THEOREM TypeCorrect == Spec => []TypeOK
<1>1. IInv => TypeOK
  <2>1. ASSUME Typed PROVE TypeOK
    <3>1. \A p \in Proc :
            /\ job[p].pc \in {"idle", "force", "acquire", "compare", "grab", "reread",
                              "finalize", "held", "unlock", "dead"}
            /\ job[p].ts \in 0 .. MaxTs /\ job[p].max \in 0 .. MaxTs
            /\ job[p].at \in 1 .. NumServers + 1 /\ job[p].hit \subseteq Server
      <4>1. \A p \in Proc : job[p].pc \in {"idle", "force", "acquire", "compare", "grab",
                                           "reread", "finalize", "held", "unlock", "dead"}
        BY <2>1, Zenon DEF Typed, Job
      <4> QED
        BY <2>1, <4>1, Fields, Zenon
    <3>2. \A p \in Proc : late[p].ts \in {0} \union old[p] /\ late[p].at \in 1 .. NumServers + 1
      BY <2>1, Zenon DEF Typed, Late
    <3> QED
      BY <2>1, <3>1, <3>2, Zenon DEF Typed, TypeOK, Doc
  <2> QED
    BY <2>1, Zenon DEF IInv
<1> QED
  BY <1>1, Invariance, PTL

\* lock_try lets one process in: as long as no document was opened while
\* another process was in the middle of an attempt, at most one process holds
\* the lock, and the documents of all config servers are its own and finalized.
THEOREM ExclusiveHolder == Spec => []ExclusiveUnlessOpened
<1>1. IInv => ExclusiveUnlessOpened
  <2>1. ASSUME Typed, Safe PROVE MutualExclusion /\ \A p \in Proc : job[p].pc = "held" => OwnsAll(p)
    <3>1. \A p \in Proc : job[p].pc = "held" => OwnsAll(p)
      BY <2>1, Zenon DEF Safe, Finals
    <3>2. MutualExclusion
      <4>1. ASSUME NEW p \in Proc, NEW r \in Proc, job[p].pc = "held", job[r].pc = "held"
            PROVE  p = r
        <5>1. doc[1] = [ts |-> job[p].ts, state |-> 2, process |-> p]
          BY <3>1, <4>1, Constants, Zenon DEF OwnsAll
        <5>2. doc[1] = [ts |-> job[r].ts, state |-> 2, process |-> r]
          BY <3>1, <4>1, Constants, Zenon DEF OwnsAll
        <5> QED
          BY <5>1, <5>2
      <4> QED
        BY <4>1, Zenon DEF MutualExclusion
    <3> QED
      BY <3>1, <3>2, Zenon
  <2> QED
    BY <2>1, Zenon DEF IInv, ExclusiveUnlessOpened
<1> QED
  BY <1>1, Invariance, PTL

=============================================================================
