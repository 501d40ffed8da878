------------------------------ MODULE Election ------------------------------
(***************************************************************************)
(* Elections of a replica set (db/repl/consensus.cpp, manager.cpp, the     *)
(* heartbeats of heartbeat.cpp and the StateBox of rs.h).                  *)
(*                                                                         *)
(* Every member has one vote; the configuration does not change.  Oplog    *)
(* positions, priorities and which members seem to be up are left out:     *)
(* where they decide (the replSetFresh round, electability, whether a      *)
(* majority is in sight, a step down in favour of a higher priority) the   *)
(* model takes either outcome.  Time is counted in ticks that all members  *)
(* share.                                                                  *)
(***************************************************************************)
EXTENDS Integers, FiniteSets

CONSTANTS Member,       \* the members of the set
          Electable,    \* those that are not arbiters, hidden or of priority 0
          None,         \* no member
          LeaseTime,    \* LeaseTime, also the 30 of _electSelf
          MaxTime,      \* bound: ticks
          MaxRestarts   \* bound: restarts of members

ASSUME ElectionAssumption ==
    /\ IsFiniteSet(Member) /\ Electable \subseteq Member /\ None \notin Member
    /\ LeaseTime \in Nat /\ MaxTime \in Nat \ {0} /\ MaxRestarts \in Nat

VARIABLES
    clock,         \* time(0)
    ly,            \* of each member: LastYea
    box,           \* of each member: StateBox, its state and the primary it knows
    hbinfo,        \* of each member, of each other: the electionTime of the last
                   \* heartbeat if that showed a primary, else 0
    phase,         \* of each member: its manager is "idle", in an "election", has
                   \* "succeeded" by its count, or has "won": it has its election
                   \* time and is in assumePrimary
    start,         \* of each member: when its last election began
    elect,         \* of each candidate: its replSetElect at each other member
    electionTime,  \* of each member: the time of its last won election
    restarts,      \* restarts so far
    forgotten,     \* history: a member restarted while its lease was running
    overran        \* history: an election time was taken after the leases that
                   \* its election began with had run out

vars == <<clock, ly, box, hbinfo, phase, start, elect, electionTime, restarts,
          forgotten, overran>>

votes == <<ly, phase, start, elect, electionTime>>
faults == <<restarts, forgotten, overran>>

\* A lease that ran out long ago: LastYea().
NoYea == [when |-> -(LeaseTime + 1), who |-> None]
Secondary == [state |-> "SECONDARY", primary |-> None]

Init ==
    /\ clock = 1
    /\ ly = [m \in Member |-> NoYea]
    /\ box = [m \in Member |-> Secondary]
    /\ hbinfo = [m \in Member |-> [n \in Member |-> 0]]
    /\ phase = [m \in Member |-> "idle"]
    /\ start = [m \in Member |-> 0]
    /\ elect = [m \in Member |-> [n \in Member |-> "none"]]
    /\ electionTime = [m \in Member |-> 0]
    /\ restarts = 0 /\ forgotten = FALSE /\ overran = FALSE

IsPrimary(m) == box[m].state = "PRIMARY"

Majority(S) == Cardinality(S) * 2 > Cardinality(Member)

-----------------------------------------------------------------------------
(* The lease: at most one yea per LeaseTime, unless for the same member. *)

\* Slip: the lease ends with its last tick (> for >=).
MayVoteEarly(v, c) == ly[v].when + LeaseTime <= clock \/ ly[v].who = c

\* yea does not throw.
MayVote(v, c) == ly[v].when + LeaseTime < clock \/ ly[v].who = c

Yea(v, c) == [when |-> clock, who |-> c]

\* electionFailed: the candidate gives up the lease it had granted itself.
ElectionFailed(c) ==
    ly' = IF ly[c].who = c THEN [ly EXCEPT ![c] = [NoYea EXCEPT !.who = c]]
                           ELSE ly

-----------------------------------------------------------------------------
(* The manager's thread. *)

\* msgUpdateHBInfo: a poll fails, or is answered with the state of n and, of a
\* primary, its election time.  Polls are queued for the manager, which handles
\* any number of them before its next msgCheckNewState.
Polled(m, failed, answered) ==
    [n \in Member |-> CASE n \in failed -> 0
                        [] n \in answered -> IF IsPrimary(n) THEN electionTime[n] ELSE 0
                        [] OTHER -> hbinfo[m][n]]

HbInfos(m) ==
    LET others == Member \ {m}
    IN  UNION {{Polled(m, failed, answered) : answered \in SUBSET (others \ failed)} :
                  failed \in SUBSET others}

\* The members that m then believes to be primary.
OtherPrimaries(info) == {n \in Member : info[n] # 0}

\* msgCheckNewState clears another primary that is down or no longer primary.
Cleared(m, info) ==
    IF box[m].primary \in {m} \union OtherPrimaries(info)
      THEN box[m]
      ELSE [box[m] EXCEPT !.primary = None]

\* Slip: every primary counts as one without an election time.
MustYieldAlways(m, n, info) == TRUE

\* noteARemoteIsPrimary: a primary yields to one that was elected later.
MustYield(m, n, info) == info[n] > electionTime[m]

\* Slip: without relinquish().
NotedOnly(m, n, info) ==
    IF IsPrimary(m) /\ ~MustYield(m, n, info)
      THEN box[m]
      ELSE [box[m] EXCEPT !.primary = n]

Noted(m, n, info) ==
    IF IsPrimary(m) /\ ~MustYield(m, n, info)
      THEN box[m]
      ELSE [state |-> "SECONDARY", primary |-> n]

\* msgCheckNewState that sees one other primary, two ("wait for things to
\* settle down"), or none and does not try to become one.
CheckNewState(m) ==
    /\ phase[m] = "idle"
    /\ \E info \in HbInfos(m) :
          /\ hbinfo' = [hbinfo EXCEPT ![m] = info]
          /\ box' = [box EXCEPT ![m] =
                IF Cardinality(OtherPrimaries(info)) = 1
                  THEN Noted(m, CHOOSE n \in OtherPrimaries(info) : TRUE, info)
                  ELSE Cleared(m, info)]
    /\ UNCHANGED <<clock, votes, faults>>

\* A primary steps down: no majority in sight, checkElectableSet, or the
\* replSetStepDown command.
Relinquish(m) ==
    /\ IsPrimary(m)
    /\ box' = [box EXCEPT ![m] = Secondary]
    /\ UNCHANGED <<clock, hbinfo, votes, faults>>

\* msgCheckNewState that sees no primary and goes on to _electSelf, up to
\* multiCommand: a yea for itself, then replSetElect to the others.  (The code
\* leaves out members it knows to be down; a request may be lost, so the model
\* asks everyone.)
ElectSelf(c) ==
    /\ c \in Electable
    /\ phase[c] = "idle"
    /\ ~IsPrimary(c)
    /\ MayVote(c, c)
    /\ hbinfo' = [hbinfo EXCEPT ![c] = [n \in Member |-> 0]]
    /\ box' = [box EXCEPT ![c] = Secondary]
    /\ ly' = [ly EXCEPT ![c] = Yea(c, c)]
    /\ phase' = [phase EXCEPT ![c] = "election"]
    /\ start' = [start EXCEPT ![c] = clock]
    /\ elect' = [elect EXCEPT ![c] = [v \in Member |->
                    IF v = c THEN "none" ELSE "asked"]]
    /\ UNCHANGED <<clock, electionTime, faults>>

-----------------------------------------------------------------------------
(* electCmdReceived, on a thread of the voter that shares no lock with the  *)
(* voter's manager: the primary is read first, the vote given later.        *)

Vote(c, v, answer) == elect' = [elect EXCEPT ![c][v] = answer]

ReadPrimary(c, v) ==
    /\ elect[c][v] = "asked"
    /\ Vote(c, v, IF box[v].primary = None THEN "reading" ELSE "none")
    /\ UNCHANGED <<clock, ly, box, hbinfo, phase, start, electionTime, faults>>

\* yea; or the VoteException of a lease that is running, or the veto of a
\* voter that knows of a higher priority.
GiveVote(c, v) ==
    /\ elect[c][v] = "reading"
    /\ \/ /\ MayVote(v, c)
          /\ ly' = [ly EXCEPT ![v] = Yea(v, c)]
          /\ Vote(c, v, "yea")
       \/ /\ Vote(c, v, "none")
          /\ UNCHANGED ly
    /\ UNCHANGED <<clock, box, hbinfo, phase, start, electionTime, faults>>

\* The yeas that may be counted, the candidate's own included.  A reply may be
\* lost, so that a veto need not count and a yea may not.
Yeas(c) == {c} \union {v \in Member : elect[c][v] = "yea"}

\* The votes that came back are counted or dropped; commands that are still on
\* their way to a voter are not recalled.
EndElection(c, next) ==
    /\ phase' = [phase EXCEPT ![c] = next]
    /\ elect' = [elect EXCEPT ![c] = [v \in Member |->
                    IF elect[c][v] = "yea" THEN "none" ELSE elect[c][v]]]

\* Not "time(0) - start > 30", too much time passed.
InTime(c) == clock - start[c] <= LeaseTime

\* The tally succeeds, and the election has not taken too long so far.
Succeed(c) ==
    /\ phase[c] = "election"
    /\ Majority(Yeas(c))
    /\ InTime(c)
    /\ EndElection(c, "succeeded")
    /\ UNCHANGED <<clock, ly, box, hbinfo, start, electionTime, faults>>

\* Slip: the election time is the end of the lease.
SetElectionTimeAhead(c) ==
    /\ phase[c] = "succeeded"
    /\ phase' = [phase EXCEPT ![c] = "won"]
    /\ start' = [start EXCEPT ![c] = 0]
    /\ electionTime' = [electionTime EXCEPT ![c] = clock + LeaseTime]
    /\ overran' = (overran \/ ~InTime(c))
    /\ UNCHANGED <<clock, ly, box, hbinfo, elect, restarts, forgotten>>

\* setElectionTime(OpTime::now), once OpTime::m is free: the clock is read anew.
SetElectionTime(c) ==
    /\ phase[c] = "succeeded"
    /\ phase' = [phase EXCEPT ![c] = "won"]
    /\ start' = [start EXCEPT ![c] = 0]
    /\ electionTime' = [electionTime EXCEPT ![c] = clock]
    /\ overran' = (overran \/ ~InTime(c))
    /\ UNCHANGED <<clock, ly, box, hbinfo, elect, restarts, forgotten>>

\* It fails: too few votes came back, a veto, or too late.
Lose(c) ==
    /\ phase[c] = "election"
    /\ ElectionFailed(c)
    /\ EndElection(c, "idle")
    /\ start' = [start EXCEPT ![c] = 0]
    /\ UNCHANGED <<clock, box, hbinfo, electionTime, faults>>

\* assumePrimary returns, after stopReplicationAndFlushBuffer.
AssumePrimary(c) ==
    /\ phase[c] = "won"
    /\ phase' = [phase EXCEPT ![c] = "idle"]
    /\ box' = [box EXCEPT ![c] = [state |-> "PRIMARY", primary |-> c]]
    /\ UNCHANGED <<clock, ly, hbinfo, start, elect, electionTime, faults>>

-----------------------------------------------------------------------------
\* The process is restarted: LastYea lives in memory only.  Requests to it are
\* lost, its own are not.
Restart(m) ==
    /\ restarts < MaxRestarts
    /\ restarts' = restarts + 1
    /\ forgotten' = (forgotten \/ ly[m].when + LeaseTime >= clock)
    /\ ly' = [ly EXCEPT ![m] = NoYea]
    /\ box' = [box EXCEPT ![m] = Secondary]
    /\ hbinfo' = [hbinfo EXCEPT ![m] = [n \in Member |-> 0]]
    /\ phase' = [phase EXCEPT ![m] = "idle"]
    /\ start' = [start EXCEPT ![m] = 0]
    /\ elect' = [c \in Member |-> [v \in Member |->
                    CASE v = m /\ elect[c][v] # "yea" -> "none"
                      [] c = m /\ elect[c][v] = "yea" -> "none"
                      [] OTHER -> elect[c][v]]]
    /\ UNCHANGED <<clock, electionTime, overran>>

Tick ==
    /\ clock < MaxTime
    /\ clock' = clock + 1
    /\ UNCHANGED <<ly, box, hbinfo, phase, start, elect, electionTime, faults>>

Next ==
    \/ \E m \in Member :
          \/ CheckNewState(m) \/ Relinquish(m)
          \/ ElectSelf(m) \/ Succeed(m) \/ SetElectionTime(m) \/ Lose(m)
          \/ AssumePrimary(m)
          \/ \E v \in Member : ReadPrimary(m, v) \/ GiveVote(m, v)
          \/ Restart(m)
    \/ Tick

Spec == Init /\ [][Next]_vars

-----------------------------------------------------------------------------
(* Properties. *)

\* Types of all the state.
TypeOK ==
    /\ clock \in 1 .. MaxTime
    /\ ly \in [Member -> [when : Int, who : Member \union {None}]]
    /\ box \in [Member -> [state : {"PRIMARY", "SECONDARY"},
                           primary : Member \union {None}]]
    /\ hbinfo \in [Member -> [Member -> 0 .. MaxTime]]
    /\ phase \in [Member -> {"idle", "election", "succeeded", "won"}]
    /\ start \in [Member -> 0 .. MaxTime]
    /\ elect \in [Member -> [Member ->
                    {"none", "asked", "reading", "yea"}]]
    /\ electionTime \in [Member -> 0 .. MaxTime]
    /\ restarts \in 0 .. MaxRestarts /\ forgotten \in BOOLEAN /\ overran \in BOOLEAN

\* Two members that are primary at once were elected at different times, so
\* that "Step down whoever has the older election time" names one of them: the
\* leases of the voters keep two elections from being stamped in one tick.
\* There are two ways around it.  A voter forgets its lease when it restarts;
\* and a candidate that passes the check of the 30 seconds may be held up, at
\* OpTime::m or by the scheduler, until its voters are free again, and only then
\* take its election time.
DistinctElectionTimes ==
    forgotten \/ overran \/ \A a, b \in Member :
        IsPrimary(a) /\ IsPrimary(b) /\ a # b => electionTime[a] # electionTime[b]

\* A primary that gives way to another one gives way to a member whose last
\* election is the later one, however old its heartbeats are: two primaries
\* never step down for each other.
YieldsToNewerStep ==
    \A a, b \in Member :
        IsPrimary(a) /\ a # b /\ box'[a].primary = b => electionTime[a] < electionTime[b]

YieldsToNewer == [][YieldsToNewerStep]_vars

\* "keeps member pointer and state variables always aligned": a member is in
\* state PRIMARY exactly when the primary it knows is itself, whatever step
\* downs and restarts come between the manager's polls.
BoxAligned == \A m \in Member : IsPrimary(m) <=> box[m].primary = m
=============================================================================
