--------------------------- MODULE ElectionProofs ---------------------------
(***************************************************************************)
(* Proofs about Election, for every set of members and every lease time.   *)
(***************************************************************************)
EXTENDS Election, FiniteSetTheorems, TLAPS

\* v keeps its vote for c until after time t: it cannot have voted for anyone
\* else by then.
Held(v, c, t) ==
    \/ ly[v].who = c /\ ly[v].when + LeaseTime >= t
    \/ clock > t

Elected(c) == phase[c] = "won" \/ IsPrimary(c)

\* The yeas of a running election are held for as long as it can succeed.
YeasHeld ==
    \A c \in Member : phase[c] = "election" =>
        \A v \in Yeas(c) : Held(v, c, start[c] + LeaseTime)

\* So are those of a majority once the election has succeeded.
CountHeld ==
    \A c \in Member : phase[c] = "succeeded" =>
        \E Q \in SUBSET Member :
            Majority(Q) /\ \A v \in Q : Held(v, c, start[c] + LeaseTime)

\* A majority kept its votes for an elected member past its election time.
MajorityHeld ==
    \A c \in Member : Elected(c) =>
        \E Q \in SUBSET Member :
            Majority(Q) /\ \A v \in Q : Held(v, c, electionTime[c])

ElectedApart ==
    \A a, b \in Member :
        Elected(a) /\ Elected(b) /\ a # b => electionTime[a] # electionTime[b]

\* What a heartbeat told is never ahead of the member it is about.
HbInfoBehind ==
    \A m, n \in Member : hbinfo[m][n] <= electionTime[n] /\ hbinfo[m][m] = 0

InOrder ==
    \A c \in Member :
        /\ electionTime[c] <= clock /\ start[c] <= clock
        /\ phase[c] = "idle" \/ ~IsPrimary(c)

YeaPast == \A v \in Member : ly[v].when <= clock

Leases == YeasHeld /\ CountHeld /\ MajorityHeld /\ ElectedApart

Base == TypeOK /\ InOrder /\ BoxAligned /\ HbInfoBehind /\ YeaPast

IInv == Base /\ (forgotten \/ overran \/ Leases)

-----------------------------------------------------------------------------
\* A manager's view after its polls.
LEMMA PolledInfo ==
    ASSUME TypeOK, InOrder, HbInfoBehind, NEW m \in Member, NEW info \in HbInfos(m)
    PROVE  /\ info \in [Member -> 0 .. MaxTime]
           /\ info[m] = 0
           /\ \A n \in Member : info[n] <= electionTime[n]
<1>1. PICK failed \in SUBSET (Member \ {m}), answered \in SUBSET (Member \ {m}) :
          info = Polled(m, failed, answered)
  BY Zenon DEF HbInfos
<1>2. \A n \in Member : info[n] \in {0, electionTime[n], hbinfo[m][n]}
  BY <1>1, Zenon DEF Polled
<1>3. info[m] = hbinfo[m][m]
  BY <1>1, Zenon DEF Polled
<1>4. info \in [Member -> 0 .. MaxTime]
  <2>1. info = [n \in Member |-> info[n]]
    BY <1>1 DEF Polled
  <2>2. \A n \in Member : info[n] \in 0 .. MaxTime
    <3>1. 0 \in 0 .. MaxTime
      BY ElectionAssumption
    <3>2. \A n \in Member : /\ electionTime[n] \in 0 .. MaxTime
                            /\ hbinfo[m][n] \in 0 .. MaxTime
      BY DEF TypeOK
    <3> QED BY <1>2, <3>1, <3>2, Zenon
  <2> QED BY <2>1, <2>2, Zenon
<1> QED BY <1>2, <1>3, <1>4 DEF HbInfoBehind, TypeOK

\* The box that msgCheckNewState leaves behind is one of four.
LEMMA CheckedBox ==
    ASSUME TypeOK, BoxAligned, NEW m \in Member, NEW info \in [Member -> 0 .. MaxTime],
           info[m] = 0
    PROVE  LET b == IF Cardinality(OtherPrimaries(info)) = 1
                      THEN Noted(m, CHOOSE n \in OtherPrimaries(info) : TRUE, info)
                      ELSE Cleared(m, info)
           IN  \/ b = box[m]
               \/ /\ ~IsPrimary(m)
                  /\ b = [state |-> "SECONDARY", primary |-> None]
               \/ \E n \in Member \ {m} :
                     /\ b = [state |-> "SECONDARY", primary |-> n]
                     /\ IsPrimary(m) => info[n] > electionTime[m]
<1>1. CASE Cardinality(OtherPrimaries(info)) = 1
  <2>1. OtherPrimaries(info) # {}
    BY <1>1, FS_EmptySet
  <2>2. PICK n \in OtherPrimaries(info) :
            n = CHOOSE x \in OtherPrimaries(info) : TRUE
    BY <2>1, Zenon
  <2>3. n \in Member \ {m}
    BY Zenon DEF OtherPrimaries
  <2> QED BY <1>1, <2>2, <2>3, Zenon DEF Noted, MustYield
<1>2. CASE ~(Cardinality(OtherPrimaries(info)) = 1)
  <2>1. CASE box[m].primary \in {m} \union OtherPrimaries(info)
    BY <1>2, <2>1, Zenon DEF Cleared
  <2>2. CASE ~(box[m].primary \in {m} \union OtherPrimaries(info))
    <3>1. ~IsPrimary(m)
      BY <2>2, Zenon DEF BoxAligned
    <3>2. box[m].state = "SECONDARY"
      BY <3>1, Zenon DEF IsPrimary, TypeOK
    <3>3. Cleared(m, info) = [state |-> "SECONDARY", primary |-> None]
      BY <2>2, <3>2 DEF Cleared, TypeOK
    <3> QED BY <1>2, <3>1, <3>3, Zenon
  <2> QED BY <2>1, <2>2, Zenon
<1> QED BY <1>1, <1>2, Zenon

-----------------------------------------------------------------------------
LEMMA BaseInit == Init => Base
<1> SUFFICES ASSUME Init PROVE Base
  BY Zenon
<1>1. TypeOK
  <2>1. 0 \in 0 .. MaxTime /\ 1 \in 1 .. MaxTime /\ 0 \in 0 .. MaxRestarts
    BY ElectionAssumption
  <2>2. NoYea \in [when : Int, who : Member \union {None}]
    BY ElectionAssumption DEF NoYea
  <2>3. Secondary \in [state : {"PRIMARY", "SECONDARY"},
                       primary : Member \union {None}]
    BY Zenon DEF Secondary
  <2> QED BY <2>1, <2>2, <2>3, Zenon DEF Init, TypeOK
<1>2. InOrder /\ BoxAligned /\ HbInfoBehind
  BY ElectionAssumption
     DEF Init, InOrder, BoxAligned, HbInfoBehind, IsPrimary, Secondary
<1>3. YeaPast
  BY ElectionAssumption DEF Init, YeaPast, NoYea
<1> QED BY <1>1, <1>2, <1>3, Zenon DEF Base

\* Votes are cast at the time of the clock, which does not go back.
LEMMA YeaPastStep == TypeOK /\ YeaPast /\ [Next]_vars => YeaPast'
<1> SUFFICES ASSUME TypeOK, YeaPast, [Next]_vars, NEW v \in Member
             PROVE  ly'[v].when <= clock'
  BY Zenon DEF YeaPast
<1> USE ElectionAssumption
<1>1. ASSUME UNCHANGED <<clock, ly>> PROVE ly'[v].when <= clock'
  BY <1>1, Zenon DEF YeaPast
<1>2. ASSUME NEW w \in Member, NEW y \in [when : Int, who : Member \union {None}],
             y.when <= clock, ly' = [ly EXCEPT ![w] = y], clock' = clock
      PROVE  ly'[v].when <= clock'
  BY <1>2, Zenon DEF YeaPast, TypeOK
<1>3. \A w, c \in Member : /\ Yea(w, c) \in [when : Int, who : Member \union {None}]
                           /\ Yea(w, c).when <= clock
  BY DEF Yea, TypeOK
<1>4. \A c \in Member \union {None} :
          /\ [NoYea EXCEPT !.who = c] \in [when : Int, who : Member \union {None}]
          /\ [NoYea EXCEPT !.who = c].when <= clock
          /\ NoYea = [NoYea EXCEPT !.who = None]
  BY DEF NoYea, TypeOK
<1>5. ASSUME NEW m \in Member, ElectSelf(m) PROVE ly'[v].when <= clock'
  BY <1>2, <1>3, <1>5, Zenon DEF ElectSelf
<1>6. ASSUME NEW c \in Member, NEW w \in Member, GiveVote(c, w)
      PROVE  ly'[v].when <= clock'
  BY <1>1, <1>2, <1>3, <1>6, Zenon DEF GiveVote
<1>7. ASSUME NEW c \in Member, Lose(c) PROVE ly'[v].when <= clock'
  BY <1>1, <1>2, <1>4, <1>7, Zenon DEF Lose, ElectionFailed
<1>8. ASSUME NEW m \in Member, Restart(m) PROVE ly'[v].when <= clock'
  <2>1. NoYea \in [when : Int, who : Member \union {None}] /\ NoYea.when <= clock
    BY <1>4, Zenon
  <2> QED BY <1>2, <1>8, <2>1, Zenon DEF Restart
<1>9. CASE Tick
  BY <1>9 DEF Tick, YeaPast, TypeOK
<1>10. ASSUME NEW m \in Member,
              \/ CheckNewState(m) \/ Relinquish(m) \/ AssumePrimary(m)
              \/ Succeed(m) \/ SetElectionTime(m)
              \/ \E w \in Member : ReadPrimary(m, w)
       PROVE  UNCHANGED <<clock, ly>>
  BY <1>10, Zenon DEF CheckNewState, Relinquish, AssumePrimary, Succeed,
                         SetElectionTime, ReadPrimary, votes
<1>11. CASE UNCHANGED vars
  BY <1>1, <1>11, Zenon DEF vars
<1> QED BY <1>1, <1>5, <1>6, <1>7, <1>8, <1>9, <1>10, <1>11, Zenon DEF Next

\* A step that changes the box of one member, and nothing of its election.
LEMMA BoxStep ==
    ASSUME Base, NEW m \in Member, NEW b, box' = [box EXCEPT ![m] = b],
           b \in [state : {"SECONDARY"}, primary : (Member \ {m}) \union {None}],
           UNCHANGED <<clock, votes, faults>>,
           hbinfo' \in [Member -> [Member -> 0 .. MaxTime]], HbInfoBehind', YeaPast'
    PROVE  Base'
<1>1. TypeOK'
  BY Zenon DEF Base, TypeOK, votes, faults
<1>2. InOrder'
  BY Zenon DEF Base, InOrder, TypeOK, IsPrimary, votes
<1>3. BoxAligned'
  BY ElectionAssumption DEF Base, BoxAligned, TypeOK, IsPrimary
<1> QED BY <1>1, <1>2, <1>3, Zenon DEF Base

LEMMA BaseStep == Base /\ [Next]_vars => Base'
<1> SUFFICES ASSUME Base, [Next]_vars PROVE Base'
  BY Zenon
<1> USE ElectionAssumption
<1>0. YeaPast'
  BY YeaPastStep, Zenon DEF Base
<1>1. ASSUME NEW m \in Member, CheckNewState(m) PROVE Base'
  <2>1. PICK info \in HbInfos(m) :
            /\ hbinfo' = [hbinfo EXCEPT ![m] = info]
            /\ box' = [box EXCEPT ![m] =
                  IF Cardinality(OtherPrimaries(info)) = 1
                    THEN Noted(m, CHOOSE n \in OtherPrimaries(info) : TRUE, info)
                    ELSE Cleared(m, info)]
    BY <1>1, Zenon DEF CheckNewState
  <2>2. /\ info \in [Member -> 0 .. MaxTime] /\ info[m] = 0
        /\ \A n \in Member : info[n] <= electionTime[n]
    BY PolledInfo, Zenon DEF Base
  <2>3. UNCHANGED <<clock, votes, faults>>
    BY <1>1, Zenon DEF CheckNewState
  <2>4. hbinfo' \in [Member -> [Member -> 0 .. MaxTime]] /\ HbInfoBehind'
    <3>1. hbinfo' \in [Member -> [Member -> 0 .. MaxTime]]
      BY <2>1, <2>2, Zenon DEF Base, TypeOK
    <3>2. \A a \in Member : hbinfo'[a] = IF a = m THEN info ELSE hbinfo[a]
      BY <2>1, Zenon DEF Base, TypeOK
    <3>3. electionTime' = electionTime
      BY <2>3, Zenon DEF votes
    <3> QED BY <2>2, <3>1, <3>2, <3>3, Zenon DEF Base, HbInfoBehind
  <2> DEFINE b == IF Cardinality(OtherPrimaries(info)) = 1
                    THEN Noted(m, CHOOSE n \in OtherPrimaries(info) : TRUE, info)
                    ELSE Cleared(m, info)
  <2>5. \/ b = box[m]
        \/ b \in [state : {"SECONDARY"}, primary : (Member \ {m}) \union {None}]
    <3>1. TypeOK /\ BoxAligned
      BY Zenon DEF Base
    <3>2. \/ b = box[m]
          \/ b = [state |-> "SECONDARY", primary |-> None]
          \/ \E n \in Member \ {m} : b = [state |-> "SECONDARY", primary |-> n]
      BY <2>2, <3>1, CheckedBox, Zenon
    <3> HIDE DEF b
    <3> QED BY <3>2
  <2>6. box' = [box EXCEPT ![m] = b]
    BY <2>1, Zenon
  <2> HIDE DEF b
  <2>7. CASE b = box[m]
    <3>1. box' = box
      BY <2>6, <2>7, Zenon DEF Base, TypeOK
    <3> QED BY <1>0, <2>3, <2>4, <3>1, Zenon
            DEF Base, TypeOK, InOrder, BoxAligned, IsPrimary, votes, faults
  <2>8. CASE b \in [state : {"SECONDARY"}, primary : (Member \ {m}) \union {None}]
    BY <1>0, <2>3, <2>4, <2>6, <2>8, BoxStep, Zenon
  <2> QED BY <2>5, <2>7, <2>8, Zenon
<1>2. ASSUME NEW m \in Member, Relinquish(m) PROVE Base'
  <2>1. hbinfo' \in [Member -> [Member -> 0 .. MaxTime]] /\ HbInfoBehind'
    BY <1>2, Zenon DEF Relinquish, Base, TypeOK, HbInfoBehind, votes
  <2> QED BY <1>0, <1>2, <2>1, BoxStep, Zenon DEF Relinquish, Secondary
<1>3. ASSUME NEW m \in Member, ElectSelf(m) PROVE Base'
  <2>1. TypeOK'
    BY <1>3 DEF ElectSelf, Base, TypeOK, Secondary, Yea, faults
  <2>2. InOrder' /\ BoxAligned'
    BY <1>3 DEF ElectSelf, Base, TypeOK, InOrder, BoxAligned, IsPrimary, Secondary
  <2>3. HbInfoBehind'
    BY <1>3, Zenon DEF ElectSelf, Base, TypeOK, HbInfoBehind
  <2> QED BY <1>0, <2>1, <2>2, <2>3, Zenon DEF Base
<1>4. ASSUME NEW m \in Member, Succeed(m) PROVE Base'
  <2>1. TypeOK'
    BY <1>4 DEF Succeed, EndElection, Base, TypeOK, faults
  <2>2. InOrder' /\ BoxAligned' /\ HbInfoBehind'
    BY <1>4 DEF Succeed, EndElection, Base, TypeOK, InOrder, BoxAligned, IsPrimary,
                HbInfoBehind
  <2> QED BY <1>0, <2>1, <2>2, Zenon DEF Base
<1>12. ASSUME NEW m \in Member, SetElectionTime(m) PROVE Base'
  <2>1. TypeOK'
    BY <1>12 DEF SetElectionTime, Base, TypeOK
  <2>2. InOrder' /\ BoxAligned' /\ HbInfoBehind'
    BY <1>12 DEF SetElectionTime, Base, TypeOK, InOrder, BoxAligned, IsPrimary,
                 HbInfoBehind
  <2> QED BY <1>0, <2>1, <2>2, Zenon DEF Base
<1>5. ASSUME NEW m \in Member, Lose(m) PROVE Base'
  <2>1. TypeOK'
    BY <1>5 DEF Lose, ElectionFailed, NoYea, EndElection, Base, TypeOK, faults
  <2>2. InOrder' /\ BoxAligned' /\ HbInfoBehind'
    BY <1>5 DEF Lose, EndElection, Base, TypeOK, InOrder, BoxAligned, IsPrimary,
                HbInfoBehind
  <2> QED BY <1>0, <2>1, <2>2 DEF Base
<1>6. ASSUME NEW m \in Member, AssumePrimary(m) PROVE Base'
  <2>1. TypeOK'
    BY <1>6, Zenon DEF AssumePrimary, Base, TypeOK, faults
  <2>2. InOrder' /\ BoxAligned' /\ HbInfoBehind'
    BY <1>6 DEF AssumePrimary, Base, TypeOK, InOrder, BoxAligned, IsPrimary,
                HbInfoBehind
  <2> QED BY <1>0, <2>1, <2>2 DEF Base
<1>7. ASSUME NEW c \in Member, NEW v \in Member, ReadPrimary(c, v) PROVE Base'
  <2>1. TypeOK'
    BY <1>7, Zenon DEF ReadPrimary, Vote, Base, TypeOK, faults
  <2>2. InOrder' /\ BoxAligned' /\ HbInfoBehind'
    BY <1>7, Zenon DEF ReadPrimary, Base, InOrder, BoxAligned, IsPrimary, HbInfoBehind
  <2> QED BY <1>0, <2>1, <2>2, Zenon DEF Base
<1>8. ASSUME NEW c \in Member, NEW v \in Member, GiveVote(c, v) PROVE Base'
  <2>1. TypeOK'
    <3>1. ly' \in [Member -> [when : Int, who : Member \union {None}]]
      <4>1. Yea(v, c) \in [when : Int, who : Member \union {None}]
        BY DEF Yea, Base, TypeOK
      <4>2. ly' = [ly EXCEPT ![v] = Yea(v, c)] \/ ly' = ly
        BY <1>8, Zenon DEF GiveVote
      <4> QED BY <4>1, <4>2, Zenon DEF Base, TypeOK
    <3>2. elect' \in [Member -> [Member -> {"none", "asked", "reading", "yea"}]]
      <4>1. PICK answer \in {"none", "asked", "reading", "yea"} : Vote(c, v, answer)
        BY <1>8, Zenon DEF GiveVote
      <4>2. elect \in [Member -> [Member -> {"none", "asked", "reading", "yea"}]]
        BY Zenon DEF Base, TypeOK
      <4> QED BY <4>1, <4>2, Zenon DEF Vote
    <3> QED BY <1>8, <3>1, <3>2, Zenon DEF GiveVote, Base, TypeOK, faults
  <2>2. InOrder' /\ BoxAligned' /\ HbInfoBehind'
    BY <1>8, Zenon DEF GiveVote, Base, InOrder, BoxAligned, IsPrimary, HbInfoBehind
  <2> QED BY <1>0, <2>1, <2>2 DEF Base
<1>9. ASSUME NEW m \in Member, Restart(m) PROVE Base'
  <2>1. TypeOK'
    <3>1. elect' \in [Member -> [Member -> {"none", "asked", "reading", "yea"}]]
      BY <1>9, Zenon DEF Restart, Base, TypeOK
    <3> QED BY <1>9, <3>1 DEF Restart, NoYea, Secondary, Base, TypeOK
  <2>2. InOrder' /\ BoxAligned'
    BY <1>9 DEF Restart, Base, TypeOK, InOrder, BoxAligned, IsPrimary, Secondary
  <2>3. HbInfoBehind'
    BY <1>9, Zenon DEF Restart, Base, TypeOK, HbInfoBehind
  <2> QED BY <1>0, <2>1, <2>2, <2>3 DEF Base
<1>10. CASE Tick
  BY <1>0, <1>10 DEF Tick, Base, TypeOK, InOrder, BoxAligned, IsPrimary, HbInfoBehind, faults
<1>11. CASE UNCHANGED vars
  BY <1>0, <1>11, Zenon DEF vars, Base, TypeOK, InOrder, BoxAligned, IsPrimary, HbInfoBehind
<1> QED BY <1>1, <1>2, <1>3, <1>4, <1>5, <1>6, <1>7, <1>8, <1>9, <1>10, <1>11, <1>12, Zenon
       DEF Next

-----------------------------------------------------------------------------
\* v gives its vote to c, under the guard of yea, or loses a lapsed one: what
\* it holds for another member stays held.
LEMMA HeldPast ==
    ASSUME TypeOK, NEW v \in Member, NEW d \in Member, NEW t \in Int,
           Held(v, d, t),
           \/ ly[v].when + LeaseTime < clock
           \/ ly[v].who # d
    PROVE  clock > t
BY ElectionAssumption DEF Held, TypeOK

\* A vote for d that is held stays held in every step that forgets no lease,
\* except by the failure of d's own election.
LEMMA HeldStep ==
    ASSUME TypeOK, YeaPast, [Next]_vars, ~forgotten', NEW v \in Member, NEW d \in Member,
           NEW t \in Int, Held(v, d, t), ~Lose(d)
    PROVE  Held(v, d, t)'
<1> USE ElectionAssumption
<1>1. ASSUME UNCHANGED <<clock, ly>> PROVE Held(v, d, t)'
  BY <1>1, Zenon DEF Held
<1>2. ASSUME clock' = clock, clock > t PROVE Held(v, d, t)'
  BY <1>2, Zenon DEF Held
<1>3. ASSUME NEW w \in Member, NEW c \in Member, clock' = clock, MayVote(w, c),
             ly' = [ly EXCEPT ![w] = Yea(w, c)]
      PROVE  Held(v, d, t)'
  <2>1. CASE w # v
    <3>1. ly'[v] = ly[v]
      BY <1>3, <2>1, Zenon DEF TypeOK
    <3> QED BY <1>3, <3>1, Zenon DEF Held
  <2>2. CASE w = v /\ c = d
    <3>1. ly'[v] = [when |-> clock, who |-> d]
      BY <1>3, <2>2, Zenon DEF TypeOK, Yea
    <3>2. clock > t \/ clock + LeaseTime >= t
      BY DEF Held, TypeOK, YeaPast
    <3> QED BY <1>3, <3>1, <3>2 DEF Held
  <2>3. CASE w = v /\ c # d
    <3>1. clock > t
      BY <1>3, <2>3, HeldPast, Zenon DEF MayVote
    <3> QED BY <1>2, <1>3, <3>1, Zenon
  <2> QED BY <2>1, <2>2, <2>3, Zenon
<1>4. ASSUME NEW m \in Member, ElectSelf(m) PROVE Held(v, d, t)'
  BY <1>3, <1>4, Zenon DEF ElectSelf
<1>5. ASSUME NEW c \in Member, NEW w \in Member, GiveVote(c, w) PROVE Held(v, d, t)'
  BY <1>1, <1>3, <1>5, Zenon DEF GiveVote
<1>6. ASSUME NEW c \in Member, Lose(c) PROVE Held(v, d, t)'
  <2>1. c # d /\ clock' = clock
    BY <1>6, Zenon DEF Lose
  <2>2. CASE ly[c].who # c \/ c # v
    <3>1. ly'[v] = ly[v]
      BY <1>6, <2>2, Zenon DEF Lose, ElectionFailed, TypeOK
    <3> QED BY <2>1, <3>1, Zenon DEF Held
  <2>3. CASE ly[c].who = c /\ c = v
    <3>1. clock > t
      BY <2>1, <2>3, HeldPast, Zenon
    <3> QED BY <1>2, <2>1, <3>1, Zenon
  <2> QED BY <2>2, <2>3, Zenon
<1>7. ASSUME NEW m \in Member, Restart(m) PROVE Held(v, d, t)'
  <2>1. clock' = clock /\ ~(ly[m].when + LeaseTime >= clock)
    BY <1>7, Zenon DEF Restart
  <2>2. CASE m # v
    <3>1. ly'[v] = ly[v]
      BY <1>7, <2>2, Zenon DEF Restart, TypeOK
    <3> QED BY <2>1, <3>1, Zenon DEF Held
  <2>3. CASE m = v
    <3>1. clock > t
      BY <2>1, <2>3, HeldPast DEF TypeOK
    <3> QED BY <1>2, <2>1, <3>1, Zenon
  <2> QED BY <2>2, <2>3, Zenon
<1>8. CASE Tick
  BY <1>8 DEF Tick, Held, TypeOK
<1>9. ASSUME NEW m \in Member,
             \/ CheckNewState(m) \/ Relinquish(m) \/ AssumePrimary(m)
             \/ Succeed(m) \/ SetElectionTime(m)
             \/ \E w \in Member : ReadPrimary(m, w)
      PROVE  UNCHANGED <<clock, ly>>
  BY <1>9, Zenon DEF CheckNewState, Relinquish, AssumePrimary, Succeed,
                         SetElectionTime, ReadPrimary, votes
<1>10. CASE UNCHANGED vars
  BY <1>1, <1>10, Zenon DEF vars
<1> QED BY <1>1, <1>4, <1>5, <1>6, <1>7, <1>8, <1>9, <1>10, Zenon DEF Next

-----------------------------------------------------------------------------
\* A running election after a step: it began with the step, or was running.
LEMMA YeasHeldStep ==
    ASSUME Base, YeasHeld, [Next]_vars, ~forgotten' PROVE YeasHeld'
<1> USE ElectionAssumption
<1> SUFFICES ASSUME NEW c \in Member, phase'[c] = "election", NEW v \in Yeas(c)'
             PROVE  Held(v, c, start[c] + LeaseTime)'
  BY Zenon DEF YeasHeld
<1>0. v \in Member
  BY Zenon DEF Yeas
<1>1. CASE ElectSelf(c)
  <2>1. v = c
    BY <1>1, Zenon DEF ElectSelf, Yeas, Base, TypeOK
  <2>2. ly'[c] = [when |-> clock, who |-> c] /\ start'[c] = clock
    BY <1>1, Zenon DEF ElectSelf, Yea, Base, TypeOK
  <2> QED BY <2>1, <2>2 DEF Held, Base, TypeOK
<1>2. CASE ~ElectSelf(c)
  <2>1. phase[c] = "election" /\ start'[c] = start[c] /\ ~Lose(c)
    <3>1. ASSUME NEW m \in Member,
                 \/ CheckNewState(m) \/ Relinquish(m)
                 \/ \E w \in Member : ReadPrimary(m, w) \/ GiveVote(m, w)
          PROVE  phase' = phase /\ start' = start
      BY <3>1, Zenon DEF CheckNewState, Relinquish, ReadPrimary, GiveVote, votes
    <3>2. ASSUME NEW m \in Member,
                 \/ Succeed(m) \/ SetElectionTime(m) \/ Lose(m)
                 \/ AssumePrimary(m) \/ Restart(m)
          PROVE  m # c /\ phase'[c] = phase[c] /\ start'[c] = start[c]
      BY <3>2 DEF Succeed, SetElectionTime, Lose, AssumePrimary, Restart, EndElection,
                  Base, TypeOK
    <3>3. ASSUME NEW m \in Member, ElectSelf(m)
          PROVE  phase'[c] = phase[c] /\ start'[c] = start[c]
      <4>1. m # c
        BY <3>3, <1>2, Zenon
      <4> QED BY <3>3, <4>1, Zenon DEF ElectSelf, Base, TypeOK
    <3>4. ASSUME Tick \/ UNCHANGED vars PROVE phase' = phase /\ start' = start
      BY <3>4, Zenon DEF Tick, vars
    <3>5. phase[c] = "election" /\ start'[c] = start[c]
      BY <3>1, <3>2, <3>3, <3>4, Zenon DEF Next
    <3> QED BY <3>2, <3>5, Zenon
  <2>2. start[c] + LeaseTime \in Int
    BY DEF Base, TypeOK
  <2>3. CASE v \in Yeas(c)
    <3>1. Held(v, c, start[c] + LeaseTime)
      BY <2>1, <2>3, Zenon DEF YeasHeld
    <3>2. PICK t \in Int : t = start[c] + LeaseTime
      BY <2>2, Zenon
    <3>3. Held(v, c, t)'
      BY <1>0, <2>1, <3>1, <3>2, HeldStep, Zenon DEF Base
    <3> QED BY <2>1, <3>2, <3>3, Zenon DEF Held
  <2>4. CASE v \notin Yeas(c)
    <3>1. v # c /\ elect[c][v] # "yea" /\ elect'[c][v] = "yea"
      BY <2>4, <1>0, Zenon DEF Yeas
    <3>2. GiveVote(c, v)
      <4>1. ASSUME NEW m \in Member,
                   \/ CheckNewState(m) \/ Relinquish(m) \/ AssumePrimary(m)
                   \/ SetElectionTime(m)
            PROVE  elect' = elect
        BY <4>1, Zenon DEF CheckNewState, Relinquish, AssumePrimary, SetElectionTime,
                           votes
      <4>2. ASSUME NEW m \in Member,
                   \/ ElectSelf(m) \/ Succeed(m) \/ Lose(m) \/ Restart(m)
                   \/ \E w \in Member : ReadPrimary(m, w)
            PROVE  elect'[c][v] \in {"none", "asked", "reading", elect[c][v]}
        <5>1. CASE ElectSelf(m)
          BY <1>0, <5>1 DEF ElectSelf, Base, TypeOK
        <5>2. CASE Succeed(m) \/ Lose(m)
          BY <1>0, <5>2 DEF Succeed, Lose, EndElection, Base, TypeOK
        <5>3. CASE Restart(m)
          BY <1>0, <5>3 DEF Restart, Base, TypeOK
        <5>4. ASSUME NEW w \in Member, ReadPrimary(m, w)
              PROVE  elect'[c][v] \in {"none", "asked", "reading", elect[c][v]}
          BY <1>0, <5>4 DEF ReadPrimary, Vote, Base, TypeOK
        <5> QED BY <4>2, <5>1, <5>2, <5>3, <5>4, Zenon
      <4>3. ASSUME NEW m \in Member, NEW w \in Member, GiveVote(m, w), ~(m = c /\ w = v)
            PROVE  elect'[c][v] = elect[c][v]
        <5>1. PICK answer \in {"yea", "none"} : Vote(m, w, answer)
          BY <4>3, Zenon DEF GiveVote
        <5> QED BY <1>0, <4>3, <5>1, Zenon DEF Vote, Base, TypeOK
      <4>4. CASE Tick \/ UNCHANGED vars
        BY <3>1, <4>4, Zenon DEF Tick, vars
      <4> QED BY <1>0, <3>1, <4>1, <4>2, <4>3, <4>4, Zenon DEF Next
    <3>3. ly' = [ly EXCEPT ![v] = Yea(v, c)] /\ clock' = clock
      <4>1. ~Vote(c, v, "none")
        BY <1>0, <3>1 DEF Vote, Base, TypeOK
      <4> QED BY <3>2, <4>1, Zenon DEF GiveVote
    <3>4. ly'[v] = [when |-> clock, who |-> c] /\ start[c] <= clock
      BY <1>0, <3>3, Zenon DEF Yea, Base, TypeOK, InOrder
    <3> QED BY <2>1, <3>3, <3>4 DEF Held, Base, TypeOK
  <2> QED BY <2>3, <2>4, Zenon
<1> QED BY <1>1, <1>2, Zenon

-----------------------------------------------------------------------------
\* What msgCheckNewState does to the box.
LEMMA CheckedStep ==
    ASSUME Base, NEW m \in Member, CheckNewState(m)
    PROVE  \/ box'[m] = box[m]
           \/ ~IsPrimary(m) /\ box'[m] = [state |-> "SECONDARY", primary |-> None]
           \/ \E n \in Member \ {m} :
                 /\ box'[m] = [state |-> "SECONDARY", primary |-> n]
                 /\ IsPrimary(m) => electionTime[n] > electionTime[m]
<1>1. PICK info \in HbInfos(m) :
          box' = [box EXCEPT ![m] =
            IF Cardinality(OtherPrimaries(info)) = 1
              THEN Noted(m, CHOOSE n \in OtherPrimaries(info) : TRUE, info)
              ELSE Cleared(m, info)]
  BY Zenon DEF CheckNewState
<1>2. /\ info \in [Member -> 0 .. MaxTime] /\ info[m] = 0
      /\ \A n \in Member : info[n] <= electionTime[n]
  BY PolledInfo, Zenon DEF Base
<1> DEFINE b == IF Cardinality(OtherPrimaries(info)) = 1
                  THEN Noted(m, CHOOSE n \in OtherPrimaries(info) : TRUE, info)
                  ELSE Cleared(m, info)
<1>3. \/ b = box[m]
      \/ /\ ~IsPrimary(m)
         /\ b = [state |-> "SECONDARY", primary |-> None]
      \/ \E n \in Member \ {m} :
            /\ b = [state |-> "SECONDARY", primary |-> n]
            /\ IsPrimary(m) => info[n] > electionTime[m]
  <2>1. TypeOK /\ BoxAligned
    BY Zenon DEF Base
  <2> QED BY <1>2, <2>1, CheckedBox, Zenon
<1>4. box'[m] = b
  BY <1>1, Zenon DEF Base, TypeOK
<1> HIDE DEF b
<1>5. \A n \in Member : info[n] > electionTime[m] => electionTime[n] > electionTime[m]
  BY <1>2 DEF Base, TypeOK
<1> QED BY <1>3, <1>4, <1>5, Zenon

\* A member that is elected has just won, or was elected before.
LEMMA ElectedStep ==
    ASSUME Base, [Next]_vars, NEW c \in Member, Elected(c)', ~SetElectionTime(c)
    PROVE  Elected(c) /\ electionTime'[c] = electionTime[c] /\ ~Lose(c)
<1>1. ASSUME NEW m \in Member, CheckNewState(m)
      PROVE  Elected(c) /\ electionTime' = electionTime
  <2>1. phase' = phase /\ electionTime' = electionTime
    BY <1>1, Zenon DEF CheckNewState, votes
  <2>2. IsPrimary(c)' => IsPrimary(c)
    <3>1. CASE m # c
      BY <1>1, <3>1, Zenon DEF CheckNewState, IsPrimary, Base, TypeOK
    <3>2. CASE m = c
      <4>1. box'[c] = box[c] \/ box'[c].state = "SECONDARY"
        <5>1. CheckNewState(c)
          BY <1>1, <3>2, Zenon
        <5>2. \/ box'[c] = box[c]
              \/ box'[c] = [state |-> "SECONDARY", primary |-> None]
              \/ \E n \in Member : box'[c] = [state |-> "SECONDARY", primary |-> n]
          BY <5>1, CheckedStep, Zenon
        <5>3. \A n : [state |-> "SECONDARY", primary |-> n].state = "SECONDARY"
          BY Zenon
        <5> QED BY <5>2, <5>3, Zenon
      <4> QED BY <4>1, Zenon DEF IsPrimary
    <3> QED BY <3>1, <3>2, Zenon
  <2> QED BY <2>1, <2>2, Zenon DEF Elected
<1>2. ASSUME NEW m \in Member, Relinquish(m) \/ ElectSelf(m) \/ Restart(m)
      PROVE  Elected(c) /\ electionTime' = electionTime
  BY <1>2 DEF Relinquish, ElectSelf, Restart, Secondary, Elected, IsPrimary, Base,
              TypeOK, votes
<1>3. ASSUME NEW m \in Member, SetElectionTime(m)
      PROVE  Elected(c) /\ electionTime'[c] = electionTime[c]
  <2>1. m # c
    BY <1>3, Zenon
  <2> QED BY <1>3, <2>1, Zenon DEF SetElectionTime, Elected, IsPrimary, Base, TypeOK
<1>4. ASSUME NEW m \in Member, Lose(m)
      PROVE  m # c /\ Elected(c) /\ electionTime' = electionTime
  BY <1>4, Zenon DEF Lose, EndElection, Elected, IsPrimary, Base, TypeOK, InOrder
<1>9. ASSUME NEW m \in Member, Succeed(m)
      PROVE  Elected(c) /\ electionTime' = electionTime
  BY <1>9 DEF Succeed, EndElection, Elected, IsPrimary, Base, TypeOK
<1>5. ASSUME NEW m \in Member, AssumePrimary(m)
      PROVE  Elected(c) /\ electionTime' = electionTime
  BY <1>5, Zenon DEF AssumePrimary, Elected, IsPrimary, Base, TypeOK
<1>6. ASSUME NEW m \in Member, \E v \in Member : ReadPrimary(m, v) \/ GiveVote(m, v)
      PROVE  Elected(c) /\ electionTime' = electionTime
  BY <1>6, Zenon DEF ReadPrimary, GiveVote, Elected, IsPrimary
<1>7. ASSUME Tick \/ UNCHANGED vars PROVE Elected(c) /\ electionTime' = electionTime
  BY <1>7, Zenon DEF Tick, vars, Elected, IsPrimary
<1>8. Elected(c) /\ electionTime'[c] = electionTime[c]
  BY <1>1, <1>2, <1>3, <1>4, <1>5, <1>6, <1>7, <1>9, Zenon DEF Next
<1> QED BY <1>4, <1>8, Zenon

\* A step leaves what a majority holds for c held, if c does not lose.
LEMMA HeldByMajorityStep ==
    ASSUME Base, [Next]_vars, ~forgotten', NEW c \in Member, ~Lose(c), NEW t \in Int,
           NEW Q \in SUBSET Member, \A v \in Q : Held(v, c, t)
    PROVE  \A v \in Q : Held(v, c, t)'
<1> SUFFICES ASSUME NEW v \in Q PROVE Held(v, c, t)'
  OBVIOUS
<1>1. v \in Member /\ Held(v, c, t) /\ TypeOK /\ YeaPast
  BY Zenon DEF Base
<1> QED BY <1>1, HeldStep, Zenon

\* An election that has succeeded after a step succeeded before it, or with it.
LEMMA SucceededStep ==
    ASSUME Base, [Next]_vars, NEW c \in Member, phase'[c] = "succeeded", ~Succeed(c)
    PROVE  phase[c] = "succeeded" /\ start'[c] = start[c] /\ ~Lose(c)
<1>1. ASSUME NEW m \in Member,
             \/ CheckNewState(m) \/ Relinquish(m)
             \/ \E w \in Member : ReadPrimary(m, w) \/ GiveVote(m, w)
      PROVE  phase' = phase /\ start' = start
  BY <1>1, Zenon DEF CheckNewState, Relinquish, ReadPrimary, GiveVote, votes
<1>2. ASSUME NEW m \in Member,
             \/ ElectSelf(m) \/ SetElectionTime(m) \/ Lose(m)
             \/ AssumePrimary(m) \/ Restart(m)
      PROVE  m # c /\ phase'[c] = phase[c] /\ start'[c] = start[c]
  BY <1>2 DEF ElectSelf, SetElectionTime, Lose, AssumePrimary, Restart, EndElection,
              Base, TypeOK
<1>3. ASSUME NEW m \in Member, Succeed(m)
      PROVE  phase'[c] = phase[c] /\ start' = start
  <2>1. m # c
    BY <1>3, Zenon
  <2> QED BY <1>3, <2>1, Zenon DEF Succeed, EndElection, Base, TypeOK
<1>4. ASSUME Tick \/ UNCHANGED vars PROVE phase' = phase /\ start' = start
  BY <1>4, Zenon DEF Tick, vars
<1>5. phase[c] = "succeeded" /\ start'[c] = start[c]
  BY <1>1, <1>2, <1>3, <1>4, Zenon DEF Next
<1> QED BY <1>2, <1>5, Zenon

LEMMA CountHeldStep ==
    ASSUME Base, Leases, [Next]_vars, ~forgotten' PROVE CountHeld'
<1> SUFFICES ASSUME NEW c \in Member, phase'[c] = "succeeded"
             PROVE  \E Q \in SUBSET Member :
                        Majority(Q) /\ \A v \in Q : Held(v, c, start[c] + LeaseTime)'
  BY Zenon DEF CountHeld, Majority
<1>1. CASE Succeed(c)
  <2>1. Yeas(c) \in SUBSET Member /\ Majority(Yeas(c))
    BY <1>1, Zenon DEF Yeas, Succeed
  <2>2. start' = start /\ clock' = clock /\ ly' = ly
    BY <1>1, Zenon DEF Succeed
  <2>3. \A v \in Yeas(c) : Held(v, c, start[c] + LeaseTime)
    BY <1>1, Zenon DEF Succeed, Leases, YeasHeld
  <2>4. \A v \in Yeas(c) : Held(v, c, start[c] + LeaseTime)'
    BY <2>2, <2>3, Zenon DEF Held
  <2> QED BY <2>1, <2>4, Zenon
<1>2. CASE ~Succeed(c)
  <2>1. phase[c] = "succeeded" /\ start'[c] = start[c] /\ ~Lose(c)
    BY <1>2, SucceededStep, Zenon
  <2>2. PICK Q \in SUBSET Member :
            Majority(Q) /\ \A v \in Q : Held(v, c, start[c] + LeaseTime)
    BY <2>1, Zenon DEF Leases, CountHeld
  <2>3. PICK t \in Int : t = start[c] + LeaseTime
    BY ElectionAssumption DEF Base, TypeOK
  <2>4. \A v \in Q : Held(v, c, t)'
    BY <2>1, <2>2, <2>3, HeldByMajorityStep, Zenon
  <2> QED BY <2>1, <2>2, <2>3, <2>4, Zenon DEF Held
<1> QED BY <1>1, <1>2, Zenon

\* A winner that does not overrun stamps its election while its votes are its own.
LEMMA WinnersVotes ==
    ASSUME Base, Leases, NEW c \in Member, SetElectionTime(c), ~overran'
    PROVE  \E Q \in SUBSET Member :
              /\ Majority(Q)
              /\ \A v \in Q : ly[v].who = c /\ ly[v].when + LeaseTime >= clock
<1>1. PICK Q \in SUBSET Member :
          Majority(Q) /\ \A v \in Q : Held(v, c, start[c] + LeaseTime)
  BY Zenon DEF SetElectionTime, Leases, CountHeld
<1>2. InTime(c)
  BY Zenon DEF SetElectionTime
<1>3. start[c] + LeaseTime >= clock
  BY <1>2, ElectionAssumption DEF InTime, Base, TypeOK
<1>4. ASSUME NEW v \in Q PROVE ly[v].who = c /\ ly[v].when + LeaseTime >= clock
  <2>1. v \in Member /\ Held(v, c, start[c] + LeaseTime)
    BY <1>1, Zenon
  <2> QED BY <1>3, <2>1, ElectionAssumption DEF Held, Base, TypeOK
<1> QED BY <1>1, <1>4, Zenon

LEMMA MajorityHeldStep ==
    ASSUME Base, Leases, [Next]_vars, ~forgotten', ~overran' PROVE MajorityHeld'
<1> SUFFICES ASSUME NEW c \in Member, Elected(c)'
             PROVE  \E Q \in SUBSET Member :
                        Majority(Q) /\ \A v \in Q : Held(v, c, electionTime[c])'
  BY Zenon DEF MajorityHeld, Majority
<1>1. CASE SetElectionTime(c)
  <2>1. PICK Q \in SUBSET Member :
            /\ Majority(Q)
            /\ \A v \in Q : ly[v].who = c /\ ly[v].when + LeaseTime >= clock
    BY <1>1, WinnersVotes, Zenon
  <2>2. electionTime'[c] = clock /\ clock' = clock /\ ly' = ly
    BY <1>1, Zenon DEF SetElectionTime, Base, TypeOK
  <2>3. \A v \in Q : Held(v, c, electionTime[c])'
    BY <2>1, <2>2, Zenon DEF Held
  <2> QED BY <2>1, <2>3, Zenon
<1>2. CASE ~SetElectionTime(c)
  <2>1. Elected(c) /\ electionTime'[c] = electionTime[c] /\ ~Lose(c)
    BY <1>2, ElectedStep, Zenon
  <2>2. PICK Q \in SUBSET Member :
            Majority(Q) /\ \A v \in Q : Held(v, c, electionTime[c])
    BY <2>1, Zenon DEF Leases, MajorityHeld
  <2>3. PICK t \in Int : t = electionTime[c]
    BY ElectionAssumption DEF Base, TypeOK
  <2>4. \A v \in Q : Held(v, c, t)'
    BY <2>1, <2>2, <2>3, HeldByMajorityStep, Zenon
  <2> QED BY <2>1, <2>2, <2>3, <2>4, Zenon DEF Held
<1> QED BY <1>1, <1>2, Zenon

\* Two majorities share a voter.
LEMMA SharedVoter ==
    ASSUME NEW P \in SUBSET Member, NEW Q \in SUBSET Member, Majority(P), Majority(Q)
    PROVE  \E v \in Member : v \in P /\ v \in Q
BY ElectionAssumption, FS_MajoritiesIntersect, FS_Subset, FS_CardinalityType DEF Majority

\* The voter that a winner shares with an elected member voted for the winner
\* last, so the election time of the other is past.
LEMMA WinnerIsLater ==
    ASSUME Base, Leases, NEW c \in Member, SetElectionTime(c), ~overran',
           NEW a \in Member, a # c, Elected(a)
    PROVE  electionTime[a] < clock
<1>1. PICK Q \in SUBSET Member :
          Majority(Q) /\ \A v \in Q : Held(v, a, electionTime[a])
  BY Zenon DEF Leases, MajorityHeld
<1>2. PICK P \in SUBSET Member : Majority(P) /\ \A v \in P : ly[v].who = c
  BY WinnersVotes, Zenon
<1>4. PICK v \in Member : v \in Q /\ v \in P
  BY <1>1, <1>2, SharedVoter, Zenon
<1>3. v \in Q /\ ly[v].who = c
  BY <1>2, <1>4, Zenon
<1> QED BY <1>1, <1>3, ElectionAssumption, Zenon DEF Held, Base, TypeOK

LEMMA ElectedApartStep ==
    ASSUME Base, Leases, [Next]_vars, ~overran' PROVE ElectedApart'
<1> SUFFICES ASSUME NEW a \in Member, NEW b \in Member, Elected(a)', Elected(b)', a # b
             PROVE  electionTime'[a] # electionTime'[b]
  BY Zenon DEF ElectedApart
<1>1. ASSUME NEW c \in Member, NEW d \in Member, c # d, Elected(d)', SetElectionTime(c)
      PROVE  electionTime'[c] # electionTime'[d]
  <2>1. electionTime'[c] = clock /\ ~SetElectionTime(d)
    BY <1>1, Zenon DEF SetElectionTime, Base, TypeOK
  <2>2. Elected(d) /\ electionTime'[d] = electionTime[d]
    BY <1>1, <2>1, ElectedStep, Zenon
  <2>3. electionTime[d] < clock
    BY <1>1, <2>2, WinnerIsLater, Zenon
  <2> QED BY <2>1, <2>2, <2>3, ElectionAssumption DEF Base, TypeOK
<1>2. CASE SetElectionTime(a) \/ SetElectionTime(b)
  BY <1>1, <1>2, Zenon
<1>3. CASE ~SetElectionTime(a) /\ ~SetElectionTime(b)
  BY <1>3, ElectedStep, Zenon DEF Leases, ElectedApart
<1> QED BY <1>2, <1>3, Zenon

-----------------------------------------------------------------------------
LEMMA IInvInductive == IInv /\ [Next]_vars => IInv'
<1> SUFFICES ASSUME IInv, [Next]_vars PROVE IInv'
  OBVIOUS
<1>1. Base'
  BY BaseStep, Zenon DEF IInv
<1>2. (forgotten => forgotten') /\ (overran => overran')
  BY Zenon DEF IInv, Base, TypeOK, Next, vars, faults, CheckNewState, Relinquish, ElectSelf,
         Succeed, SetElectionTime, Lose, AssumePrimary, ReadPrimary, GiveVote, Restart, Tick
<1>3. CASE ~forgotten' /\ ~overran'
  <2>1. Base /\ Leases
    BY <1>2, <1>3, Zenon DEF IInv
  <2> QED BY <1>1, <1>3, <2>1, YeasHeldStep, CountHeldStep, MajorityHeldStep,
             ElectedApartStep, Zenon DEF IInv, Leases
<1> QED BY <1>1, <1>3, Zenon DEF IInv

LEMMA IInvInit == Init => IInv
<1> SUFFICES ASSUME Init PROVE IInv
  OBVIOUS
<1>1. Leases
  BY Zenon DEF Init, Leases, YeasHeld, CountHeld, MajorityHeld, ElectedApart, Elected, IsPrimary,
               Secondary
<1> QED BY <1>1, BaseInit, Zenon DEF IInv

LEMMA IInvAlways == Spec => []IInv
BY IInvInit, IInvInductive, PTL DEF Spec

\* The state keeps its types.
THEOREM TypeCorrect == Spec => []TypeOK
<1>1. IInv => TypeOK
  BY Zenon DEF IInv, Base
<1> QED BY <1>1, IInvAlways, PTL

\* Two primaries never have the same election time, in any set of members and
\* whatever the lease is, unless a member restarted within its lease or a
\* candidate took its election time after the lease its election began with.
THEOREM ElectionTimesDiffer == Spec => []DistinctElectionTimes
<1>1. IInv => DistinctElectionTimes
  BY Zenon DEF IInv, Leases, ElectedApart, Elected, DistinctElectionTimes
<1> QED BY <1>1, IInvAlways, PTL

\* The state and the primary of a StateBox stay aligned.
THEOREM StateBoxAligned == Spec => []BoxAligned
<1>1. IInv => BoxAligned
  BY Zenon DEF IInv, Base
<1> QED BY <1>1, IInvAlways, PTL

\* A primary only ever gives way to a member elected later.
THEOREM PrimaryYieldsToNewer == Spec => YieldsToNewer
<1>1. IInv /\ [Next]_vars => [YieldsToNewerStep]_vars
  <2> SUFFICES ASSUME Base, Next, NEW a \in Member, NEW b \in Member,
                      IsPrimary(a), a # b, box'[a].primary = b
               PROVE  electionTime[a] < electionTime[b]
    BY Zenon DEF YieldsToNewerStep, IInv
  <2>1. box[a].primary = a
    BY Zenon DEF Base, BoxAligned
  <2>2. ASSUME CheckNewState(a) PROVE electionTime[a] < electionTime[b]
    <3>1. \/ box'[a] = box[a]
          \/ \E n \in Member \ {a} :
                /\ box'[a] = [state |-> "SECONDARY", primary |-> n]
                /\ electionTime[n] > electionTime[a]
      BY <2>2, CheckedStep, Zenon
    <3>2. PICK n \in Member \ {a} : /\ box'[a] = [state |-> "SECONDARY", primary |-> n]
                                    /\ electionTime[n] > electionTime[a]
      BY <2>1, <3>1, Zenon
    <3> QED BY <3>2 DEF Base, TypeOK
  <2>3. ASSUME NEW m \in Member, m # a,
               \/ CheckNewState(m) \/ Relinquish(m) \/ ElectSelf(m)
               \/ AssumePrimary(m) \/ Restart(m)
        PROVE  box'[a] = box[a]
    BY <2>3, Zenon DEF CheckNewState, Relinquish, ElectSelf, AssumePrimary, Restart, Base, TypeOK
  <2>4. ASSUME Relinquish(a) \/ ElectSelf(a) \/ AssumePrimary(a) \/ Restart(a)
        PROVE  box'[a].primary \in {a, None}
    BY <2>4 DEF Relinquish, ElectSelf, AssumePrimary, Restart, Secondary, Base, TypeOK
  <2>5. ASSUME \/ Tick
               \/ \E m \in Member : \/ Succeed(m) \/ SetElectionTime(m) \/ Lose(m)
                                     \/ \E v \in Member : ReadPrimary(m, v) \/ GiveVote(m, v)
        PROVE  box' = box
    BY <2>5, Zenon DEF Tick, Succeed, SetElectionTime, Lose, ReadPrimary, GiveVote
  <2> QED BY <2>1, <2>2, <2>3, <2>4, <2>5, ElectionAssumption, Zenon DEF Next
<1> QED BY <1>1, IInvAlways, PTL DEF Spec, YieldsToNewer
=============================================================================
