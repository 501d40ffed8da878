----------------------------- MODULE QLockProofs -----------------------------
(***************************************************************************)
(* Proofs about QLock for any finite set of threads, any choice of entry   *)
(* points and any number of calls.                                         *)
(***************************************************************************)
EXTENDS QLock, FiniteSetTheorems, TLAPS

\* The generation counters: one apart exactly while a thread owns X, and no
\* thread in w_to_X() is ahead of the exit counter.
GenerationsAgree ==
    /\ generationX = generationXExit \/ generationX = generationXExit + 1
    /\ generationX = generationXExit + 1 <=> \E t \in Thread : pc[t] = "X"
    /\ \A t \in Thread : pc[t] = "wait_X" => myGeneration[t] <= generationXExit

\* At most one thread is between W_to_R() and the end of R_to_W().
OneUpgrader ==
    \A t, u \in Thread :
        pc[t] \in {"Rd", "wait_U"} /\ pc[u] \in {"Rd", "wait_U"} => t = u

Inv ==
    /\ TypeOK
    /\ MutualExclusion
    /\ CountersAgree
    /\ GenerationsAgree
    /\ OneUpgrader
    /\ NeverAborts

-----------------------------------------------------------------------------
(* Counting.                                                               *)

\* Counts are naturals, zero exactly when nobody is counted.
LEMMA NumNat ==
    ASSUME NEW f, NEW S
    PROVE  /\ Num(f, S) \in Nat
           /\ Num(f, S) = 0 <=> \A u \in Thread : f[u] \notin S
<1> DEFINE A == {u \in Thread : f[u] \in S}
<1>1. IsFiniteSet(A)
  BY ThreadAssumption, FS_Subset, Zenon
<1>2. Cardinality(A) \in Nat /\ (Cardinality(A) = 0 <=> A = {})
  BY <1>1, FS_CardinalityType, FS_EmptySet, Zenon
<1> QED
  BY <1>2, Zenon DEF Num

\* A count changes by what the one thread that moved contributes.
LEMMA NumMove ==
    ASSUME NEW f, NEW g, NEW S, NEW t \in Thread,
           \A u \in Thread \ {t} : f[u] = g[u]
    PROVE  Num(g, S) = Num(f, S) - (IF f[t] \in S THEN 1 ELSE 0) + (IF g[t] \in S THEN 1 ELSE 0)
<1> DEFINE A == {u \in Thread : f[u] \in S}
           B == {u \in Thread : g[u] \in S}
           C == {u \in Thread \ {t} : f[u] \in S}
<1>1. IsFiniteSet(C)
  BY ThreadAssumption, FS_Subset, Zenon
<1>2. t \notin C /\ Cardinality(C) \in Nat
  BY <1>1, FS_CardinalityType, Zenon
<1>3. Cardinality(C \cup {t}) = Cardinality(C) + 1
  BY <1>1, <1>2, FS_AddElement, Zenon
<1>4. Cardinality(A) = Cardinality(C) + (IF f[t] \in S THEN 1 ELSE 0)
  <2>1. CASE f[t] \in S
    <3>1. A = C \cup {t}  BY <2>1, Zenon
    <3> HIDE DEF A, B, C
    <3> QED  BY <3>1, <1>2, <1>3, <2>1, Zenon
  <2>2. CASE f[t] \notin S
    <3>1. A = C  BY <2>2, Zenon
    <3> HIDE DEF A, B, C
    <3> QED  BY <3>1, <1>2, <2>2
  <2> QED  BY <2>1, <2>2, Zenon
<1>5. Cardinality(B) = Cardinality(C) + (IF g[t] \in S THEN 1 ELSE 0)
  <2>1. CASE g[t] \in S
    <3>1. B = C \cup {t}  BY <2>1, Zenon
    <3> HIDE DEF A, B, C
    <3> QED  BY <3>1, <1>2, <1>3, <2>1, Zenon
  <2>2. CASE g[t] \notin S
    <3>1. B = C  BY <2>2, Zenon
    <3> HIDE DEF A, B, C
    <3> QED  BY <3>1, <1>2, <2>2
  <2> QED  BY <2>1, <2>2, Zenon
<1> QED
  BY <1>2, <1>4, <1>5 DEF Num

\* The only thread counted.
LEMMA NumOne ==
    ASSUME NEW f, NEW S, NEW t \in Thread, f[t] \in S
    PROVE  /\ Num(f, S) >= 1
           /\ Num(f, S) = 1 <=> \A u \in Thread \ {t} : f[u] \notin S
<1> DEFINE A == {u \in Thread : f[u] \in S}
<1>1. IsFiniteSet(A) /\ t \in A
  BY ThreadAssumption, FS_Subset, Zenon
<1>2. /\ IsFiniteSet(A \ {t}) /\ Cardinality(A \ {t}) = Cardinality(A) - 1
      /\ Cardinality(A) \in Nat /\ Cardinality(A \ {t}) \in Nat
  BY <1>1, FS_RemoveElement, FS_CardinalityType, Zenon
<1>3. Cardinality(A \ {t}) = 0 <=> A \ {t} = {}
  BY <1>2, FS_EmptySet, Zenon
<1> QED
  BY <1>2, <1>3 DEF Num

-----------------------------------------------------------------------------
(* Modes.                                                                  *)

LEMMA ModeType ==
    ASSUME TypeOK
    PROVE  mode \in [Thread -> Table!Mode]
  BY Zenon DEF TypeOK, mode, ModeOf, Table!Mode, Held, Waiting

\* A step of the table keeps the modes compatible.
LEMMA TableStep ==
    ASSUME mode \in [Thread -> Table!Mode], MutualExclusion, Table!Next
    PROVE  MutualExclusion'
<1>1. PICK t \in Thread :
         \/ \E m \in {"r", "w", "R", "W"} : Table!Acquire(t, m)
         \/ Table!Release(t) \/ Table!Downgrade(t) \/ Table!Upgrade(t)
         \/ Table!Park(t) \/ Table!Promote(t) \/ Table!Unpark(t)
  BY Zenon DEF Table!Next
<1>2. ASSUME NEW m \in {"r", "w", "R", "W"}, Table!Acquire(t, m) PROVE MutualExclusion'
  BY <1>2 DEF Table!Acquire, Table!Others, Table!Allows, Table!Mode, MutualExclusion, Coexist
<1>3. CASE Table!Release(t)
  BY <1>3 DEF Table!Release, Table!Mode, MutualExclusion, Coexist
<1>4. CASE Table!Downgrade(t)
  BY <1>4 DEF Table!Downgrade, Table!Mode, MutualExclusion, Coexist
<1>5. CASE Table!Upgrade(t)
  BY <1>5 DEF Table!Upgrade, Table!Others, Table!Allows, Table!Mode, MutualExclusion, Coexist
<1>6. CASE Table!Park(t)
  BY <1>6 DEF Table!Park, Table!Mode, MutualExclusion, Coexist
<1>7. CASE Table!Promote(t)
  BY <1>7 DEF Table!Promote, Table!Others, Table!Allows, Table!Mode, MutualExclusion, Coexist
<1>8. CASE Table!Unpark(t)
  BY <1>8, Zenon DEF Table!Unpark, Table!Mode, MutualExclusion, Coexist
<1> QED
  BY <1>1, <1>2, <1>3, <1>4, <1>5, <1>6, <1>7, <1>8, Zenon

\* What a step of one thread does to the modes and to the counts.
LEMMA Move ==
    ASSUME NEW t \in Thread, NEW p, TypeOK,
           Goto(t, p),
           generationXExit' = generationXExit,
           \A u \in Thread \ {t} : myGeneration'[u] = myGeneration[u]
    PROVE  LET m == ModeOf(p, myGeneration'[t], generationXExit)
           IN  /\ mode' = [mode EXCEPT ![t] = m]
               /\ \A S : Num(mode', S) = Num(mode, S) - (IF mode[t] \in S THEN 1 ELSE 0)
                                                      + (IF m \in S THEN 1 ELSE 0)
               /\ \A S : Num(pc', S) = Num(pc, S) - (IF pc[t] \in S THEN 1 ELSE 0)
                                                  + (IF p \in S THEN 1 ELSE 0)
<1> DEFINE m == ModeOf(p, myGeneration'[t], generationXExit)
<1> HIDE DEF m
<1>1. pc \in [Thread -> {"none"} \cup Held \cup Waiting]
  BY Zenon DEF TypeOK
<1>2. \A u \in Thread : mode'[u] = IF u = t THEN m ELSE mode[u]
  BY <1>1, Zenon DEF mode, m, Goto
<1>3. mode' = [mode EXCEPT ![t] = m]
  BY <1>2, Zenon DEF mode
<1>4. \A S : Num(mode', S) = Num(mode, S) - (IF mode[t] \in S THEN 1 ELSE 0)
                                         + (IF m \in S THEN 1 ELSE 0)
  <2> TAKE S
  <2>1. \A u \in Thread \ {t} : mode[u] = mode'[u]
    BY <1>2, Zenon
  <2>2. Num(mode', S) = Num(mode, S) - (IF mode[t] \in S THEN 1 ELSE 0)
                                     + (IF mode'[t] \in S THEN 1 ELSE 0)
    BY <2>1, NumMove, Zenon
  <2> QED  BY <2>2, <1>2, Zenon
<1>5. \A S : Num(pc', S) = Num(pc, S) - (IF pc[t] \in S THEN 1 ELSE 0)
                                     + (IF p \in S THEN 1 ELSE 0)
  <2> TAKE S
  <2> DEFINE q == pc'
  <2>1. q[t] = p /\ \A u \in Thread \ {t} : pc[u] = q[u]
    BY <1>1, Zenon DEF Goto
  <2> HIDE DEF q
  <2>2. Num(q, S) = Num(pc, S) - (IF pc[t] \in S THEN 1 ELSE 0)
                               + (IF q[t] \in S THEN 1 ELSE 0)
    BY <2>1, NumMove, Zenon
  <2> QED  BY <2>1, <2>2, Zenon DEF q
<1> QED
  BY <1>3, <1>4, <1>5, Zenon DEF m

\* A counter that is zero says that nobody holds its mode.
LEMMA ZeroModes ==
    ASSUME TypeOK, CountersAgree
    PROVE  /\ n.r = 0 <=> \A u \in Thread : mode[u] # "r"
           /\ n.w = 0 <=> \A u \in Thread : mode[u] # "w"
           /\ n.R = 0 <=> \A u \in Thread : mode[u] # "R"
           /\ n.W = 0 <=> \A u \in Thread : mode[u] # "W"
           /\ n.X = 0 <=> \A u \in Thread : mode[u] # "X" /\ mode[u] # "parked"
           /\ n.U = 0 <=> \A u \in Thread : pc[u] # "wait_U"
<1>1. /\ n.r = 0 <=> \A u \in Thread : mode[u] \notin {"r"}
      /\ n.w = 0 <=> \A u \in Thread : mode[u] \notin {"w"}
      /\ n.R = 0 <=> \A u \in Thread : mode[u] \notin {"R"}
  BY NumNat, Zenon DEF CountersAgree
<1>2. /\ n.W = 0 <=> \A u \in Thread : mode[u] \notin {"W"}
      /\ n.X = 0 <=> \A u \in Thread : mode[u] \notin {"X", "parked"}
      /\ n.U = 0 <=> \A u \in Thread : pc[u] \notin {"wait_U"}
  BY NumNat DEF CountersAgree
<1> QED  BY <1>1, <1>2, Zenon

\* The program counters of a thread that holds nothing, and those of them that
\* numPendingGlobalWrites counts.
Out     == {"none", "wait_r", "wait_w", "wait_R", "try_R", "late_R",
            "wait_W", "try_W", "late_W"}
Global  == {"wait_W", "try_W", "late_W"}

\* A step of one thread keeps the counters right when each changes by what the
\* thread contributes to it before and after.
LEMMA CountStep ==
    ASSUME TypeOK, CountersAgree,
           NEW t \in Thread, NEW p, NEW m,
           Goto(t, p), generationXExit' = generationXExit,
           \A u \in Thread \ {t} : myGeneration'[u] = myGeneration[u],
           m = ModeOf(p, myGeneration'[t], generationXExit),
           n'.r = n.r - (IF mode[t] = "r" THEN 1 ELSE 0) + (IF m = "r" THEN 1 ELSE 0),
           n'.w = n.w - (IF mode[t] = "w" THEN 1 ELSE 0) + (IF m = "w" THEN 1 ELSE 0),
           n'.R = n.R - (IF mode[t] = "R" THEN 1 ELSE 0) + (IF m = "R" THEN 1 ELSE 0),
           n'.W = n.W - (IF mode[t] = "W" THEN 1 ELSE 0) + (IF m = "W" THEN 1 ELSE 0),
           n'.X = n.X - (IF mode[t] \in {"X", "parked"} THEN 1 ELSE 0)
                      + (IF m \in {"X", "parked"} THEN 1 ELSE 0),
           n'.U = n.U - (IF pc[t] = "wait_U" THEN 1 ELSE 0)
                      + (IF p = "wait_U" THEN 1 ELSE 0),
           numPendingGlobalWrites' = numPendingGlobalWrites
                - (IF pc[t] \in Global \cup {"wait_U"} THEN 1 ELSE 0)
                + (IF p \in Global \cup {"wait_U"} THEN 1 ELSE 0)
    PROVE  /\ CountersAgree'
           /\ numPendingGlobalWrites' \in Nat
           /\ n'.r \in Nat /\ n'.w \in Nat /\ n'.R \in Nat
           /\ n'.W \in Nat /\ n'.X \in Nat /\ n'.U \in Nat
<1>1. /\ \A S : Num(mode', S) = Num(mode, S) - (IF mode[t] \in S THEN 1 ELSE 0)
                                             + (IF m \in S THEN 1 ELSE 0)
      /\ \A S : Num(pc', S) = Num(pc, S) - (IF pc[t] \in S THEN 1 ELSE 0)
                                         + (IF p \in S THEN 1 ELSE 0)
  BY Move, Zenon
<1>2. /\ n'.r = Num(mode', {"r"}) /\ n'.w = Num(mode', {"w"})
      /\ n'.R = Num(mode', {"R"}) /\ n'.W = Num(mode', {"W"})
  BY <1>1 DEF CountersAgree
<1>3. n'.X = Num(mode', {"X", "parked"})
  BY <1>1 DEF CountersAgree
<1>4. n'.U = Num(pc', {"wait_U"})
  BY <1>1 DEF CountersAgree
<1>5. numPendingGlobalWrites' = Num(pc', {"wait_W", "try_W", "late_W", "wait_U"})
  <2>1. Global \cup {"wait_U"} = {"wait_W", "try_W", "late_W", "wait_U"}
    BY Zenon DEF Global
  <2> QED
    BY <1>1, <2>1, Zenon DEF CountersAgree
<1> QED
  BY <1>2, <1>3, <1>4, <1>5, NumNat DEF CountersAgree

-----------------------------------------------------------------------------
(* The kinds of step.  Each keeps Inv and is a step of the table or leaves *)
(* the modes alone.                                                        *)

\* A thread that holds nothing moves to p and goes on holding nothing.
Idles(t, p) ==
    /\ pc[t] \in Out /\ p \in Out /\ Goto(t, p)
    /\ numPendingGlobalWrites' = numPendingGlobalWrites
            - (IF pc[t] \in Global THEN 1 ELSE 0) + (IF p \in Global THEN 1 ELSE 0)
    /\ UNCHANGED <<n, generationX, generationXExit, myGeneration>>
    /\ asleep' \subseteq Thread /\ aborted' = FALSE /\ calls' \in 0..MaxCalls

LEMMA IdleStep ==
    ASSUME Inv, NEW t \in Thread, NEW p, Idles(t, p)
    PROVE  Inv' /\ mode' = mode
<1> USE DEF Idles
<1> USE DEF Inv
<1>1. mode \in [Thread -> Table!Mode] /\ pc \in [Thread -> {"none"} \cup Held \cup Waiting]
  BY ModeType, Zenon DEF TypeOK
<1>2. mode[t] = "none" /\ ModeOf(p, myGeneration'[t], generationXExit) = "none"
  BY Zenon DEF mode, ModeOf, Out
<1>3. mode' = mode
  BY <1>1, <1>2, Move
<1>4. CountersAgree' /\ numPendingGlobalWrites' \in Nat
  <2>1. pc[t] # "wait_U" /\ p # "wait_U"
    BY Zenon DEF Out
  <2> QED
    BY <1>2, <2>1, CountStep DEF TypeOK
<1>5. MutualExclusion'
  BY <1>3, Zenon DEF MutualExclusion
<1>6. GenerationsAgree' /\ OneUpgrader'
  BY <1>1, Zenon DEF GenerationsAgree, OneUpgrader, Out, Goto
<1>7. TypeOK'
  BY <1>4, Zenon DEF TypeOK, Out, Waiting, Goto
<1> QED
  BY <1>3, <1>4, <1>5, <1>6, <1>7, Zenon DEF NeverAborts

\* A thread is granted r, w, R or W.
Grants(t, m) ==
    /\ pc[t] \in Out /\ m \in {"r", "w", "R", "W"} /\ Goto(t, m)
    /\ n' = [n EXCEPT ![m] = @ + 1]
    /\ numPendingGlobalWrites' = numPendingGlobalWrites - (IF pc[t] \in Global THEN 1 ELSE 0)
    /\ \/ m = "r" /\ r_legal_ignore_greed(n)
       \/ m = "w" /\ w_legal_ignore_greed(n)
       \/ m = "R" /\ R_legal_ignore_greed(n)
       \/ m = "W" /\ W_legal(n)
    /\ UNCHANGED <<generationX, generationXExit, myGeneration>>
    /\ asleep' \subseteq Thread /\ aborted' = FALSE /\ calls' \in 0..MaxCalls

LEMMA GrantStep ==
    ASSUME Inv, NEW t \in Thread, NEW m, Grants(t, m)
    PROVE  Inv' /\ Table!Next
<1> USE DEF Grants
<1> USE DEF Inv
<1>1. mode \in [Thread -> Table!Mode] /\ pc \in [Thread -> {"none"} \cup Held \cup Waiting]
  BY ModeType, Zenon DEF TypeOK
<1>2. mode[t] = "none" /\ ModeOf(m, myGeneration'[t], generationXExit) = m
  BY Zenon DEF mode, ModeOf, Out
<1>3. mode' = [mode EXCEPT ![t] = m]
  BY Move, <1>2, Zenon
<1>4. Table!Acquire(t, m)
  <2>1. CASE m = "r"
    <3>1. n.W = 0 /\ n.X = 0
      BY <2>1 DEF r_legal_ignore_greed, TypeOK
    <3>2. \A u \in Thread : mode[u] \in {"none", "r", "w", "R"}
      BY <3>1, <1>1, ZeroModes, Zenon DEF Table!Mode
    <3> QED
      BY <2>1, <3>2, <1>2, <1>3, Zenon DEF Table!Acquire, Table!Others, Table!Allows
  <2>2. CASE m = "w"
    <3>1. n.R = 0 /\ n.W = 0 /\ n.X = 0
      BY <2>2 DEF w_legal_ignore_greed, TypeOK
    <3>2. \A u \in Thread : mode[u] \in {"none", "r", "w"}
      BY <3>1, <1>1, ZeroModes, Zenon DEF Table!Mode
    <3> QED
      BY <2>2, <3>2, <1>2, <1>3, Zenon DEF Table!Acquire, Table!Others, Table!Allows
  <2>3. CASE m = "R"
    <3>1. n.w = 0 /\ n.W = 0 /\ n.X = 0
      BY <2>3 DEF R_legal_ignore_greed, TypeOK
    <3>2. \A u \in Thread : mode[u] \in {"none", "r", "R"}
      BY <3>1, <1>1, ZeroModes, Zenon DEF Table!Mode
    <3> QED
      BY <2>3, <3>2, <1>2, <1>3, Zenon DEF Table!Acquire, Table!Others, Table!Allows
  <2>4. CASE m = "W"
    <3>1. n.r = 0 /\ n.w = 0 /\ n.R = 0 /\ n.W = 0 /\ n.X = 0
      BY <2>4 DEF W_legal, TypeOK
    <3>2. \A u \in Thread : mode[u] = "none"
      BY <3>1, <1>1, ZeroModes, Zenon DEF Table!Mode
    <3> QED
      BY <2>4, <3>2, <1>2, <1>3, Zenon DEF Table!Acquire, Table!Others, Table!Allows
  <2> QED  BY <2>1, <2>2, <2>3, <2>4, Zenon
<1>5. Table!Next
  BY <1>4, Zenon DEF Table!Next
<1>6. MutualExclusion'
  BY <1>1, <1>5, TableStep, Zenon
<1>7. CountersAgree' /\ numPendingGlobalWrites' \in Nat
  <2>1. /\ n'.r = n.r + (IF m = "r" THEN 1 ELSE 0)
        /\ n'.w = n.w + (IF m = "w" THEN 1 ELSE 0)
        /\ n'.R = n.R + (IF m = "R" THEN 1 ELSE 0)
        /\ n'.W = n.W + (IF m = "W" THEN 1 ELSE 0)
        /\ n'.X = n.X /\ n'.U = n.U
    BY DEF TypeOK
  <2>2. /\ pc[t] # "wait_U" /\ m # "wait_U"
        /\ m \notin Global \cup {"wait_U"} /\ m \notin {"X", "parked"}
    BY Zenon DEF Out, Global
  <2> HIDE DEF Inv
  <2> QED
    BY <1>2, <2>1, <2>2, CountStep DEF TypeOK, Inv
<1>8. GenerationsAgree' /\ OneUpgrader'
  BY <1>1, Zenon DEF GenerationsAgree, OneUpgrader, Out, Goto
<1>9. TypeOK'
  <2>1. n' \in [{"r", "w", "R", "W", "U", "X"} -> Nat]
    BY DEF TypeOK
  <2>2. pc' \in [Thread -> {"none"} \cup Held \cup Waiting]
    BY <1>1, Zenon DEF Goto, Held
  <2> QED
    BY <1>7, <2>1, <2>2, Zenon DEF TypeOK
<1> QED
  BY <1>5, <1>6, <1>7, <1>8, <1>9, Zenon DEF NeverAborts

\* A thread releases the mode m it holds.
Releases(t, m) ==
    /\ m \in {"r", "w", "R", "W"} /\ (pc[t] = m \/ (m = "R" /\ pc[t] = "Rd"))
    /\ Goto(t, "none")
    /\ n' = [n EXCEPT ![m] = @ - 1]
    /\ UNCHANGED <<numPendingGlobalWrites, generationX, generationXExit, myGeneration>>
    /\ asleep' \subseteq Thread /\ aborted' = FALSE /\ calls' \in 0..MaxCalls

LEMMA ReleaseStep ==
    ASSUME Inv, NEW t \in Thread, NEW m, Releases(t, m)
    PROVE  Inv' /\ Table!Next
<1> USE DEF Releases
<1> USE DEF Inv
<1>1. mode \in [Thread -> Table!Mode] /\ pc \in [Thread -> {"none"} \cup Held \cup Waiting]
  BY ModeType, Zenon DEF TypeOK
<1>2. mode[t] = m /\ ModeOf("none", myGeneration'[t], generationXExit) = "none"
  BY Zenon DEF mode, ModeOf
<1>3. mode' = [mode EXCEPT ![t] = "none"]
  BY Move, <1>2, Zenon
<1>4. Table!Next
  BY <1>2, <1>3, Zenon DEF Table!Next, Table!Release
<1>5. MutualExclusion'
  BY <1>1, <1>4, TableStep, Zenon
<1>6. /\ CountersAgree' /\ numPendingGlobalWrites' \in Nat
      /\ n'.r \in Nat /\ n'.w \in Nat /\ n'.R \in Nat
      /\ n'.W \in Nat /\ n'.X \in Nat /\ n'.U \in Nat
  <2>1. /\ n'.r = n.r - (IF m = "r" THEN 1 ELSE 0)
        /\ n'.w = n.w - (IF m = "w" THEN 1 ELSE 0)
        /\ n'.R = n.R - (IF m = "R" THEN 1 ELSE 0)
        /\ n'.W = n.W - (IF m = "W" THEN 1 ELSE 0)
        /\ n'.X = n.X /\ n'.U = n.U
    BY DEF TypeOK
  <2>2. /\ pc[t] \notin Global \cup {"wait_U"}
        /\ "none" \notin Global \cup {"wait_U"} /\ m \notin {"X", "parked"}
    BY Zenon DEF Global
  <2>3. n.r \in Nat /\ n.w \in Nat /\ n.R \in Nat /\ n.W \in Nat /\ n.X \in Nat /\ n.U \in Nat
        /\ numPendingGlobalWrites \in Nat
    BY Zenon DEF TypeOK
  <2> HIDE DEF Inv
  <2> QED
    BY <1>2, <2>1, <2>2, <2>3, CountStep DEF Inv
<1>7. GenerationsAgree' /\ OneUpgrader'
  BY <1>1, Zenon DEF GenerationsAgree, OneUpgrader, Goto
<1>8. TypeOK'
  <2>1. n' \in [{"r", "w", "R", "W", "U", "X"} -> Nat]
    BY <1>6, Zenon DEF TypeOK
  <2>2. pc' \in [Thread -> {"none"} \cup Held \cup Waiting]
    BY <1>1, Zenon DEF Goto
  <2> QED
    BY <1>6, <2>1, <2>2, Zenon DEF TypeOK
<1> QED
  BY <1>4, <1>5, <1>6, <1>7, <1>8, Zenon DEF NeverAborts

-----------------------------------------------------------------------------
(* The actions.                                                            *)

\* The owner of W or X is alone with the threads the table lets it be with.
LEMMA Alone ==
    ASSUME Inv, NEW t \in Thread
    PROVE  /\ mode[t] = "W" => /\ \A u \in Thread \ {t} : mode[u] = "none"
                               /\ n.W = 1 /\ n.r = 0 /\ n.w = 0 /\ n.R = 0 /\ n.X = 0 /\ n.U = 0
           /\ mode[t] = "X" => /\ \A u \in Thread \ {t} : mode[u] \in {"none", "parked"}
                               /\ n.X > 0 /\ n.r = 0 /\ n.w = 0 /\ n.R = 0 /\ n.W = 0 /\ n.U = 0
           /\ mode[t] \in {"R", "w"} => n.W = 0
           /\ mode[t] = "w" => n.w > 0 /\ n.R = 0
           /\ mode[t] = "R" => n.R > 0 /\ n.w = 0 /\ n.X = 0
           /\ mode[t] = "r" => n.r > 0 /\ n.W = 0
           /\ \A u \in Thread : pc[u] = "wait_U" => mode[u] = "R"
<1> USE DEF Inv
<1>1. mode \in [Thread -> Table!Mode]
  BY ModeType, Zenon
<1>2. \A u \in Thread : pc[u] = "wait_U" => mode[u] = "R"
  BY Zenon DEF mode, ModeOf
<1>3. n.r \in Nat /\ n.w \in Nat /\ n.R \in Nat /\ n.W \in Nat /\ n.X \in Nat /\ n.U \in Nat
  BY Zenon DEF TypeOK
<1>4. ASSUME mode[t] = "W"
      PROVE  /\ \A u \in Thread \ {t} : mode[u] = "none"
             /\ n.W = 1 /\ n.r = 0 /\ n.w = 0 /\ n.R = 0 /\ n.X = 0 /\ n.U = 0
  <2>1. \A u \in Thread \ {t} : mode[u] = "none"
    BY <1>4, Zenon DEF MutualExclusion, Coexist
  <2>2. n.W = 1
    BY <1>4, <2>1, NumOne DEF CountersAgree
  <2> QED
    BY <1>2, <1>4, <2>1, <2>2, ZeroModes, Zenon
<1>5. ASSUME mode[t] = "X"
      PROVE  /\ \A u \in Thread \ {t} : mode[u] \in {"none", "parked"}
             /\ n.X > 0 /\ n.r = 0 /\ n.w = 0 /\ n.R = 0 /\ n.W = 0 /\ n.U = 0
  <2>1. \A u \in Thread \ {t} : mode[u] \in {"none", "parked"}
    BY <1>5, Zenon DEF MutualExclusion, Coexist
  <2> QED
    BY <1>2, <1>3, <1>5, <2>1, ZeroModes
<1>6. mode[t] = "w" => n.w > 0 /\ n.R = 0 /\ n.W = 0
  BY <1>3, ZeroModes DEF MutualExclusion, Coexist
<1>7. mode[t] = "R" => n.R > 0 /\ n.w = 0 /\ n.X = 0 /\ n.W = 0
  BY <1>3, ZeroModes DEF MutualExclusion, Coexist
<1>8. mode[t] = "r" => n.r > 0 /\ n.W = 0
  BY <1>3, ZeroModes DEF MutualExclusion, Coexist
<1> QED
  BY <1>2, <1>4, <1>5, <1>6, <1>7, <1>8, Zenon

LEMMA W_to_RStep ==
    ASSUME Inv, NEW t \in Thread, W_to_R(t)
    PROVE  Inv' /\ Table!Next
<1> USE DEF Inv
<1>1. mode \in [Thread -> Table!Mode] /\ pc \in [Thread -> {"none"} \cup Held \cup Waiting]
  BY ModeType, Zenon DEF TypeOK
<1>2. /\ pc[t] = "W" /\ Goto(t, "Rd") /\ calls' \in 0..MaxCalls
      /\ UNCHANGED <<numPendingGlobalWrites, generationX, generationXExit, myGeneration>>
  BY MaxCallsAssumption DEF W_to_R, Call, TypeOK
<1>3. mode[t] = "W" /\ ModeOf("Rd", myGeneration'[t], generationXExit) = "R"
  BY <1>2, Zenon DEF mode, ModeOf
<1>4. n.W = 1 /\ n.R = 0 /\ n.U = 0 /\ \A u \in Thread \ {t} : mode[u] = "none"
  BY <1>3, Alone, Zenon
<1>5. /\ n' = [n EXCEPT !["W"] = 0, !["R"] = 1] /\ aborted' = FALSE
      /\ asleep' \subseteq Thread
  <2>1. n'.W = 0
    BY Zenon DEF W_to_R, Leave, TypeOK
  <2> QED
    BY <1>4, <2>1, Zenon DEF W_to_R, Leave, TypeOK
<1>6. mode' = [mode EXCEPT ![t] = "R"]
  BY Move, <1>2, <1>3, Zenon
<1>7. Table!Next
  BY <1>3, <1>6, Zenon DEF Table!Next, Table!Downgrade
<1>8. MutualExclusion'
  BY <1>1, <1>7, TableStep, Zenon
<1>9. CountersAgree' /\ numPendingGlobalWrites' \in Nat
  <2>1. /\ n'.r = n.r /\ n'.w = n.w /\ n'.X = n.X /\ n'.U = n.U
        /\ n'.R = n.R + 1 /\ n'.W = n.W - 1
    BY <1>4, <1>5 DEF TypeOK
  <2> HIDE DEF Inv
  <2> QED
    BY <1>2, <1>3, <2>1, CountStep DEF TypeOK, Inv, Global
<1>10. GenerationsAgree' /\ OneUpgrader'
  <2>1. \A u \in Thread \ {t} : pc[u] \notin {"Rd", "wait_U"}
    BY <1>4, Zenon DEF mode, ModeOf
  <2> QED
    BY <1>1, <1>2, <2>1, Zenon DEF GenerationsAgree, OneUpgrader, Goto
<1>11. TypeOK'
  BY <1>1, <1>2, <1>5, <1>9, Zenon DEF TypeOK, Goto, Held
<1> QED
  BY <1>5, <1>7, <1>8, <1>9, <1>10, <1>11, Zenon DEF NeverAborts

LEMMA R_to_WStep ==
    ASSUME Inv, NEW t \in Thread, R_to_W(t)
    PROVE  Inv' /\ (Table!Next \/ mode' = mode)
<1> USE DEF Inv
<1>1. mode \in [Thread -> Table!Mode] /\ pc \in [Thread -> {"none"} \cup Held \cup Waiting]
  BY ModeType DEF TypeOK
<1>2. /\ pc[t] \in {"Rd", "wait_U"} /\ calls' \in 0..MaxCalls
      /\ UNCHANGED <<generationX, generationXExit, myGeneration>>
  BY MaxCallsAssumption DEF R_to_W, Call, Wake, TypeOK
<1>3. mode[t] = "R"
  BY <1>2, Zenon DEF mode, ModeOf
<1>4. /\ n.R > 0 /\ n.W = 0 /\ n.w = 0 /\ n.X = 0
      /\ n.r \in Nat /\ n.w \in Nat /\ n.R \in Nat /\ n.W \in Nat /\ n.X \in Nat
  BY <1>3, Alone, Zenon DEF TypeOK
<1>5. n.U = IF pc[t] = "wait_U" THEN 1 ELSE 0
  <2>1. CASE pc[t] = "wait_U"
    <3>1. \A u \in Thread \ {t} : pc[u] \notin {"wait_U"}
      BY <2>1, Zenon DEF OneUpgrader
    <3> QED
      BY <2>1, <3>1, NumOne, Zenon DEF CountersAgree
  <2>2. CASE pc[t] = "Rd"
    <3>1. \A u \in Thread : pc[u] # "wait_U"
      BY <2>2, Zenon DEF OneUpgrader
    <3> QED
      BY <2>2, <3>1, ZeroModes, Zenon
  <2> QED
    BY <1>2, <2>1, <2>2, Zenon
<1>6. CASE n.W + n.R + n.w + n.r > 1
  <2>1. /\ n' = [n EXCEPT !["U"] = 1] /\ Goto(t, "wait_U")
        /\ numPendingGlobalWrites' = numPendingGlobalWrites + (IF pc[t] = "Rd" THEN 1 ELSE 0)
        /\ asleep' = asleep \cup {t} /\ aborted' = FALSE
    BY <1>2, <1>4, <1>5, <1>6, Zenon DEF R_to_W, Pend
  <2>2. ModeOf("wait_U", myGeneration'[t], generationXExit) = "R"
    BY Zenon DEF ModeOf
  <2>3. mode' = mode
    BY Move, <1>1, <1>2, <1>3, <2>1, <2>2
  <2>4. MutualExclusion'
    BY <2>3, Zenon DEF MutualExclusion
  <2>5. CountersAgree' /\ numPendingGlobalWrites' \in Nat
    <3>1. /\ n'.r = n.r /\ n'.w = n.w /\ n'.R = n.R /\ n'.W = n.W /\ n'.X = n.X
          /\ n'.U = n.U - (IF pc[t] = "wait_U" THEN 1 ELSE 0) + 1
      BY <1>5, <2>1 DEF TypeOK
    <3> HIDE DEF Inv
    <3> QED
      BY <1>2, <1>3, <2>1, <2>2, <3>1, CountStep DEF TypeOK, Inv, Global
  <2>6. GenerationsAgree' /\ OneUpgrader'
    BY <1>1, <1>2, <2>1, Zenon DEF GenerationsAgree, OneUpgrader, Goto
  <2>7. TypeOK'
    BY <1>1, <1>2, <2>1, <2>5, Zenon DEF TypeOK, Goto, Waiting
  <2> QED
    BY <2>1, <2>3, <2>4, <2>5, <2>6, <2>7, Zenon DEF NeverAborts
<1>7. CASE ~(n.W + n.R + n.w + n.r > 1)
  <2>1. n.R = 1 /\ n.r = 0
    BY <1>4, <1>7
  <2>2. /\ n' = [n EXCEPT !["R"] = 0, !["W"] = 1, !["U"] = 0] /\ Goto(t, "W")
        /\ numPendingGlobalWrites' = numPendingGlobalWrites - (IF pc[t] = "wait_U" THEN 1 ELSE 0)
        /\ asleep' = asleep /\ aborted' = FALSE
    <3>1. CASE pc[t] = "Rd"
      <4>1. n.U = 0 /\ n.R = 1 /\ n.W = 0 /\ numPendingGlobalWrites \in Nat
        BY <1>4, <1>5, <2>1, <3>1, Zenon DEF TypeOK
      <4>2. /\ n' = [n EXCEPT !["R"] = 0, !["W"] = 1, !["U"] = 0] /\ Goto(t, "W")
            /\ numPendingGlobalWrites' = numPendingGlobalWrites + 0
            /\ asleep' = asleep /\ aborted' = FALSE
        BY <1>7, <3>1, <4>1, Zenon DEF R_to_W, Pend
      <4> QED  BY <3>1, <4>1, <4>2
    <3>2. CASE pc[t] = "wait_U"
      BY <1>4, <1>5, <1>7, <2>1, <3>2, Zenon DEF R_to_W, Pend, TypeOK
    <3> QED  BY <1>2, <3>1, <3>2, Zenon
  <2>3. ModeOf("W", myGeneration'[t], generationXExit) = "W"
    BY Zenon DEF ModeOf
  <2>4. mode' = [mode EXCEPT ![t] = "W"]
    BY Move, <1>2, <2>2, <2>3, Zenon
  <2>5. \A u \in Thread \ {t} : mode[u] = "none"
    <3>1. \A u \in Thread \ {t} : mode[u] \notin {"R"}
      BY <1>3, <2>1, NumOne, Zenon DEF CountersAgree
    <3> QED
      BY <1>1, <1>4, <2>1, <3>1, ZeroModes, Zenon DEF Table!Mode
  <2>6. Table!Next
    BY <1>3, <2>4, <2>5, Zenon DEF Table!Next, Table!Upgrade, Table!Others, Table!Allows
  <2>7. MutualExclusion'
    BY <1>1, <2>6, TableStep
  <2>8. CountersAgree' /\ numPendingGlobalWrites' \in Nat
    <3>1. /\ n'.r = n.r /\ n'.w = n.w /\ n'.R = n.R - 1 /\ n'.W = n.W + 1 /\ n'.X = n.X
          /\ n'.U = n.U - (IF pc[t] = "wait_U" THEN 1 ELSE 0)
      BY <1>4, <1>5, <2>1, <2>2 DEF TypeOK
    <3> HIDE DEF Inv
    <3> QED
      BY <1>2, <1>3, <2>2, <2>3, <3>1, CountStep DEF TypeOK, Inv, Global
  <2>9. GenerationsAgree' /\ OneUpgrader'
    BY <1>1, <1>2, <2>2, Zenon DEF GenerationsAgree, OneUpgrader, Goto
  <2>10. TypeOK'
    BY <1>1, <1>2, <2>2, <2>8, Zenon DEF TypeOK, Goto, Held
  <2> QED
    BY <2>2, <2>6, <2>7, <2>8, <2>9, <2>10, Zenon DEF NeverAborts
<1> QED
  BY <1>6, <1>7, Zenon

LEMMA NatSumZero ==
    ASSUME NEW a \in Nat, NEW b \in Nat, NEW c \in Nat, NEW d \in Nat, a + b + c + d = 0
    PROVE  a = 0 /\ b = 0 /\ c = 0 /\ d = 0
  OBVIOUS

\* A thread enters X: from "w" at once, or from its place among the parked.
Promotes(t) ==
    /\ mode[t] \in {"w", "parked"} /\ pc[t] \in {"w", "wait_X"}
    /\ generationX = generationXExit
    /\ X_legal(n') /\ n' \in [{"r", "w", "R", "W", "U", "X"} -> Int]
    /\ n'.r = n.r /\ n'.R = n.R /\ n'.W = n.W /\ n'.U = n.U
    /\ n'.X = n.X + (IF mode[t] = "w" THEN 1 ELSE 0)
    /\ n'.w = n.w - (IF mode[t] = "w" THEN 1 ELSE 0)
    /\ generationX' = generationX + 1 /\ Goto(t, "X")
    /\ myGeneration' = [myGeneration EXCEPT ![t] = 0]
    /\ UNCHANGED <<numPendingGlobalWrites, generationXExit>>
    /\ asleep' \subseteq Thread /\ aborted' = FALSE /\ calls' \in 0..MaxCalls

LEMMA PromoteStep ==
    ASSUME Inv, NEW t \in Thread, Promotes(t)
    PROVE  Inv' /\ Table!Next
<1>1. mode \in [Thread -> Table!Mode] /\ pc \in [Thread -> {"none"} \cup Held \cup Waiting]
  BY ModeType, Zenon DEF Inv, TypeOK
<1>2. /\ n.r \in Nat /\ n.w \in Nat /\ n.R \in Nat /\ n.W \in Nat /\ n.X \in Nat /\ n.U \in Nat
      /\ numPendingGlobalWrites \in Nat
  BY Zenon DEF Inv, TypeOK
<1>3. /\ generationX \in Nat /\ generationXExit \in Nat
      /\ generationX = generationXExit /\ generationX' = generationX + 1
      /\ generationXExit' = generationXExit /\ Goto(t, "X")
      /\ myGeneration' \in [Thread -> Nat]
      /\ \A u \in Thread \ {t} : myGeneration'[u] = myGeneration[u]
  BY Zenon DEF Inv, TypeOK, Promotes
<1>4. n'.w + n.r + n.R + n.W = 0 /\ n'.w \in Int
  BY Zenon DEF Promotes, X_legal
<1>5. n.r = 0 /\ n.R = 0 /\ n.W = 0 /\ n'.w = 0 /\ \A u \in Thread \ {t} : mode[u] # "w"
  <2>1. CASE mode[t] = "w"
    <3>1. n.w > 0
      BY <2>1, Alone, Zenon
    <3>2. n'.w = n.w - 1
      BY <2>1, Zenon DEF Promotes
    <3>3. n.r = 0 /\ n.R = 0 /\ n.W = 0 /\ n'.w = 0 /\ n.w = 1
      <4>1. n'.w \in Nat
        BY <1>2, <3>1, <3>2
      <4>2. n'.w = 0 /\ n.r = 0 /\ n.R = 0 /\ n.W = 0
        BY <1>2, <1>4, <4>1, NatSumZero, Zenon
      <4> QED  BY <1>2, <3>2, <4>2
    <3>4. \A u \in Thread \ {t} : mode[u] \notin {"w"}
      BY <2>1, <3>3, NumOne, Zenon DEF Inv, CountersAgree
    <3> QED  BY <3>3, <3>4, Zenon
  <2>2. CASE mode[t] # "w"
    <3>1. n'.w = n.w
      BY <1>2, <2>2 DEF Promotes
    <3>2. n'.w \in Nat
      BY <1>2, <3>1, Zenon
    <3>3. n.r = 0 /\ n.R = 0 /\ n.W = 0 /\ n'.w = 0
      BY <1>2, <1>4, <3>2, NatSumZero, Zenon
    <3> QED  BY <3>1, <3>3, ZeroModes, Zenon DEF Inv
  <2> QED  BY <2>1, <2>2, Zenon
<1>6. \A u \in Thread : mode[u] # "X" /\ pc[u] # "X"
  <2>1. \A u \in Thread : pc[u] # "X"
    BY <1>3 DEF Inv, GenerationsAgree
  <2> QED
    BY <1>1, <2>1, Zenon DEF mode, ModeOf
<1>7. \A u \in Thread \ {t} : mode[u] \in {"none", "parked"}
  BY <1>1, <1>5, <1>6, ZeroModes, Zenon DEF Table!Mode, Inv
<1>8. ModeOf("X", myGeneration'[t], generationXExit) = "X"
  BY Zenon DEF ModeOf
<1>9. mode' = [mode EXCEPT ![t] = "X"]
  BY Move, <1>3, <1>8, Zenon DEF Inv
<1>10. Table!Next
  <2>1. mode[t] \in {"w", "parked"}
    BY Zenon DEF Promotes
  <2> QED
    BY <1>7, <1>9, <2>1, Zenon DEF Table!Next, Table!Promote, Table!Others, Table!Allows
<1>11. MutualExclusion'
  BY <1>1, <1>10, TableStep, Zenon DEF Inv
<1>12. CountersAgree' /\ n'.X \in Nat
  <2>1. /\ n'.r = n.r /\ n'.R = n.R /\ n'.W = n.W /\ n'.U = n.U
        /\ n'.X = n.X - (IF mode[t] = "parked" THEN 1 ELSE 0) + 1
        /\ n'.w = n.w - (IF mode[t] = "w" THEN 1 ELSE 0)
    BY <1>2 DEF Promotes
  <2>2. /\ pc[t] \notin Global \cup {"wait_U"} /\ "X" \notin Global \cup {"wait_U"}
        /\ numPendingGlobalWrites' = numPendingGlobalWrites
    BY Zenon DEF Global, Promotes
  <2>3. mode[t] \in {"w", "parked"}
    BY DEF Promotes
  <2> QED
    BY <1>2, <1>3, <1>8, <2>1, <2>2, <2>3, CountStep DEF Inv
<1>13. GenerationsAgree' /\ OneUpgrader'
  <2>1. \A u \in Thread : pc'[u] = IF u = t THEN "X" ELSE pc[u]
    BY <1>1, <1>3, Zenon DEF Goto
  <2> QED
    BY <1>3, <2>1, Zenon DEF Inv, GenerationsAgree, OneUpgrader
<1>14. TypeOK'
  <2>1. n' \in [{"r", "w", "R", "W", "U", "X"} -> Nat]
    <3>1. n'.r \in Nat /\ n'.R \in Nat /\ n'.W \in Nat /\ n'.U \in Nat /\ n'.w \in Nat
      BY <1>2, <1>5, Zenon DEF Promotes
    <3> QED
      BY <1>12, <3>1, Zenon DEF Promotes
  <2>2. pc' \in [Thread -> {"none"} \cup Held \cup Waiting]
    BY <1>1, <1>3, Zenon DEF Goto, Held
  <2>3. generationX' \in Nat /\ generationXExit' \in Nat
    BY <1>3
  <2>4. /\ aborted' \in BOOLEAN
        /\ numPendingGlobalWrites' \in Nat /\ asleep' \subseteq Thread /\ calls' \in 0..MaxCalls
        /\ myGeneration' \in [Thread -> Nat]
    BY <1>2, <1>3, Zenon DEF Promotes
  <2> QED
    BY <2>1, <2>2, <2>3, <2>4, Zenon DEF TypeOK
<1> QED
  BY <1>10, <1>11, <1>12, <1>13, <1>14, Zenon DEF Inv, NeverAborts, Promotes

\* Nobody owns X while some thread is in "w", so the generations are equal.
LEMMA NoXWithw ==
    ASSUME Inv, NEW t \in Thread, mode[t] = "w"
    PROVE  generationX = generationXExit
<1>1. \A u \in Thread : pc[u] # "X"
  <2>1. \A u \in Thread : pc[u] = "X" => mode[u] = "X"
    BY Zenon DEF mode, ModeOf
  <2>2. n.w > 0
    BY Alone, Zenon
  <2> QED
    BY <2>1, <2>2, Alone, Zenon
<1> QED
  BY <1>1, Zenon DEF Inv, GenerationsAgree

\* w_to_X() called from "w".
LEMMA w_to_XCall ==
    ASSUME Inv, NEW t \in Thread, Call(t, "w_to_X", "w"),
           ToX(t, [n EXCEPT !["X"] = @ + 1, !["w"] = @ - 1], generationX, n.w > 0),
           UNCHANGED <<numPendingGlobalWrites, generationXExit>>
    PROVE  Inv' /\ Table!Next
<1> DEFINE c == [n EXCEPT !["X"] = n.X + 1, !["w"] = n.w - 1]
<1>1. mode \in [Thread -> Table!Mode] /\ pc \in [Thread -> {"none"} \cup Held \cup Waiting]
  BY ModeType, Zenon DEF Inv, TypeOK
<1>2. /\ n.r \in Nat /\ n.w \in Nat /\ n.R \in Nat /\ n.W \in Nat /\ n.X \in Nat /\ n.U \in Nat
      /\ numPendingGlobalWrites \in Nat
  BY Zenon DEF Inv, TypeOK
<1>3. pc[t] = "w" /\ mode[t] = "w" /\ calls' \in 0..MaxCalls
  BY MaxCallsAssumption DEF Call, mode, ModeOf, Inv, TypeOK
<1>4. n.w > 0 /\ n.W = 0 /\ generationX = generationXExit
  BY <1>3, Alone, NoXWithw, Zenon
<1>5. /\ c \in [{"r", "w", "R", "W", "U", "X"} -> Int]
      /\ c.r = n.r /\ c.R = n.R /\ c.W = n.W /\ c.U = n.U
      /\ c.X = n.X + 1 /\ c.w = n.w - 1
  BY DEF Inv, TypeOK
<1>6. ToX(t, c, generationX, n.w > 0)
  BY Zenon
<1> HIDE DEF c
<1>7. CASE X_legal(c)
  <2>1. /\ generationX' = generationX + 1 /\ Leave("w", c, n.w > 0 /\ c.w = 0)
        /\ Goto(t, "X") /\ myGeneration' = [myGeneration EXCEPT ![t] = 0]
    BY <1>6, <1>7, Zenon DEF ToX
  <2>2. c.w = 0 /\ c.W = 0
    <3>1. c.w \in Nat
      BY <1>2, <1>4, <1>5
    <3>2. c.w + c.r + c.R + c.W = 0
      BY <1>7, Zenon DEF X_legal
    <3>3. c.r \in Nat /\ c.R \in Nat /\ c.W \in Nat
      BY <1>2, <1>5, Zenon
    <3> QED
      BY <3>1, <3>2, <3>3, NatSumZero, Zenon
  <2>3. n' = c /\ aborted' = FALSE /\ asleep' \subseteq Thread
    BY <1>4, <2>1, <2>2, Zenon DEF Leave, Inv, TypeOK
  <2>4. Promotes(t)
    BY <1>2, <1>3, <1>4, <1>5, <1>7, <2>1, <2>3, Zenon DEF Promotes
  <2> QED
    BY <2>4, PromoteStep, Zenon
<1>8. CASE ~X_legal(c)
  <2>1. /\ generationX' = generationX /\ n' = c /\ aborted' = FALSE
        /\ asleep' = asleep \cup {t} /\ Goto(t, "wait_X")
        /\ myGeneration' = [myGeneration EXCEPT ![t] = generationX]
    BY <1>4, <1>6, <1>8, Zenon DEF ToX
  <2>2. /\ generationX \in Nat /\ generationXExit \in Nat /\ generationXExit' = generationXExit
        /\ myGeneration' \in [Thread -> Nat] /\ myGeneration'[t] = generationX
        /\ \A u \in Thread \ {t} : myGeneration'[u] = myGeneration[u]
    BY <2>1, Zenon DEF Inv, TypeOK
  <2>3. ModeOf("wait_X", myGeneration'[t], generationXExit) = "parked"
    BY <1>4, <2>2, Zenon DEF ModeOf
  <2>4. mode' = [mode EXCEPT ![t] = "parked"]
    BY Move, <2>1, <2>2, <2>3, Zenon DEF Inv
  <2>5. Table!Next
    BY <1>3, <2>4, Zenon DEF Table!Next, Table!Park
  <2>6. MutualExclusion'
    BY <1>1, <2>5, TableStep, Zenon DEF Inv
  <2>7. /\ n'.r = n.r /\ n'.R = n.R /\ n'.W = n.W /\ n'.U = n.U
        /\ n'.X = n.X + 1 /\ n'.w = n.w - 1
        /\ n' \in [{"r", "w", "R", "W", "U", "X"} -> Int]
    BY <1>5, <2>1, Zenon
  <2>8. CountersAgree'
    <3>1. /\ pc[t] \notin Global \cup {"wait_U"} /\ "wait_X" \notin Global \cup {"wait_U"}
          /\ numPendingGlobalWrites' = numPendingGlobalWrites
      BY <1>3, Zenon DEF Global
    <3> QED
      BY <1>2, <1>3, <2>1, <2>2, <2>3, <2>7, <3>1, CountStep DEF Inv
  <2>9. GenerationsAgree' /\ OneUpgrader'
    <3>1. \A u \in Thread : pc'[u] = IF u = t THEN "wait_X" ELSE pc[u]
      BY <1>1, <2>1, Zenon DEF Goto
    <3> QED
      BY <1>3, <1>4, <2>1, <2>2, <3>1 DEF Inv, GenerationsAgree, OneUpgrader
  <2>10. TypeOK'
    <3>1. n' \in [{"r", "w", "R", "W", "U", "X"} -> Nat]
      <4>1. n'.w \in Nat /\ n'.X \in Nat
        BY <1>2, <1>4, <2>7
      <4> QED
        BY <1>2, <2>7, <4>1, Zenon
    <3>2. pc' \in [Thread -> {"none"} \cup Held \cup Waiting]
      BY <1>1, <2>1, Zenon DEF Goto, Waiting
    <3>3. /\ generationX' \in Nat /\ generationXExit' \in Nat /\ aborted' \in BOOLEAN
          /\ numPendingGlobalWrites' \in Nat /\ asleep' \subseteq Thread
      BY <1>2, <2>1, <2>2, Zenon DEF Inv, TypeOK
    <3> QED
      BY <1>3, <2>2, <3>1, <3>2, <3>3, Zenon DEF TypeOK
  <2> QED
    BY <2>1, <2>5, <2>6, <2>8, <2>9, <2>10, Zenon DEF Inv, NeverAborts
<1> QED
  BY <1>7, <1>8, Zenon

\* w_to_X() woken in one of its loops.
LEMMA w_to_XWake ==
    ASSUME Inv, NEW t \in Thread, Wake(t, {"wait_X"}),
           ToX(t, n, myGeneration[t], TRUE),
           UNCHANGED <<numPendingGlobalWrites, generationXExit>>
    PROVE  Inv' /\ (Table!Next \/ mode' = mode)
<1> DEFINE g == myGeneration[t]
<1>1. mode \in [Thread -> Table!Mode] /\ pc \in [Thread -> {"none"} \cup Held \cup Waiting]
  BY ModeType, Zenon DEF Inv, TypeOK
<1>2. /\ n.r \in Nat /\ n.w \in Nat /\ n.R \in Nat /\ n.W \in Nat /\ n.X \in Nat /\ n.U \in Nat
      /\ n \in [{"r", "w", "R", "W", "U", "X"} -> Nat]
      /\ numPendingGlobalWrites \in Nat
  BY Zenon DEF Inv, TypeOK
<1>3. /\ generationX \in Nat /\ generationXExit \in Nat /\ generationXExit' = generationXExit
      /\ g \in Nat /\ myGeneration \in [Thread -> Nat]
  BY Zenon DEF Inv, TypeOK
<1>4. pc[t] = "wait_X" /\ calls' \in 0..MaxCalls
  BY Zenon DEF Wake, Inv, TypeOK
<1>5. g <= generationXExit /\ (generationX = generationXExit \/ generationX = generationXExit + 1)
  BY <1>4, Zenon DEF Inv, GenerationsAgree
<1>6. mode[t] = IF g = generationXExit THEN "parked" ELSE "w"
  BY <1>4, Zenon DEF mode, ModeOf
<1>7. ToX(t, n, g, TRUE)
  BY Zenon
<1> HIDE DEF g
<1>8. CASE g = generationX /\ X_legal(n)
  <2>1. generationX = generationXExit /\ mode[t] = "parked"
    BY <1>3, <1>5, <1>6, <1>8
  <2>2. /\ generationX' = generationX + 1 /\ Leave("w", n, TRUE /\ n.w = 0)
        /\ Goto(t, "X") /\ myGeneration' = [myGeneration EXCEPT ![t] = 0]
    BY <1>7, <1>8, Zenon DEF ToX
  <2>3. n.w = 0 /\ n.W = 0
    <3>1. n.w + n.r + n.R + n.W = 0
      BY <1>8, Zenon DEF X_legal
    <3> QED
      BY <1>2, <3>1, NatSumZero, Zenon
  <2>4. n' = n /\ aborted' = FALSE /\ asleep' \subseteq Thread
    BY <2>2, <2>3, Zenon DEF Leave, Inv, TypeOK
  <2>5. Promotes(t)
    BY <1>2, <1>4, <1>8, <2>1, <2>2, <2>4 DEF Promotes
  <2> QED
    BY <2>5, PromoteStep, Zenon
<1>9. CASE g # generationX /\ g # generationXExit
  <2>1. mode[t] = "w"
    BY <1>6, <1>9, Zenon
  <2>2. n.R = 0 /\ n.w > 0 /\ n.W = 0
    BY <2>1, Alone, Zenon
  <2>3. /\ n' = n /\ aborted' = FALSE /\ asleep' = asleep /\ generationX' = generationX
        /\ Goto(t, "w") /\ myGeneration' = [myGeneration EXCEPT ![t] = 0]
    BY <1>7, <1>9, <2>2, Zenon DEF ToX
  <2>4. /\ myGeneration' \in [Thread -> Nat]
        /\ \A u \in Thread \ {t} : myGeneration'[u] = myGeneration[u]
    BY <1>3, <2>3, Zenon
  <2>5. ModeOf("w", myGeneration'[t], generationXExit) = "w"
    BY Zenon DEF ModeOf
  <2>6. mode' = mode
    BY Move, <1>1, <1>3, <2>1, <2>3, <2>4, <2>5 DEF Inv
  <2>7. CountersAgree'
    <3>1. /\ pc[t] \notin Global \cup {"wait_U"} /\ "w" \notin Global \cup {"wait_U"}
          /\ numPendingGlobalWrites' = numPendingGlobalWrites
      BY <1>4, Zenon DEF Global
    <3> QED
      BY <1>2, <1>3, <1>4, <2>1, <2>3, <2>4, <2>5, <3>1, CountStep DEF Inv
  <2>8. MutualExclusion'
    BY <2>6, Zenon DEF Inv, MutualExclusion
  <2>9. \A u \in Thread : pc'[u] = IF u = t THEN "w" ELSE pc[u]
    BY <1>1, <2>3, Zenon DEF Goto
  <2>10. GenerationsAgree' /\ OneUpgrader'
    BY <1>3, <1>4, <2>3, <2>4, <2>9, Zenon DEF Inv, GenerationsAgree, OneUpgrader
  <2>11. TypeOK'
    <3>1. pc' \in [Thread -> {"none"} \cup Held \cup Waiting]
      BY <1>1, <2>3, Zenon DEF Goto, Held
    <3>2. numPendingGlobalWrites' \in Nat /\ asleep' \subseteq Thread /\ aborted' \in BOOLEAN
      BY <2>3, Zenon DEF Inv, TypeOK
    <3> QED
      BY <1>2, <1>3, <1>4, <2>3, <2>4, <3>1, <3>2, Zenon DEF TypeOK
  <2> QED
    BY <2>3, <2>6, <2>7, <2>8, <2>10, <2>11, Zenon DEF Inv, NeverAborts
<1>10. CASE ~(g = generationX /\ X_legal(n)) /\ ~(g # generationX /\ g # generationXExit)
  <2>1. /\ n' = n /\ aborted' = FALSE /\ asleep' = asleep \cup {t} /\ generationX' = generationX
        /\ Goto(t, "wait_X") /\ myGeneration' = [myGeneration EXCEPT ![t] = g]
    BY <1>7, <1>10, Zenon DEF ToX
  <2>2. pc' = pc /\ myGeneration' = myGeneration
    BY <1>1, <1>3, <1>4, <2>1, Zenon DEF Goto, g
  <2>3. mode' = mode
    BY <1>3, <2>2, Zenon DEF mode
  <2>4. CountersAgree' /\ MutualExclusion' /\ GenerationsAgree' /\ OneUpgrader'
    BY <1>3, <2>1, <2>2, <2>3, Zenon
    DEF Inv, CountersAgree, MutualExclusion, GenerationsAgree, OneUpgrader
  <2>5. TypeOK'
    BY <1>3, <1>4, <2>1, <2>2, Zenon DEF Inv, TypeOK
  <2> QED
    BY <2>1, <2>3, <2>4, <2>5, Zenon DEF Inv, NeverAborts
<1> QED
  BY <1>8, <1>9, <1>10, Zenon

LEMMA X_to_wStep ==
    ASSUME Inv, NEW t \in Thread, X_to_w(t)
    PROVE  Inv' /\ Table!Next
<1>1. mode \in [Thread -> Table!Mode] /\ pc \in [Thread -> {"none"} \cup Held \cup Waiting]
  BY ModeType DEF Inv, TypeOK
<1>2. /\ pc[t] = "X" /\ mode[t] = "X" /\ Goto(t, "w")
      /\ generationXExit' = generationXExit + 1
      /\ UNCHANGED <<numPendingGlobalWrites, generationX, myGeneration, calls>>
  BY Zenon DEF X_to_w, mode, ModeOf
<1>3. /\ \A u \in Thread \ {t} : mode[u] \in {"none", "parked"}
      /\ n.X > 0 /\ n.r = 0 /\ n.w = 0 /\ n.R = 0 /\ n.W = 0 /\ n.U = 0
  BY <1>2, Alone, Zenon
<1>4. n' = [n EXCEPT !["w"] = n.X, !["X"] = 0] /\ asleep' \subseteq Thread
  BY Zenon DEF X_to_w, Leave, Inv, TypeOK
<1>5. /\ n'.r = 0 /\ n'.R = 0 /\ n'.W = 0 /\ n'.U = 0 /\ n'.X = 0 /\ n'.w = n.X
      /\ n' \in [{"r", "w", "R", "W", "U", "X"} -> Nat]
  BY <1>3, <1>4, Zenon DEF Inv, TypeOK
<1>6. aborted' = FALSE
  BY <1>3, <1>4, <1>5, Zenon DEF X_to_w, Leave
<1>7. /\ generationX \in Nat /\ generationXExit \in Nat /\ myGeneration \in [Thread -> Nat]
      /\ generationX = generationXExit + 1
      /\ \A u \in Thread : pc[u] = "wait_X" => myGeneration[u] <= generationXExit
  BY <1>2, Zenon DEF Inv, TypeOK, GenerationsAgree
<1>8. \A u \in Thread : pc'[u] = IF u = t THEN "w" ELSE pc[u]
  BY <1>1, <1>2, Zenon DEF Goto
<1>9. \A u \in Thread : mode'[u] = IF mode[u] \in {"X", "parked"} THEN "w" ELSE mode[u]
  <2> SUFFICES ASSUME NEW u \in Thread
               PROVE  mode'[u] = IF mode[u] \in {"X", "parked"} THEN "w" ELSE mode[u]
    BY Zenon
  <2>1. CASE u = t
    <3>1. ModeOf("w", myGeneration'[u], generationXExit') = "w"
      BY Zenon DEF ModeOf
    <3>2. pc'[u] = "w"
      BY <1>8, <2>1, Zenon
    <3> QED  BY <1>2, <2>1, <3>1, <3>2, Zenon DEF mode
  <2>2. CASE u # t
    <3>1. mode'[u] = ModeOf(pc[u], myGeneration[u], generationXExit + 1)
      BY <1>2, <1>8, <2>2, Zenon DEF mode
    <3>2. /\ mode[u] = ModeOf(pc[u], myGeneration[u], generationXExit)
          /\ mode[u] \in {"none", "parked"}
      BY <1>3, <2>2, Zenon DEF mode
    <3>3. CASE pc[u] = "wait_X"
      <4>1. myGeneration[u] # generationXExit + 1
        BY <1>7, <3>3
      <4> QED  BY <3>1, <3>2, <3>3, <4>1, Zenon DEF ModeOf
    <3>4. CASE pc[u] # "wait_X"
      BY <3>1, <3>2, <3>4, Zenon DEF ModeOf
    <3> QED  BY <3>3, <3>4, Zenon
  <2> QED  BY <2>1, <2>2, Zenon
<1>10. Table!Next
  <2>1. mode' = [u \in Thread |-> IF mode[u] \in {"X", "parked"} THEN "w" ELSE mode[u]]
    BY <1>9, Zenon DEF mode
  <2> QED
    BY <1>2, <2>1, Zenon DEF Table!Next, Table!Unpark
<1>11. MutualExclusion'
  BY <1>1, <1>10, TableStep DEF Inv
<1>12. CountersAgree'
  <2>1. /\ Num(mode', {"r"}) = 0 /\ Num(mode', {"R"}) = 0 /\ Num(mode', {"W"}) = 0
        /\ Num(mode', {"X", "parked"}) = 0
    <3>1. \A u \in Thread : mode'[u] \in {"none", "w"}
      BY <1>2, <1>3, <1>9, Zenon
    <3>2. /\ \A u \in Thread : mode'[u] \notin {"r"}
          /\ \A u \in Thread : mode'[u] \notin {"R"}
          /\ \A u \in Thread : mode'[u] \notin {"W"}
          /\ \A u \in Thread : mode'[u] \notin {"X", "parked"}
      BY <3>1, Zenon
    <3> QED  BY <3>2, NumNat, Zenon
  <2>2. Num(mode', {"w"}) = Num(mode, {"X", "parked"})
    <3>1. \A u \in Thread : mode'[u] \in {"w"} <=> mode[u] \in {"X", "parked"}
      BY <1>2, <1>3, <1>9, Zenon
    <3>2. {u \in Thread : mode'[u] \in {"w"}} = {u \in Thread : mode[u] \in {"X", "parked"}}
      BY <3>1, Zenon
    <3> QED  BY <3>2, Zenon DEF Num
  <2>3. /\ Num(pc', {"wait_U"}) = Num(pc, {"wait_U"})
        /\ Num(pc', {"wait_W", "try_W", "late_W", "wait_U"})
             = Num(pc, {"wait_W", "try_W", "late_W", "wait_U"})
    <3>1. /\ {u \in Thread : pc'[u] \in {"wait_U"}} = {u \in Thread : pc[u] \in {"wait_U"}}
          /\ {u \in Thread : pc'[u] \in {"wait_W", "try_W", "late_W", "wait_U"}}
               = {u \in Thread : pc[u] \in {"wait_W", "try_W", "late_W", "wait_U"}}
      BY <1>2, <1>8, Zenon
    <3> QED  BY <3>1, Zenon DEF Num
  <2> QED
    BY <1>2, <1>3, <1>5, <2>1, <2>2, <2>3, Zenon DEF Inv, CountersAgree
<1>13. GenerationsAgree' /\ OneUpgrader'
  <2>1. \A u \in Thread : pc'[u] # "X"
    <3>1. \A u \in Thread \ {t} : pc[u] # "X"
      BY <1>3, Zenon DEF mode, ModeOf
    <3> QED  BY <1>8, <3>1, Zenon
  <2>2. \A u \in Thread : pc'[u] = "wait_X" => myGeneration'[u] <= generationXExit'
    BY <1>2, <1>7, <1>8
  <2>3. generationX' = generationXExit'
    BY <1>2, <1>7, Zenon
  <2> QED
    BY <1>2, <1>7, <1>8, <2>1, <2>2, <2>3 DEF Inv, GenerationsAgree, OneUpgrader
<1>14. TypeOK'
  <2>1. pc' \in [Thread -> {"none"} \cup Held \cup Waiting]
    BY <1>1, <1>2, Zenon DEF Goto, Held
  <2>2. generationXExit' \in Nat
    BY <1>2, <1>7, Zenon
  <2> QED
    BY <1>2, <1>4, <1>5, <1>6, <2>1, <2>2, Zenon DEF Inv, TypeOK
<1> QED
  BY <1>6, <1>10, <1>11, <1>12, <1>13, <1>14, Zenon DEF Inv, NeverAborts

LEMMA lock_rStep ==
    ASSUME Inv, NEW t \in Thread, lock_r(t)
    PROVE  Inv' /\ (Table!Next \/ mode' = mode)
<1>1. /\ pc[t] \in {"none", "wait_r"} /\ calls' \in 0..MaxCalls
      /\ UNCHANGED <<numPendingGlobalWrites, generationX, generationXExit, myGeneration>>
  BY MaxCallsAssumption DEF lock_r, Call, Wake, WaitFor, Inv, TypeOK
<1>2. /\ pc[t] \in Out /\ pc[t] \notin Global /\ "wait_r" \in Out /\ "wait_r" \notin Global
      /\ numPendingGlobalWrites \in Nat /\ asleep \subseteq Thread /\ aborted = FALSE
  BY <1>1, Zenon DEF Out, Global, Inv, TypeOK, NeverAborts
<1>3. CASE r_legal
  <2>1. n' = [n EXCEPT !["r"] = @ + 1] /\ Goto(t, "r") /\ UNCHANGED <<asleep, aborted>>
    BY <1>3, Zenon DEF lock_r, WaitFor
  <2>2. r_legal_ignore_greed(n)
    BY <1>3, Zenon DEF r_legal
  <2>3. Grants(t, "r")
    BY <1>1, <1>2, <2>1, <2>2 DEF Grants
  <2> QED
    BY <2>3, GrantStep, Zenon
<1>4. CASE ~r_legal
  <2>1. Goto(t, "wait_r") /\ asleep' = asleep \cup {t} /\ UNCHANGED <<n, aborted>>
    BY <1>4, Zenon DEF lock_r, WaitFor, Sleep
  <2>2. Idles(t, "wait_r")
    BY <1>1, <1>2, <2>1 DEF Idles
  <2> QED
    BY <2>2, IdleStep, Zenon
<1> QED  BY <1>3, <1>4, Zenon

LEMMA lock_wStep ==
    ASSUME Inv, NEW t \in Thread, lock_w(t)
    PROVE  Inv' /\ (Table!Next \/ mode' = mode)
<1>1. /\ pc[t] \in {"none", "wait_w"} /\ calls' \in 0..MaxCalls
      /\ UNCHANGED <<numPendingGlobalWrites, generationX, generationXExit, myGeneration>>
  BY MaxCallsAssumption DEF lock_w, Call, Wake, WaitFor, Inv, TypeOK
<1>2. /\ pc[t] \in Out /\ pc[t] \notin Global /\ "wait_w" \in Out /\ "wait_w" \notin Global
      /\ numPendingGlobalWrites \in Nat /\ asleep \subseteq Thread /\ aborted = FALSE
  BY <1>1, Zenon DEF Out, Global, Inv, TypeOK, NeverAborts
<1>3. CASE w_legal
  <2>1. n' = [n EXCEPT !["w"] = @ + 1] /\ Goto(t, "w") /\ UNCHANGED <<asleep, aborted>>
    BY <1>3, Zenon DEF lock_w, WaitFor
  <2>2. w_legal_ignore_greed(n)
    BY <1>3 DEF w_legal
  <2>3. Grants(t, "w")
    BY <1>1, <1>2, <2>1, <2>2 DEF Grants
  <2> QED
    BY <2>3, GrantStep, Zenon
<1>4. CASE ~w_legal
  <2>1. Goto(t, "wait_w") /\ asleep' = asleep \cup {t} /\ UNCHANGED <<n, aborted>>
    BY <1>4, Zenon DEF lock_w, WaitFor, Sleep
  <2>2. Idles(t, "wait_w")
    BY <1>1, <1>2, <2>1 DEF Idles
  <2> QED
    BY <2>2, IdleStep, Zenon
<1> QED  BY <1>3, <1>4

LEMMA lock_RStep ==
    ASSUME Inv, NEW t \in Thread, lock_R(t)
    PROVE  Inv' /\ (Table!Next \/ mode' = mode)
<1>1. /\ pc[t] \in {"none", "wait_R"} /\ calls' \in 0..MaxCalls
      /\ UNCHANGED <<numPendingGlobalWrites, generationX, generationXExit, myGeneration>>
  BY MaxCallsAssumption DEF lock_R, Call, Wake, WaitFor, Inv, TypeOK
<1>2. /\ pc[t] \in Out /\ pc[t] \notin Global /\ "wait_R" \in Out /\ "wait_R" \notin Global
      /\ numPendingGlobalWrites \in Nat /\ asleep \subseteq Thread /\ aborted = FALSE
  BY <1>1, Zenon DEF Out, Global, Inv, TypeOK, NeverAborts
<1>3. CASE R_legal
  <2>1. n' = [n EXCEPT !["R"] = @ + 1] /\ Goto(t, "R") /\ UNCHANGED <<asleep, aborted>>
    BY <1>3, Zenon DEF lock_R, WaitFor
  <2>2. R_legal_ignore_greed(n)
    BY <1>3 DEF R_legal
  <2>3. Grants(t, "R")
    BY <1>1, <1>2, <2>1, <2>2 DEF Grants
  <2> QED
    BY <2>3, GrantStep, Zenon
<1>4. CASE ~R_legal
  <2>1. Goto(t, "wait_R") /\ asleep' = asleep \cup {t} /\ UNCHANGED <<n, aborted>>
    BY <1>4, Zenon DEF lock_R, WaitFor, Sleep
  <2>2. Idles(t, "wait_R")
    BY <1>1, <1>2, <2>1 DEF Idles
  <2> QED
    BY <2>2, IdleStep, Zenon
<1> QED  BY <1>3, <1>4

LEMMA lock_R_tryStep ==
    ASSUME Inv, NEW t \in Thread, lock_R_try(t)
    PROVE  Inv' /\ (Table!Next \/ mode' = mode)
<1>1. /\ pc[t] \in {"none", "try_R"} /\ calls' \in 0..MaxCalls
      /\ UNCHANGED <<numPendingGlobalWrites, generationX, generationXExit, myGeneration>>
  BY MaxCallsAssumption DEF lock_R_try, Call, Wake, WaitFor, Inv, TypeOK
<1>2. /\ pc[t] \in Out /\ pc[t] \notin Global /\ "try_R" \in Out /\ "try_R" \notin Global
      /\ numPendingGlobalWrites \in Nat /\ asleep \subseteq Thread /\ aborted = FALSE
  BY <1>1, Zenon DEF Out, Global, Inv, TypeOK, NeverAborts
<1>3. CASE R_legal
  <2>1. n' = [n EXCEPT !["R"] = @ + 1] /\ Goto(t, "R") /\ UNCHANGED <<asleep, aborted>>
    BY <1>3, Zenon DEF lock_R_try, WaitFor
  <2>2. R_legal_ignore_greed(n)
    BY <1>3 DEF R_legal
  <2>3. Grants(t, "R")
    BY <1>1, <1>2, <2>1, <2>2 DEF Grants
  <2> QED
    BY <2>3, GrantStep
<1>4. CASE ~R_legal
  <2>1. Goto(t, "try_R") /\ asleep' = asleep \cup {t} /\ UNCHANGED <<n, aborted>>
    BY <1>4, Zenon DEF lock_R_try, WaitFor, Sleep
  <2>2. Idles(t, "try_R")
    BY <1>1, <1>2, <2>1 DEF Idles
  <2> QED
    BY <2>2, IdleStep, Zenon
<1> QED  BY <1>3, <1>4

LEMMA lock_R_try_endStep ==
    ASSUME Inv, NEW t \in Thread, lock_R_try_end(t)
    PROVE  Inv' /\ (Table!Next \/ mode' = mode)
<1>1. /\ pc[t] = "late_R" /\ calls' = calls
      /\ UNCHANGED <<numPendingGlobalWrites, generationX, generationXExit, asleep,
                     myGeneration, aborted>>
  BY Zenon DEF lock_R_try_end, Wake
<1>2. /\ pc[t] \in Out /\ pc[t] \notin Global /\ "none" \in Out /\ "none" \notin Global
      /\ numPendingGlobalWrites \in Nat /\ asleep \subseteq Thread /\ aborted = FALSE
      /\ calls \in 0..MaxCalls
  BY <1>1, Zenon DEF Out, Global, Inv, TypeOK, NeverAborts
<1>3. CASE R_legal
  <2>1. n' = [n EXCEPT !["R"] = @ + 1] /\ Goto(t, "R")
    BY <1>3, Zenon DEF lock_R_try_end
  <2>2. R_legal_ignore_greed(n)
    BY <1>3 DEF R_legal
  <2>3. Grants(t, "R")
    BY <1>1, <1>2, <2>1, <2>2 DEF Grants
  <2> QED
    BY <2>3, GrantStep
<1>4. CASE ~R_legal
  <2>1. Goto(t, "none") /\ n' = n
    BY <1>4, Zenon DEF lock_R_try_end
  <2>2. Idles(t, "none")
    BY <1>1, <1>2, <2>1 DEF Idles
  <2> QED
    BY <2>2, IdleStep, Zenon
<1> QED  BY <1>3, <1>4

\* fassert(16202): nobody holds W when it is legal.
LEMMA W_legalCount ==
    ASSUME Inv, W_legal(n), n' = [n EXCEPT !["W"] = @ + 1]
    PROVE  n'.W = 1
<1>1. n.r \in Nat /\ n.w \in Nat /\ n.R \in Nat /\ n.W \in Nat /\ n.X \in Nat
  BY Zenon DEF Inv, TypeOK
<1>2. n.r + n.w + n.R + n.W + n.X = 0
  BY Zenon DEF W_legal
<1>3. n.W = 0
  <2> DEFINE a == n.r  b == n.w  c == n.R  d == n.W  e == n.X
  <2>1. a \in Nat /\ b \in Nat /\ c \in Nat /\ d \in Nat /\ e \in Nat /\ a + b + c + d + e = 0
    BY <1>1, <1>2, Zenon
  <2> HIDE DEF a, b, c, d, e
  <2>2. d = 0
    BY <2>1
  <2> QED
    BY <2>2, Zenon DEF d
<1> QED
  BY <1>3 DEF Inv, TypeOK

LEMMA WaitForWStep ==
    ASSUME Inv, NEW t \in Thread, NEW loop \in {"wait_W", "try_W"},
           pc[t] \in {"none", loop}, calls' \in 0..MaxCalls, WaitForW(t, loop)
    PROVE  Inv' /\ (Table!Next \/ mode' = mode)
<1>1. UNCHANGED <<generationX, generationXExit, myGeneration>>
  BY Zenon DEF WaitForW
<1>2. /\ pc[t] \in Out /\ (pc[t] \in Global <=> pc[t] # "none") /\ loop \in Out /\ loop \in Global
      /\ numPendingGlobalWrites \in Nat /\ asleep \subseteq Thread /\ aborted = FALSE
  BY Zenon DEF Out, Global, Inv, TypeOK, NeverAborts
<1>3. CASE W_legal(n)
  <2>1. /\ n' = [n EXCEPT !["W"] = @ + 1] /\ Goto(t, "W") /\ asleep' = asleep
        /\ Pend(IF pc[t] = "none" THEN 0 ELSE -1)
        /\ aborted' = (loop = "try_W" /\ n'.W # 1)
    BY <1>3, Zenon DEF WaitForW
  <2>2. aborted' = FALSE
    BY <1>3, <2>1, W_legalCount, Zenon
  <2>3. numPendingGlobalWrites' = numPendingGlobalWrites - (IF pc[t] \in Global THEN 1 ELSE 0)
    BY <1>2, <2>1 DEF Pend
  <2>4. Grants(t, "W")
    BY <1>1, <1>2, <1>3, <2>1, <2>2, <2>3, Zenon DEF Grants
  <2> QED
    BY <2>4, GrantStep, Zenon
<1>4. CASE ~W_legal(n)
  <2>1. /\ Goto(t, loop) /\ asleep' = asleep \cup {t} /\ UNCHANGED <<n, aborted>>
        /\ Pend(IF pc[t] = "none" THEN 1 ELSE 0)
    BY <1>4, Zenon DEF WaitForW, Sleep
  <2>2. numPendingGlobalWrites' = numPendingGlobalWrites
            - (IF pc[t] \in Global THEN 1 ELSE 0) + (IF loop \in Global THEN 1 ELSE 0)
    BY <1>2, <2>1 DEF Pend
  <2>3. Idles(t, loop)
    BY <1>1, <1>2, <2>1, <2>2, Zenon DEF Idles
  <2> QED
    BY <2>3, IdleStep, Zenon
<1> QED  BY <1>3, <1>4, Zenon

LEMMA lock_WStep ==
    ASSUME Inv, NEW t \in Thread, lock_W(t) \/ lock_W_try(t)
    PROVE  Inv' /\ (Table!Next \/ mode' = mode)
<1>1. PICK loop \in {"wait_W", "try_W"} :
        pc[t] \in {"none", loop} /\ calls' \in 0..MaxCalls /\ WaitForW(t, loop)
  BY MaxCallsAssumption DEF lock_W, lock_W_try, Call, Wake, Inv, TypeOK
<1> QED
  BY <1>1, WaitForWStep, Zenon

LEMMA lock_W_try_endStep ==
    ASSUME Inv, NEW t \in Thread, lock_W_try_end(t)
    PROVE  Inv' /\ (Table!Next \/ mode' = mode)
<1>1. /\ pc[t] = "late_W" /\ calls' = calls /\ Pend(-1)
      /\ UNCHANGED <<generationX, generationXExit, asleep, myGeneration>>
  BY Zenon DEF lock_W_try_end, Wake
<1>2. /\ pc[t] \in Out /\ pc[t] \in Global /\ "none" \in Out /\ "none" \notin Global
      /\ numPendingGlobalWrites \in Nat /\ asleep \subseteq Thread /\ aborted = FALSE
      /\ calls \in 0..MaxCalls
  BY <1>1, Zenon DEF Out, Global, Inv, TypeOK, NeverAborts
<1>3. numPendingGlobalWrites' = numPendingGlobalWrites - 1
  BY <1>1, <1>2, Zenon DEF Pend
<1>4. CASE W_legal(n)
  <2>1. n' = [n EXCEPT !["W"] = @ + 1] /\ Goto(t, "W") /\ aborted' = (n'.W # 1)
    BY <1>4, Zenon DEF lock_W_try_end
  <2>2. aborted' = FALSE
    BY <1>4, <2>1, W_legalCount, Zenon
  <2>3. Grants(t, "W")
    BY <1>1, <1>2, <1>3, <1>4, <2>1, <2>2, Zenon DEF Grants
  <2> QED
    BY <2>3, GrantStep, Zenon
<1>5. CASE ~W_legal(n)
  <2>1. Goto(t, "none") /\ UNCHANGED <<n, aborted>>
    BY <1>5, Zenon DEF lock_W_try_end
  <2>2. Idles(t, "none")
    BY <1>1, <1>2, <1>3, <2>1 DEF Idles
  <2> QED
    BY <2>2, IdleStep
<1> QED  BY <1>4, <1>5, Zenon

LEMMA ExpireStep ==
    ASSUME Inv, NEW t \in Thread, Expire(t)
    PROVE  Inv' /\ mode' = mode
<1>1. /\ asleep' = asleep \ {t}
      /\ UNCHANGED <<n, numPendingGlobalWrites, generationX, generationXExit,
                     myGeneration, aborted, calls>>
  BY Zenon DEF Expire
<1>2. /\ numPendingGlobalWrites \in Nat /\ asleep \subseteq Thread /\ aborted = FALSE
      /\ calls \in 0..MaxCalls
  BY Zenon DEF Inv, TypeOK, NeverAborts
<1>3. PICK p \in {"late_R", "late_W"} :
        Goto(t, p) /\ pc[t] = IF p = "late_R" THEN "try_R" ELSE "try_W"
  BY Zenon DEF Expire
<1>4. pc[t] \in Out /\ p \in Out /\ (pc[t] \in Global <=> p \in Global)
  BY <1>3, Zenon DEF Out, Global
<1>5. Idles(t, p)
  BY <1>1, <1>2, <1>3, <1>4 DEF Idles
<1> QED
  BY <1>5, IdleStep, Zenon

\* The fasserts of the unlock functions: the counter of a mode that is held is
\* positive, and W is not held beside another mode.
LEMMA HeldCount ==
    ASSUME Inv, NEW t \in Thread, NEW m \in {"r", "w", "R", "W"},
           pc[t] = m \/ (m = "R" /\ pc[t] = "Rd")
    PROVE  /\ n[m] > 0 /\ n[m] \in Nat
           /\ m = "W" => n.W = 1
           /\ m # "W" => n.W = 0
<1>1. mode[t] = m
  BY Zenon DEF mode, ModeOf
<1>2. n[m] = Num(mode, {m})
  BY Zenon DEF Inv, CountersAgree
<1>3. n[m] > 0 /\ n[m] \in Nat
  BY <1>1, <1>2, NumOne, NumNat
<1>4. m = "W" => n.W = 1
  BY <1>1, Alone, Zenon
<1>5. m # "W" => n.W = 0
  <2>1. m # "W" => \A u \in Thread : mode[u] # "W"
    BY <1>1, Zenon DEF Inv, MutualExclusion, Coexist
  <2> QED
    BY <2>1, ZeroModes, Zenon DEF Inv
<1> QED
  BY <1>3, <1>4, <1>5, Zenon

LEMMA UnlockStep ==
    ASSUME Inv, NEW t \in Thread,
           unlock_r(t) \/ unlock_w(t) \/ unlock_R(t) \/ unlock_W(t)
    PROVE  Inv' /\ Table!Next
<1>1. PICK m \in {"r", "w", "R", "W"} :
        /\ Unlock(t, m, IF m = "R" THEN {"R", "Rd"} ELSE {m}, IF m = "W" THEN n.W = 1 ELSE n[m] > 0)
  BY Zenon DEF unlock_r, unlock_w, unlock_R, unlock_W
<1>2. /\ pc[t] = m \/ (m = "R" /\ pc[t] = "Rd")
      /\ Goto(t, "none")
      /\ UNCHANGED <<numPendingGlobalWrites, generationX, generationXExit, myGeneration, calls>>
      /\ Leave(m, [n EXCEPT ![m] = @ - 1], IF m = "W" THEN n.W = 1 ELSE n[m] > 0)
  BY <1>1, Zenon DEF Unlock
<1>3. n' = [n EXCEPT ![m] = @ - 1] /\ asleep' \subseteq asleep
  BY <1>2, Zenon DEF Leave
<1>4. aborted' = ~((IF m = "W" THEN n.W = 1 ELSE n[m] > 0) /\ n'.W = 0)
  BY <1>2, Zenon DEF Leave
<1>5. n[m] > 0 /\ (m = "W" => n.W = 1) /\ (m # "W" => n.W = 0)
  BY <1>2, HeldCount, Zenon
<1>6. n'.W = 0
  BY <1>3, <1>5 DEF Inv, TypeOK
<1>7. aborted' = FALSE
  BY <1>4, <1>5, <1>6, Zenon
<1>8. Releases(t, m)
  BY <1>2, <1>3, <1>7, Zenon DEF Releases, Inv, TypeOK
<1> QED
  BY <1>8, ReleaseStep, Zenon

\* What is left alone when only asleep changes, or nothing.
LEMMA QuietStep ==
    ASSUME Inv, asleep' \subseteq asleep,
           UNCHANGED <<n, numPendingGlobalWrites, generationX, generationXExit, pc,
                       myGeneration, aborted, calls>>
    PROVE  Inv' /\ mode' = mode
<1>1. mode' = mode
  BY Zenon DEF mode
<1>2. CountersAgree'
  BY <1>1, Zenon DEF Inv, CountersAgree
<1>3. MutualExclusion'
  BY <1>1, Zenon DEF Inv, MutualExclusion
<1> QED
  BY <1>1, <1>2, <1>3, Zenon DEF Inv, TypeOK, GenerationsAgree, OneUpgrader, NeverAborts

-----------------------------------------------------------------------------
(* The theorems.                                                           *)

LEMMA InitInv ==
    ASSUME Init
    PROVE  Inv /\ Table!Init
<1>1. TypeOK
  <2>1. n \in [{"r", "w", "R", "W", "U", "X"} -> Nat] /\ calls \in 0..MaxCalls
    BY MaxCallsAssumption DEF Init
  <2>2. pc \in [Thread -> {"none"} \cup Held \cup Waiting] /\ myGeneration \in [Thread -> Nat]
    BY Zenon DEF Init
  <2> QED
    BY <2>1, <2>2, Zenon DEF Init, TypeOK
<1>2. mode = [t \in Thread |-> "none"]
  BY Zenon DEF Init, mode, ModeOf
<1>3. \A t \in Thread : mode[t] = "none" /\ pc[t] = "none"
  BY <1>2, Zenon DEF Init
<1>4. /\ Num(mode, {"r"}) = 0 /\ Num(mode, {"w"}) = 0 /\ Num(mode, {"R"}) = 0
      /\ Num(mode, {"W"}) = 0 /\ Num(mode, {"X", "parked"}) = 0
      /\ Num(pc, {"wait_U"}) = 0 /\ Num(pc, {"wait_W", "try_W", "late_W", "wait_U"}) = 0
  <2> HIDE DEF mode
  <2> QED
    BY <1>3, NumNat, Zenon
<1>5. CountersAgree
  BY <1>4, Zenon DEF Init, CountersAgree
<1>6. MutualExclusion /\ GenerationsAgree /\ OneUpgrader /\ NeverAborts
  BY <1>3 DEF Init, MutualExclusion, GenerationsAgree, OneUpgrader, NeverAborts
<1> QED
  BY <1>1, <1>2, <1>5, <1>6, Zenon DEF Inv, Table!Init

LEMMA NextInv ==
    ASSUME Inv, [Next]_vars
    PROVE  Inv' /\ (Table!Next \/ mode' = mode)
<1>1. CASE UNCHANGED vars
  BY <1>1, QuietStep, Zenon DEF vars
<1>2. CASE Next
  <2> PICK t \in Thread :
         \/ lock_r(t) \/ lock_w(t) \/ lock_R(t) \/ lock_R_try(t) \/ lock_R_try_end(t)
         \/ lock_W(t) \/ lock_W_try(t) \/ lock_W_try_end(t) \/ Expire(t)
         \/ W_to_R(t) \/ R_to_W(t) \/ w_to_X(t) \/ X_to_w(t)
         \/ unlock_r(t) \/ unlock_w(t) \/ unlock_R(t) \/ unlock_W(t)
         \/ SpuriousWakeup(t)
    BY <1>2, Zenon DEF Next
  <2>1. CASE lock_r(t)          BY <2>1, lock_rStep, Zenon
  <2>2. CASE lock_w(t)          BY <2>2, lock_wStep, Zenon
  <2>3. CASE lock_R(t)          BY <2>3, lock_RStep, Zenon
  <2>4. CASE lock_R_try(t)      BY <2>4, lock_R_tryStep, Zenon
  <2>5. CASE lock_R_try_end(t)  BY <2>5, lock_R_try_endStep, Zenon
  <2>6. CASE lock_W(t) \/ lock_W_try(t)  BY <2>6, lock_WStep, Zenon
  <2>7. CASE lock_W_try_end(t)  BY <2>7, lock_W_try_endStep, Zenon
  <2>8. CASE Expire(t)          BY <2>8, ExpireStep, Zenon
  <2>9. CASE W_to_R(t)          BY <2>9, W_to_RStep, Zenon
  <2>10. CASE R_to_W(t)         BY <2>10, R_to_WStep, Zenon
  <2>11. CASE w_to_X(t)         BY <2>11, w_to_XCall, w_to_XWake, Zenon DEF w_to_X
  <2>12. CASE X_to_w(t)         BY <2>12, X_to_wStep, Zenon
  <2>13. CASE unlock_r(t) \/ unlock_w(t) \/ unlock_R(t) \/ unlock_W(t)
    BY <2>13, UnlockStep, Zenon
  <2>14. CASE SpuriousWakeup(t)
    BY <2>14, QuietStep, Zenon DEF SpuriousWakeup
  <2> QED
    BY <2>1, <2>2, <2>3, <2>4, <2>5, <2>6, <2>7, <2>8, <2>9, <2>10, <2>11, <2>12,
       <2>13, <2>14
<1> QED  BY <1>1, <1>2, Zenon

\* Inv holds in every reachable state of the lock.
THEOREM Invariance == Spec => []Inv
<1>1. Init => Inv
  BY InitInv, Zenon
<1>2. Inv /\ [Next]_vars => Inv'
  BY NextInv, Zenon
<1> QED
  BY <1>1, <1>2, PTL DEF Spec

\* Every variable keeps its type; in particular no counter goes below zero.
THEOREM TypeCorrect == Spec => []TypeOK
  BY Invariance, PTL DEF Inv

\* For any number of threads, no two hold modes the table of qlock.h forbids.
THEOREM Exclusion == Spec => []MutualExclusion
  BY Invariance, PTL DEF Inv

\* No fassert of qlock.h can fire for callers that follow its comments.
THEOREM NoAbort == Spec => []NeverAborts
  BY Invariance, PTL DEF Inv

\* Each counter of the code is the number of threads in its mode.
THEOREM Counters == Spec => []CountersAgree
  BY Invariance, PTL DEF Inv

\* The lock implements the table of its class comment, for any threads.
THEOREM Refinement == Spec => ImplementsTable
<1>1. Init => Table!Init
  BY InitInv, Zenon
<1>2. Inv /\ [Next]_vars => [Table!Next]_mode
  BY NextInv, Zenon
<1> QED
  BY <1>1, <1>2, Invariance, PTL DEF Spec, ImplementsTable, Table!Spec

-----------------------------------------------------------------------------
(* No thread sleeps through its turn.  The invariant is NoLostWakeup, read
   thread by thread and split in two: what the loops of lock_W, lock_W_try,
   R_to_W and w_to_X need holds whatever entry points are called; what the
   loops of lock_r, lock_w, lock_R and lock_R_try need holds as long as nobody
   calls lock_W_try, which may withdraw a pending write and notifies nobody. *)

\* With the counters at c and pend global writes wanted, no thread of S sleeps
\* in a loop of lock_r, lock_w, lock_R or lock_R_try whose mode is legal.
ReadersWait(c, pend, p, S) ==
    \A u \in S :
        /\ p[u] = "wait_r" => pend > 0 \/ ~r_legal_ignore_greed(c)
        /\ p[u] = "wait_w" => pend > 0 \/ ~w_legal_ignore_greed(c)
        /\ p[u] \in {"wait_R", "try_R"} => pend > 0 \/ ~R_legal_ignore_greed(c)

\* A thread that sleeps for W, for X or for the upgrade has to, or another
\* thread is awake that will do the same; and it waits for the X generation
\* that is open.
WritersWait(c, p, S, my, g, exit) ==
    \A u \in S :
        /\ p[u] \in {"wait_W", "try_W"} =>
             ~W_legal(c) \/ \E v \in Thread \ S : p[v] \in Global
        /\ p[u] = "wait_U" => c.W + c.R + c.w + c.r > 1
        /\ p[u] = "wait_X" => my[u] = exit
        /\ p[u] = "wait_X" =>
             ~X_legal(c) \/ g # exit \/ \E v \in Thread \ S : p[v] = "wait_X"

ReadersWoken == ReadersWait(n, numPendingGlobalWrites, pc, asleep)

WritersWoken == WritersWait(n, pc, asleep, myGeneration, generationX, generationXExit)

\* Nobody is inside lock_W_try.
NoTryW == \A t \in Thread : pc[t] \notin {"try_W", "late_W"}

\* The condition variables by the loops that wait on them.
LEMMA OnLoops ==
    /\ On("r") = {u \in asleep : pc[u] = "wait_r"}
    /\ On("w") = {u \in asleep : pc[u] = "wait_w"}
    /\ On("R") = {u \in asleep : pc[u] \in {"wait_R", "try_R"}}
    /\ On("W") = {u \in asleep : pc[u] \in {"wait_W", "try_W"}}
    /\ On("U") = {u \in asleep : pc[u] = "wait_U"}
    /\ On("X") = {u \in asleep : pc[u] = "wait_X"}
  BY Zenon DEF On

\* The two halves are NoLostWakeup.
LEMMA BothHalves ==
    ASSUME TypeOK, ReadersWoken, WritersWoken
    PROVE  NoLostWakeup
<1>1. /\ r_legal => On("r") = {}
      /\ w_legal => On("w") = {}
      /\ R_legal => On("R") = {}
  BY OnLoops, Zenon DEF ReadersWoken, ReadersWait, r_legal, w_legal, R_legal, Pending, TypeOK
<1>2. W_legal(n) /\ On("W") # {} =>
         \E t \in Thread \ asleep : pc[t] \in {"wait_W", "try_W", "late_W"}
  BY OnLoops, Zenon DEF WritersWoken, WritersWait, Global
<1>3. On("U") # {} => n.W + n.R + n.w + n.r > 1
  BY OnLoops, Zenon DEF WritersWoken, WritersWait
<1>4. /\ \A t \in On("X") : myGeneration[t] = generationXExit
      /\ X_legal(n) /\ generationX = generationXExit /\ On("X") # {} =>
           \E t \in Thread \ asleep : pc[t] = "wait_X"
  BY OnLoops, Zenon DEF WritersWoken, WritersWait
<1> QED
  BY <1>1, <1>2, <1>3, <1>4, Zenon DEF NoLostWakeup

-----------------------------------------------------------------------------
(* Steps that notify nobody.                                               *)

\* A mode is granted: counters only grow, and a pending write is withdrawn only
\* by the thread that now holds W.
LEMMA GrantWakes ==
    ASSUME TypeOK, NEW t \in Thread, NEW m, Grants(t, m), UNCHANGED asleep,
           pc[t] \in Global => m = "W"
    PROVE  /\ ReadersWoken => ReadersWoken'
           /\ WritersWoken => WritersWoken'
<1>1. /\ n \in [{"r", "w", "R", "W", "U", "X"} -> Nat] /\ numPendingGlobalWrites \in Nat
      /\ pc \in [Thread -> {"none"} \cup Held \cup Waiting]
      /\ asleep \subseteq Thread
  BY Zenon DEF TypeOK
<1>2. /\ m \in {"r", "w", "R", "W"} /\ n' = [n EXCEPT ![m] = @ + 1]
      /\ pc' = [pc EXCEPT ![t] = m]
      /\ pc[t] \notin Global => numPendingGlobalWrites' = numPendingGlobalWrites
      /\ UNCHANGED <<generationX, generationXExit, myGeneration>>
  BY <1>1 DEF Grants, Goto
<1>3. /\ n'.r >= n.r /\ n'.w >= n.w /\ n'.R >= n.R /\ n'.W >= n.W /\ n'.X >= n.X
      /\ n'.r \in Nat /\ n'.w \in Nat /\ n'.R \in Nat /\ n'.W \in Nat /\ n'.X \in Nat
      /\ n'.r + n'.w + n'.R + n'.W > 0
      /\ m = "W" => n'.W > 0
  BY <1>1, <1>2
<1>4. /\ pc'[t] = m
      /\ \A u \in Thread \ {t} : pc'[u] = pc[u]
  BY <1>1, <1>2, Zenon
<1>5. ASSUME ReadersWoken PROVE ReadersWoken'
  <2> SUFFICES ASSUME NEW u \in asleep, u # t
               PROVE  /\ pc[u] = "wait_r" =>
                            numPendingGlobalWrites' > 0 \/ ~r_legal_ignore_greed(n')
                      /\ pc[u] = "wait_w" =>
                            numPendingGlobalWrites' > 0 \/ ~w_legal_ignore_greed(n')
                      /\ pc[u] \in {"wait_R", "try_R"} =>
                            numPendingGlobalWrites' > 0 \/ ~R_legal_ignore_greed(n')
    BY <1>1, <1>2, <1>4, Zenon DEF ReadersWoken, ReadersWait
  <2>1. CASE m = "W"
    BY <1>3, <2>1 DEF r_legal_ignore_greed, w_legal_ignore_greed, R_legal_ignore_greed
  <2>2. CASE m # "W"
    <3>1. numPendingGlobalWrites' = numPendingGlobalWrites
      BY <1>2, <2>2, Zenon
    <3>2. n.r \in Nat /\ n.w \in Nat /\ n.R \in Nat /\ n.W \in Nat /\ n.X \in Nat
      BY <1>1, Zenon
    <3>3. r_legal_ignore_greed(n') => r_legal_ignore_greed(n)
      BY <1>3, <3>2 DEF r_legal_ignore_greed
    <3>4. w_legal_ignore_greed(n') => w_legal_ignore_greed(n)
      BY <1>3, <3>2 DEF w_legal_ignore_greed
    <3>5. R_legal_ignore_greed(n') => R_legal_ignore_greed(n)
      BY <1>3, <3>2 DEF R_legal_ignore_greed
    <3> QED
      BY <1>5, <3>1, <3>3, <3>4, <3>5, Zenon DEF ReadersWoken, ReadersWait
  <2> QED  BY <2>1, <2>2, Zenon
<1>6. ASSUME WritersWoken PROVE WritersWoken'
  <2>1. ~W_legal(n') /\ ~X_legal(n')
    BY <1>3 DEF W_legal, X_legal
  <2>2. \A u \in asleep : pc[u] = "wait_U" => n'.W + n'.R + n'.w + n'.r > 1
    BY <1>1, <1>3, <1>6 DEF WritersWoken, WritersWait
  <2>3. \A u \in asleep : pc'[u] = "wait_X" => myGeneration'[u] = generationXExit'
    BY <1>1, <1>2, <1>4, <1>6, Zenon DEF WritersWoken, WritersWait
  <2>4. \A u \in asleep : pc'[u] = "wait_U" => n'.W + n'.R + n'.w + n'.r > 1
    BY <1>1, <1>2, <1>4, <2>2, Zenon
  <2> QED
    BY <2>1, <2>3, <2>4, Zenon DEF WritersWoken, WritersWait
<1> QED
  BY <1>5, <1>6, Zenon

\* A thread goes to sleep (again) because its mode is not legal; no pending
\* write is withdrawn by it.
LEMMA SleepWakes ==
    ASSUME TypeOK, NEW t \in Thread, NEW l, pc[t] \in Out, Goto(t, l),
           asleep' = asleep \cup {t},
           UNCHANGED <<n, generationX, generationXExit, myGeneration>>,
           numPendingGlobalWrites' >= numPendingGlobalWrites,
           numPendingGlobalWrites' \in Nat,
           l \in {"wait_r", "wait_w", "wait_R", "try_R", "wait_W", "try_W"},
           l = "wait_r" => ~r_legal,
           l = "wait_w" => ~w_legal,
           l \in {"wait_R", "try_R"} => ~R_legal,
           l \in {"wait_W", "try_W"} => ~W_legal(n),
           pc[t] \in Global => l \in Global
    PROVE  /\ ReadersWoken => ReadersWoken'
           /\ WritersWoken => WritersWoken'
<1>1. /\ numPendingGlobalWrites \in Nat /\ asleep \subseteq Thread
      /\ pc \in [Thread -> {"none"} \cup Held \cup Waiting]
  BY Zenon DEF TypeOK
<1>2. /\ pc'[t] = l
      /\ \A u \in Thread \ {t} : pc'[u] = pc[u]
  BY <1>1, Zenon DEF Goto
<1>3. ASSUME ReadersWoken PROVE ReadersWoken'
  <2>1. /\ pc'[t] = "wait_r" => numPendingGlobalWrites' > 0 \/ ~r_legal_ignore_greed(n')
        /\ pc'[t] = "wait_w" => numPendingGlobalWrites' > 0 \/ ~w_legal_ignore_greed(n')
        /\ pc'[t] \in {"wait_R", "try_R"} =>
              numPendingGlobalWrites' > 0 \/ ~R_legal_ignore_greed(n')
    BY <1>1, <1>2 DEF r_legal, w_legal, R_legal, Pending
  <2>2. \A u \in asleep \ {t} :
        /\ pc[u] = "wait_r" => numPendingGlobalWrites' > 0 \/ ~r_legal_ignore_greed(n')
        /\ pc[u] = "wait_w" => numPendingGlobalWrites' > 0 \/ ~w_legal_ignore_greed(n')
        /\ pc[u] \in {"wait_R", "try_R"} => numPendingGlobalWrites' > 0 \/ ~R_legal_ignore_greed(n')
    BY <1>1, <1>3 DEF ReadersWoken, ReadersWait
  <2> QED
    BY <1>1, <1>2, <2>1, <2>2, Zenon DEF ReadersWoken, ReadersWait
<1>4. ASSUME WritersWoken PROVE WritersWoken'
  <2> SUFFICES ASSUME NEW u \in asleep'
               PROVE  /\ pc'[u] \in {"wait_W", "try_W"} =>
                           ~W_legal(n) \/ \E v \in Thread \ asleep' : pc'[v] \in Global
                      /\ pc'[u] = "wait_U" => n.W + n.R + n.w + n.r > 1
                      /\ pc'[u] = "wait_X" => myGeneration[u] = generationXExit
                      /\ pc'[u] = "wait_X" =>
                           \/ ~X_legal(n)
                           \/ generationX # generationXExit
                           \/ \E v \in Thread \ asleep' : pc'[v] = "wait_X"
    BY Zenon DEF WritersWoken, WritersWait
  <2>1. CASE u = t
    BY <1>2, <2>1, Zenon
  <2>2. CASE u # t
    <3>1. u \in asleep /\ pc'[u] = pc[u]
      BY <1>1, <1>2, <2>2, Zenon
    <3>2. pc[u] \in {"wait_W", "try_W"} =>
                           ~W_legal(n) \/ \E v \in Thread \ asleep' : pc'[v] \in Global
      <4> SUFFICES ASSUME pc[u] \in {"wait_W", "try_W"}, W_legal(n)
                   PROVE  \E v \in Thread \ asleep' : pc'[v] \in Global
        BY Zenon
      <4>1. PICK v \in Thread \ asleep : pc[v] \in Global
        BY <1>4, <3>1, Zenon DEF WritersWoken, WritersWait
      <4>2. v # t
        BY <4>1, Zenon DEF Global
      <4> QED
        BY <1>2, <4>1, <4>2, Zenon
    <3>3. pc[u] = "wait_X" =>
                           \/ ~X_legal(n)
                           \/ generationX # generationXExit
                           \/ \E v \in Thread \ asleep' : pc'[v] = "wait_X"
      <4> SUFFICES ASSUME pc[u] = "wait_X", X_legal(n), generationX = generationXExit
                   PROVE  \E v \in Thread \ asleep' : pc'[v] = "wait_X"
        BY Zenon
      <4>1. PICK v \in Thread \ asleep : pc[v] = "wait_X"
        BY <1>4, <3>1, Zenon DEF WritersWoken, WritersWait
      <4>2. v # t
        BY <4>1, Zenon DEF Out
      <4> QED
        BY <1>2, <4>1, <4>2, Zenon
    <3>4. /\ pc[u] = "wait_U" => n.W + n.R + n.w + n.r > 1
          /\ pc[u] = "wait_X" => myGeneration[u] = generationXExit
      BY <1>4, <3>1, Zenon DEF WritersWoken, WritersWait
    <3> QED
      BY <3>1, <3>2, <3>3, <3>4, Zenon
  <2> QED  BY <2>1, <2>2, Zenon
<1> QED
  BY <1>3, <1>4, Zenon

\* A thread that waits for nothing legal leaves its loop without the mode, or
\* stays in it awake.
LEMMA WithdrawWakes ==
    ASSUME TypeOK, NEW t \in Thread, NEW l, Goto(t, l),
           asleep' = asleep \ {t},
           UNCHANGED <<n, generationX, generationXExit, myGeneration>>,
           l \in {"none", "late_R", "late_W", pc[t]},
           pc[t] \in Global => l \in Global \/ ~W_legal(n),
           pc[t] = "wait_X" => l = "wait_X"
    PROVE  /\ ReadersWoken /\ UNCHANGED numPendingGlobalWrites => ReadersWoken'
           /\ WritersWoken => WritersWoken'
<1>1. /\ asleep \subseteq Thread
      /\ pc \in [Thread -> {"none"} \cup Held \cup Waiting]
  BY Zenon DEF TypeOK
<1>2. /\ pc'[t] = l
      /\ \A u \in Thread \ {t} : pc'[u] = pc[u]
  BY <1>1, Zenon DEF Goto
<1>3. ASSUME ReadersWoken, UNCHANGED numPendingGlobalWrites PROVE ReadersWoken'
  BY <1>1, <1>2, <1>3, Zenon DEF ReadersWoken, ReadersWait
<1>4. ASSUME WritersWoken PROVE WritersWoken'
  <2> SUFFICES ASSUME NEW u \in asleep, u # t
               PROVE  /\ pc[u] \in {"wait_W", "try_W"} =>
                           ~W_legal(n) \/ \E v \in Thread \ asleep' : pc'[v] \in Global
                      /\ pc[u] = "wait_U" => n.W + n.R + n.w + n.r > 1
                      /\ pc[u] = "wait_X" => myGeneration[u] = generationXExit
                      /\ pc[u] = "wait_X" =>
                           \/ ~X_legal(n)
                           \/ generationX # generationXExit
                           \/ \E v \in Thread \ asleep' : pc'[v] = "wait_X"
    BY <1>1, <1>2, Zenon DEF WritersWoken, WritersWait
  <2>1. pc[u] \in {"wait_W", "try_W"} =>
                           ~W_legal(n) \/ \E v \in Thread \ asleep' : pc'[v] \in Global
    <3> SUFFICES ASSUME pc[u] \in {"wait_W", "try_W"}, W_legal(n)
                 PROVE  \E v \in Thread \ asleep' : pc'[v] \in Global
      BY Zenon
    <3>1. PICK v \in Thread \ asleep : pc[v] \in Global
      BY <1>4, Zenon DEF WritersWoken, WritersWait
    <3> QED
      BY <1>2, <3>1, Zenon
  <2>2. pc[u] = "wait_X" =>
                           \/ ~X_legal(n)
                           \/ generationX # generationXExit
                           \/ \E v \in Thread \ asleep' : pc'[v] = "wait_X"
    <3> SUFFICES ASSUME pc[u] = "wait_X", X_legal(n), generationX = generationXExit
                 PROVE  \E v \in Thread \ asleep' : pc'[v] = "wait_X"
      BY Zenon
    <3>1. PICK v \in Thread \ asleep : pc[v] = "wait_X"
      BY <1>4, Zenon DEF WritersWoken, WritersWait
    <3> QED
      BY <1>2, <3>1, Zenon
  <2>3. /\ pc[u] = "wait_U" => n.W + n.R + n.w + n.r > 1
        /\ pc[u] = "wait_X" => myGeneration[u] = generationXExit
    BY <1>4, Zenon DEF WritersWoken, WritersWait
  <2> QED
    BY <2>1, <2>2, <2>3, Zenon
<1> QED
  BY <1>3, <1>4, Zenon

\* A thread that waits in R_to_W still counts as a holder of R, which nobody
\* who writes shares with it; and it counts as a pending write.
LEMMA UpgraderHoldsR ==
    ASSUME Inv, NEW u \in Thread, pc[u] = "wait_U"
    PROVE  /\ mode[u] = "R" /\ n.R >= 1 /\ n.U >= 1
           /\ n.w = 0 /\ n.W = 0 /\ n.X = 0
<1> USE DEF Inv
<1>1. mode[u] = "R"
  BY Zenon DEF mode, ModeOf
<1>2. \A v \in Thread : mode[v] \in {"none", "r", "R"}
  BY <1>1, Zenon DEF MutualExclusion, Coexist
<1>3. n.w = 0 /\ n.W = 0 /\ n.X = 0 /\ n.R # 0 /\ n.U # 0
  BY <1>1, <1>2, ZeroModes, Zenon
<1> QED
  BY <1>1, <1>3 DEF TypeOK

\* With no pending write, nobody upgrades.
LEMMA NoUpgrader ==
    ASSUME Inv, ~Pending
    PROVE  n.U = 0
<1> USE DEF Inv
<1>1. numPendingGlobalWrites = 0
  BY DEF Pending, TypeOK
<1>2. \A u \in Thread : pc[u] \notin {"wait_W", "try_W", "late_W", "wait_U"}
  BY <1>1, NumNat, Zenon DEF CountersAgree
<1> QED
  BY <1>2, ZeroModes, Zenon

\* R_to_W puts its thread to sleep as a pending write, or makes it the owner
\* of W, the only upgrader there was.
LEMMA R_to_WWakes ==
    ASSUME Inv, NEW t \in Thread, R_to_W(t)
    PROVE  /\ ReadersWoken => ReadersWoken'
           /\ WritersWoken => WritersWoken'
<1>1. /\ n \in [{"r", "w", "R", "W", "U", "X"} -> Nat] /\ numPendingGlobalWrites \in Nat
      /\ pc \in [Thread -> {"none"} \cup Held \cup Waiting]
      /\ asleep \subseteq Thread
  BY Zenon DEF Inv, TypeOK
<1>2. /\ pc[t] \in {"Rd", "wait_U"}
      /\ UNCHANGED <<generationX, generationXExit, myGeneration>>
  BY Zenon DEF R_to_W, Call, Wake
<1>3. CASE n.W + n.R + n.w + n.r > 1
  <2>1. /\ n' = [n EXCEPT !["U"] = 1]
        /\ numPendingGlobalWrites' >= numPendingGlobalWrites
        /\ numPendingGlobalWrites' \in Nat
        /\ pc' = [pc EXCEPT ![t] = "wait_U"]
        /\ asleep' = asleep \cup {t}
    BY <1>1, <1>3 DEF R_to_W, Goto, Pend
  <2>2. n'.r = n.r /\ n'.w = n.w /\ n'.R = n.R /\ n'.W = n.W /\ n'.X = n.X
    BY <1>1, <2>1, Zenon
  <2>3. /\ pc'[t] = "wait_U"
        /\ \A u \in Thread \ {t} : pc'[u] = pc[u]
    BY <1>1, <2>1, Zenon
  <2>4. /\ r_legal_ignore_greed(n') = r_legal_ignore_greed(n)
        /\ w_legal_ignore_greed(n') = w_legal_ignore_greed(n)
        /\ R_legal_ignore_greed(n') = R_legal_ignore_greed(n)
        /\ W_legal(n') = W_legal(n) /\ X_legal(n') = X_legal(n)
        /\ n'.W + n'.R + n'.w + n'.r > 1
    BY <1>3, <2>2, Zenon DEF r_legal_ignore_greed, w_legal_ignore_greed, R_legal_ignore_greed,
                      W_legal, X_legal
  <2>5. ASSUME ReadersWoken PROVE ReadersWoken'
    <3>1. \A u \in asleep \ {t} :
          /\ pc[u] = "wait_r" => numPendingGlobalWrites' > 0 \/ ~r_legal_ignore_greed(n')
          /\ pc[u] = "wait_w" => numPendingGlobalWrites' > 0 \/ ~w_legal_ignore_greed(n')
          /\ pc[u] \in {"wait_R", "try_R"} =>
                numPendingGlobalWrites' > 0 \/ ~R_legal_ignore_greed(n')
      BY <1>1, <2>1, <2>4, <2>5 DEF ReadersWoken, ReadersWait
    <3> QED
      BY <1>1, <2>1, <2>3, <3>1, Zenon DEF ReadersWoken, ReadersWait
  <2>6. ASSUME WritersWoken PROVE WritersWoken'
    <3>1. \A v \in Thread \ asleep : pc[v] \in Global \cup {"wait_X"} =>
             v \in Thread \ asleep' /\ pc'[v] = pc[v]
      BY <1>2, <2>1, <2>3, Zenon DEF Global
    <3>2. \A u \in asleep' : pc'[u] # "wait_U" => u \in asleep /\ pc'[u] = pc[u]
      BY <1>1, <2>1, <2>3, Zenon
    <3> QED
      BY <1>2, <2>4, <2>6, <3>1, <3>2, Zenon DEF WritersWoken, WritersWait
  <2> QED  BY <2>5, <2>6, Zenon
<1>4. CASE ~(n.W + n.R + n.w + n.r > 1)
  <2>1. /\ n' = [n EXCEPT !["R"] = 0, !["W"] = 1, !["U"] = 0]
        /\ pc' = [pc EXCEPT ![t] = "W"]
        /\ asleep' = asleep
    BY <1>4, Zenon DEF R_to_W, Goto
  <2>2. /\ n'.W = 1
        /\ n'.r \in Nat /\ n'.w \in Nat /\ n'.R \in Nat /\ n'.X \in Nat
    BY <1>1, <2>1, Zenon
  <2>3. /\ ~r_legal_ignore_greed(n') /\ ~w_legal_ignore_greed(n')
        /\ ~R_legal_ignore_greed(n') /\ ~W_legal(n') /\ ~X_legal(n')
    BY <2>2 DEF r_legal_ignore_greed, w_legal_ignore_greed, R_legal_ignore_greed,
                W_legal, X_legal
  <2>4. \A u \in asleep' : pc'[u] # "wait_U" /\ (pc'[u] = "wait_X" => pc[u] = "wait_X")
    BY <1>1, <1>2, <2>1, Zenon DEF Inv, OneUpgrader
  <2> QED
    BY <1>2, <2>1, <2>3, <2>4, Zenon DEF ReadersWoken, ReadersWait, WritersWoken, WritersWait
<1> QED
  BY <1>3, <1>4, Zenon

-----------------------------------------------------------------------------
(* Steps that leave a mode and notify.                                     *)

\* The upgrader is the only thread left in any mode.
OnlyUpgrader(c) == c.U > 0 /\ c.r + c.w + c.W + c.X = 0 /\ c.R = 1

\* What notifyWeUnlocked() promises the sleepers of each condition variable.
LEMMA Notified ==
    ASSUME NEW me \in {"r", "w", "R", "W", "X"}, NEW c, NEW woken \in SUBSET asleep,
           notifyWeUnlocked(me, c, woken)
    PROVE  /\ OnlyUpgrader(c) /\ (\E u \in asleep : pc[u] = "wait_U") =>
                \E v \in woken : pc[v] = "wait_U"
           /\ me = "X" => \A u \in asleep : pc[u] = "wait_X" => u \in woken
           /\ me # "X" /\ ~OnlyUpgrader(c) /\ X_legal(c) /\ (\E u \in asleep : pc[u] = "wait_X") =>
                \E v \in woken : pc[v] = "wait_X"
           /\ ~OnlyUpgrader(c) /\ W_legal(c) /\ (\E u \in asleep : pc[u] \in {"wait_W", "try_W"}) =>
                \E v \in woken : pc[v] \in {"wait_W", "try_W"}
           /\ ~OnlyUpgrader(c) /\ ~Pending =>
                /\ R_legal_ignore_greed(c) /\ i_block(me, "R") =>
                     \A u \in asleep : pc[u] \in {"wait_R", "try_R"} => u \in woken
                /\ w_legal_ignore_greed(c) /\ i_block(me, "w") =>
                     \A u \in asleep : pc[u] = "wait_w" => u \in woken
                /\ r_legal_ignore_greed(c) /\ i_block(me, "r") =>
                     \A u \in asleep : pc[u] = "wait_r" => u \in woken
<1> DEFINE toU == OnlyUpgrader(c)
           toW == ~toU /\ W_legal(c) /\ i_block(me, "W")
           rest == ~toU /\ ~(toW /\ Pending)
<1>1. /\ notify_one("U", toU, woken)
      /\ me = "X" => notify_all("X", TRUE, woken)
      /\ me # "X" => notify_one("X", ~toU /\ X_legal(c) /\ i_block(me, "X"), woken)
      /\ notify_one("W", toW, woken)
      /\ notify_all("R", rest /\ R_legal_ignore_greed(c) /\ i_block(me, "R"), woken)
      /\ notify_all("w", rest /\ w_legal_ignore_greed(c) /\ i_block(me, "w"), woken)
      /\ notify_all("r", rest /\ r_legal_ignore_greed(c) /\ i_block(me, "r"), woken)
  BY Zenon DEF notifyWeUnlocked, OnlyUpgrader
<1>2. i_block(me, "W") /\ i_block(me, "X")
  BY Zenon DEF i_block
<1>3. toU /\ On("U") # {} => \E v \in woken : v \in On("U")
  BY <1>1, Zenon DEF notify_one
<1>4. /\ me = "X" => On("X") \subseteq woken
      /\ me # "X" /\ ~toU /\ X_legal(c) /\ On("X") # {} => \E v \in woken : v \in On("X")
  BY <1>1, <1>2, Zenon DEF notify_one, notify_all
<1>5. ~toU /\ W_legal(c) /\ On("W") # {} => \E v \in woken : v \in On("W")
  BY <1>1, <1>2, Zenon DEF notify_one
<1>6. ~toU /\ ~Pending =>
        /\ R_legal_ignore_greed(c) /\ i_block(me, "R") => On("R") \subseteq woken
        /\ w_legal_ignore_greed(c) /\ i_block(me, "w") => On("w") \subseteq woken
        /\ r_legal_ignore_greed(c) /\ i_block(me, "r") => On("r") \subseteq woken
  BY <1>1, Zenon DEF notify_all
<1> HIDE DEF toU
<1>7. toU /\ (\E u \in asleep : pc[u] = "wait_U") => \E v \in woken : pc[v] = "wait_U"
  BY <1>3, OnLoops, Zenon
<1>8. /\ me = "X" => \A u \in asleep : pc[u] = "wait_X" => u \in woken
      /\ me # "X" /\ ~toU /\ X_legal(c) /\ (\E u \in asleep : pc[u] = "wait_X") =>
            \E v \in woken : pc[v] = "wait_X"
  BY <1>4, OnLoops, Zenon
<1>9. ~toU /\ W_legal(c) /\ (\E u \in asleep : pc[u] \in {"wait_W", "try_W"}) =>
                \E v \in woken : pc[v] \in {"wait_W", "try_W"}
  BY <1>5, OnLoops, Zenon
<1>10. ~toU /\ ~Pending =>
        /\ R_legal_ignore_greed(c) /\ i_block(me, "R") =>
             \A u \in asleep : pc[u] \in {"wait_R", "try_R"} => u \in woken
        /\ w_legal_ignore_greed(c) /\ i_block(me, "w") =>
             \A u \in asleep : pc[u] = "wait_w" => u \in woken
        /\ r_legal_ignore_greed(c) /\ i_block(me, "r") =>
             \A u \in asleep : pc[u] = "wait_r" => u \in woken
  BY <1>6, OnLoops, Zenon
<1> QED
  BY <1>7, <1>8, <1>9, <1>10, Zenon DEF toU

\* A thread that held me leaves the counters at c.  Whoever could not be
\* granted its mode before and can now is among the threads i_block() names; an
\* upgrader that stays behind still holds R and still shares it with no writer.
LEMMA LeaveWakes ==
    ASSUME Inv, NEW t \in Thread, NEW l \in {"none", "Rd", "w", "X"},
           NEW me \in {"r", "w", "R", "W", "X"},
           NEW c \in [{"r", "w", "R", "W", "U", "X"} -> Nat], NEW ok,
           Leave(me, c, ok), Goto(t, l), t \notin asleep \/ pc[t] \in Held,
           UNCHANGED numPendingGlobalWrites, c.U = n.U,
           me # "X" => UNCHANGED generationXExit,
           \A u \in Thread \ {t} : myGeneration'[u] = myGeneration[u],
           r_legal_ignore_greed(c) => r_legal_ignore_greed(n) \/ i_block(me, "r"),
           w_legal_ignore_greed(c) => w_legal_ignore_greed(n) \/ i_block(me, "w"),
           R_legal_ignore_greed(c) => R_legal_ignore_greed(n) \/ i_block(me, "R"),
           \A u \in Thread \ {t} :
              pc[u] = "wait_U" => c.R >= 1 /\ c.w = 0 /\ c.W = 0 /\ c.X = 0
    PROVE  /\ ReadersWoken => ReadersWoken'
           /\ WritersWoken => WritersWoken'
<1>1. /\ numPendingGlobalWrites \in Nat
      /\ pc \in [Thread -> {"none"} \cup Held \cup Waiting]
      /\ asleep \subseteq Thread
  BY Zenon DEF Inv, TypeOK
<1>2. PICK woken \in SUBSET asleep :
         /\ notifyWeUnlocked(me, c, woken)
         /\ asleep' = asleep \ woken
  BY Zenon DEF Leave
<1>3. n' = c
  BY Zenon DEF Leave
<1>4. /\ pc'[t] = l
      /\ \A u \in Thread \ {t} : pc'[u] = pc[u]
  BY <1>1, Zenon DEF Goto
<1>5. \A v \in woken : pc[v] \in Waiting => v # t
  BY <1>2, Zenon DEF Held, Waiting
<1>6. \A v \in woken : pc[v] \in Waiting => v \in Thread \ asleep' /\ pc'[v] = pc[v]
  BY <1>1, <1>2, <1>4, <1>5, Zenon
<1>7. \A u \in asleep' : pc'[u] \in Waiting =>
         u # t /\ u \in asleep /\ u \notin woken /\ pc'[u] = pc[u]
  BY <1>1, <1>2, <1>4, Zenon DEF Waiting
<1>8. ASSUME ReadersWoken PROVE ReadersWoken'
  <2> SUFFICES ASSUME NEW u \in asleep, u \notin woken, ~Pending
               PROVE  /\ pc[u] = "wait_r" => ~r_legal_ignore_greed(c)
                      /\ pc[u] = "wait_w" => ~w_legal_ignore_greed(c)
                      /\ pc[u] \in {"wait_R", "try_R"} => ~R_legal_ignore_greed(c)
    BY <1>3, <1>7, Zenon DEF ReadersWoken, ReadersWait, Pending, Waiting
  <2>1. ~OnlyUpgrader(c)
    BY NoUpgrader DEF OnlyUpgrader
  <2>2. /\ pc[u] = "wait_r" => ~r_legal_ignore_greed(n)
        /\ pc[u] = "wait_w" => ~w_legal_ignore_greed(n)
        /\ pc[u] \in {"wait_R", "try_R"} => ~R_legal_ignore_greed(n)
    BY <1>8, Zenon DEF ReadersWoken, ReadersWait, Pending
  <2> QED
    BY <1>2, <2>1, <2>2, Notified, Zenon
<1>9. ASSUME WritersWoken PROVE WritersWoken'
  <2> SUFFICES ASSUME NEW u \in asleep, u \notin woken, u # t
               PROVE  /\ pc[u] \in {"wait_W", "try_W"} =>
                           ~W_legal(c) \/ \E v \in Thread \ asleep' : pc'[v] \in Global
                      /\ pc[u] = "wait_U" => c.W + c.R + c.w + c.r > 1
                      /\ pc[u] = "wait_X" => myGeneration'[u] = generationXExit'
                      /\ pc[u] = "wait_X" =>
                           ~X_legal(c) \/ \E v \in Thread \ asleep' : pc'[v] = "wait_X"
    BY <1>3, <1>7, Zenon DEF WritersWoken, WritersWait, Waiting
  <2>1. W_legal(c) \/ X_legal(c) => ~OnlyUpgrader(c)
    BY DEF W_legal, X_legal, OnlyUpgrader
  <2>2. pc[u] \in {"wait_W", "try_W"} =>
           ~W_legal(c) \/ \E v \in Thread \ asleep' : pc'[v] \in Global
    <3> SUFFICES ASSUME pc[u] \in {"wait_W", "try_W"}, W_legal(c)
                 PROVE  \E v \in Thread \ asleep' : pc'[v] \in Global
      BY Zenon
    <3>1. PICK v \in woken : pc[v] \in {"wait_W", "try_W"}
      BY <1>2, <2>1, Notified, Zenon
    <3> QED
      BY <1>6, <3>1, Zenon DEF Global, Waiting
  <2>3. pc[u] = "wait_X" => me # "X"
    BY <1>2, Notified, Zenon
  <2>4. pc[u] = "wait_X" =>
           ~X_legal(c) \/ \E v \in Thread \ asleep' : pc'[v] = "wait_X"
    <3> SUFFICES ASSUME pc[u] = "wait_X", X_legal(c)
                 PROVE  \E v \in Thread \ asleep' : pc'[v] = "wait_X"
      BY Zenon
    <3>1. PICK v \in woken : pc[v] = "wait_X"
      BY <1>2, <2>1, <2>3, Notified
    <3> QED
      BY <1>6, <3>1, Zenon DEF Waiting
  <2>5. pc[u] = "wait_X" => myGeneration'[u] = generationXExit'
    BY <1>1, <1>9, <2>3, Zenon DEF WritersWoken, WritersWait
  <2>6. pc[u] = "wait_U" => c.W + c.R + c.w + c.r > 1
    <3> SUFFICES ASSUME pc[u] = "wait_U", ~(c.W + c.R + c.w + c.r > 1)
                 PROVE  FALSE
      BY Zenon
    <3>1. u \in Thread /\ n.U >= 1
      BY <1>1, UpgraderHoldsR, Zenon
    <3>2. c.R >= 1 /\ c.w = 0 /\ c.W = 0 /\ c.X = 0 /\ c.r \in Nat /\ c.R \in Nat
      BY <3>1, Zenon
    <3>3. OnlyUpgrader(c)
      BY <3>1, <3>2 DEF OnlyUpgrader
    <3>4. PICK v \in woken : pc[v] = "wait_U"
      BY <1>2, <3>3, Notified
    <3>5. v = u
      BY <1>1, <3>1, <3>4, Zenon DEF Inv, OneUpgrader
    <3> QED
      BY <3>5, Zenon
  <2> QED
    BY <2>2, <2>4, <2>5, <2>6, Zenon
<1> QED
  BY <1>8, <1>9, Zenon

\* unlock_r, unlock_w, unlock_R, unlock_W.  When R is released beside an
\* upgrader, the upgrader's own R remains.
LEMMA UnlockWakes ==
    ASSUME Inv, NEW t \in Thread,
           unlock_r(t) \/ unlock_w(t) \/ unlock_R(t) \/ unlock_W(t)
    PROVE  /\ ReadersWoken => ReadersWoken'
           /\ WritersWoken => WritersWoken'
<1>1. PICK m \in {"r", "w", "R", "W"} :
        /\ Unlock(t, m, IF m = "R" THEN {"R", "Rd"} ELSE {m}, IF m = "W" THEN n.W = 1 ELSE n[m] > 0)
  BY Zenon DEF unlock_r, unlock_w, unlock_R, unlock_W
<1> DEFINE c == [n EXCEPT ![m] = @ - 1]
           ok == IF m = "W" THEN n.W = 1 ELSE n[m] > 0
<1>2. /\ pc[t] = m \/ (m = "R" /\ pc[t] = "Rd")
      /\ Goto(t, "none")
      /\ UNCHANGED <<numPendingGlobalWrites, generationX, generationXExit, myGeneration, calls>>
      /\ Leave(m, c, ok)
  BY <1>1, Zenon DEF Unlock
<1>3. n[m] > 0 /\ (m = "W" => n.W = 1) /\ (m # "W" => n.W = 0)
  BY <1>2, HeldCount, Zenon
<1>4. mode[t] = m /\ pc[t] \in Held
  BY <1>2, Zenon DEF mode, ModeOf, Held
<1>5. n \in [{"r", "w", "R", "W", "U", "X"} -> Nat]
  BY Zenon DEF Inv, TypeOK
<1>6. /\ c \in [{"r", "w", "R", "W", "U", "X"} -> Nat] /\ c.U = n.U
      /\ m # "r" => c.r = n.r
      /\ m # "w" => c.w = n.w
      /\ m # "R" => c.R = n.R
      /\ m # "W" => c.W = n.W
      /\ c.X = n.X
      /\ m = "R" => c.R = n.R - 1
  BY <1>3, <1>5
<1> HIDE DEF c, ok
<1>7. r_legal_ignore_greed(c) => r_legal_ignore_greed(n) \/ i_block(m, "r")
  BY <1>6, Zenon DEF r_legal_ignore_greed, i_block
<1>8. w_legal_ignore_greed(c) => w_legal_ignore_greed(n) \/ i_block(m, "w")
  BY <1>6, Zenon DEF w_legal_ignore_greed, i_block
<1>9. R_legal_ignore_greed(c) => R_legal_ignore_greed(n) \/ i_block(m, "R")
  BY <1>6, Zenon DEF R_legal_ignore_greed, i_block
<1>10. \A u \in Thread \ {t} :
          pc[u] = "wait_U" => c.R >= 1 /\ c.w = 0 /\ c.W = 0 /\ c.X = 0
  <2> SUFFICES ASSUME NEW u \in Thread \ {t}, pc[u] = "wait_U"
               PROVE  c.R >= 1 /\ c.w = 0 /\ c.W = 0 /\ c.X = 0
    BY Zenon
  <2>1. /\ mode[u] = "R" /\ n.R >= 1
        /\ n.w = 0 /\ n.W = 0 /\ n.X = 0
    BY UpgraderHoldsR, Zenon
  <2>2. m \in {"r", "R"}
    BY <1>3, <2>1
  <2>3. CASE m = "r"
    BY <1>6, <2>1, <2>3, Zenon
  <2>4. CASE m = "R"
    <3>1. n.R # 1
      BY <1>4, <2>1, <2>4, NumOne DEF Inv, CountersAgree
    <3> QED
      BY <1>5, <1>6, <2>1, <2>4, <3>1
  <2> QED  BY <2>2, <2>3, <2>4, Zenon
<1> QED
  BY <1>2, <1>4, <1>6, <1>7, <1>8, <1>9, <1>10, LeaveWakes

\* W_to_R: the readers are let in; nobody else was in any mode.
LEMMA W_to_RWakes ==
    ASSUME Inv, NEW t \in Thread, W_to_R(t)
    PROVE  /\ ReadersWoken => ReadersWoken'
           /\ WritersWoken => WritersWoken'
<1> DEFINE c == [n EXCEPT !["W"] = 0, !["R"] = 1]
           ok == n.W = 1 /\ n.R = 0 /\ n.U = 0
<1>1. /\ pc[t] = "W" /\ Goto(t, "Rd") /\ Leave("W", c, ok)
      /\ UNCHANGED <<numPendingGlobalWrites, generationX, generationXExit, myGeneration>>
  BY Zenon DEF W_to_R, Call
<1>2. mode[t] = "W" /\ pc[t] \in Held
  BY <1>1, Zenon DEF mode, ModeOf, Held
<1>3. n \in [{"r", "w", "R", "W", "U", "X"} -> Nat]
  BY Zenon DEF Inv, TypeOK
<1>4. c \in [{"r", "w", "R", "W", "U", "X"} -> Nat] /\ c.U = n.U
  BY <1>3, Zenon
<1> HIDE DEF c, ok
<1>5. i_block("W", "r") /\ i_block("W", "w") /\ i_block("W", "R")
  BY Zenon DEF i_block
<1>6. \A u \in Thread \ {t} : pc[u] # "wait_U"
  BY <1>2, Alone, UpgraderHoldsR, Zenon
<1> QED
  BY <1>1, <1>2, <1>4, <1>5, <1>6, LeaveWakes, Zenon

\* X_to_w: everybody parked is woken, and those r and w let in again.
LEMMA X_to_wWakes ==
    ASSUME Inv, NEW t \in Thread, X_to_w(t)
    PROVE  /\ ReadersWoken => ReadersWoken'
           /\ WritersWoken => WritersWoken'
<1> DEFINE c == [n EXCEPT !["w"] = n.X, !["X"] = 0]
           ok == n.W = 0 /\ n.R = 0 /\ n.w = 0 /\ n.X > 0
<1>1. /\ pc[t] = "X" /\ Goto(t, "w") /\ Leave("X", c, ok)
      /\ UNCHANGED <<numPendingGlobalWrites, generationX, myGeneration>>
  BY Zenon DEF X_to_w
<1>2. mode[t] = "X" /\ pc[t] \in Held
  BY <1>1, Zenon DEF mode, ModeOf, Held
<1>3. n \in [{"r", "w", "R", "W", "U", "X"} -> Nat]
  BY DEF Inv, TypeOK
<1>4. c \in [{"r", "w", "R", "W", "U", "X"} -> Nat] /\ c.U = n.U
  BY <1>3, Zenon
<1> HIDE DEF c, ok
<1>5. i_block("X", "r") /\ i_block("X", "w") /\ i_block("X", "R")
  BY Zenon DEF i_block
<1>6. \A u \in Thread \ {t} : pc[u] # "wait_U"
  BY <1>2, Alone, UpgraderHoldsR, Zenon
<1> QED
  BY <1>1, <1>2, <1>4, <1>5, <1>6, LeaveWakes, Zenon

\* The first exit of w_to_X: the thread owns X, counted in c.
LEMMA PromoteWakes ==
    ASSUME Inv, NEW t \in Thread, pc[t] = "w" \/ t \notin asleep,
           NEW c \in [{"r", "w", "R", "W", "U", "X"} -> Nat], NEW ok,
           X_legal(c), c.X >= 1, c.R = n.R, c.U = n.U,
           Leave("w", c, ok), Goto(t, "X"),
           myGeneration' = [myGeneration EXCEPT ![t] = 0],
           UNCHANGED <<numPendingGlobalWrites, generationXExit>>
    PROVE  /\ ReadersWoken => ReadersWoken'
           /\ WritersWoken => WritersWoken'
<1>1. t \notin asleep \/ pc[t] \in Held
  BY Zenon DEF Held
<1>2. c.r \in Nat /\ c.w \in Nat /\ c.R \in Nat /\ c.W \in Nat /\ c.X \in Nat
  BY Zenon
<1>3. ~r_legal_ignore_greed(c) /\ ~w_legal_ignore_greed(c) /\ ~R_legal_ignore_greed(c)
  BY <1>2 DEF r_legal_ignore_greed, w_legal_ignore_greed, R_legal_ignore_greed
<1>4. n.R = 0
  BY <1>2, NatSumZero, Zenon DEF X_legal
<1>5. \A u \in Thread \ {t} : pc[u] # "wait_U"
  BY <1>4, UpgraderHoldsR
<1>6. \A u \in Thread \ {t} : myGeneration'[u] = myGeneration[u]
  BY Zenon DEF Inv, TypeOK
<1> QED
  BY <1>1, <1>3, <1>5, <1>6, LeaveWakes, Zenon

\* w_to_X called from "w": the thread owns X, or parks behind a mode that X
\* has to wait for.
LEMMA w_to_XCallWakes ==
    ASSUME Inv, NEW t \in Thread, Call(t, "w_to_X", "w"),
           ToX(t, [n EXCEPT !["X"] = @ + 1, !["w"] = @ - 1], generationX, n.w > 0),
           UNCHANGED <<numPendingGlobalWrites, generationXExit>>
    PROVE  /\ ReadersWoken => ReadersWoken'
           /\ WritersWoken => WritersWoken'
<1> DEFINE c == [n EXCEPT !["X"] = n.X + 1, !["w"] = n.w - 1]
<1>1. /\ pc \in [Thread -> {"none"} \cup Held \cup Waiting]
      /\ asleep \subseteq Thread /\ myGeneration \in [Thread -> Nat]
      /\ n \in [{"r", "w", "R", "W", "U", "X"} -> Nat]
  BY Zenon DEF Inv, TypeOK
<1>2. pc[t] = "w" /\ mode[t] = "w"
  BY Zenon DEF Call, mode, ModeOf
<1>3. n.w > 0 /\ n.R = 0 /\ generationX = generationXExit
  BY <1>2, Alone, NoXWithw, Zenon
<1>4. /\ c \in [{"r", "w", "R", "W", "U", "X"} -> Nat]
      /\ c.R = n.R /\ c.U = n.U /\ c.X >= 1
  BY <1>1, <1>3
<1>5. ToX(t, c, generationX, n.w > 0)
  BY Zenon
<1> HIDE DEF c
<1>6. CASE X_legal(c)
  <2>1. /\ Leave("w", c, n.w > 0 /\ c.w = 0)
        /\ Goto(t, "X") /\ myGeneration' = [myGeneration EXCEPT ![t] = 0]
    BY <1>5, <1>6, Zenon DEF ToX
  <2> QED
    BY <1>2, <1>4, <1>6, <2>1, PromoteWakes, Zenon
<1>7. CASE ~X_legal(c)
  <2>1. /\ pc' = [pc EXCEPT ![t] = "wait_X"] /\ asleep' = asleep \cup {t} /\ n' = c
        /\ myGeneration' = [myGeneration EXCEPT ![t] = generationX]
    BY <1>5, <1>7, Zenon DEF ToX, Goto
  <2>2. c.r \in Nat /\ c.w \in Nat /\ c.R \in Nat /\ c.W \in Nat /\ c.X \in Nat
    BY <1>4, Zenon
  <2>3. /\ ~r_legal_ignore_greed(n') /\ ~w_legal_ignore_greed(n')
        /\ ~R_legal_ignore_greed(n') /\ ~W_legal(n') /\ ~X_legal(n')
    BY <1>4, <1>7, <2>1, <2>2 DEF r_legal_ignore_greed, w_legal_ignore_greed,
                                  R_legal_ignore_greed, W_legal
  <2>4. /\ pc'[t] = "wait_X" /\ myGeneration'[t] = generationXExit
        /\ \A u \in Thread \ {t} : pc'[u] = pc[u] /\ myGeneration'[u] = myGeneration[u]
    BY <1>1, <1>3, <2>1, Zenon
  <2>5. \A u \in Thread : pc[u] # "wait_U"
    BY <1>3, UpgraderHoldsR
  <2>6. ReadersWoken'
    BY <2>3, Zenon DEF ReadersWoken, ReadersWait
  <2>7. ASSUME WritersWoken PROVE WritersWoken'
    <3>1. \A u \in asleep : pc[u] = "wait_X" => myGeneration[u] = generationXExit
      BY <2>7, Zenon DEF WritersWoken, WritersWait
    <3>2. \A u \in asleep' : /\ pc'[u] = "wait_X" => myGeneration'[u] = generationXExit'
                             /\ pc'[u] # "wait_U"
      BY <1>1, <2>1, <2>4, <2>5, <3>1, Zenon
    <3> QED
      BY <2>3, <3>2, Zenon DEF WritersWoken, WritersWait
  <2> QED  BY <2>6, <2>7, Zenon
<1> QED  BY <1>6, <1>7, Zenon

\* A thread woken in w_to_X: it owns X, or its generation is over and it is
\* back in "w", or it sleeps again because X is owned or not legal.
LEMMA w_to_XWakeWakes ==
    ASSUME Inv, NEW t \in Thread, Wake(t, {"wait_X"}),
           ToX(t, n, myGeneration[t], TRUE),
           UNCHANGED <<numPendingGlobalWrites, generationXExit>>
    PROVE  /\ ReadersWoken => ReadersWoken'
           /\ WritersWoken => WritersWoken'
<1>1. /\ pc \in [Thread -> {"none"} \cup Held \cup Waiting]
      /\ asleep \subseteq Thread /\ myGeneration \in [Thread -> Nat]
      /\ n \in [{"r", "w", "R", "W", "U", "X"} -> Nat]
      /\ generationX \in Nat /\ generationXExit \in Nat
  BY Zenon DEF Inv, TypeOK
<1>2. pc[t] = "wait_X" /\ t \notin asleep
  BY Zenon DEF Wake
<1>3. /\ myGeneration[t] <= generationXExit
      /\ generationX = generationXExit \/ generationX = generationXExit + 1
  BY <1>2, Zenon DEF Inv, GenerationsAgree
<1>4. CASE myGeneration[t] = generationX /\ X_legal(n)
  <2>1. /\ Leave("w", n, TRUE /\ n.w = 0)
        /\ Goto(t, "X") /\ myGeneration' = [myGeneration EXCEPT ![t] = 0]
    BY <1>4, Zenon DEF ToX
  <2>2. myGeneration[t] = generationXExit
    BY <1>1, <1>3, <1>4
  <2>3. mode[t] = "parked"
    BY <1>2, <2>2, Zenon DEF mode, ModeOf
  <2>4. n.X >= 1
    <3>1. n.X # 0
      BY <2>3, ZeroModes, Zenon DEF Inv
    <3> QED  BY <1>1, <3>1
  <2> QED
    BY <1>1, <1>2, <1>4, <2>1, <2>4, PromoteWakes, Zenon
<1>5. CASE myGeneration[t] # generationX /\ myGeneration[t] # generationXExit
  <2>1. /\ pc' = [pc EXCEPT ![t] = "w"] /\ n' = n /\ UNCHANGED <<generationX, asleep>>
        /\ myGeneration' = [myGeneration EXCEPT ![t] = 0]
    BY <1>5, Zenon DEF ToX, Goto
  <2>2. \A u \in Thread \ {t} : pc'[u] = pc[u] /\ myGeneration'[u] = myGeneration[u]
    BY <1>1, <2>1, Zenon
  <2>3. mode[t] = "w"
    BY <1>2, <1>5, Zenon DEF mode, ModeOf
  <2>4. ~X_legal(n)
    <3>1. n.w > 0
      BY <2>3, Alone, Zenon
    <3> QED
      BY <1>1, <3>1 DEF X_legal
  <2>5. \A u \in asleep : u \in Thread \ {t}
    BY <1>1, <1>2, Zenon
  <2>6. ReadersWoken => ReadersWoken'
    BY <2>1, <2>2, <2>5, Zenon DEF ReadersWoken, ReadersWait
  <2>7. ASSUME WritersWoken PROVE WritersWoken'
    <3>1. \A v \in Thread : pc[v] \in Global => pc'[v] = pc[v]
      BY <1>2, <2>2, Zenon DEF Global
    <3> QED
      BY <2>1, <2>2, <2>4, <2>5, <2>7, <3>1, Zenon DEF WritersWoken, WritersWait
  <2> QED  BY <2>6, <2>7, Zenon
<1>6. CASE /\ ~(myGeneration[t] = generationX /\ X_legal(n))
           /\ ~(myGeneration[t] # generationX /\ myGeneration[t] # generationXExit)
  <2>1. /\ pc' = [pc EXCEPT ![t] = "wait_X"] /\ asleep' = asleep \cup {t} /\ n' = n
        /\ myGeneration' = [myGeneration EXCEPT ![t] = myGeneration[t]]
        /\ UNCHANGED generationX
    BY <1>6, Zenon DEF ToX, Goto
  <2>2. pc' = pc /\ myGeneration' = myGeneration
    BY <1>1, <1>2, <2>1, Zenon
  <2>3. myGeneration[t] = generationXExit
    BY <1>1, <1>3, <1>6
  <2>4. ~X_legal(n) \/ generationX # generationXExit
    BY <1>6, <2>3, Zenon
  <2>5. ReadersWoken => ReadersWoken'
    BY <1>2, <2>1, <2>2, Zenon DEF ReadersWoken, ReadersWait
  <2>6. ASSUME WritersWoken PROVE WritersWoken'
    <3>1. \A v \in Thread \ asleep : pc[v] \in Global => v \in Thread \ asleep'
      BY <1>2, <2>1, Zenon DEF Global
    <3> QED
      BY <1>2, <2>1, <2>2, <2>3, <2>4, <2>6, <3>1, Zenon DEF WritersWoken, WritersWait
  <2> QED  BY <2>5, <2>6
<1> QED  BY <1>4, <1>5, <1>6, Zenon

-----------------------------------------------------------------------------
(* The loops.                                                              *)

\* The condition of the loops of lock_r, lock_w, and lock_R and lock_R_try.
Legal(m) == CASE m = "r" -> r_legal [] m = "w" -> w_legal [] m = "R" -> R_legal

LEMMA WaitForWakes ==
    ASSUME Inv, NEW t \in Thread, NEW m \in {"r", "w", "R"},
           NEW loop \in {"wait_r", "wait_w", "wait_R", "try_R"},
           loop = "wait_r" <=> m = "r",
           loop = "wait_w" <=> m = "w",
           pc[t] \in {"none", loop}, calls' \in 0..MaxCalls,
           WaitFor(t, m, Legal(m), loop)
    PROVE  /\ ReadersWoken => ReadersWoken'
           /\ WritersWoken => WritersWoken'
<1>1. /\ TypeOK /\ asleep \subseteq Thread /\ numPendingGlobalWrites \in Nat /\ aborted = FALSE
      /\ UNCHANGED <<numPendingGlobalWrites, generationX, generationXExit, myGeneration>>
  BY Zenon DEF Inv, TypeOK, NeverAborts, WaitFor
<1>2. pc[t] \in Out /\ pc[t] \notin Global
  BY Zenon DEF Out, Global
<1>3. CASE Legal(m)
  <2>1. /\ n' = [n EXCEPT ![m] = @ + 1] /\ Goto(t, m) /\ UNCHANGED <<asleep, aborted>>
    BY <1>3, Zenon DEF WaitFor
  <2>2. \/ m = "r" /\ r_legal_ignore_greed(n)
        \/ m = "w" /\ w_legal_ignore_greed(n)
        \/ m = "R" /\ R_legal_ignore_greed(n)
    BY <1>3, Zenon DEF Legal, r_legal, w_legal, R_legal
  <2>3. Grants(t, m)
    BY <1>1, <1>2, <2>1, <2>2 DEF Grants
  <2> QED
    BY <1>1, <1>2, <2>1, <2>3, GrantWakes, Zenon
<1>4. CASE ~Legal(m)
  <2>1. Goto(t, loop) /\ asleep' = asleep \cup {t} /\ n' = n
    BY <1>4, Zenon DEF WaitFor, Sleep
  <2>2. /\ loop = "wait_r" => ~r_legal
        /\ loop = "wait_w" => ~w_legal
        /\ loop \in {"wait_R", "try_R"} => ~R_legal
    BY <1>4, Zenon DEF Legal
  <2> QED
    BY <1>1, <1>2, <2>1, <2>2, SleepWakes
<1> QED  BY <1>3, <1>4, Zenon

LEMMA ReadWakes ==
    ASSUME Inv, NEW t \in Thread,
           lock_r(t) \/ lock_w(t) \/ lock_R(t) \/ lock_R_try(t)
    PROVE  /\ ReadersWoken => ReadersWoken'
           /\ WritersWoken => WritersWoken'
<1>1. calls' \in 0..MaxCalls
  BY MaxCallsAssumption DEF lock_r, lock_w, lock_R, lock_R_try, Call, Wake, Inv, TypeOK
<1>2. CASE lock_r(t)
  <2>1. pc[t] \in {"none", "wait_r"} /\ WaitFor(t, "r", Legal("r"), "wait_r")
    BY <1>2, Zenon DEF lock_r, Call, Wake, Legal
  <2> QED  BY <1>1, <2>1, WaitForWakes, Zenon
<1>3. CASE lock_w(t)
  <2>1. pc[t] \in {"none", "wait_w"} /\ WaitFor(t, "w", Legal("w"), "wait_w")
    BY <1>3, Zenon DEF lock_w, Call, Wake, Legal
  <2> QED  BY <1>1, <2>1, WaitForWakes, Zenon
<1>4. CASE lock_R(t)
  <2>1. pc[t] \in {"none", "wait_R"} /\ WaitFor(t, "R", Legal("R"), "wait_R")
    BY <1>4, Zenon DEF lock_R, Call, Wake, Legal
  <2> QED  BY <1>1, <2>1, WaitForWakes, Zenon
<1>5. CASE lock_R_try(t)
  <2>1. pc[t] \in {"none", "try_R"} /\ WaitFor(t, "R", Legal("R"), "try_R")
    BY <1>5, Zenon DEF lock_R_try, Call, Wake, Legal
  <2> QED  BY <1>1, <2>1, WaitForWakes, Zenon
<1> QED
  BY <1>2, <1>3, <1>4, <1>5, Zenon

LEMMA lock_R_try_endWakes ==
    ASSUME Inv, NEW t \in Thread, lock_R_try_end(t)
    PROVE  /\ ReadersWoken => ReadersWoken'
           /\ WritersWoken => WritersWoken'
<1>1. /\ TypeOK /\ asleep \subseteq Thread /\ numPendingGlobalWrites \in Nat /\ aborted = FALSE
      /\ calls' \in 0..MaxCalls /\ pc[t] = "late_R" /\ t \notin asleep
      /\ UNCHANGED <<numPendingGlobalWrites, generationX, generationXExit,
                     asleep, myGeneration, aborted>>
  BY Zenon DEF Inv, TypeOK, NeverAborts, lock_R_try_end, Wake
<1>2. pc[t] \in Out /\ pc[t] \notin Global
  BY <1>1, Zenon DEF Out, Global
<1>3. CASE R_legal
  <2>1. n' = [n EXCEPT !["R"] = @ + 1] /\ Goto(t, "R") /\ R_legal_ignore_greed(n)
    BY <1>3, Zenon DEF lock_R_try_end, R_legal
  <2>2. Grants(t, "R")
    BY <1>1, <1>2, <2>1 DEF Grants
  <2> QED
    BY <1>1, <1>2, <2>2, GrantWakes, Zenon
<1>4. CASE ~R_legal
  <2>1. n' = n /\ Goto(t, "none") /\ asleep' = asleep \ {t}
    BY <1>1, <1>4, Zenon DEF lock_R_try_end
  <2> QED
    BY <1>1, <1>2, <2>1, WithdrawWakes, Zenon
<1> QED  BY <1>3, <1>4, Zenon

LEMMA lock_WWakes ==
    ASSUME Inv, NEW t \in Thread, lock_W(t) \/ lock_W_try(t)
    PROVE  /\ ReadersWoken => ReadersWoken'
           /\ WritersWoken => WritersWoken'
<1>1. PICK loop \in {"wait_W", "try_W"} :
        pc[t] \in {"none", loop} /\ calls' \in 0..MaxCalls /\ WaitForW(t, loop)
  BY MaxCallsAssumption DEF lock_W, lock_W_try, Call, Wake, Inv, TypeOK
<1>2. /\ TypeOK /\ asleep \subseteq Thread /\ numPendingGlobalWrites \in Nat /\ aborted = FALSE
      /\ UNCHANGED <<generationX, generationXExit, myGeneration>>
  BY <1>1, Zenon DEF Inv, TypeOK, NeverAborts, WaitForW
<1>3. pc[t] \in Out /\ loop \in Global /\ (pc[t] \in Global <=> pc[t] # "none")
  BY <1>1, Zenon DEF Out, Global
<1>4. CASE W_legal(n)
  <2>1. /\ n' = [n EXCEPT !["W"] = @ + 1] /\ Goto(t, "W") /\ asleep' = asleep
        /\ Pend(IF pc[t] = "none" THEN 0 ELSE -1)
        /\ aborted' = (loop = "try_W" /\ n'.W # 1)
    BY <1>1, <1>4, Zenon DEF WaitForW
  <2>2. aborted' = FALSE
    BY <1>4, <2>1, W_legalCount, Zenon
  <2>3. numPendingGlobalWrites' = numPendingGlobalWrites - (IF pc[t] \in Global THEN 1 ELSE 0)
    BY <1>2, <1>3, <2>1 DEF Pend
  <2>4. Grants(t, "W")
    BY <1>1, <1>2, <1>3, <1>4, <2>1, <2>2, <2>3, Zenon DEF Grants
  <2> QED
    BY <1>2, <2>1, <2>4, GrantWakes, Zenon
<1>5. CASE ~W_legal(n)
  <2>1. /\ Goto(t, loop) /\ asleep' = asleep \cup {t} /\ n' = n
        /\ numPendingGlobalWrites' >= numPendingGlobalWrites
        /\ numPendingGlobalWrites' \in Nat
    BY <1>1, <1>2, <1>5 DEF WaitForW, Sleep, Pend
  <2> QED
    BY <1>1, <1>2, <1>3, <1>5, <2>1, SleepWakes, Zenon
<1> QED  BY <1>4, <1>5, Zenon

\* The last test of lock_W_try.  The threads that wait for W lose nothing when
\* it fails: W is not legal then.
LEMMA lock_W_try_endWakes ==
    ASSUME Inv, NEW t \in Thread, lock_W_try_end(t)
    PROVE  WritersWoken => WritersWoken'
<1>1. /\ TypeOK /\ asleep \subseteq Thread /\ numPendingGlobalWrites \in Nat /\ aborted = FALSE
      /\ calls' \in 0..MaxCalls /\ pc[t] = "late_W" /\ t \notin asleep /\ Pend(-1)
      /\ UNCHANGED <<generationX, generationXExit, asleep, myGeneration>>
  BY Zenon DEF Inv, TypeOK, NeverAborts, lock_W_try_end, Wake
<1>2. pc[t] \in Out /\ pc[t] \in Global
  BY <1>1, Zenon DEF Out, Global
<1>3. CASE W_legal(n)
  <2>1. n' = [n EXCEPT !["W"] = @ + 1] /\ Goto(t, "W") /\ aborted' = (n'.W # 1)
    BY <1>3, Zenon DEF lock_W_try_end
  <2>2. aborted' = FALSE
    BY <1>3, <2>1, W_legalCount, Zenon
  <2>3. Grants(t, "W")
    BY <1>1, <1>2, <1>3, <2>1, <2>2, Zenon DEF Grants, Pend
  <2> QED
    BY <1>1, <2>3, GrantWakes, Zenon
<1>4. CASE ~W_legal(n)
  <2>1. n' = n /\ Goto(t, "none") /\ asleep' = asleep \ {t}
    BY <1>1, <1>4, Zenon DEF lock_W_try_end
  <2> QED
    BY <1>1, <1>4, <2>1, WithdrawWakes, Zenon
<1> QED  BY <1>3, <1>4, Zenon

\* A deadline passes, or wait() returns by itself.
LEMMA AwakeWakes ==
    ASSUME Inv, NEW t \in Thread, Expire(t) \/ SpuriousWakeup(t)
    PROVE  /\ ReadersWoken => ReadersWoken'
           /\ WritersWoken => WritersWoken'
<1>1. /\ TypeOK /\ asleep' = asleep \ {t}
      /\ UNCHANGED <<n, numPendingGlobalWrites, generationX, generationXExit, myGeneration>>
  BY Zenon DEF Inv, Expire, SpuriousWakeup
<1>2. CASE Expire(t)
  <2>1. PICK l \in {"late_R", "late_W"} :
          Goto(t, l) /\ pc[t] = IF l = "late_R" THEN "try_R" ELSE "try_W"
    BY <1>2, Zenon DEF Expire
  <2>2. (pc[t] \in Global => l \in Global) /\ pc[t] # "wait_X"
    BY <2>1, Zenon DEF Global
  <2> QED
    BY <1>1, <2>1, <2>2, WithdrawWakes, Zenon
<1>3. CASE SpuriousWakeup(t)
  <2>1. Goto(t, pc[t])
    BY <1>1, <1>3, Zenon DEF SpuriousWakeup, Goto, TypeOK
  <2> QED
    BY <1>1, <2>1, WithdrawWakes, Zenon
<1> QED  BY <1>2, <1>3, Zenon

-----------------------------------------------------------------------------
(* The theorems.                                                           *)

LEMMA InitWoken ==
    ASSUME Init
    PROVE  ReadersWoken /\ WritersWoken /\ NoTryW
  BY Zenon DEF Init, ReadersWoken, ReadersWait, WritersWoken, WritersWait, NoTryW

\* Every step but the end of lock_W_try keeps the readers' half, and every step
\* keeps the writers' half.
LEMMA NextWoken ==
    ASSUME Inv, [Next]_vars
    PROVE  /\ ReadersWoken => ReadersWoken' \/ \E t \in Thread : lock_W_try_end(t)
           /\ WritersWoken => WritersWoken'
<1>1. CASE UNCHANGED vars
  BY <1>1, Zenon DEF vars, ReadersWoken, WritersWoken
<1>2. CASE Next
  <2> PICK t \in Thread :
         \/ lock_r(t) \/ lock_w(t) \/ lock_R(t) \/ lock_R_try(t) \/ lock_R_try_end(t)
         \/ lock_W(t) \/ lock_W_try(t) \/ lock_W_try_end(t) \/ Expire(t)
         \/ W_to_R(t) \/ R_to_W(t) \/ w_to_X(t) \/ X_to_w(t)
         \/ unlock_r(t) \/ unlock_w(t) \/ unlock_R(t) \/ unlock_W(t)
         \/ SpuriousWakeup(t)
    BY <1>2, Zenon DEF Next
  <2>1. CASE lock_r(t) \/ lock_w(t) \/ lock_R(t) \/ lock_R_try(t)
    BY <2>1, ReadWakes, Zenon
  <2>2. CASE lock_R_try_end(t)           BY <2>2, lock_R_try_endWakes, Zenon
  <2>3. CASE lock_W(t) \/ lock_W_try(t)  BY <2>3, lock_WWakes, Zenon
  <2>4. CASE lock_W_try_end(t)           BY <2>4, lock_W_try_endWakes, Zenon
  <2>5. CASE Expire(t) \/ SpuriousWakeup(t)  BY <2>5, AwakeWakes, Zenon
  <2>6. CASE W_to_R(t)                   BY <2>6, W_to_RWakes, Zenon
  <2>7. CASE R_to_W(t)                   BY <2>7, R_to_WWakes, Zenon
  <2>8. CASE w_to_X(t)
    BY <2>8, w_to_XCallWakes, w_to_XWakeWakes, Zenon DEF w_to_X
  <2>9. CASE X_to_w(t)                   BY <2>9, X_to_wWakes, Zenon
  <2>10. CASE unlock_r(t) \/ unlock_w(t) \/ unlock_R(t) \/ unlock_W(t)
    BY <2>10, UnlockWakes, Zenon
  <2> QED
    BY <2>1, <2>2, <2>3, <2>4, <2>5, <2>6, <2>7, <2>8, <2>9, <2>10
<1> QED  BY <1>1, <1>2, Zenon

\* Where lock_W_try is not an entry point, nobody is ever inside it.
LEMMA NextNoTryW ==
    ASSUME "lock_W_try" \notin Ops, TypeOK, NoTryW, [Next]_vars
    PROVE  NoTryW'
<1>1. CASE UNCHANGED vars
  BY <1>1, Zenon DEF vars, NoTryW
<1>2. CASE Next
  <2>1. PICK t \in Thread :
         \/ lock_r(t) \/ lock_w(t) \/ lock_R(t) \/ lock_R_try(t) \/ lock_R_try_end(t)
         \/ lock_W(t) \/ lock_W_try(t) \/ lock_W_try_end(t) \/ Expire(t)
         \/ W_to_R(t) \/ R_to_W(t) \/ w_to_X(t) \/ X_to_w(t)
         \/ unlock_r(t) \/ unlock_w(t) \/ unlock_R(t) \/ unlock_W(t)
         \/ SpuriousWakeup(t)
    BY <1>2, Zenon DEF Next
  <2>2. ~lock_W_try(t) /\ ~lock_W_try_end(t)
    BY Zenon DEF lock_W_try, lock_W_try_end, Call, Wake, NoTryW
  <2>3. pc[t] # "try_W" /\ pc[t] # "late_W"
    BY Zenon DEF NoTryW
  <2>4. \E l : pc' = [pc EXCEPT ![t] = l] /\ l # "try_W" /\ l # "late_W"
    <3>1. CASE lock_r(t) \/ lock_w(t) \/ lock_R(t) \/ lock_R_try(t) \/ lock_R_try_end(t)
      BY <3>1, Zenon DEF lock_r, lock_w, lock_R, lock_R_try, lock_R_try_end, WaitFor, Sleep, Goto
    <3>2. CASE lock_W(t)
      BY <3>2, Zenon DEF lock_W, WaitForW, Sleep, Goto
    <3>3. CASE Expire(t)
      BY <2>3, <3>3, Zenon DEF Expire, Goto
    <3>4. CASE W_to_R(t) \/ R_to_W(t) \/ X_to_w(t)
      BY <3>4, Zenon DEF W_to_R, R_to_W, X_to_w, Goto
    <3>5. CASE w_to_X(t)
      BY <3>5, Zenon DEF w_to_X, ToX, Goto
    <3>6. CASE unlock_r(t) \/ unlock_w(t) \/ unlock_R(t) \/ unlock_W(t)
      BY <3>6, Zenon DEF unlock_r, unlock_w, unlock_R, unlock_W, Unlock, Goto
    <3>7. CASE SpuriousWakeup(t)
      <4>1. pc' = [pc EXCEPT ![t] = pc[t]]
        BY <3>7, Zenon DEF SpuriousWakeup, TypeOK
      <4> QED  BY <2>3, <4>1, Zenon
    <3> QED
      BY <2>1, <2>2, <3>1, <3>2, <3>3, <3>4, <3>5, <3>6, <3>7
  <2> QED
    BY <2>4, Zenon DEF NoTryW, TypeOK
<1> QED  BY <1>1, <1>2, Zenon

\* For any threads and any use of the lock, nobody who waits for W, for X or for
\* the upgrade to W is forgotten by notifyWeUnlocked().
THEOREM WritersNeverForgotten == Spec => []WritersWoken
<1>1. Init => WritersWoken
  BY InitWoken, Zenon
<1>2. Inv /\ WritersWoken /\ [Next]_vars => WritersWoken'
  BY NextWoken, Zenon
<1> QED
  BY <1>1, <1>2, Invariance, PTL DEF Spec

\* As long as nobody calls lock_W_try(), no thread at all sleeps through its
\* turn, for any threads, any other entry points and any number of calls.  With
\* lock_W_try() the readers' half fails: the call withdraws its pending write
\* after the deadline without a notification.
THEOREM NobodyForgotten ==
    ASSUME "lock_W_try" \notin Ops
    PROVE  Spec => []NoLostWakeup
<1>1. Init => ReadersWoken /\ NoTryW
  BY InitWoken, Zenon
<1>2. Inv /\ NoTryW /\ [Next]_vars => NoTryW'
  BY NextNoTryW, Zenon DEF Inv
<1>3. Inv /\ NoTryW /\ ReadersWoken /\ [Next]_vars => ReadersWoken'
  <2>1. NoTryW => \A t \in Thread : ~lock_W_try_end(t)
    BY Zenon DEF NoTryW, lock_W_try_end, Wake
  <2> QED
    BY <2>1, NextWoken, Zenon
<1>4. Inv /\ ReadersWoken /\ WritersWoken => NoLostWakeup
  BY BothHalves, Zenon DEF Inv
<1> QED
  BY <1>1, <1>2, <1>3, <1>4, Invariance, WritersNeverForgotten, PTL DEF Spec

=============================================================================
