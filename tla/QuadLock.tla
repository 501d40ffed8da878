------------------------------ MODULE QuadLock ------------------------------
(***************************************************************************)
(* What the "Quad Lock" of util/concurrency/qlock.h promises: the table of *)
(* compatible modes in its class comment, NOTE(!) on the X mode, and the   *)
(* two conversions W -> R and R -> W.  No counters, no condition           *)
(* variables and no generations: only the mode each thread holds.          *)
(***************************************************************************)
CONSTANT Thread

VARIABLE held      \* the mode of each thread

\* "parked": the thread is inside w_to_X() and has given up "w".
Mode == {"none", "r", "w", "R", "W", "X", "parked"}

\* The rows of the table: the modes around which a request can be granted.
\* A parked thread stands in the X column, as it does in X.n.
Allows(m) == CASE m = "r" -> {"none", "r", "w", "R"}
               [] m = "w" -> {"none", "r", "w"}
               [] m = "R" -> {"none", "r", "R"}
               [] m = "W" -> {"none"}
               [] m = "X" -> {"none", "parked"}

Others(t) == {held[u] : u \in Thread \ {t}}

Init == held = [t \in Thread |-> "none"]

Acquire(t, m) ==
    /\ held[t] = "none"
    /\ Others(t) \subseteq Allows(m)
    /\ held' = [held EXCEPT ![t] = m]

Release(t) ==
    /\ held[t] \in {"r", "w", "R", "W"}
    /\ held' = [held EXCEPT ![t] = "none"]

Downgrade(t) ==
    /\ held[t] = "W"
    /\ held' = [held EXCEPT ![t] = "R"]

Upgrade(t) ==
    /\ held[t] = "R"
    /\ Others(t) \subseteq Allows("W")
    /\ held' = [held EXCEPT ![t] = "W"]

Park(t) ==
    /\ held[t] = "w"
    /\ held' = [held EXCEPT ![t] = "parked"]

\* All threads in "w" are parked: one of them is released in X, perhaps the
\* very one whose call parked the last of them.
Promote(t) ==
    /\ held[t] \in {"w", "parked"}
    /\ Others(t) \subseteq Allows("X")
    /\ held' = [held EXCEPT ![t] = "X"]

\* X_to_w() brings the owner of X and every parked thread back to "w".
Unpark(t) ==
    /\ held[t] = "X"
    /\ held' = [u \in Thread |-> IF held[u] \in {"X", "parked"} THEN "w"
                                 ELSE held[u]]

Next == \E t \in Thread :
           \/ \E m \in {"r", "w", "R", "W"} : Acquire(t, m)
           \/ Release(t) \/ Downgrade(t) \/ Upgrade(t)
           \/ Park(t) \/ Promote(t) \/ Unpark(t)

Spec == Init /\ [][Next]_held
=============================================================================
