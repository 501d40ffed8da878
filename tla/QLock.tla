-------------------------------- MODULE QLock --------------------------------
(***************************************************************************)
(* class QLock (util/concurrency/qlock.h), the global lock of mongod.      *)
(*                                                                         *)
(* The counters r, w, R, W, U, X of the code are the fields of n.  A       *)
(* condition variable is the set of the threads asleep on it: pc says in   *)
(* which loop a thread is, asleep whether it is inside wait().  Every      *)
(* action is one critical section of the mutex m, from the call or the     *)
(* return of wait() to the next wait() or the end of the call.             *)
(***************************************************************************)
EXTENDS Integers, FiniteSets

CONSTANTS Thread,      \* the threads that use the lock
          Ops,         \* the entry points those threads call
          MaxCalls     \* bound on the calls that acquire or convert

AllOps == {"lock_r", "lock_w", "lock_R", "lock_R_try", "lock_W", "lock_W_try",
           "W_to_R", "R_to_W", "w_to_X"}

ASSUME ThreadAssumption == IsFiniteSet(Thread)
ASSUME OpsAssumption == Ops \subseteq AllOps
ASSUME MaxCallsAssumption == MaxCalls \in Nat

VARIABLES n,                       \* the six counters
          numPendingGlobalWrites,
          generationX,
          generationXExit,
          pc,                      \* mode held, or loop the thread waits in
          asleep,                  \* threads inside wait() or timed_wait()
          myGeneration,            \* the local of w_to_X(), 0 outside it
          aborted,                 \* a fassert has failed
          calls

vars == <<n, numPendingGlobalWrites, generationX, generationXExit, pc, asleep,
          myGeneration, aborted, calls>>

\* "Rd" is R reached by W_to_R().  "late_R" and "late_W" are the try loops
\* once curTimeMillis64() has passed end.
Held    == {"r", "w", "R", "Rd", "W", "X"}
Waiting == {"wait_r", "wait_w", "wait_R", "try_R", "late_R", "wait_W", "try_W",
            "late_W", "wait_U", "wait_X"}

-----------------------------------------------------------------------------
(* Legality of each mode, over a value c of the counters.                  *)

Pending == numPendingGlobalWrites > 0

W_legal(c) == c.r + c.w + c.R + c.W + c.X = 0
\* Slip: forgets the writers that have not reached w_to_X.
X_legal_slip(c) == c.r + c.R + c.W = 0
X_legal(c) == c.w + c.r + c.R + c.W = 0
R_legal_ignore_greed(c) == c.w + c.W + c.X = 0
\* Slips: forget the threads in or waiting for X.
w_legal_slip(c) == c.R + c.W = 0
w_legal_ignore_greed(c) == c.R + c.W + c.X = 0
r_legal_slip(c) == c.W = 0
r_legal_ignore_greed(c) == c.W + c.X = 0

R_legal == ~Pending /\ R_legal_ignore_greed(n)
w_legal == ~Pending /\ w_legal_ignore_greed(n)
r_legal == ~Pending /\ r_legal_ignore_greed(n)

\* Slips: an owner of r is taken not to block X; an owner of X not to block w.
i_block_slip_r(me, them) == (me = "r" /\ them = "W") \/ (me # "r" /\ me # them)
i_block_slip_X(me, them) == me = "W" \/ (me = "X" /\ them # "w") \/ them \in {"W", "X"}

i_block(me, them) ==
    CASE me \in {"W", "X"} -> TRUE
      [] me = "R" -> them \in {"W", "w", "X"}
      [] me = "w" -> them \in {"W", "R", "X"}
      [] me = "r" -> them \in {"W", "X"}

-----------------------------------------------------------------------------
(* Condition variables.                                                    *)

On(c) == {t \in asleep :
            pc[t] \in CASE c = "r" -> {"wait_r"}
                        [] c = "w" -> {"wait_w"}
                        [] c = "R" -> {"wait_R", "try_R"}
                        [] c = "W" -> {"wait_W", "try_W"}
                        [] c = "U" -> {"wait_U"}
                        [] c = "X" -> {"wait_X"}}

\* notify_one and notify_all when the condition cond holds, none otherwise;
\* woken is the set of threads the whole section wakes.
notify_one(c, cond, woken) ==
    IF cond /\ On(c) # {} THEN \E t \in On(c) : woken \cap On(c) = {t}
                          ELSE woken \cap On(c) = {}

notify_all(c, cond, woken) ==
    woken \cap On(c) = IF cond THEN On(c) ELSE {}

\* The threads woken when a holder of me leaves the counters at c.
notifyWeUnlocked(me, c, woken) ==
    LET toU == c.U > 0 /\ c.r + c.w + c.W + c.X = 0 /\ c.R = 1
        toW == ~toU /\ W_legal(c) /\ i_block(me, "W")
        rest == ~toU /\ ~(toW /\ Pending)
    IN  /\ notify_one("U", toU, woken)
        /\ IF me = "X"
           THEN notify_all("X", TRUE, woken)
           ELSE notify_one("X", ~toU /\ X_legal(c) /\ i_block(me, "X"), woken)
        /\ notify_one("W", toW, woken)
        /\ notify_all("R", rest /\ R_legal_ignore_greed(c) /\ i_block(me, "R"), woken)
        /\ notify_all("w", rest /\ w_legal_ignore_greed(c) /\ i_block(me, "w"), woken)
        /\ notify_all("r", rest /\ r_legal_ignore_greed(c) /\ i_block(me, "r"), woken)

\* The counters become c, fassert(16201) of notifyWeUnlocked and the fasserts
\* ok of the caller are evaluated, and some set of sleepers is woken.
Leave(me, c, ok) ==
    /\ n' = c
    /\ aborted' = ~(ok /\ c.W = 0)
    /\ \E woken \in SUBSET asleep :
          /\ notifyWeUnlocked(me, c, woken)
          /\ asleep' = asleep \ woken

-----------------------------------------------------------------------------
\* Types; no counter of the code ever goes below zero.
TypeOK ==
    /\ n \in [{"r", "w", "R", "W", "U", "X"} -> Nat]
    /\ numPendingGlobalWrites \in Nat
    /\ generationX \in Nat /\ generationXExit \in Nat
    /\ pc \in [Thread -> {"none"} \cup Held \cup Waiting]
    /\ asleep \subseteq Thread
    /\ myGeneration \in [Thread -> Nat]
    /\ aborted \in BOOLEAN
    /\ calls \in 0..MaxCalls

Init ==
    /\ n = [m \in {"r", "w", "R", "W", "U", "X"} |-> 0]
    /\ numPendingGlobalWrites = 0
    /\ generationX = 0 /\ generationXExit = 0
    /\ pc = [t \in Thread |-> "none"]
    /\ asleep = {}
    /\ myGeneration = [t \in Thread |-> 0]
    /\ aborted = FALSE
    /\ calls = 0

\* A thread in state from calls op.
Call(t, op, from) ==
    /\ ~aborted /\ pc[t] = from /\ op \in Ops
    /\ calls < MaxCalls /\ calls' = calls + 1

\* A thread woken in one of the loops from takes the mutex again.
Wake(t, from) == ~aborted /\ pc[t] \in from /\ t \notin asleep /\ UNCHANGED calls

Goto(t, l) == pc' = [pc EXCEPT ![t] = l]
Sleep(t, l) == Goto(t, l) /\ asleep' = asleep \cup {t} /\ UNCHANGED <<n, aborted>>

-----------------------------------------------------------------------------
(* lock_r, lock_w, lock_R: wait while the mode is not legal, then count.   *)

WaitFor(t, mode, legal, loop) ==
    /\ IF legal
       THEN n' = [n EXCEPT ![mode] = @ + 1] /\ Goto(t, mode) /\ UNCHANGED <<asleep, aborted>>
       ELSE Sleep(t, loop)
    /\ UNCHANGED <<numPendingGlobalWrites, generationX, generationXExit, myGeneration>>

lock_r(t) ==
    /\ Call(t, "lock_r", "none") \/ Wake(t, {"wait_r"})
    /\ WaitFor(t, "r", r_legal, "wait_r")

lock_w(t) ==
    /\ Call(t, "lock_w", "none") \/ Wake(t, {"wait_w"})
    /\ WaitFor(t, "w", w_legal, "wait_w")

lock_R(t) ==
    /\ Call(t, "lock_R", "none") \/ Wake(t, {"wait_R"})
    /\ WaitFor(t, "R", R_legal, "wait_R")

\* lock_R_try while end is not reached, and its last test.
lock_R_try(t) ==
    /\ Call(t, "lock_R_try", "none") \/ Wake(t, {"try_R"})
    /\ WaitFor(t, "R", R_legal, "try_R")

lock_R_try_end(t) ==
    /\ Wake(t, {"late_R"})
    /\ IF R_legal THEN n' = [n EXCEPT !["R"] = @ + 1] /\ Goto(t, "R")
                  ELSE Goto(t, "none") /\ UNCHANGED n
    /\ UNCHANGED <<numPendingGlobalWrites, generationX, generationXExit,
                   asleep, myGeneration, aborted>>

-----------------------------------------------------------------------------
(* lock_W and lock_W_try: announced in numPendingGlobalWrites before the   *)
(* loop, withdrawn after it.                                               *)

Pend(d) == numPendingGlobalWrites' = numPendingGlobalWrites + d

WaitForW(t, loop) ==
    /\ IF W_legal(n)
       THEN /\ n' = [n EXCEPT !["W"] = @ + 1]
            /\ Goto(t, "W")
            /\ Pend(IF pc[t] = "none" THEN 0 ELSE -1)
            /\ aborted' = (loop = "try_W" /\ n'.W # 1)
            /\ UNCHANGED asleep
       ELSE /\ Sleep(t, loop)
            /\ Pend(IF pc[t] = "none" THEN 1 ELSE 0)
    /\ UNCHANGED <<generationX, generationXExit, myGeneration>>

lock_W(t) ==
    /\ Call(t, "lock_W", "none") \/ Wake(t, {"wait_W"})
    /\ WaitForW(t, "wait_W")

lock_W_try(t) ==
    /\ Call(t, "lock_W_try", "none") \/ Wake(t, {"try_W"})
    /\ WaitForW(t, "try_W")

\* After the deadline: one more test of W_legal, and no notification when the
\* request is given up.
lock_W_try_end(t) ==
    /\ Wake(t, {"late_W"})
    /\ Pend(-1)
    /\ IF W_legal(n)
       THEN /\ n' = [n EXCEPT !["W"] = @ + 1]
            /\ Goto(t, "W")
            /\ aborted' = (n'.W # 1)
       ELSE Goto(t, "none") /\ UNCHANGED <<n, aborted>>
    /\ UNCHANGED <<generationX, generationXExit, asleep, myGeneration>>

\* The clock passes end: timed_wait() returns and the loop will not repeat.
Expire(t) ==
    /\ ~aborted
    /\ \/ pc[t] = "try_R" /\ Goto(t, "late_R")
       \/ pc[t] = "try_W" /\ Goto(t, "late_W")
    /\ asleep' = asleep \ {t}
    /\ UNCHANGED <<n, numPendingGlobalWrites, generationX, generationXExit,
                   myGeneration, aborted, calls>>

-----------------------------------------------------------------------------
(* Conversions.                                                            *)

W_to_R(t) ==
    /\ Call(t, "W_to_R", "W")
    /\ Leave("W", [n EXCEPT !["W"] = 0, !["R"] = 1],
             n.W = 1 /\ n.R = 0 /\ n.U = 0)
    /\ Goto(t, "Rd")
    /\ UNCHANGED <<numPendingGlobalWrites, generationX, generationXExit, myGeneration>>

\* Entered once with U.n = 0, then repeated each time the thread is woken.
R_to_W(t) ==
    /\ Call(t, "R_to_W", "Rd") \/ Wake(t, {"wait_U"})
    /\ LET entry == pc[t] = "Rd"
       IN  IF n.W + n.R + n.w + n.r > 1
           THEN /\ n' = [n EXCEPT !["U"] = 1]
                /\ Pend(IF entry THEN 1 ELSE 0)
                /\ Goto(t, "wait_U")
                /\ asleep' = asleep \cup {t}
                /\ aborted' = (entry /\ ~(n.R > 0 /\ n.W = 0 /\ n.U = 0))
           ELSE /\ n' = [n EXCEPT !["R"] = 0, !["W"] = 1, !["U"] = 0]
                /\ Pend(IF entry THEN 0 ELSE -1)
                /\ Goto(t, "W")
                /\ aborted' = ~(/\ n.R = 1 /\ n.W = 0
                                /\ n.U = IF entry THEN 0 ELSE 1)
                /\ UNCHANGED asleep
    /\ UNCHANGED <<generationX, generationXExit, myGeneration>>

\* The two loops and the two exits of w_to_X, with the counters at c, the
\* local myGeneration at g, and ok the fassert on entry.
ToX(t, c, g, ok) ==
    IF g = generationX /\ X_legal(c) THEN
        /\ generationX' = generationX + 1
        /\ Leave("w", c, ok /\ c.w = 0)
        /\ Goto(t, "X")
        /\ myGeneration' = [myGeneration EXCEPT ![t] = 0]
    ELSE IF g # generationX /\ g # generationXExit THEN
        /\ Goto(t, "w")
        /\ aborted' = ~(ok /\ c.R = 0 /\ c.w > 0)
        /\ myGeneration' = [myGeneration EXCEPT ![t] = 0]
        /\ n' = c
        /\ UNCHANGED <<generationX, asleep>>
    ELSE
        /\ Goto(t, "wait_X")
        /\ asleep' = asleep \cup {t}
        /\ myGeneration' = [myGeneration EXCEPT ![t] = g]
        /\ n' = c
        /\ aborted' = ~ok
        /\ UNCHANGED generationX

w_to_X(t) ==
    /\ \/ /\ Call(t, "w_to_X", "w")
          /\ ToX(t, [n EXCEPT !["X"] = @ + 1, !["w"] = @ - 1], generationX, n.w > 0)
       \/ /\ Wake(t, {"wait_X"})
          /\ ToX(t, n, myGeneration[t], TRUE)
    /\ UNCHANGED <<numPendingGlobalWrites, generationXExit>>

\* Slip: returns only the owner to "w", not the threads parked behind it.
X_to_w_slip(t) ==
    /\ ~aborted /\ pc[t] = "X"
    /\ Leave("X", [n EXCEPT !["w"] = 1, !["X"] = 0],
             n.W = 0 /\ n.R = 0 /\ n.w = 0 /\ n.X > 0)
    /\ Goto(t, "w")
    /\ generationXExit' = generationXExit + 1
    /\ UNCHANGED <<numPendingGlobalWrites, generationX, myGeneration, calls>>

X_to_w(t) ==
    /\ ~aborted /\ pc[t] = "X"
    /\ Leave("X", [n EXCEPT !["w"] = n.X, !["X"] = 0],
             n.W = 0 /\ n.R = 0 /\ n.w = 0 /\ n.X > 0)
    /\ Goto(t, "w")
    /\ generationXExit' = generationXExit + 1
    /\ UNCHANGED <<numPendingGlobalWrites, generationX, myGeneration, calls>>

-----------------------------------------------------------------------------
(* Releases.                                                               *)

Unlock(t, mode, from, ok) ==
    /\ ~aborted /\ pc[t] \in from
    /\ Leave(mode, [n EXCEPT ![mode] = @ - 1], ok)
    /\ Goto(t, "none")
    /\ UNCHANGED <<numPendingGlobalWrites, generationX, generationXExit,
                   myGeneration, calls>>

unlock_r(t) == Unlock(t, "r", {"r"}, n.r > 0)
unlock_w(t) == Unlock(t, "w", {"w"}, n.w > 0)
unlock_R(t) == Unlock(t, "R", {"R", "Rd"}, n.R > 0)
unlock_W(t) == Unlock(t, "W", {"W"}, n.W = 1)

\* wait() may return although nobody notified.
SpuriousWakeup(t) ==
    /\ ~aborted /\ t \in asleep
    /\ asleep' = asleep \ {t}
    /\ UNCHANGED <<n, numPendingGlobalWrites, generationX, generationXExit, pc,
                   myGeneration, aborted, calls>>

Next == \E t \in Thread :
    \/ lock_r(t) \/ lock_w(t) \/ lock_R(t) \/ lock_R_try(t) \/ lock_R_try_end(t)
    \/ lock_W(t) \/ lock_W_try(t) \/ lock_W_try_end(t) \/ Expire(t)
    \/ W_to_R(t) \/ R_to_W(t) \/ w_to_X(t) \/ X_to_w(t)
    \/ unlock_r(t) \/ unlock_w(t) \/ unlock_R(t) \/ unlock_W(t)
    \/ SpuriousWakeup(t)

Spec == Init /\ [][Next]_vars

\* A woken thread gets the mutex, a deadline passes, and a holder eventually
\* lets go: every caller in the code releases in a destructor.  Nobody is
\* obliged to call, and wait() is not obliged to return spuriously.
Proceed(t) ==
    \/ Expire(t) \/ X_to_w(t)
    \/ unlock_r(t) \/ unlock_w(t) \/ unlock_R(t) \/ unlock_W(t)
    \/ /\ pc[t] \in Waiting
       /\ \/ lock_r(t) \/ lock_w(t) \/ lock_R(t) \/ lock_R_try(t) \/ lock_R_try_end(t)
          \/ lock_W(t) \/ lock_W_try(t) \/ lock_W_try_end(t) \/ R_to_W(t) \/ w_to_X(t)

Fairness == \A t \in Thread : WF_vars(Proceed(t))

FairSpec == Spec /\ Fairness

-----------------------------------------------------------------------------
(* Properties.                                                             *)

\* The mode a thread holds.  Inside w_to_X() it is parked, and counted in
\* X.n, until the X_to_w() that ends its generation returns it to "w".
ModeOf(p, g, exit) ==
    CASE p \in {"r", "w", "R", "W", "X"} -> p
      [] p \in {"Rd", "wait_U"} -> "R"
      [] p = "wait_X" -> IF g = exit THEN "parked" ELSE "w"
      [] OTHER -> "none"

mode == [t \in Thread |-> ModeOf(pc[t], myGeneration[t], generationXExit)]

\* The quad lock behaves as the class comment says: each critical section of
\* the code is one step of QuadLock, or leaves every thread's mode alone.
Table == INSTANCE QuadLock WITH held <- mode
ImplementsTable == Table!Spec

\* The modes that may be held at the same time (the table of the class
\* comment, read for locks already granted).
Coexist(m) == CASE m = "r" -> {"r", "w", "R", "parked"}
                [] m = "w" -> {"r", "w", "parked"}
                [] m = "R" -> {"r", "R"}
                [] m = "W" -> {}
                [] m = "X" -> {"parked"}
                [] m = "parked" -> {"r", "w", "parked", "X"}

\* No two threads ever hold modes the table forbids together, whatever
\* upgrades, downgrades, timeouts and X generations happened before.
MutualExclusion ==
    \A t, u \in Thread :
        t # u /\ mode[t] # "none" /\ mode[u] # "none" => mode[u] \in Coexist(mode[t])

\* None of the fasserts 16137-16140 and 16201-16222 of qlock.h fires as long as
\* threads use the lock as its comments ask (R_to_W only after W_to_R).
NeverAborts == ~aborted

\* How many threads the function f sends into S.
Num(f, S) == Cardinality({t \in Thread : f[t] \in S})

\* The counters the legality tests read are the numbers of threads in each
\* mode, and numPendingGlobalWrites is the number of waiting global writers:
\* no path (timeout, conversion, generation change) loses or repeats a count.
CountersAgree ==
    /\ n.r = Num(mode, {"r"}) /\ n.w = Num(mode, {"w"})
    /\ n.R = Num(mode, {"R"}) /\ n.W = Num(mode, {"W"})
    /\ n.X = Num(mode, {"X", "parked"})
    /\ n.U = Num(pc, {"wait_U"})
    /\ numPendingGlobalWrites = Num(pc, {"wait_W", "try_W", "late_W", "wait_U"})

\* Nobody sleeps through its turn: a thread asleep in lock_r, lock_w, lock_R or
\* lock_R_try cannot be granted its mode; while W could be granted, or X, or
\* the upgrade to W, not all of the threads that wait for it are asleep.
NoLostWakeup ==
    /\ r_legal => On("r") = {}
    /\ w_legal => On("w") = {}
    /\ R_legal => On("R") = {}
    /\ W_legal(n) /\ On("W") # {} =>
         \E t \in Thread \ asleep : pc[t] \in {"wait_W", "try_W", "late_W"}
    /\ On("U") # {} => n.W + n.R + n.w + n.r > 1
    /\ \A t \in On("X") : myGeneration[t] = generationXExit
    /\ X_legal(n) /\ generationX = generationXExit /\ On("X") # {} =>
         \E t \in Thread \ asleep : pc[t] = "wait_X"

\* Every call of a lock function returns, with whatever the other threads hold
\* and request meanwhile, once requests stop arriving (MaxCalls is finite).
EveryCallReturns == \A t \in Thread : pc[t] \in Waiting ~> pc[t] \notin Waiting

\* The "r" row of the table, "r * * * - -": a lock_r() that waits while the others
\* hold only r, w and R, and no global write is wanted, does not wait forever.
AllowedReadIsGranted ==
    \A t \in Thread :
        pc[t] = "wait_r" ~> \/ pc[t] # "wait_r"
                           \/ Pending
                           \/ ~(Table!Others(t) \subseteq Table!Allows("r"))
=============================================================================
