---------------------------- MODULE AdvisoryLock ----------------------------
(***************************************************************************)
(* The lock of utils/locking.ts.  withPgAdvisoryLock takes a PostgreSQL    *)
(* advisory lock that belongs to a database session, with a query of its   *)
(* own on whatever connection the Prisma pool hands out, and gives it back *)
(* with another query, possibly on another connection.                     *)
(*                                                                         *)
(* So the lock excludes sessions and not callers: a second caller whose    *)
(* query runs on the session that has the lock is granted it too, and an   *)
(* unlock sent to another session misses: PostgreSQL warns, and the lock   *)
(* stays where it is until the connection is closed.                       *)
(***************************************************************************)
EXTENDS Naturals

CONSTANTS Locks,      \* lock names
          Conns,      \* connections of the pool, a database session each
          MaxMisses   \* bound on unlocks sent to the wrong session

ASSUME LockAssumption == MaxMisses \in Nat

VARIABLES held,     \* how many times each session holds each lock
          misses    \* unlocks that missed so far, at most MaxMisses

lockVars == <<held, misses>>

NothingHeld == [l \in Locks |-> [c \in Conns |-> 0]]

LockInit == held = NothingHeld /\ misses = 0

\* pg_try_advisory_lock on session c returns true.
Granted(l, c) == \A d \in Conns \ {c} : held[l][d] = 0

\* withPgAdvisoryLock: acquired is true, work() is called.
Acquire(l, c) ==
    /\ Granted(l, c)
    /\ held' = [held EXCEPT ![l][c] = @ + 1]
    /\ UNCHANGED misses

\* withPgAdvisoryLock: acquired is false, work() is not called.
Refuse(l, c) ==
    /\ ~Granted(l, c)
    /\ UNCHANGED lockVars

\* Mutant of Release: the session gives back every hold it has on the lock.
ReleaseFully(l, c) ==
    /\ held[l][c] > 0
    /\ held' = [held EXCEPT ![l][c] = 0]
    /\ UNCHANGED misses

\* No session has the lock: the one that had it was closed.
Unheld(l) == \A c \in Conns : held[l][c] = 0

\* releaseLock: pg_advisory_unlock on session c, where it may find nothing.
Release(l, c) ==
    \/ /\ held[l][c] > 0
       /\ held' = [held EXCEPT ![l][c] = @ - 1]
       /\ UNCHANGED misses
    \/ /\ held[l][c] = 0
       /\ ~Unheld(l)
       /\ misses < MaxMisses
       /\ misses' = misses + 1
       /\ UNCHANGED held
    \/ /\ Unheld(l)
       /\ UNCHANGED lockVars

\* Sessions are closed, and what they held is free.
CloseSessions(closed) ==
    /\ held' = [l \in Locks |-> [c \in Conns |-> IF c \in closed THEN 0 ELSE held[l][c]]]
    /\ UNCHANGED misses

\* The process ends and its connections are closed.
ReleaseAll == held' = NothingHeld /\ UNCHANGED misses

LockTypeOK ==
    /\ held \in [Locks -> [Conns -> Nat]]
    /\ misses \in 0 .. MaxMisses

\* A lock is held by one session at a time, however often.
OneSession ==
    \A l \in Locks, c, d \in Conns : held[l][c] > 0 /\ held[l][d] > 0 => c = d

=============================================================================
