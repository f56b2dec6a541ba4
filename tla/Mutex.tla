-------------------------------- MODULE Mutex --------------------------------
(* What a struct lock promises its clients (threads/synch.h, synch.c): a   *)
(* lock has at most one owner, only a thread that finds it free becomes    *)
(* the owner, and only the owner gives it up.  Synch is shown to implement *)
(* this module; RWLock and the other monitors are built on it.             *)
CONSTANTS Client, Locks, Nobody

VARIABLE owner      \* lock -> the thread that owns it, or Nobody

MutexInit == owner = [l \in Locks |-> Nobody]

\* lock_acquire() returns, or lock_try_acquire() returns true.
Acquire(t, l) == /\ owner[l] = Nobody
                 /\ owner' = [owner EXCEPT ![l] = t]

\* lock_release().
Release(t, l) == /\ owner[l] = t
                 /\ owner' = [owner EXCEPT ![l] = Nobody]

MutexNext == \E t \in Client, l \in Locks : Acquire(t, l) \/ Release(t, l)

MutexSpec == MutexInit /\ [][MutexNext]_owner
=============================================================================
