-------------------------------- MODULE RWLock --------------------------------
(***************************************************************************)
(* The writer-preferring readers-writers lock of threads/synch.c.  Any     *)
(* number of threads call rw_lock_acquire() and rw_lock_release(), as      *)
(* readers or as writers, over and over.  pc names every point where the   *)
(* guard lock is taken, given up or slept without, and separates the test  *)
(* of the counters from their update.                                      *)
(***************************************************************************)
EXTENDS Monitor, FiniteSets

CONSTANT Guard    \* rw_lock->lock

ASSUME RWLockAssumption == /\ IsFiniteSet(Client)
                           /\ Nobody \notin Client
                           /\ Locks = {Guard}
                           /\ Conds = {"read", "write"}

VARIABLES AR, WR, AW, WW,   \* active/waiting readers/writers
          pc,               \* thread -> where it is
          reader            \* thread -> the `reader' argument of its call

vars == <<owner, waiting, sema, AR, WR, AW, WW, pc, reader>>
counts == <<AR, WR, AW, WW>>

Label == {"out", "acq", "test", "grant", "wait", "unlock_wait", "sleep", "reacq",
          "woke", "unlock_in", "in", "rel", "leave", "unlock_out"}

\* rw_lock_init().
Init == /\ MonitorInit
        /\ AR = 0 /\ WR = 0 /\ AW = 0 /\ WW = 0
        /\ pc = [t \in Client |-> "out"]
        /\ reader = [t \in Client |-> FALSE]

At(t, label) == pc[t] = label
Goto(t, label) == pc' = [pc EXCEPT ![t] = label]

CondOf(t) == IF reader[t] THEN "read" ELSE "write"

-----------------------------------------------------------------------------
\* A client calls rw_lock_acquire(rw_lock, r).
Call(t, r) == /\ At(t, "out")
              /\ reader' = [reader EXCEPT ![t] = r]
              /\ Goto(t, "acq")
              /\ UNCHANGED <<owner, waiting, sema, counts>>

LockGuard(t, from, to) == /\ At(t, from)
                          /\ Acquire(t, Guard)
                          /\ Goto(t, to)
                          /\ UNCHANGED <<waiting, sema, counts, reader>>
UnlockGuard(t, from, to) == /\ At(t, from)
                            /\ Release(t, Guard)
                            /\ Goto(t, to)
                            /\ UNCHANGED <<waiting, sema, counts, reader>>

AcquireLock(t) == LockGuard(t, "acq", "test")

\* Mutant: readers forget waiting writers.
MustWait_Readers(t) == IF reader[t] THEN AW > 0 ELSE AR + AW > 0

\* The conditions of the two while loops of rw_lock_acquire().
MustWait(t) == IF reader[t] THEN AW + WW > 0 ELSE AR + AW > 0

Test(t) == /\ At(t, "test")
           /\ Goto(t, IF MustWait(t) THEN "wait" ELSE "grant")
           /\ UNCHANGED <<owner, waiting, sema, counts, reader>>

\* AR++ or AW++.
Grant(t) == /\ At(t, "grant")
            /\ IF reader[t] THEN AR' = AR + 1 /\ UNCHANGED AW ELSE AW' = AW + 1 /\ UNCHANGED AR
            /\ Goto(t, "unlock_in")
            /\ UNCHANGED <<owner, waiting, sema, WR, WW, reader>>

AcquireReturns(t) == UnlockGuard(t, "unlock_in", "in")

\* WR++ or WW++, and cond_wait() up to its lock_release().
Wait(t) == /\ At(t, "wait")
           /\ IF reader[t] THEN WR' = WR + 1 /\ UNCHANGED WW ELSE WW' = WW + 1 /\ UNCHANGED WR
           /\ CondEnqueue(t, CondOf(t))
           /\ Goto(t, "unlock_wait")
           /\ UNCHANGED <<owner, AR, AW, reader>>

WaitUnlock(t) == UnlockGuard(t, "unlock_wait", "sleep")

WaitSleep(t) == /\ At(t, "sleep")
                /\ CondWoken(t)
                /\ Goto(t, "reacq")
                /\ UNCHANGED <<owner, counts, reader>>

WaitLock(t) == LockGuard(t, "reacq", "woke")

\* Mutant: `if' for `while'.
WaitReturns_If(t) ==
  /\ At(t, "woke")
  /\ IF reader[t] THEN WR' = WR - 1 /\ UNCHANGED WW ELSE WW' = WW - 1 /\ UNCHANGED WR
  /\ Goto(t, "grant")
  /\ UNCHANGED <<owner, waiting, sema, AR, AW, reader>>

\* cond_wait() has returned: WR-- or WW--, and back to the while condition.
WaitReturns(t) == /\ At(t, "woke")
                  /\ IF reader[t] THEN WR' = WR - 1 /\ UNCHANGED WW ELSE WW' = WW - 1 /\ UNCHANGED WR
                  /\ Goto(t, "test")
                  /\ UNCHANGED <<owner, waiting, sema, AR, AW, reader>>

-----------------------------------------------------------------------------
\* A client inside calls rw_lock_release() with the role it entered with.
CallRelease(t) == /\ At(t, "in")
                  /\ Goto(t, "rel")
                  /\ UNCHANGED <<owner, waiting, sema, counts, reader>>

ReleaseLock(t) == LockGuard(t, "rel", "leave")

\* Mutant: the last reader wakes nobody.
LeaveReader_Silent(t) ==
  /\ At(t, "leave") /\ reader[t]
  /\ AR' = AR - 1
  /\ Goto(t, "unlock_out")
  /\ UNCHANGED <<owner, waiting, sema, WR, AW, WW, reader>>

\* The reader branch: AR--, and the last reader out wakes one writer.
LeaveReader(t) == /\ At(t, "leave") /\ reader[t]
                  /\ AR' = AR - 1
                  /\ IF AR' = 0 /\ WW > 0
                     THEN CondSignal("write")
                     ELSE UNCHANGED <<waiting, sema>>
                  /\ Goto(t, "unlock_out")
                  /\ UNCHANGED <<owner, WR, AW, WW, reader>>

\* Mutant: a leaving writer thinks of the readers only.
LeaveWriter_Readers(t) ==
  /\ At(t, "leave") /\ ~reader[t]
  /\ AW' = AW - 1
  /\ IF WR > 0 THEN CondBroadcast("read") ELSE UNCHANGED <<waiting, sema>>
  /\ Goto(t, "unlock_out")
  /\ UNCHANGED <<owner, AR, WR, WW, reader>>

\* The writer branch: AW--, wake one writer, or else all the readers.
LeaveWriter(t) == /\ At(t, "leave") /\ ~reader[t]
                  /\ AW' = AW - 1
                  /\ IF WW > 0 THEN CondSignal("write")
                     ELSE IF WR > 0 THEN CondBroadcast("read")
                     ELSE UNCHANGED <<waiting, sema>>
                  /\ Goto(t, "unlock_out")
                  /\ UNCHANGED <<owner, AR, WR, WW, reader>>

ReleaseReturns(t) == UnlockGuard(t, "unlock_out", "out")

-----------------------------------------------------------------------------
\* The steps of a call that has begun.
Step(t) == \/ AcquireLock(t) \/ Test(t) \/ Grant(t) \/ AcquireReturns(t)
           \/ Wait(t) \/ WaitUnlock(t) \/ WaitSleep(t) \/ WaitLock(t) \/ WaitReturns(t)
           \/ ReleaseLock(t) \/ LeaveReader(t) \/ LeaveWriter(t) \/ ReleaseReturns(t)

Next == \E t \in Client :
          Step(t) \/ CallRelease(t) \/ \E r \in BOOLEAN : Call(t, r)

Spec == Init /\ [][Next]_vars

(* A thread that can go on with its call does (the scheduler runs every    *)
(* ready thread), and a client that is inside leaves again.  A lock that   *)
(* is only free now and then may starve a thread, as the real one can.     *)
Fairness == \A t \in Client : WF_vars(Step(t)) /\ WF_vars(CallRelease(t))

FairSpec == Spec /\ Fairness

-----------------------------------------------------------------------------
TypeOK == /\ owner \in [Locks -> Client \cup {Nobody}]
          /\ waiting \in [Conds -> Seq(Client)]
          /\ sema \in [Client -> Nat]
          /\ AR \in Nat /\ WR \in Nat /\ AW \in Nat /\ WW \in Nat
          /\ pc \in [Client -> Label]
          /\ reader \in [Client -> BOOLEAN]

\* Threads that have been granted the lock and have not given it up.
Inside == {"unlock_in", "in", "rel", "leave"}
Readers == {t \in Client : reader[t] /\ pc[t] \in Inside}
Writers == {t \in Client : ~reader[t] /\ pc[t] \in Inside}

(* Readers and a writer are never inside together, nor are two writers.    *)
Exclusion == /\ Readers # {} => Writers = {}
             /\ \A t, u \in Writers : t = u

\* Threads a waiting counter stands for.
Asleep == {"unlock_wait", "sleep", "reacq", "woke"}
WaitingReaders == {t \in Client : reader[t] /\ pc[t] \in Asleep}
WaitingWriters == {t \in Client : ~reader[t] /\ pc[t] \in Asleep}

(* The four counters always count the threads they stand for, so none of   *)
(* them ever wraps below zero.                                             *)
CountsExact == /\ AR = Cardinality(Readers) /\ AW = Cardinality(Writers)
               /\ WR = Cardinality(WaitingReaders) /\ WW = Cardinality(WaitingWriters)

(* "Writer-centric": no reader gets in while a writer is waiting, from the *)
(* moment the writer is counted until it has been woken and looks again.   *)
WriterPreference ==
  [][\A t \in Client : t \in Readers' \ Readers => WaitingWriters = {}]_vars

\* A thread asleep in cond_wait() that nobody has signalled.
Unsignalled(t) == pc[t] = "sleep" /\ sema[t] = 0

(* Nobody is stranded: while some thread sleeps without a signal, another  *)
(* one is inside, is in the middle of a call, or has been signalled, and   *)
(* so will still look at the waiters.                                      *)
NobodyStranded ==
  (\E t \in Client : Unsignalled(t))
    => \E u \in Client : pc[u] \notin {"out", "acq"} /\ ~Unsignalled(u)

\* The lock implements the abstract readers-writers lock.
RW == INSTANCE ReadersWriter WITH readers <- Readers, writers <- Writers
ImplementsReadersWriter == RW!RWSpec

(* If threads wait and nobody is inside, somebody gets in.                 *)
SomebodyGetsIn ==
  (Readers \cup Writers = {} /\ WaitingReaders \cup WaitingWriters # {})
    ~> (Readers \cup Writers # {})
=============================================================================
