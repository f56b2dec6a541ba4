-------------------------------- MODULE Synch --------------------------------
(***************************************************************************)
(* Semaphores and locks (threads/synch.c) on top of the scheduler, with    *)
(* the callers that make them interesting: threads that up and down        *)
(* semaphores, take and release locks, create threads and exit, the boot   *)
(* sequence thread_start()/idle(), and the interrupts that may come        *)
(* between any two instructions while interrupts are on (intr_handler():   *)
(* the timer, which may preempt, and a device that ups a semaphore).       *)
(*                                                                         *)
(* One processor: only the running thread takes steps, and what the code   *)
(* does with interrupts off is one step.  Inside a call, pc names the      *)
(* points where interrupts are on, so that a preemption may fall there.    *)
(***************************************************************************)
EXTENDS Thread

CONSTANTS Sema,        \* plain semaphores, initially 0
          IdleStarted, \* the semaphore on thread_start()'s stack
          Lock,        \* locks the threads use
          TidLock,     \* tid_lock of allocate_tid()
          MaxValue     \* bound: clients up a plain semaphore only below it

ASSUME SynchAssumption == /\ IdleStarted \notin Sema \cup Lock
                          /\ TidLock \notin Sema \cup Lock \cup {IdleStarted}
                          /\ Sema \cap Lock = {}
                          /\ NULL \notin Sema \cup Lock \cup {IdleStarted, TidLock}
                          /\ MaxValue \in Nat \ {0}
                          /\ IsFiniteSet(Page)

Locks      == Lock \cup {TidLock}
Semaphores == Sema \cup {IdleStarted} \cup Locks   \* a lock is known by its semaphore

VARIABLES value,    \* semaphore -> its value
          waiters,  \* semaphore -> the threads asleep in sema_down()
          holder,   \* lock -> lock->holder
          pc,       \* thread -> where it is
          arg,      \* thread -> the semaphore or lock of the call it is in
          new,      \* thread -> the thread its thread_create() is making
          tmp,      \* thread -> the next_tid it has read
          started   \* has thread_start() enabled interrupts?

semaVars  == <<value, waiters>>
callVars  == <<arg, new, tmp, started>>
synchVars == <<value, waiters, holder, pc, arg, new, tmp, started>>
vars      == <<threadVars, synchVars>>

Label == {"boot", "boot_enable", "boot_wait", "run", "down", "acquired", "releasing",
          "tid_lock", "tid_read", "tid_write", "tid_unlock", "create_unblock",
          "idle_init", "idle_up", "idle_loop", "hlt", "exited"}

(* thread_init() has run: main is the only thread and interrupts are off.  *)
(* lock_init() gives a lock's semaphore the value 1.                       *)
Init ==
  /\ ThreadInit
  /\ value   = [s \in Semaphores |-> IF s \in Locks THEN 1 ELSE 0]
  /\ waiters = [s \in Semaphores |-> << >>]
  /\ holder  = [l \in Locks |-> NULL]
  /\ pc      = [t \in Threads |-> IF t = Main THEN "boot" ELSE "run"]
  /\ arg     = [t \in Threads |-> NULL]
  /\ new     = [t \in Threads |-> NULL]
  /\ tmp     = [t \in Threads |-> 0]
  /\ started = FALSE

At(label)   == pc[running] = label
Goto(label) == pc' = [pc EXCEPT ![running] = label]

(* intr_get_level() of the running thread.  Interrupts are off until       *)
(* thread_start() enables them, and for a thread that schedule() has just  *)
(* resumed inside sema_down().  A thread resumed anywhere else restores    *)
(* the level it had, which is on, before it does anything.                 *)
IntrOn == started /\ ~At("down")

-----------------------------------------------------------------------------
(* Semaphores.  Where the caller of sema_down() goes on: in lock_acquire() *)
(* if the semaphore is a lock's.                                           *)
AfterDown(s) == IF s \in Locks THEN "acquired" ELSE "run"

(* sema_down() from the top of its loop, interrupts off: take the value,   *)
(* or queue up and sleep.  A thread that was woken comes here again, since *)
(* another thread may have taken the value first.                          *)
SemaDown(s) ==
  \/ /\ value[s] > 0
     /\ value' = [value EXCEPT ![s] = @ - 1]
     /\ Goto(AfterDown(s))
     /\ arg' = [arg EXCEPT ![running] = s]
     /\ UNCHANGED <<threadVars, waiters, holder, new, tmp, started>>
  \/ /\ value[s] = 0
     /\ waiters' = [waiters EXCEPT ![s] = Append(@, running)]
     /\ Goto("down")
     /\ arg' = [arg EXCEPT ![running] = s]
     /\ ThreadBlock
     /\ UNCHANGED <<value, holder, new, tmp, started>>

\* Mutant: list_front() for list_pop_front().
SemaUp_NoPop(s) ==
  /\ value' = [value EXCEPT ![s] = @ + 1]
  /\ IF waiters[s] # << >> THEN ThreadUnblock(Head(waiters[s])) ELSE UNCHANGED threadVars
  /\ UNCHANGED waiters
\* Mutant: wakes a waiter only when the value leaves zero.
SemaUp_FirstOnly(s) ==
  /\ value' = [value EXCEPT ![s] = @ + 1]
  /\ IF waiters[s] # << >> /\ value[s] = 0
     THEN /\ ThreadUnblock(Head(waiters[s]))
          /\ waiters' = [waiters EXCEPT ![s] = Tail(@)]
     ELSE UNCHANGED <<threadVars, waiters>>
\* Mutant: wakes nobody.
SemaUp_NoWake(s) ==
  /\ value' = [value EXCEPT ![s] = @ + 1]
  /\ UNCHANGED <<threadVars, waiters>>

\* sema_up(): wake the first waiter, if any, and increment the value.
SemaUp(s) ==
  /\ value' = [value EXCEPT ![s] = @ + 1]
  /\ IF waiters[s] # << >>
     THEN /\ ThreadUnblock(Head(waiters[s]))
          /\ waiters' = [waiters EXCEPT ![s] = Tail(@)]
     ELSE UNCHANGED <<threadVars, waiters>>

\* sema_try_down().
SemaTryDown(s) ==
  /\ value' = IF value[s] > 0 THEN [value EXCEPT ![s] = @ - 1] ELSE value
  /\ UNCHANGED <<threadVars, waiters>>

\* Mutant: `if' for `while', a woken thread does not look at the value again.
DownAgain_If == /\ At("down")
                /\ value' = [value EXCEPT ![arg[running]] = @ - 1]
                /\ Goto(AfterDown(arg[running]))
                /\ UNCHANGED <<threadVars, waiters, holder, callVars>>

DownAgain == At("down") /\ SemaDown(arg[running])
Down      == At("run") /\ \E s \in Sema : SemaDown(s)
Up        == /\ At("run")
             /\ \E s \in Sema : value[s] < MaxValue /\ SemaUp(s)
             /\ UNCHANGED <<holder, pc, callVars>>
TryDown   == /\ At("run")
             /\ \E s \in Sema : SemaTryDown(s)
             /\ UNCHANGED <<holder, pc, callVars>>

-----------------------------------------------------------------------------
(* Locks.  lock->holder is written with interrupts on, after the semaphore *)
(* went down and before it goes up.                                        *)
LockHeldByCurrentThread(l) == holder[l] = running

LockAcquire(l) == ~LockHeldByCurrentThread(l) /\ SemaDown(l)

AfterAcquire(l) == IF l = TidLock THEN "tid_read" ELSE "run"
AfterRelease(l) == IF l = TidLock THEN "create_unblock" ELSE "run"

SetHolder == /\ At("acquired")
             /\ holder' = [holder EXCEPT ![arg[running]] = running]
             /\ Goto(AfterAcquire(arg[running]))
             /\ UNCHANGED <<threadVars, semaVars, callVars>>

\* Mutant: takes the lock whether or not sema_try_down() succeeded.
LockTryAcquire_Always(l) ==
  /\ ~LockHeldByCurrentThread(l)
  /\ SemaTryDown(l)
  /\ Goto("acquired")
  /\ arg' = [arg EXCEPT ![running] = l]
  /\ UNCHANGED <<holder, new, tmp, started>>

LockTryAcquire(l) ==
  /\ ~LockHeldByCurrentThread(l)
  /\ SemaTryDown(l)
  /\ Goto(IF value[l] > 0 THEN "acquired" ELSE pc[running])
  /\ arg' = [arg EXCEPT ![running] = IF value[l] > 0 THEN l ELSE @]
  /\ UNCHANGED <<holder, new, tmp, started>>

LockRelease(l) == /\ LockHeldByCurrentThread(l)
                  /\ holder' = [holder EXCEPT ![l] = NULL]
                  /\ arg' = [arg EXCEPT ![running] = l]
                  /\ Goto("releasing")
                  /\ UNCHANGED <<threadVars, semaVars, new, tmp, started>>

LockUp == /\ At("releasing")
          /\ SemaUp(arg[running])
          /\ Goto(AfterRelease(arg[running]))
          /\ UNCHANGED <<holder, callVars>>

AcquireLock    == At("run") /\ \E l \in Lock : LockAcquire(l)
TryAcquireLock == At("run") /\ \E l \in Lock : LockTryAcquire(l)
ReleaseLock    == At("run") /\ \E l \in Lock : LockRelease(l)

-----------------------------------------------------------------------------
(* thread_create(): a page, init_thread(), allocate_tid() under tid_lock,  *)
(* and thread_unblock() of the new thread.  lock_acquire(&tid_lock) may    *)
(* sleep.  With no free page it returns TID_ERROR and changes nothing.     *)
ThreadCreate(first) ==
  /\ next_tid + Cardinality({t \in Threads : new[t] # NULL}) <= MaxTid
  /\ \E t \in Page :
       /\ InitThread(t)
       /\ new' = [new EXCEPT ![running] = t]
       /\ pc'  = [pc EXCEPT ![t] = first, ![running] = "tid_lock"]
       /\ arg' = [arg EXCEPT ![t] = NULL]
       /\ UNCHANGED <<semaVars, holder, tmp, started>>

\* Mutant: thread_create() forgets allocate_tid().
AllocateTid_Skipped == /\ At("tid_lock")
                       /\ Goto("create_unblock")
                       /\ UNCHANGED <<threadVars, semaVars, holder, callVars>>

AllocateTid == At("tid_lock") /\ LockAcquire(TidLock)

\* tid = next_tid++ is a read and a write, and only tid_lock keeps them together.
TidRead == /\ At("tid_read")
            /\ tmp' = [tmp EXCEPT ![running] = next_tid]
            /\ Goto("tid_write")
            /\ UNCHANGED <<threadVars, semaVars, holder, arg, new, started>>
TidWrite == /\ At("tid_write")
            /\ SetTid(new[running], tmp[running])
            /\ Goto("tid_unlock")
            /\ UNCHANGED <<semaVars, holder, callVars>>
FreeTidLock == At("tid_unlock") /\ LockRelease(TidLock)

CreateUnblock == /\ At("create_unblock")
                 /\ ThreadUnblock(new[running])
                 /\ new' = [new EXCEPT ![running] = NULL]
                 /\ Goto(IF ~started THEN "boot_enable" ELSE "run")
                 /\ UNCHANGED <<semaVars, holder, arg, tmp, started>>

CreateThread == At("run") /\ ThreadCreate("run")

\* kernel_thread(): the function returned, having released its locks.
ExitThread == /\ At("run")
              /\ \A l \in Locks : ~LockHeldByCurrentThread(l)
              /\ ThreadExit
              /\ Goto("exited")
              /\ UNCHANGED <<semaVars, holder, callVars>>

\* A thread calls thread_yield() of its own accord.
YieldCpu == At("run") /\ ThreadYield /\ UNCHANGED synchVars

-----------------------------------------------------------------------------
(* Boot: thread_start() creates the idle thread with interrupts off, turns *)
(* them on, and waits until idle() has announced itself.                   *)
BootCreate == At("boot") /\ ThreadCreate("idle_init")
BootEnable == /\ At("boot_enable")
              /\ started' = TRUE
              /\ Goto("boot_wait")
              /\ UNCHANGED <<threadVars, semaVars, holder, arg, new, tmp>>
BootWait   == At("boot_wait") /\ SemaDown(IdleStarted)

IdleInit == /\ At("idle_init")
            /\ SetIdleThread
            /\ Goto("idle_up")
            /\ UNCHANGED <<semaVars, holder, callVars>>
\* Mutant: idle() does not announce itself.
IdleUp_Silent == At("idle_up") /\ Goto("idle_loop") /\ UNCHANGED <<threadVars, semaVars, holder, callVars>>

IdleUp   == /\ At("idle_up")
            /\ SemaUp(IdleStarted)
            /\ Goto("idle_loop")
            /\ UNCHANGED <<holder, callVars>>
IdleLoop == /\ At("idle_loop")
            /\ ThreadBlock
            /\ Goto("hlt")
            /\ UNCHANGED <<semaVars, holder, callVars>>

-----------------------------------------------------------------------------
(* Interrupts.  An interrupt ends the idle thread's hlt.                   *)
EndHlt == pc' = [pc EXCEPT ![running] = IF @ = "hlt" THEN "idle_loop" ELSE @]

\* Mutant: the handler forgets intr_yield_on_return().
TimerInterrupt_NoYield == IntrOn /\ EndHlt /\ UNCHANGED <<threadVars, semaVars, holder, callVars>>

TimerInterrupt  == IntrOn /\ ThreadTick /\ EndHlt /\ UNCHANGED <<semaVars, holder, callVars>>
DeviceInterrupt == /\ IntrOn
                   /\ \E s \in Sema : value[s] < MaxValue /\ SemaUp(s)
                   /\ EndHlt
                   /\ UNCHANGED <<holder, callVars>>

-----------------------------------------------------------------------------
\* What the running thread does inside a kernel call it has begun...
KernelStep == \/ DownAgain \/ SetHolder \/ LockUp
              \/ AllocateTid \/ TidRead \/ TidWrite \/ FreeTidLock \/ CreateUnblock
              \/ BootCreate \/ BootEnable \/ BootWait \/ IdleInit \/ IdleUp \/ IdleLoop

\* ...and the calls it may begin.
ClientStep == \/ Down \/ Up \/ TryDown \/ AcquireLock \/ TryAcquireLock \/ ReleaseLock
              \/ CreateThread \/ ExitThread \/ YieldCpu

Next == KernelStep \/ ClientStep \/ TimerInterrupt \/ DeviceInterrupt

Spec == Init /\ [][Next]_vars

(* A thread that is dispatched again and again gets to execute the kernel  *)
(* call it is in (it has a whole time slice), and the timer, latched by    *)
(* the interrupt controller while interrupts are off, fires again and      *)
(* again.  Nothing is assumed of what client code does or of the device.   *)
Fairness == /\ \A t \in Threads : SF_vars(running = t /\ KernelStep)
            /\ SF_vars(TimerInterrupt)

FairSpec == Spec /\ Fairness

-----------------------------------------------------------------------------
SynchTypeOK ==
  /\ ThreadTypeOK
  /\ value \in [Semaphores -> Nat]
  /\ waiters \in [Semaphores -> Seq(Threads)]
  /\ holder \in [Locks -> Threads \cup {NULL}]
  /\ pc \in [Threads -> Label]
  /\ arg \in [Threads -> Semaphores \cup {NULL}]
  /\ new \in [Threads -> Page \cup {NULL}]
  /\ tmp \in [Threads -> Nat]
  /\ started \in BOOLEAN

\* t's sema_down() of the lock's semaphore has returned and its sema_up() has not run.
Owns(t, l) == holder[l] = t \/ (arg[t] = l /\ pc[t] \in {"acquired", "releasing"})

(* Mutual exclusion, through the windows in which lock->holder is not yet  *)
(* or no longer set: the lock's semaphore and its owners always add up to  *)
(* one, so there is at most one owner and a free lock is really free.      *)
MutualExclusion ==
  \A l \in Locks : Cardinality({t \in Threads : Owns(t, l)}) + value[l] = 1

(* No sleeping thread is forgotten, and none is on two lists: a thread is  *)
(* BLOCKED exactly when it is in the waiters list of the one semaphore it  *)
(* called sema_down() on, is still being created, or is the idle thread.   *)
SleepersAccounted ==
  /\ \A s \in Semaphores : NoDuplicates(waiters[s])
  /\ \A t \in Threads : status[t] = "BLOCKED" <=>
       \/ pc[t] = "down" /\ t \in Elems(waiters[arg[t]])
       \/ \E u \in Threads : new[u] = t
       \/ t = idle_thread /\ pc[t] = "hlt" /\ running # t
  /\ \A s \in Semaphores : \A t \in Elems(waiters[s]) : pc[t] = "down" /\ arg[t] = s

\* Threads sema_up() has woken that have not yet looked at the value again.
Woken(s) == {t \in Threads : pc[t] = "down" /\ arg[t] = s /\ t \notin Elems(waiters[s])}

(* No lost wakeup: if threads sleep on a semaphore whose value is not 0,   *)
(* then for every unit of that value a thread has been woken that will     *)
(* come and look, even when other threads barge in between sema_up() and   *)
(* the moment the woken thread runs.                                       *)
NoLostWakeup ==
  \A s \in Semaphores : waiters[s] # << >> => value[s] <= Cardinality(Woken(s))

\* The locks implement Mutex: owners by the refinement mapping.
OwnerOf(l) == IF \E t \in Threads : Owns(t, l)
              THEN CHOOSE t \in Threads : Owns(t, l) ELSE NULL
M == INSTANCE Mutex WITH Client <- Threads, Nobody <- NULL,
                         owner <- [l \in Locks |-> OwnerOf(l)]

(* lock_acquire(), lock_try_acquire() and lock_release() implement the     *)
(* abstract lock: ownership passes only from a thread to nobody to a       *)
(* thread, never directly or by a thread that is not the owner.            *)
LocksAreMutexes == M!MutexSpec

(* The callers keep thread.c's contracts: Synch implements Thread.  In     *)
(* particular schedule() always finds a thread to run (during the boot     *)
(* too, when there is no idle thread yet), and no thread is unblocked that *)
(* is not blocked.                                                         *)
ImplementsThread == ThreadSpec

(* A READY thread eventually runs: round-robin preemption starves nobody.  *)
(* (The idle thread is chosen only when nobody else is ready.)             *)
ReadyEventuallyRuns ==
  \A t \in Threads : (status[t] = "READY" /\ t # idle_thread) ~> (running = t)

(* A lock that is free while threads sleep on it does not stay free: one   *)
(* of them is awake and will take it, unless another thread gets there     *)
(* first.                                                                  *)
FreeLockIsTaken ==
  \A l \in Locks : (value[l] = 1 /\ waiters[l] # << >>) ~> (value[l] = 0)

(* thread_start() returns: main gets past its wait for the idle thread.    *)
BootCompletes == <>(pc[Main] = "run" /\ idle_thread # NULL)
=============================================================================
