------------------------------- MODULE Monitor -------------------------------
(* Condition variables of threads/synch.c over abstract locks.  A          *)
(* waiter sleeps on a semaphore of its own, which is on the condition's    *)
(* list; cond_wait() is several steps, with the lock free in the middle,   *)
(* and the module that uses it supplies the program counter.               *)
EXTENDS Mutex, Naturals, Sequences

CONSTANT Conds

VARIABLES waiting,   \* condition -> the threads whose semaphore_elem is listed
          sema       \* thread -> value of the semaphore of its cond_wait()

MonitorInit == /\ MutexInit
               /\ waiting = [c \in Conds |-> << >>]
               /\ sema = [t \in Client |-> 0]

Listed(c) == {waiting[c][i] : i \in DOMAIN waiting[c]}

(* cond_wait() up to lock_release(): sema_init(&waiter.semaphore, 0) and   *)
(* list_push_back().                                                       *)
CondEnqueue(t, c) == /\ waiting' = [waiting EXCEPT ![c] = Append(@, t)]
                     /\ sema' = [sema EXCEPT ![t] = 0]

\* cond_wait()'s sema_down(&waiter.semaphore) returns.
CondWoken(t) == /\ sema[t] > 0
                /\ sema' = [sema EXCEPT ![t] = @ - 1]
                /\ UNCHANGED waiting

\* cond_signal(): the lock is held, so this is one step for the waiters.
CondSignal(c) ==
  IF waiting[c] = << >>
  THEN UNCHANGED <<waiting, sema>>
  ELSE /\ waiting' = [waiting EXCEPT ![c] = Tail(@)]
       /\ sema' = [sema EXCEPT ![Head(waiting[c])] = @ + 1]

\* cond_broadcast(): cond_signal() until the list is empty.
CondBroadcast(c) ==
  /\ waiting' = [waiting EXCEPT ![c] = << >>]
  /\ sema' = [t \in Client |-> IF t \in Listed(c) THEN sema[t] + 1 ELSE sema[t]]
=============================================================================
