-------------------------------- MODULE Intq --------------------------------
(***************************************************************************)
(* An interrupt queue (devices/intq.c) shared by kernel threads and an     *)
(* interrupt handler.  Interrupts are off in every call, so a thread gives *)
(* up the processor only where it sleeps: in lock_acquire(&q->lock) and in *)
(* wait().  Each action is what a thread does from one such point to the   *)
(* next.                                                                   *)
(***************************************************************************)
EXTENDS Ring, FiniteSets

CONSTANTS Reader,      \* threads that call intq_getc(); none calls both
          Writer,      \* threads that call intq_putc()
          IrqPuts,     \* does the interrupt handler put bytes?
          IrqGets,     \* does the interrupt handler get bytes?
          NULL

Thread == Reader \cup Writer

VARIABLES q,         \* the ring
          owner,     \* who holds q->lock
          not_empty, \* the thread waiting for a byte
          not_full,  \* the thread waiting for room
          pc,        \* thread -> where it is
          byte,      \* thread -> the byte of the intq_putc() it sleeps in, or NULL
          panicked   \* an ASSERT of wait() failed

vars == <<q, owner, not_empty, not_full, pc, byte, panicked>>

(* intq_init(); the memory of buf is not initialized.                      *)
Init == /\ q \in {r \in Rings : r.head = 0 /\ r.tail = 0}
        /\ owner = NULL
        /\ not_empty = NULL
        /\ not_full = NULL
        /\ pc = [t \in Thread |-> "out"]
        /\ byte = [t \in Thread |-> NULL]
        /\ panicked = FALSE

\* The condition of the while loop that thread t is in.
MustWait(t) == IF t \in Reader THEN IntqEmpty(q) ELSE IntqFull(q)

-----------------------------------------------------------------------------
\* signal(): thread_unblock() the waiter, if there is one; p is pc so far.
Signal(p, waiter) == IF waiter = NULL THEN p ELSE [p EXCEPT ![waiter] = "woken"]

\* intq_getc() and intq_putc() after their loops.
Take(p) == /\ q' = DropByte(q)
           /\ pc' = Signal(p, not_full)
           /\ not_full' = NULL
           /\ UNCHANGED not_empty
\* Mutant: the waiting reader is not signalled.
Store_Silent(p, b) == q' = PutByte(q, b) /\ pc' = p /\ UNCHANGED <<not_empty, not_full>>

Store(p, b) == /\ q' = PutByte(q, b)
               /\ pc' = Signal(p, not_empty)
               /\ not_empty' = NULL
               /\ UNCHANGED not_full

(* wait(), with q->lock held: its ASSERT that the queue is still empty (or *)
(* full), then sleep as the one waiter.                                    *)
Wait(t) ==
  /\ owner' = t
  /\ panicked' = ~MustWait(t)
  /\ pc' = [pc EXCEPT ![t] = "waiting"]
  /\ IF t \in Reader THEN not_empty' = t /\ UNCHANGED not_full
                      ELSE not_full' = t /\ UNCHANGED not_empty
  /\ UNCHANGED q

(* The while loop from its condition on, when q->lock is held by h and b   *)
(* is the byte to put: do the operation and return; or get the lock at     *)
(* once and wait; or sleep for the lock.                                   *)
Loop(t, h, b) ==
  \/ /\ ~MustWait(t)
     /\ LET p == [pc EXCEPT ![t] = "out"]
        IN  IF t \in Reader THEN Take(p) ELSE Store(p, b)
     /\ owner' = h
     /\ byte' = [byte EXCEPT ![t] = NULL]
     /\ UNCHANGED panicked
  \/ /\ MustWait(t) /\ h = NULL
     /\ Wait(t)
     /\ byte' = [byte EXCEPT ![t] = b]
  \/ /\ MustWait(t) /\ h # NULL
     /\ owner' = h
     /\ pc' = [pc EXCEPT ![t] = "locking"]
     /\ byte' = [byte EXCEPT ![t] = b]
     /\ UNCHANGED <<q, not_empty, not_full, panicked>>

-----------------------------------------------------------------------------
\* A thread calls intq_getc().
Getc(t) == t \in Reader /\ pc[t] = "out" /\ Loop(t, owner, NULL)

\* A thread calls intq_putc(b).
Putc(t, b) == t \in Writer /\ pc[t] = "out" /\ Loop(t, owner, b)

\* lock_acquire(&q->lock) returns to a thread that had to sleep for it.
Locked(t) == pc[t] = "locking" /\ owner = NULL /\ Wait(t) /\ UNCHANGED byte

\* wait() returns: lock_release(&q->lock) and once more around the loop.
Woken(t) == pc[t] = "woken" /\ Loop(t, NULL, byte[t])

(* The interrupt handler puts or gets a byte when it can, as               *)
(* serial_interrupt() and keyboard_interrupt() check first.                *)
IrqPutc == /\ IrqPuts /\ ~IntqFull(q)
           /\ \E b \in Byte : Store(pc, b)
           /\ UNCHANGED <<owner, byte, panicked>>
IrqGetc == /\ IrqGets /\ ~IntqEmpty(q)
           /\ Take(pc)
           /\ UNCHANGED <<owner, byte, panicked>>

\* A failed ASSERT stops the kernel.
Next == /\ ~panicked
        /\ \/ \E t \in Thread : \/ Getc(t) \/ Locked(t) \/ Woken(t)
                                \/ \E b \in Byte : Putc(t, b)
           \/ IrqPutc \/ IrqGetc

Spec == Init /\ [][Next]_vars

-----------------------------------------------------------------------------
TypeOK == /\ q \in Rings
          /\ owner \in Thread \cup {NULL}
          /\ not_empty \in Reader \cup {NULL}
          /\ not_full \in Writer \cup {NULL}
          /\ pc \in [Thread -> {"out", "locking", "waiting", "woken"}]
          /\ byte \in [Thread -> Byte \cup {NULL}]
          /\ panicked \in BOOLEAN

(* The ASSERT of wait() never fails: a thread that goes to sleep for the   *)
(* queue still has a reason to.                                            *)
WaitAssertHolds == ~panicked

(* No thread sleeps through its wakeup: a thread asleep in wait() is the   *)
(* one registered waiter, and the queue is indeed empty (or full).         *)
NoMissedSignal ==
  \A t \in Thread : pc[t] = "waiting" /\ ~panicked =>
     /\ t \in {not_empty, not_full}
     /\ owner = t
     /\ MustWait(t)
=============================================================================
