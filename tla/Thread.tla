------------------------------- MODULE Thread -------------------------------
(***************************************************************************)
(* The kernel's thread table and FIFO scheduler (threads/thread.c).        *)
(*                                                                         *)
(* Pintos runs on one processor and the scheduler always runs with         *)
(* interrupts off, so each operation below is one atomic step: what the    *)
(* code does between intr_disable() and the moment the thread it switches  *)
(* to has left thread_switch_tail().  The module says what the scheduler   *)
(* promises to ANY client: who calls thread_block() and thread_unblock(),  *)
(* and when, is left open, up to the contracts written as guards.  Module  *)
(* Synch supplies the real callers and is shown to implement this module.  *)
(***************************************************************************)
EXTENDS Naturals, Sequences, FiniteSets

CONSTANTS Page,       \* pages palloc_get_page() can return for a struct thread
          Main,       \* initial_thread, whose page does not come from palloc
          NULL,       \* the null pointer
          TIME_SLICE, \* timer ticks a thread may run before it is preempted
          MaxTid      \* bound: how many tids allocate_tid() hands out

ASSUME ThreadAssumption == /\ Main \notin Page
                           /\ NULL \notin Page \cup {Main}
                           /\ TIME_SLICE \in Nat \ {0}
                           /\ MaxTid \in Nat \ {0}

Threads == Page \cup {Main}

VARIABLES status,          \* thread -> enum thread_status, or FREE: page not allocated
          fifo_ready_list, \* the run queue
          all_list,        \* every thread that exists
          running,         \* running_thread(): whose stack esp points into
          idle_thread,     \* the idle thread once it has run, else NULL
          thread_ticks,    \* timer ticks since the last switch
          tid,             \* thread -> its tid, 0 until allocate_tid() returned
          next_tid         \* the static counter of allocate_tid()

listVars == <<status, fifo_ready_list, running, thread_ticks>>
tidVars  == <<tid, next_tid>>
threadVars == <<status, fifo_ready_list, all_list, running, idle_thread,
                thread_ticks, tid, next_tid>>

Status == {"FREE", "RUNNING", "READY", "BLOCKED", "DYING"}

\* The threads on a list.
Elems(list) == {list[i] : i \in DOMAIN list}

-----------------------------------------------------------------------------
(* thread_init(): the code that is running becomes thread "main".  The     *)
(* first call of allocate_tid() gives it tid 1.                            *)
ThreadInit ==
  /\ status = [t \in Threads |-> IF t = Main THEN "RUNNING" ELSE "FREE"]
  /\ fifo_ready_list = << >>
  /\ all_list = <<Main>>
  /\ running = Main
  /\ idle_thread = NULL
  /\ thread_ticks = 0
  /\ tid = [t \in Threads |-> IF t = Main THEN 1 ELSE 0]
  /\ next_tid = 2

\* thread_schedule_fifo(): the head of the run queue, else the idle thread.
NextThreadToRun(queue) == IF queue # << >> THEN Head(queue) ELSE idle_thread

\* The ASSERT(is_thread(next)) of schedule(): there is a thread to switch to.
SomeoneToRun(queue) == queue # << >> \/ idle_thread # NULL

(* schedule() and thread_switch_tail(): switch from the running thread,    *)
(* whose new status is s, to the next one of the given queue.  The page of *)
(* a dying thread is freed by the thread that runs after it; Main's page   *)
(* is not palloc's to free.                                                *)
Schedule(s, queue) ==
  LET cur  == running
      next == NextThreadToRun(queue)
      left == IF cur # next /\ s = "DYING" /\ cur # Main THEN "FREE" ELSE s
  IN  /\ status' = [status EXCEPT ![cur] = left, ![next] = "RUNNING"]
      /\ fifo_ready_list' = IF queue # << >> THEN Tail(queue) ELSE queue
      /\ running' = next
      /\ thread_ticks' = 0

\* Mutant: list_push_front().
ThreadEnqueue_Front(t) == <<t>> \o fifo_ready_list

\* thread_enqueue() under the FIFO policy; every other policy panics.
ThreadEnqueue(t) == Append(fifo_ready_list, t)

-----------------------------------------------------------------------------
(* thread_create() up to allocate_tid(): a fresh page becomes a blocked    *)
(* thread that is on all_list, but is nobody's to schedule yet.            *)
InitThread(t) ==
  /\ t \in Page
  /\ status[t] = "FREE"
  /\ status' = [status EXCEPT ![t] = "BLOCKED"]
  /\ all_list' = Append(all_list, t)
  /\ tid' = [tid EXCEPT ![t] = 0]
  /\ UNCHANGED <<fifo_ready_list, running, idle_thread, thread_ticks, next_tid>>

\* allocate_tid() for the new thread t, given the value n it read of next_tid.
SetTid(t, n) ==
  /\ tid' = [tid EXCEPT ![t] = n]
  /\ next_tid' = n + 1
  /\ UNCHANGED <<status, fifo_ready_list, all_list, running, idle_thread, thread_ticks>>

(* thread_unblock(): only a blocked thread may be unblocked (its ASSERT),  *)
(* and nobody ever unblocks the idle thread.                               *)
ThreadUnblock(t) ==
  /\ status[t] = "BLOCKED"
  /\ fifo_ready_list' = ThreadEnqueue(t)
  /\ status' = [status EXCEPT ![t] = "READY"]
  /\ UNCHANGED <<all_list, running, idle_thread, thread_ticks, tid, next_tid>>

\* thread_block().
ThreadBlock ==
  /\ Schedule("BLOCKED", fifo_ready_list)
  /\ UNCHANGED <<all_list, idle_thread, tid, next_tid>>

\* Mutant: the idle thread is queued like any other.
YieldQueue_Idle == ThreadEnqueue(running)

\* The queue thread_yield() leaves to schedule(): the idle thread stays off it.
YieldQueue ==
  IF running # idle_thread THEN ThreadEnqueue(running) ELSE fifo_ready_list

\* thread_yield().
ThreadYield ==
  /\ Schedule("READY", YieldQueue)
  /\ UNCHANGED <<all_list, idle_thread, tid, next_tid>>

\* list_remove() of the one node that is t's.
ListRemove(list, t) ==
  LET at == CHOOSE i \in DOMAIN list : list[i] = t
  IN  [i \in 1..(Len(list) - 1) |-> list[IF i < at THEN i ELSE i + 1]]

\* thread_exit().
ThreadExit ==
  /\ Schedule("DYING", fifo_ready_list)
  /\ all_list' = ListRemove(all_list, running)
  /\ UNCHANGED <<idle_thread, tid, next_tid>>

(* The timer interrupt: thread_tick(), and thread_yield() on return from   *)
(* the handler when the time slice is used up.                             *)
ThreadTick ==
  IF thread_ticks + 1 >= TIME_SLICE
  THEN ThreadYield
  ELSE /\ thread_ticks' = thread_ticks + 1
       /\ UNCHANGED <<status, fifo_ready_list, all_list, running, idle_thread, tid, next_tid>>

\* The first statement of idle(): idle_thread = thread_current().
SetIdleThread ==
  /\ idle_thread' = running
  /\ UNCHANGED <<status, fifo_ready_list, all_list, running, thread_ticks, tid, next_tid>>

-----------------------------------------------------------------------------
(* What a client may do.  The guards are the contracts: block and exit     *)
(* need a thread to switch to, the idle thread never exits and is never    *)
(* unblocked, and a new thread has its tid before it is made ready.        *)
Create     == \E t \in Page : InitThread(t)
AllocTid   == \E t \in Page : /\ status[t] = "BLOCKED"
                              /\ tid[t] = 0
                              /\ next_tid <= MaxTid
                              /\ SetTid(t, next_tid)
Unblock    == \E t \in Threads : t # idle_thread /\ tid[t] # 0 /\ ThreadUnblock(t)
Block      == SomeoneToRun(fifo_ready_list) /\ ThreadBlock
Exit       == SomeoneToRun(fifo_ready_list) /\ running # idle_thread /\ ThreadExit
StartIdle  == idle_thread = NULL /\ running # Main /\ SetIdleThread

ThreadNext == \/ Create \/ AllocTid \/ Unblock \/ Block \/ ThreadYield
              \/ Exit \/ ThreadTick \/ StartIdle

ThreadSpec == ThreadInit /\ [][ThreadNext]_threadVars

-----------------------------------------------------------------------------
ThreadTypeOK ==
  /\ status \in [Threads -> Status]
  /\ fifo_ready_list \in Seq(Threads)
  /\ all_list \in Seq(Threads)
  /\ running \in Threads
  /\ idle_thread \in Page \cup {NULL}
  /\ thread_ticks \in 0..(TIME_SLICE - 1)
  /\ tid \in [Threads -> Nat]
  /\ next_tid \in Nat \ {0}

NoDuplicates(list) == \A i, j \in DOMAIN list : list[i] = list[j] => i = j

(* The two ASSERTs of thread_current(), which every kernel call makes: the *)
(* stack in use belongs to a thread, and that thread, and no other, is     *)
(* RUNNING.                                                                *)
OneRunning == \A t \in Threads : status[t] = "RUNNING" <=> t = running

(* A thread is linked into the run queue once if it is READY and not at    *)
(* all otherwise: `elem' is one list node shared by the run queue and the  *)
(* semaphores' waiter lists, so a second insertion corrupts both lists.    *)
(* The idle thread is the exception idle()'s comment states: "the idle     *)
(* thread never appears in the ready list".                                *)
ReadyListExact ==
  /\ NoDuplicates(fifo_ready_list)
  /\ Elems(fifo_ready_list) = {t \in Threads : status[t] = "READY"} \ {idle_thread}

(* all_list holds exactly the threads that exist, so thread_foreach() never *)
(* follows a link into a page thread_switch_tail() has freed; the only      *)
(* dying thread that keeps its page is the initial one.                     *)
AllListExact ==
  /\ NoDuplicates(all_list)
  /\ Elems(all_list) = {t \in Threads : status[t] \in {"RUNNING", "READY", "BLOCKED"}}
  /\ \A t \in Page : status[t] # "DYING"

\* A thread that has been given a tid and still exists.
Numbered(t) == status[t] \notin {"FREE", "DYING"} /\ tid[t] # 0

(* Two threads never share a tid (a tid is what process_wait() and          *)
(* thread_create()'s caller name a thread by), though pages are reused.     *)
TidsUnique ==
  /\ \A t, u \in Threads : Numbered(t) /\ Numbered(u) /\ tid[t] = tid[u] => t = u
  /\ \A t \in Threads : tid[t] < next_tid

\* t is in the queue and u is behind it, or not in the queue.
Before(list, t, u) == \E i, j \in DOMAIN list : i < j /\ list[i] = t /\ list[j] = u
Ahead(list, t, u)  == t \in Elems(list) /\ (Before(list, t, u) \/ u \notin Elems(list))

(* FIFO: a thread that waits in the run queue is overtaken neither by one  *)
(* behind it nor by one that comes later, whatever is created, woken,      *)
(* preempted or exits meanwhile.                                           *)
NoOvertaking ==
  [][\A t, u \in Threads :
       /\ Ahead(fifo_ready_list, t, u)
       /\ {t, u} \subseteq Elems(fifo_ready_list')
       => Before(fifo_ready_list', t, u)]_threadVars
=============================================================================
