----------------------------- MODULE SynchProofs -----------------------------
(***************************************************************************)
(* The scheduler keeps its lists exact, for any number of pages and tids   *)
(* and any time slice, whoever calls it within the contracts (first part); *)
(* and semaphores and locks, with every caller of the scheduler that Synch *)
(* has, keep their promises for any number of threads, semaphores and      *)
(* locks (second part).  The second invariant ties a thread's place in the *)
(* code to the lists, locks and half-made threads it is responsible for    *)
(* there.                                                                  *)
(***************************************************************************)
EXTENDS Synch, FiniteSetTheorems, TLAPS

-----------------------------------------------------------------------------
(* Lists.                                                                  *)

(* list_push_back() of a thread that is not on the list.                   *)
LEMMA PushBack ==
  ASSUME NEW S, NEW list \in Seq(S), NEW t \in S
  PROVE  /\ Append(list, t) \in Seq(S)
         /\ Elems(Append(list, t)) = Elems(list) \cup {t}
         /\ NoDuplicates(list) /\ t \notin Elems(list) => NoDuplicates(Append(list, t))
  <1> DEFINE result == Append(list, t)
  <1>1. /\ result \in Seq(S)
        /\ Len(result) = Len(list) + 1
        /\ DOMAIN result = 1..(Len(list) + 1)
        /\ DOMAIN list = 1..Len(list)
        /\ Len(list) \in Nat
    OBVIOUS
  <1>2. result[Len(list) + 1] = t /\ \A i \in 1..Len(list) : result[i] = list[i]
    OBVIOUS
  <1> HIDE DEF result
  <1>3. Elems(result) = Elems(list) \cup {t}
    BY <1>1, <1>2 DEF Elems
  <1>4. ASSUME NoDuplicates(list), t \notin Elems(list)
        PROVE  NoDuplicates(result)
    BY <1>1, <1>2, <1>4 DEF NoDuplicates, Elems
  <1> QED BY <1>1, <1>3, <1>4 DEF result

(* list_pop_front() of a list that is not empty.                           *)
LEMMA PopFront ==
  ASSUME NEW S, NEW list \in Seq(S), list # << >>
  PROVE  /\ Head(list) \in S
         /\ Head(list) \in Elems(list)
         /\ Tail(list) \in Seq(S)
         /\ NoDuplicates(list) => /\ NoDuplicates(Tail(list))
                                  /\ Elems(Tail(list)) = Elems(list) \ {Head(list)}
  <1> DEFINE rest == Tail(list)
  <1>1. /\ rest \in Seq(S)
        /\ Len(list) \in Nat /\ Len(list) >= 1
        /\ DOMAIN rest = 1..(Len(list) - 1)
        /\ DOMAIN list = 1..Len(list)
        /\ Head(list) = list[1] /\ Head(list) \in S
    OBVIOUS
  <1>2. \A i \in 1..(Len(list) - 1) : rest[i] = list[i + 1]
    OBVIOUS
  <1> HIDE DEF rest
  <1>3. Head(list) \in Elems(list)
    BY <1>1 DEF Elems
  <1>4. ASSUME NoDuplicates(list)
        PROVE  NoDuplicates(rest) /\ Elems(rest) = Elems(list) \ {Head(list)}
    <2>1. NoDuplicates(rest)
      <3> SUFFICES ASSUME NEW i \in 1..(Len(list) - 1), NEW j \in 1..(Len(list) - 1),
                          rest[i] = rest[j]
                   PROVE  i = j
        BY <1>1 DEF NoDuplicates
      <3>1. list[i + 1] = list[j + 1] /\ i + 1 \in 1..Len(list) /\ j + 1 \in 1..Len(list)
        BY <1>1, <1>2
      <3>2. i + 1 = j + 1
        BY <1>1, <1>4, <3>1 DEF NoDuplicates
      <3> QED BY <3>2
    <2>2. Elems(rest) \subseteq Elems(list) \ {Head(list)}
      BY <1>1, <1>2, <1>4 DEF NoDuplicates, Elems
    <2>3. ASSUME NEW x \in Elems(list) \ {Head(list)}
          PROVE  x \in Elems(rest)
      <3>1. PICK i \in 1..Len(list) : list[i] = x
        BY <1>1 DEF Elems
      <3>2. i # 1
        BY <1>1, <3>1
      <3>3. i - 1 \in 1..(Len(list) - 1) /\ rest[i - 1] = x
        BY <1>1, <1>2, <3>1, <3>2
      <3> QED BY <1>1, <3>3 DEF Elems
    <2> QED BY <2>1, <2>2, <2>3
  <1> QED BY <1>1, <1>3, <1>4 DEF rest

(* list_remove() of a thread that is on the list.                          *)
LEMMA Remove ==
  ASSUME NEW S, NEW list \in Seq(S), NEW t \in Elems(list), NoDuplicates(list)
  PROVE  /\ ListRemove(list, t) \in Seq(S)
         /\ NoDuplicates(ListRemove(list, t))
         /\ Elems(ListRemove(list, t)) = Elems(list) \ {t}
  <1> DEFINE at == CHOOSE i \in DOMAIN list : list[i] = t
             result == [i \in 1..(Len(list) - 1) |-> list[IF i < at THEN i ELSE i + 1]]
  <1>1. at \in DOMAIN list /\ list[at] = t
    BY DEF Elems
  <1>2. Len(list) \in Nat /\ DOMAIN list = 1..Len(list) /\ \A i \in 1..Len(list) : list[i] \in S
    OBVIOUS
  <1> HIDE DEF at
  <1>3. Len(list) >= 1
    BY <1>1, <1>2
  <1>4. \A i \in 1..(Len(list) - 1) : (IF i < at THEN i ELSE i + 1) \in 1..Len(list)
    BY <1>1, <1>2, <1>3
  <1>5. result \in Seq(S) /\ DOMAIN result = 1..(Len(list) - 1)
    BY <1>2, <1>3, <1>4
  <1>6. NoDuplicates(result)
    <2> SUFFICES ASSUME NEW i \in 1..(Len(list) - 1), NEW j \in 1..(Len(list) - 1),
                        result[i] = result[j]
                 PROVE  i = j
      BY <1>5 DEF NoDuplicates
    <2>1. (IF i < at THEN i ELSE i + 1) = (IF j < at THEN j ELSE j + 1)
      BY <1>2, <1>4 DEF NoDuplicates
    <2> QED BY <2>1, <1>1, <1>2
  <1>7. ASSUME NEW i \in 1..(Len(list) - 1)
        PROVE  result[i] \in Elems(list) \ {t}
    <2>1. result[i] = list[IF i < at THEN i ELSE i + 1] /\ (IF i < at THEN i ELSE i + 1) # at
      BY <1>1, <1>2
    <2> QED BY <2>1, <1>1, <1>2, <1>4 DEF Elems, NoDuplicates
  <1>8. ASSUME NEW x \in Elems(list) \ {t}
        PROVE  x \in Elems(result)
    <2>1. PICK i \in 1..Len(list) : list[i] = x
      BY <1>2 DEF Elems
    <2>2. i # at
      BY <1>1, <2>1
    <2>3. CASE i < at
      <3>1. i \in 1..(Len(list) - 1) /\ result[i] = x
        BY <2>1, <2>3, <1>1, <1>2
      <3> QED BY <3>1, <1>5 DEF Elems
    <2>4. CASE i > at
      <3>1. i - 1 \in 1..(Len(list) - 1)
        BY <2>1, <2>4, <1>1, <1>2
      <3>2. result[i - 1] = x
        BY <3>1, <2>1, <2>4, <1>1, <1>2
      <3> QED BY <3>1, <3>2, <1>5 DEF Elems
    <2> QED BY <2>2, <2>3, <2>4, <1>1, <1>2
  <1>9. Elems(result) = Elems(list) \ {t}
    BY <1>5, <1>7, <1>8 DEF Elems
  <1> QED BY <1>5, <1>6, <1>9 DEF ListRemove, at

-----------------------------------------------------------------------------
(* The inductive invariant: the named parts, and that the idle thread is   *)
(* alive, which schedule() needs when the run queue is empty.              *)
IdleAlive == idle_thread # NULL => status[idle_thread] \notin {"FREE", "DYING"}

ThreadInv == ThreadTypeOK /\ OneRunning /\ ReadyListExact /\ AllListExact
             /\ TidsUnique /\ IdleAlive

LEMMA ThreadsNotNull == Main \in Threads /\ Page \subseteq Threads /\ NULL \notin Threads
  BY ThreadAssumption DEF Threads

LEMMA InitInv == ThreadInit => ThreadInv
  <1> SUFFICES ASSUME ThreadInit PROVE ThreadInv
    OBVIOUS
  <1> USE DEF ThreadInit
  <1>1. ThreadTypeOK
    BY ThreadAssumption DEF ThreadTypeOK, Status, Threads
  <1>2. OneRunning
    BY DEF OneRunning
  <1>3. ReadyListExact
    BY DEF ReadyListExact, NoDuplicates, Elems
  <1>4. AllListExact
    BY ThreadAssumption DEF AllListExact, NoDuplicates, Elems, Threads
  <1>5. TidsUnique
    BY DEF TidsUnique, Numbered
  <1>6. IdleAlive
    BY DEF IdleAlive
  <1> QED BY <1>1, <1>2, <1>3, <1>4, <1>5, <1>6 DEF ThreadInv

(* schedule(), from a queue that is exact for the new status s of the      *)
(* running thread, leaves one thread running and the run queue exact.      *)
LEMMA ScheduleInv ==
  ASSUME ThreadInv,
         NEW s \in {"READY", "BLOCKED", "DYING"},
         NEW queue \in Seq(Threads),
         NoDuplicates(queue),
         Elems(queue) = {t \in Threads : [status EXCEPT ![running] = s][t] = "READY"}
                          \ {idle_thread},
         SomeoneToRun(queue),
         s = "DYING" => running # idle_thread,
         Schedule(s, queue),
         UNCHANGED idle_thread
  PROVE  /\ status' \in [Threads -> Status]
         /\ fifo_ready_list' \in Seq(Threads)
         /\ running' \in Threads
         /\ thread_ticks' \in 0..(TIME_SLICE - 1)
         /\ OneRunning' /\ ReadyListExact' /\ IdleAlive'
         /\ \A t \in Threads : t # running =>
              (status'[t] \in {"FREE", "DYING"} <=> status[t] \in {"FREE", "DYING"})
         /\ status'[running] \in {"FREE", "DYING"} <=> s = "DYING"
         /\ \A t \in Page : status'[t] # "DYING"
  <1> USE DEF ThreadInv
  <1> DEFINE next == NextThreadToRun(queue)
             left == IF running # next /\ s = "DYING" /\ running # Main THEN "FREE" ELSE s
  <1>1. /\ status \in [Threads -> Status] /\ running \in Threads
        /\ idle_thread \in Page \cup {NULL} /\ thread_ticks \in 0..(TIME_SLICE - 1)
    BY DEF ThreadTypeOK
  <1>2. CASE queue # << >>
    <2>1. /\ next \in Threads /\ next \in Elems(queue)
          /\ Tail(queue) \in Seq(Threads) /\ NoDuplicates(Tail(queue))
          /\ Elems(Tail(queue)) = Elems(queue) \ {next}
      BY <1>2, PopFront DEF NextThreadToRun
    <2>2. /\ next # idle_thread
          /\ [status EXCEPT ![running] = s][next] = "READY"
      BY <2>1
    <2>3. fifo_ready_list' = Tail(queue)
      BY <1>2 DEF Schedule
    <2> QED
      BY <1>1, <2>1, <2>2, <2>3, ThreadAssumption, ThreadsNotNull
      DEF Schedule, OneRunning, ReadyListExact, IdleAlive, AllListExact, Status, Threads
  <1>3. CASE queue = << >>
    <2>1. next = idle_thread /\ idle_thread \in Page /\ idle_thread \in Threads
      BY <1>1, <1>3, ThreadsNotNull DEF NextThreadToRun, SomeoneToRun
    <2>2. Elems(queue) = {} /\ fifo_ready_list' = queue
      BY <1>3 DEF Elems, Schedule
    <2> QED
      BY <1>1, <1>3, <2>1, <2>2, ThreadAssumption, ThreadsNotNull
      DEF Schedule, OneRunning, ReadyListExact, IdleAlive, AllListExact, Status, Threads
  <1> QED BY <1>2, <1>3

-----------------------------------------------------------------------------
(* Every action keeps the invariant.                                       *)

LEMMA CreateInv == ThreadInv /\ Create => ThreadInv'
  <1> SUFFICES ASSUME ThreadInv, NEW t \in Page, InitThread(t) PROVE ThreadInv'
    BY DEF Create
  <1> USE DEF ThreadInv, InitThread
  <1>1. t \in Threads /\ t \notin Elems(all_list)
    BY ThreadsNotNull DEF AllListExact
  <1>2. ThreadTypeOK'
    BY <1>1, PushBack DEF ThreadTypeOK, Status
  <1>3. OneRunning' /\ ReadyListExact' /\ IdleAlive'
    BY <1>1 DEF ThreadTypeOK, OneRunning, ReadyListExact, IdleAlive
  <1>4. AllListExact'
    <2>1. /\ NoDuplicates(Append(all_list, t))
          /\ Elems(Append(all_list, t)) = Elems(all_list) \cup {t}
      <3> all_list \in Seq(Threads) /\ NoDuplicates(all_list)
        BY DEF AllListExact, ThreadTypeOK
      <3> HIDE DEF InitThread, ThreadInv
      <3> QED BY <1>1, PushBack
    <2> QED BY <1>1, <2>1 DEF AllListExact, ThreadTypeOK
  <1>5. TidsUnique'
    BY <1>1 DEF ThreadTypeOK, TidsUnique, Numbered
  <1> QED BY <1>2, <1>3, <1>4, <1>5

LEMMA AllocTidInv == ThreadInv /\ AllocTid => ThreadInv'
  <1> SUFFICES ASSUME ThreadInv, NEW t \in Page, status[t] = "BLOCKED", SetTid(t, next_tid)
               PROVE  ThreadInv'
    BY DEF AllocTid
  <1> USE DEF ThreadInv, SetTid
  <1>1. ThreadTypeOK'
    BY ThreadsNotNull DEF ThreadTypeOK
  <1>2. OneRunning' /\ ReadyListExact' /\ AllListExact' /\ IdleAlive'
    BY DEF OneRunning, ReadyListExact, AllListExact, IdleAlive
  <1>3. TidsUnique'
    BY ThreadsNotNull DEF ThreadTypeOK, TidsUnique, Numbered
  <1> QED BY <1>1, <1>2, <1>3

LEMMA UnblockInv == ThreadInv /\ Unblock => ThreadInv'
  <1> SUFFICES ASSUME ThreadInv, NEW t \in Threads, t # idle_thread, ThreadUnblock(t)
               PROVE  ThreadInv'
    BY DEF Unblock
  <1> USE DEF ThreadInv, ThreadUnblock
  <1>1. t \notin Elems(fifo_ready_list)
    BY DEF ReadyListExact
  <1>2. /\ fifo_ready_list' \in Seq(Threads)
        /\ NoDuplicates(fifo_ready_list')
        /\ Elems(fifo_ready_list') = Elems(fifo_ready_list) \cup {t}
    BY <1>1, PushBack DEF ThreadTypeOK, ReadyListExact, ThreadEnqueue
  <1>3. ThreadTypeOK'
    BY <1>2 DEF ThreadTypeOK, Status
  <1>4. OneRunning' /\ ReadyListExact' /\ IdleAlive'
    BY <1>2 DEF ThreadTypeOK, OneRunning, ReadyListExact, IdleAlive
  <1>5. AllListExact' /\ TidsUnique'
    BY ThreadsNotNull DEF ThreadTypeOK, AllListExact, TidsUnique, Numbered
  <1> QED BY <1>3, <1>4, <1>5

(* A switch that neither creates nor ends a thread keeps all_list and the  *)
(* tids as they are.                                                       *)
LEMMA SameThreads ==
  ASSUME ThreadInv, OneRunning', status' \in [Threads -> Status],
         \A t \in Threads : status'[t] \in {"FREE", "DYING"} <=> status[t] \in {"FREE", "DYING"},
         \A t \in Page : status'[t] # "DYING",
         UNCHANGED <<all_list, tid, next_tid>>
  PROVE  AllListExact' /\ TidsUnique'
  <1>1. \A t \in Threads : status'[t] \in {"RUNNING", "READY", "BLOCKED"}
                            <=> status[t] \in {"RUNNING", "READY", "BLOCKED"}
    BY DEF Status, ThreadInv, ThreadTypeOK
  <1>2. AllListExact'
    BY <1>1 DEF ThreadInv, AllListExact
  <1>3. TidsUnique'
    BY DEF ThreadInv, TidsUnique, Numbered
  <1> QED BY <1>2, <1>3

LEMMA BlockInv == ThreadInv /\ Block => ThreadInv'
  <1> SUFFICES ASSUME ThreadInv, Block PROVE ThreadInv'
    OBVIOUS
  <1> USE DEF ThreadInv, Block, ThreadBlock
  <1>1. /\ fifo_ready_list \in Seq(Threads)
        /\ NoDuplicates(fifo_ready_list)
        /\ Elems(fifo_ready_list) =
             {t \in Threads : [status EXCEPT ![running] = "BLOCKED"][t] = "READY"} \ {idle_thread}
    BY DEF ThreadTypeOK, ReadyListExact, OneRunning
  <1>2. status[running] \notin {"FREE", "DYING"} /\ running \in Threads
    BY DEF OneRunning, ThreadTypeOK
  <1>3. /\ status' \in [Threads -> Status]
        /\ fifo_ready_list' \in Seq(Threads)
        /\ running' \in Threads
        /\ thread_ticks' \in 0..(TIME_SLICE - 1)
        /\ OneRunning' /\ ReadyListExact' /\ IdleAlive'
        /\ \A t \in Threads : status'[t] \in {"FREE", "DYING"} <=> status[t] \in {"FREE", "DYING"}
        /\ \A t \in Page : status'[t] # "DYING"
    BY <1>1, <1>2, ScheduleInv
  <1>4. AllListExact' /\ TidsUnique'
    BY <1>3, SameThreads
  <1> QED BY <1>3, <1>4 DEF ThreadTypeOK

LEMMA YieldInv == ThreadInv /\ ThreadYield => ThreadInv'
  <1> SUFFICES ASSUME ThreadInv, ThreadYield PROVE ThreadInv'
    OBVIOUS
  <1> USE DEF ThreadInv, ThreadYield
  <1>1. running \in Threads /\ running \notin Elems(fifo_ready_list)
    BY DEF ThreadTypeOK, ReadyListExact, OneRunning
  <1>2. /\ YieldQueue \in Seq(Threads)
        /\ NoDuplicates(YieldQueue)
        /\ Elems(YieldQueue) =
             {t \in Threads : [status EXCEPT ![running] = "READY"][t] = "READY"} \ {idle_thread}
    <2>1. CASE running = idle_thread
      BY <1>1, <2>1 DEF YieldQueue, ThreadTypeOK, ReadyListExact
    <2>2. CASE running # idle_thread
      <3>1. /\ YieldQueue \in Seq(Threads)
            /\ NoDuplicates(YieldQueue)
            /\ Elems(YieldQueue) = Elems(fifo_ready_list) \cup {running}
        BY <1>1, <2>2, PushBack DEF YieldQueue, ThreadEnqueue, ThreadTypeOK, ReadyListExact
      <3> QED BY <1>1, <2>2, <3>1 DEF ThreadTypeOK, ReadyListExact
    <2> QED BY <2>1, <2>2
  <1>3. SomeoneToRun(YieldQueue)
    <2>1. CASE running = idle_thread
      BY <1>1, <2>1, ThreadsNotNull DEF SomeoneToRun
    <2>2. CASE running # idle_thread
      <3>1. running \in Elems(YieldQueue)
        BY <1>1, <1>2, <2>2 DEF ThreadTypeOK
      <3>2. YieldQueue # << >>
        BY <3>1 DEF Elems
      <3> QED BY <3>2 DEF SomeoneToRun
    <2> QED BY <2>1, <2>2
  <1>4. status[running] \notin {"FREE", "DYING"}
    BY <1>1 DEF OneRunning
  <1>5. /\ status' \in [Threads -> Status]
        /\ fifo_ready_list' \in Seq(Threads)
        /\ running' \in Threads
        /\ thread_ticks' \in 0..(TIME_SLICE - 1)
        /\ OneRunning' /\ ReadyListExact' /\ IdleAlive'
        /\ \A t \in Threads : status'[t] \in {"FREE", "DYING"} <=> status[t] \in {"FREE", "DYING"}
        /\ \A t \in Page : status'[t] # "DYING"
    <2> HIDE DEF ThreadInv
    <2> QED BY <1>1, <1>2, <1>3, <1>4, ScheduleInv
  <1>6. AllListExact' /\ TidsUnique'
    BY <1>5, SameThreads
  <1> QED BY <1>5, <1>6 DEF ThreadTypeOK

LEMMA ExitInv == ThreadInv /\ Exit => ThreadInv'
  <1> SUFFICES ASSUME ThreadInv, Exit PROVE ThreadInv'
    OBVIOUS
  <1> USE DEF ThreadInv, Exit, ThreadExit
  <1>1. /\ fifo_ready_list \in Seq(Threads)
        /\ NoDuplicates(fifo_ready_list)
        /\ Elems(fifo_ready_list) =
             {t \in Threads : [status EXCEPT ![running] = "DYING"][t] = "READY"} \ {idle_thread}
    BY DEF ThreadTypeOK, ReadyListExact, OneRunning
  <1>2. /\ running \in Threads /\ running \in Elems(all_list)
        /\ all_list \in Seq(Threads) /\ NoDuplicates(all_list)
        /\ status \in [Threads -> Status]
    BY DEF OneRunning, ThreadTypeOK, AllListExact
  <1>3. /\ status' \in [Threads -> Status]
        /\ fifo_ready_list' \in Seq(Threads)
        /\ running' \in Threads
        /\ thread_ticks' \in 0..(TIME_SLICE - 1)
        /\ OneRunning' /\ ReadyListExact' /\ IdleAlive'
        /\ \A t \in Threads : t # running =>
             (status'[t] \in {"FREE", "DYING"} <=> status[t] \in {"FREE", "DYING"})
        /\ status'[running] \in {"FREE", "DYING"}
        /\ \A t \in Page : status'[t] # "DYING"
    BY <1>1, ScheduleInv
  <1>4. /\ all_list' \in Seq(Threads)
        /\ NoDuplicates(all_list')
        /\ Elems(all_list') = Elems(all_list) \ {running}
    BY <1>2, Remove
  <1>5. AllListExact'
    <2>1. \A t \in Threads : status'[t] \in {"RUNNING", "READY", "BLOCKED"}
            <=> t # running /\ status[t] \in {"RUNNING", "READY", "BLOCKED"}
      BY <1>2, <1>3 DEF Status
    <2> QED BY <1>3, <1>4, <2>1 DEF AllListExact
  <1>6. TidsUnique'
    BY <1>3 DEF TidsUnique, Numbered
  <1> QED BY <1>3, <1>4, <1>5, <1>6 DEF ThreadTypeOK

LEMMA TickInv == ThreadInv /\ ThreadTick => ThreadInv'
  <1> SUFFICES ASSUME ThreadInv, ThreadTick PROVE ThreadInv'
    OBVIOUS
  <1>1. CASE thread_ticks + 1 >= TIME_SLICE
    BY <1>1, YieldInv DEF ThreadTick
  <1>2. CASE ~(thread_ticks + 1 >= TIME_SLICE)
    <2>1. ThreadTypeOK'
      BY <1>2, ThreadAssumption DEF ThreadTick, ThreadInv, ThreadTypeOK
    <2> QED
      BY <1>2, <2>1 DEF ThreadTick, ThreadInv, OneRunning, ReadyListExact, AllListExact,
                        TidsUnique, Numbered, IdleAlive
  <1> QED BY <1>1, <1>2

LEMMA StartIdleInv == ThreadInv /\ StartIdle => ThreadInv'
  <1> SUFFICES ASSUME ThreadInv, StartIdle PROVE ThreadInv'
    OBVIOUS
  <1> USE DEF ThreadInv, StartIdle, SetIdleThread
  <1>1. ThreadTypeOK'
    BY DEF ThreadTypeOK, Threads
  <1>2. ReadyListExact'
    BY ThreadsNotNull DEF ReadyListExact, OneRunning
  <1>3. OneRunning' /\ AllListExact' /\ TidsUnique' /\ IdleAlive'
    BY DEF ThreadTypeOK, OneRunning, AllListExact, TidsUnique, Numbered, IdleAlive
  <1> QED BY <1>1, <1>2, <1>3

LEMMA StutterInv == ThreadInv /\ UNCHANGED threadVars => ThreadInv'
  BY DEF threadVars, ThreadInv, ThreadTypeOK, OneRunning, ReadyListExact, AllListExact,
         TidsUnique, Numbered, IdleAlive

LEMMA SchedulerStep == ThreadInv /\ [ThreadNext]_threadVars => ThreadInv'
  BY CreateInv, AllocTidInv, UnblockInv, BlockInv, YieldInv, ExitInv, TickInv, StartIdleInv,
     StutterInv DEF ThreadNext

(* The invariant holds in every state the scheduler reaches.               *)
THEOREM SchedulerInvariant == ThreadSpec => []ThreadInv
  BY InitInv, SchedulerStep, PTL DEF ThreadSpec

(* The variables of thread.c keep their types; thread_ticks stays below    *)
(* TIME_SLICE.                                                             *)
THEOREM TypeCorrect == ThreadSpec => []ThreadTypeOK
  <1>1. ThreadInv => ThreadTypeOK
    BY DEF ThreadInv
  <1> QED BY SchedulerInvariant, <1>1, PTL

(* thread_current()'s ASSERTs hold: one thread is RUNNING, the one whose   *)
(* stack is in use.                                                        *)
THEOREM OneRunningAlways == ThreadSpec => []OneRunning
  <1>1. ThreadInv => OneRunning
    BY DEF ThreadInv
  <1> QED BY SchedulerInvariant, <1>1, PTL

(* The run queue holds each READY thread once, and never the idle thread.  *)
THEOREM ReadyListAlwaysExact == ThreadSpec => []ReadyListExact
  <1>1. ThreadInv => ReadyListExact
    BY DEF ThreadInv
  <1> QED BY SchedulerInvariant, <1>1, PTL

(* all_list holds each existing thread once and no freed page.             *)
THEOREM AllListAlwaysExact == ThreadSpec => []AllListExact
  <1>1. ThreadInv => AllListExact
    BY DEF ThreadInv
  <1> QED BY SchedulerInvariant, <1>1, PTL

(* No two threads that exist have the same tid.                            *)
THEOREM TidsAlwaysUnique == ThreadSpec => []TidsUnique
  <1>1. ThreadInv => TidsUnique
    BY DEF ThreadInv
  <1> QED BY SchedulerInvariant, <1>1, PTL

-----------------------------------------------------------------------------
(* FIFO order.                                                             *)

LEMMA BeforeAppend ==
  ASSUME NEW S, NEW list \in Seq(S), NEW x \in S, NEW t, NEW u, Before(list, t, u)
  PROVE  Before(Append(list, x), t, u)
  <1>1. PICK i \in DOMAIN list, j \in DOMAIN list : i < j /\ list[i] = t /\ list[j] = u
    BY DEF Before
  <1>2. /\ i \in DOMAIN Append(list, x) /\ j \in DOMAIN Append(list, x)
        /\ Append(list, x)[i] = t /\ Append(list, x)[j] = u
    BY <1>1
  <1> QED BY <1>1, <1>2 DEF Before

LEMMA AheadAppend ==
  ASSUME NEW S, NEW list \in Seq(S), NEW x \in S, NEW t, NEW u,
         Ahead(list, t, u), u \in Elems(Append(list, x))
  PROVE  Before(Append(list, x), t, u)
  <1>1. CASE Before(list, t, u)
    BY <1>1, BeforeAppend
  <1>2. CASE u \notin Elems(list)
    <2>1. PICK i \in DOMAIN list : list[i] = t
      BY DEF Ahead, Elems
    <2>2. PICK j \in DOMAIN Append(list, x) : Append(list, x)[j] = u
      BY DEF Elems
    <2>3. /\ DOMAIN list = 1..Len(list) /\ Len(list) \in Nat
          /\ DOMAIN Append(list, x) = 1..(Len(list) + 1)
          /\ \A k \in 1..Len(list) : Append(list, x)[k] = list[k]
      OBVIOUS
    <2>4. j \notin 1..Len(list)
      BY <1>2, <2>2, <2>3 DEF Elems
    <2>5. i \in DOMAIN Append(list, x) /\ i < j /\ Append(list, x)[i] = t
      BY <2>1, <2>2, <2>3, <2>4
    <2> QED BY <2>2, <2>5 DEF Before
  <1> QED BY <1>1, <1>2 DEF Ahead

LEMMA BeforeTail ==
  ASSUME NEW S, NEW list \in Seq(S), list # << >>, NoDuplicates(list),
         NEW t, NEW u, Before(list, t, u), t \in Elems(Tail(list))
  PROVE  Before(Tail(list), t, u)
  <1>1. PICK i \in DOMAIN list, j \in DOMAIN list : i < j /\ list[i] = t /\ list[j] = u
    BY DEF Before
  <1>2. t # Head(list)
    BY PopFront
  <1>3. /\ DOMAIN list = 1..Len(list) /\ Len(list) \in Nat /\ Head(list) = list[1]
        /\ DOMAIN Tail(list) = 1..(Len(list) - 1)
        /\ \A k \in 1..(Len(list) - 1) : Tail(list)[k] = list[k + 1]
    OBVIOUS
  <1>4. i # 1
    BY <1>1, <1>2, <1>3
  <1>5. i - 1 \in DOMAIN Tail(list) /\ j - 1 \in DOMAIN Tail(list) /\ i - 1 < j - 1
    BY <1>1, <1>3, <1>4
  <1>6. Tail(list)[i - 1] = t /\ Tail(list)[j - 1] = u
    BY <1>1, <1>3, <1>5
  <1> QED BY <1>5, <1>6 DEF Before

\* The order of threads that stay in the run queue.
OrderKept == \A t, u \in Threads :
               /\ Ahead(fifo_ready_list, t, u)
               /\ {t, u} \subseteq Elems(fifo_ready_list')
               => Before(fifo_ready_list', t, u)

LEMMA ScheduleOrder ==
  ASSUME ThreadInv, NEW s, NEW queue \in Seq(Threads), NoDuplicates(queue),
         Schedule(s, queue),
         \A t, u \in Threads : Ahead(fifo_ready_list, t, u) /\ u \in Elems(queue)
                                => Before(queue, t, u)
  PROVE  OrderKept
  <1>1. CASE queue = << >>
    BY <1>1 DEF Schedule, OrderKept, Elems
  <1>2. CASE queue # << >>
    <2>1. fifo_ready_list' = Tail(queue)
      BY <1>2 DEF Schedule
    <2> SUFFICES ASSUME NEW t \in Threads, NEW u \in Threads, Ahead(fifo_ready_list, t, u),
                        t \in Elems(Tail(queue)), u \in Elems(Tail(queue))
                 PROVE  Before(Tail(queue), t, u)
      BY <2>1 DEF OrderKept
    <2>2. u \in Elems(queue)
      BY <1>2, PopFront
    <2>3. Before(queue, t, u)
      BY <2>2
    <2> QED BY <1>2, <2>3, BeforeTail
  <1> QED BY <1>1, <1>2

LEMMA StepOrder == ThreadInv /\ [ThreadNext]_threadVars => OrderKept
  <1> SUFFICES ASSUME ThreadInv, [ThreadNext]_threadVars PROVE OrderKept
    OBVIOUS
  <1>0. /\ fifo_ready_list \in Seq(Threads) /\ NoDuplicates(fifo_ready_list)
        /\ running \in Threads /\ running \notin Elems(fifo_ready_list)
    BY DEF ThreadInv, ThreadTypeOK, ReadyListExact, OneRunning
  <1>1. CASE UNCHANGED fifo_ready_list
    BY <1>1 DEF OrderKept, Ahead
  <1>2. CASE Unblock
    <2>1. PICK t \in Threads : fifo_ready_list' = Append(fifo_ready_list, t)
      BY <1>2 DEF Unblock, ThreadUnblock, ThreadEnqueue
    <2> QED BY <1>0, <2>1, AheadAppend DEF OrderKept
  <1>3. CASE Block
    BY <1>0, <1>3, ScheduleOrder DEF Block, ThreadBlock, Ahead
  <1>4. CASE Exit
    BY <1>0, <1>4, ScheduleOrder DEF Exit, ThreadExit, Ahead
  <1>5. ASSUME ThreadYield PROVE OrderKept
    <2>1. /\ YieldQueue \in Seq(Threads) /\ NoDuplicates(YieldQueue)
          /\ \A t, u \in Threads : Ahead(fifo_ready_list, t, u) /\ u \in Elems(YieldQueue)
                                   => Before(YieldQueue, t, u)
      <3>1. CASE running = idle_thread
        BY <1>0, <3>1 DEF YieldQueue, Ahead
      <3>2. CASE running # idle_thread
        BY <1>0, <3>2, PushBack, AheadAppend DEF YieldQueue, ThreadEnqueue
      <3> QED BY <3>1, <3>2
    <2> QED BY <1>5, <2>1, ScheduleOrder DEF ThreadYield
  <1>6. CASE ThreadTick
    <2>1. CASE thread_ticks + 1 >= TIME_SLICE
      BY <1>5, <1>6, <2>1 DEF ThreadTick
    <2>2. CASE ~(thread_ticks + 1 >= TIME_SLICE)
      BY <1>1, <1>6, <2>2 DEF ThreadTick
    <2> QED BY <2>1, <2>2
  <1> QED
    BY <1>1, <1>2, <1>3, <1>4, <1>5, <1>6
    DEF ThreadNext, Create, InitThread, AllocTid, SetTid, StartIdle, SetIdleThread, threadVars

(* A thread waiting in the run queue is overtaken neither by one behind it *)
(* nor by one that comes later: the FIFO policy of thread_enqueue() and    *)
(* thread_schedule_fifo().                                                 *)
THEOREM FifoOrder == ThreadSpec => NoOvertaking
  <1>1. ThreadInv /\ [ThreadNext]_threadVars => [OrderKept]_threadVars
    BY StepOrder
  <1> QED BY SchedulerInvariant, <1>1, PTL DEF ThreadSpec, NoOvertaking, OrderKept

-----------------------------------------------------------------------------
(* The parts of the invariant.                                             *)

(* The argument of the call a thread is in, and that a free page is not in *)
(* the middle of anything.                                                 *)
CallArgs ==
  \A t \in Threads :
    /\ pc[t] = "down" => arg[t] \in Semaphores
    /\ pc[t] \in {"acquired", "releasing"} => arg[t] \in Locks
    /\ status[t] = "FREE" => pc[t] \in {"run", "exited"}

\* Between the semaphore and lock->holder.
Window(t, l) == arg[t] = l /\ pc[t] \in {"acquired", "releasing"}

(* A lock's semaphore is 0 exactly while one thread owns the lock, and     *)
(* lock->holder is NULL in its window.                                     *)
LockSound(l) ==
  /\ \A t, u \in Threads : Owns(t, l) /\ Owns(u, l) => t = u
  /\ value[l] = IF \E t \in Threads : Owns(t, l) THEN 0 ELSE 1
  /\ \A t \in Threads : Window(t, l) => holder[l] = NULL
OneOwner == \A l \in Locks : LockSound(l)

(* tid_lock covers the read and the write of next_tid.                     *)
TidCritical == {"tid_read", "tid_write", "tid_unlock"}
TidLockHeld ==
  \A t \in Threads :
    /\ pc[t] \in TidCritical <=> holder[TidLock] = t
    /\ pc[t] = "tid_write" => tmp[t] = next_tid

\* In thread_create(), before and after the new thread has its tid.
BeforeTid(u) == \/ pc[u] \in {"tid_lock", "tid_read", "tid_write"}
                \/ arg[u] = TidLock /\ pc[u] \in {"down", "acquired"}
AfterTid(u) == \/ pc[u] \in {"tid_unlock", "create_unblock"}
               \/ arg[u] = TidLock /\ pc[u] = "releasing"

(* A thread that is being made is blocked, belongs to the one call that    *)
(* makes it, and has no tid exactly until allocate_tid() has returned.     *)
InTheMaking ==
  /\ \A u \in Threads : new[u] # NULL <=> (BeforeTid(u) \/ AfterTid(u))
  /\ \A u \in Threads : new[u] # NULL =>
       /\ status[new[u]] = "BLOCKED" /\ pc[new[u]] \in {"run", "idle_init"}
       /\ tid[new[u]] = 0 <=> BeforeTid(u)
  /\ \A u, v \in Threads : new[u] # NULL /\ new[u] = new[v] => u = v
  /\ \A t \in Threads : status[t] \notin {"FREE", "DYING"} /\ tid[t] = 0
                        => \E u \in Threads : new[u] = t

(* The tids left are enough for the threads that wait for one.             *)
Makers == {u \in Threads : BeforeTid(u)}
TidsLeft == next_tid + Cardinality(Makers) <= MaxTid + 1

(* Only the idle thread is in idle(), and it is there for good.            *)
IdleInPlace ==
  /\ \A t \in Threads : pc[t] \in {"idle_up", "idle_loop", "hlt"} <=> t = idle_thread
  /\ \A t \in Threads : pc[t] = "idle_init" => t # Main /\ idle_thread = NULL
  /\ \A t, u \in Threads : pc[t] = "idle_init" /\ pc[u] = "idle_init" => t = u

(* Until thread_start() enables interrupts main runs alone and does not    *)
(* sleep; from then until there is an idle thread, the thread that will be *)
(* it can run.                                                             *)
BootInOrder ==
  /\ \A t \in Threads : pc[t] \in {"boot", "boot_enable"} => t = Main /\ ~started
  /\ pc[Main] = "boot" => \A t \in Threads : pc[t] # "idle_init"
  /\ ~started =>
       /\ running = Main /\ idle_thread = NULL
       /\ \A t \in Page : pc[t] \in {"run", "idle_init"}
       /\ pc[Main] \in {"boot", "boot_enable"} \/ new[Main] # NULL
       /\ new[Main] # NULL => pc[new[Main]] = "idle_init"
       /\ pc[Main] # "down"
  /\ (started \/ pc[Main] = "boot_enable") /\ idle_thread = NULL
       => \E t \in Page : pc[t] = "idle_init" /\ status[t] \in {"READY", "RUNNING"}

SynchInv == /\ ThreadInv /\ SynchTypeOK /\ CallArgs /\ OneOwner /\ TidLockHeld /\ InTheMaking
            /\ TidsLeft /\ IdleInPlace /\ BootInOrder /\ SleepersAccounted

-----------------------------------------------------------------------------
(* Constants.                                                              *)

LEMMA SynchSets ==
  /\ IsFiniteSet(Threads)
  /\ TidLock \in Locks /\ Lock \subseteq Locks /\ Locks \subseteq Semaphores
  /\ Sema \subseteq Semaphores /\ Sema \cap Locks = {}
  /\ IdleStarted \in Semaphores /\ IdleStarted \notin Locks
  /\ NULL \notin Semaphores /\ TidLock \notin Lock /\ TidLock \notin Sema
  /\ TidLock # IdleStarted
  <1>1. IsFiniteSet(Threads)
    BY SynchAssumption, FS_AddElement DEF Threads
  <1> QED BY <1>1, SynchAssumption DEF Locks, Semaphores

LEMMA SynchInitInv == Init => SynchInv
  <1> SUFFICES ASSUME Init PROVE SynchInv
    OBVIOUS
  <1> USE DEF Init
  <1>1. ThreadInv
    BY InitInv
  <1>2. SynchTypeOK
    <2>1. /\ value \in [Semaphores -> Nat] /\ holder \in [Locks -> Threads \cup {NULL}]
          /\ arg \in [Threads -> Semaphores \cup {NULL}]
          /\ new \in [Threads -> Page \cup {NULL}] /\ tmp \in [Threads -> Nat]
      OBVIOUS
    <2>2. waiters \in [Semaphores -> Seq(Threads)]
      OBVIOUS
    <2>3. pc \in [Threads -> Label]
      BY DEF Label
    <2>4. started \in BOOLEAN
      OBVIOUS
    <2> QED BY <1>1, <2>1, <2>2, <2>3, <2>4 DEF SynchTypeOK, ThreadInv
  <1>3. CallArgs /\ TidLockHeld /\ IdleInPlace
    BY ThreadsNotNull, SynchSets DEF CallArgs, TidLockHeld, TidCritical, IdleInPlace, ThreadInit
  <1>4. OneOwner
    BY ThreadsNotNull, SynchSets DEF OneOwner, LockSound, Owns, Window
  <1>5. InTheMaking
    BY ThreadsNotNull, SynchSets DEF InTheMaking, BeforeTid, AfterTid, ThreadInit
  <1>6. TidsLeft
    <2>1. Makers = {}
      BY DEF Makers, BeforeTid
    <2> QED BY <2>1, FS_EmptySet, ThreadAssumption DEF TidsLeft, ThreadInit
  <1>7. BootInOrder
    BY ThreadAssumption DEF BootInOrder, ThreadInit, Threads
  <1>8. SleepersAccounted
    BY ThreadsNotNull, SynchSets DEF SleepersAccounted, NoDuplicates, Elems, ThreadInit
  <1> QED BY <1>1, <1>2, <1>3, <1>4, <1>5, <1>6, <1>7, <1>8 DEF SynchInv

-----------------------------------------------------------------------------
(* The scheduler's contracts: every step is one thread.c allows.           *)

(* The state the running thread has, in the forms the proofs use.          *)
LEMMA Running ==
  ASSUME SynchInv
  PROVE  running \in Threads /\ status[running] = "RUNNING" /\ pc[running] \in Label
  BY DEF SynchInv, ThreadInv, ThreadTypeOK, OneRunning, SynchTypeOK

(* What is known of the thread that a call of thread_create() makes.       *)
LEMMA Making ==
  ASSUME SynchInv, NEW u \in Threads, new[u] # NULL
  PROVE  /\ new[u] \in Page /\ new[u] \in Threads
         /\ status[new[u]] = "BLOCKED" /\ pc[new[u]] \in {"run", "idle_init"}
         /\ new[u] # idle_thread /\ new[u] # running
         /\ tid[new[u]] = 0 <=> BeforeTid(u)
  <1>1. new[u] \in Page /\ new[u] \in Threads
    BY ThreadsNotNull DEF SynchInv, SynchTypeOK
  <1>2. /\ status[new[u]] = "BLOCKED" /\ pc[new[u]] \in {"run", "idle_init"}
        /\ tid[new[u]] = 0 <=> BeforeTid(u)
    BY DEF SynchInv, InTheMaking
  <1>3. new[u] # idle_thread
    BY <1>1, <1>2 DEF SynchInv, IdleInPlace
  <1> QED BY <1>1, <1>2, <1>3, Running

(* The first waiter of a semaphore sleeps, has its tid, is no thread in    *)
(* the making and not the idle thread.                                     *)
LEMMA FirstWaiter ==
  ASSUME SynchInv, NEW s \in Semaphores, waiters[s] # << >>
  PROVE  LET h == Head(waiters[s]) IN
         /\ h \in Threads /\ h \in Elems(waiters[s])
         /\ status[h] = "BLOCKED" /\ pc[h] = "down" /\ arg[h] = s
         /\ h # idle_thread /\ h # running /\ tid[h] # 0
         /\ \A u \in Threads : new[u] # h
  <1> DEFINE h == Head(waiters[s])
  <1>1. waiters[s] \in Seq(Threads)
    BY DEF SynchInv, SynchTypeOK
  <1>2. h \in Threads /\ h \in Elems(waiters[s])
    BY <1>1, PopFront
  <1> HIDE DEF h
  <1>3. pc[h] = "down" /\ arg[h] = s
    BY <1>2 DEF SynchInv, SleepersAccounted
  <1>4. status[h] = "BLOCKED"
    BY <1>2, <1>3 DEF SynchInv, SleepersAccounted
  <1>5. h # running
    BY <1>4, Running
  <1>6. h # idle_thread
    BY <1>2, <1>3 DEF SynchInv, IdleInPlace
  <1>7. \A u \in Threads : new[u] # h
    BY <1>2, <1>3, ThreadsNotNull, Making
  <1>8. tid[h] # 0
    BY <1>2, <1>4, <1>7 DEF SynchInv, InTheMaking
  <1> QED BY <1>2, <1>3, <1>4, <1>5, <1>6, <1>7, <1>8 DEF h

LEMMA UpContract ==
  ASSUME SynchInv, NEW s \in Semaphores, SemaUp(s)
  PROVE  Unblock \/ UNCHANGED threadVars
  BY FirstWaiter DEF SemaUp, Unblock

(* Once interrupts are on there is a thread to switch to, unless the       *)
(* running one is about to become the idle thread.                         *)
LEMMA CanBlock ==
  ASSUME SynchInv, started, pc[running] # "idle_init"
  PROVE  SomeoneToRun(fifo_ready_list)
  <1>1. CASE idle_thread # NULL
    BY <1>1 DEF SomeoneToRun
  <1>2. CASE idle_thread = NULL
    <2>1. PICK t \in Page : pc[t] = "idle_init" /\ status[t] \in {"READY", "RUNNING"}
      BY <1>2 DEF SynchInv, BootInOrder
    <2>2. t # running /\ t \in Threads /\ t # NULL
      BY <2>1, ThreadsNotNull
    <2>3. t \in Elems(fifo_ready_list)
      BY <1>2, <2>1, <2>2 DEF SynchInv, ThreadInv, OneRunning, ReadyListExact
    <2> QED BY <2>3 DEF SomeoneToRun, Elems
  <1> QED BY <1>1, <1>2

\* The places from which sema_down(s) is called or goes on.
DownFrom(s) == \/ pc[running] = "run" /\ s \in Sema \cup Lock
               \/ pc[running] = "tid_lock" /\ s = TidLock
               \/ pc[running] = "boot_wait" /\ s = IdleStarted
               \/ pc[running] = "down" /\ s = arg[running]

(* Before interrupts are on only main's call of allocate_tid() downs a     *)
(* semaphore, and tid_lock is free then.                                   *)
LEMMA DownContract ==
  ASSUME SynchInv, NEW s, DownFrom(s), value[s] = 0
  PROVE  started /\ SomeoneToRun(fifo_ready_list)
  <1>1. ASSUME ~started PROVE FALSE
    <2>1. running = Main /\ \A t \in Page : pc[t] \in {"run", "idle_init"}
      BY <1>1 DEF SynchInv, BootInOrder
    <2>2. pc[Main] = "tid_lock" /\ s = TidLock
      BY <1>1, <2>1, ThreadsNotNull
      DEF SynchInv, BootInOrder, InTheMaking, BeforeTid, AfterTid, DownFrom
    <2>3. \A t \in Threads : pc[t] \in {"run", "idle_init", "tid_lock"}
      BY <2>1, <2>2 DEF Threads
    <2>4. \A t \in Threads : ~Owns(t, TidLock)
      BY <2>3 DEF SynchInv, TidLockHeld, TidCritical, Owns
    <2> QED BY <2>2, <2>4, SynchSets DEF SynchInv, OneOwner, LockSound
  <1>2. pc[running] # "idle_init"
    BY DEF DownFrom
  <1> QED BY <1>1, <1>2, CanBlock

LEMMA ThreadContracts ==
  ASSUME SynchInv, [Next]_vars
  PROVE  [ThreadNext]_threadVars
  <1>1. ASSUME NEW s, DownFrom(s), SemaDown(s)
        PROVE  Block \/ UNCHANGED threadVars
    BY <1>1, DownContract DEF SemaDown, Block
  <1>2. CASE DownAgain \/ Down \/ AcquireLock \/ AllocateTid \/ BootWait
    BY <1>1, <1>2 DEF DownAgain, Down, AcquireLock, AllocateTid, BootWait, LockAcquire,
      DownFrom, At, ThreadNext
  <1>3. CASE Up \/ DeviceInterrupt \/ IdleUp \/ LockUp
    <2>1. PICK s \in Semaphores : SemaUp(s)
      BY <1>3, SynchSets, Running DEF Up, DeviceInterrupt, IdleUp, LockUp, At, SynchInv, CallArgs
    <2> QED BY <2>1, UpContract DEF ThreadNext
  <1>4. CASE TryDown \/ SetHolder \/ TryAcquireLock \/ ReleaseLock \/ TidRead \/ FreeTidLock
             \/ BootEnable \/ UNCHANGED vars
    BY <1>4 DEF TryDown, SetHolder, TryAcquireLock, ReleaseLock, TidRead, FreeTidLock,
      BootEnable, LockTryAcquire, LockRelease, SemaTryDown, vars
  <1>5. CASE CreateThread \/ BootCreate
    BY <1>5 DEF CreateThread, BootCreate, ThreadCreate, Create, ThreadNext
  <1>6. CASE ExitThread
    <2>1. started
      BY <1>6, ThreadsNotNull
      DEF ExitThread, At, SynchInv, BootInOrder, InTheMaking, BeforeTid, AfterTid
    <2>2. SomeoneToRun(fifo_ready_list) /\ running # idle_thread
      BY <1>6, <2>1, CanBlock, Running DEF ExitThread, At, SynchInv, IdleInPlace
    <2> QED BY <1>6, <2>2 DEF ExitThread, Exit, ThreadNext
  <1>7. CASE YieldCpu \/ TimerInterrupt
    BY <1>7 DEF YieldCpu, TimerInterrupt, ThreadNext
  <1>8. CASE IdleInit
    BY <1>8, Running DEF IdleInit, At, SynchInv, IdleInPlace, StartIdle, ThreadNext
  <1>9. CASE IdleLoop
    <2>1. idle_thread # NULL
      BY <1>9, Running, ThreadsNotNull DEF IdleLoop, At, SynchInv, IdleInPlace
    <2> QED BY <1>9, <2>1 DEF IdleLoop, Block, SomeoneToRun, ThreadNext
  <1>10. CASE CreateUnblock
    <2> DEFINE t == new[running]
    <2>1. running \in Threads /\ t # NULL /\ AfterTid(running) /\ ~BeforeTid(running)
      BY <1>10, Running DEF CreateUnblock, At, SynchInv, InTheMaking, BeforeTid, AfterTid
    <2>2. t \in Page /\ t \in Threads
      BY <2>1, ThreadsNotNull DEF SynchInv, SynchTypeOK
    <2>3. tid[t] # 0 /\ t # idle_thread
      BY <2>1, Making
    <2> QED BY <1>10, <2>2, <2>3 DEF CreateUnblock, Unblock, ThreadNext
  <1>11. CASE TidWrite
    <2> DEFINE t == new[running]
    <2>1. /\ running \in Threads /\ t # NULL /\ BeforeTid(running)
          /\ tmp[running] = next_tid
      BY <1>11, Running DEF TidWrite, At, SynchInv, InTheMaking, BeforeTid, TidLockHeld
    <2>2. t \in Page /\ t \in Threads
      BY <2>1, ThreadsNotNull DEF SynchInv, SynchTypeOK
    <2>3. status[t] = "BLOCKED" /\ tid[t] = 0
      BY <2>1, Making
    <2>4. next_tid <= MaxTid
      <3>1. running \in Makers /\ IsFiniteSet(Makers)
        BY <2>1, SynchSets, FS_Subset DEF Makers
      <3>2. Cardinality(Makers) \in Nat /\ Cardinality(Makers) # 0
        BY <3>1, FS_CardinalityType, FS_EmptySet
      <3> QED BY <3>2, ThreadAssumption DEF SynchInv, TidsLeft, ThreadInv, ThreadTypeOK
    <2> QED BY <1>11, <2>1, <2>2, <2>3, <2>4 DEF TidWrite, AllocTid, ThreadNext
  <1> QED BY <1>2, <1>3, <1>4, <1>5, <1>6, <1>7, <1>8, <1>9, <1>10, <1>11
          DEF Next, KernelStep, ClientStep

-----------------------------------------------------------------------------
(* What steps of a kind keep.                                              *)

(* Goto() moves the running thread and no other.                           *)
LEMMA Moves ==
  ASSUME SynchInv, NEW to \in Label, Goto(to)
  PROVE  /\ pc' \in [Threads -> Label] /\ pc'[running] = to
         /\ \A u \in Threads : u # running => pc'[u] = pc[u]
  BY Running DEF Goto, SynchInv, SynchTypeOK

(* The running thread is on no waiters list.                               *)
LEMMA RunningNotListed ==
  ASSUME SynchInv, NEW s \in Semaphores
  PROVE  running \notin Elems(waiters[s])
  BY Running DEF SynchInv, SleepersAccounted

(* A step that leaves a lock, its holder and the windows alone.            *)
LEMMA LockKept ==
  ASSUME SynchInv, NEW l \in Locks, value'[l] = value[l], holder'[l] = holder[l],
         \A t \in Threads : Window(t, l)' <=> Window(t, l)
  PROVE  LockSound(l)'
  <1>1. \A t \in Threads : Owns(t, l)' <=> Owns(t, l)
    BY DEF Owns, Window
  <1> QED BY <1>1 DEF SynchInv, OneOwner, LockSound

(* A step that leaves tid_lock's holder and next_tid alone.                *)
LEMMA TidLockKept ==
  ASSUME SynchInv, holder'[TidLock] = holder[TidLock], next_tid' = next_tid, tmp' = tmp,
         \A t \in Threads : /\ pc'[t] \in TidCritical <=> pc[t] \in TidCritical
                            /\ pc'[t] = "tid_write" => pc[t] = "tid_write"
  PROVE  TidLockHeld'
  BY DEF SynchInv, TidLockHeld

\* Labels of the boot sequence and of idle(), which the other steps never meet.
Special == {"boot", "boot_enable", "idle_init", "idle_up", "idle_loop", "hlt"}

(* The running thread goes from one place to another of the same kind.     *)
SameKind(to) ==
  /\ pc'[running] = to /\ to \in Label \ {"down"}
  /\ \A u \in Threads : u # running => pc'[u] = pc[u] /\ arg'[u] = arg[u]
  /\ BeforeTid(running)' <=> BeforeTid(running)
  /\ AfterTid(running)' <=> AfterTid(running)
  /\ pc[running] \notin Special /\ to \notin Special
  /\ UNCHANGED <<new, started>>

(* A step of the running thread that involves no other thread.             *)
LEMMA QuietStep ==
  ASSUME SynchInv, NEW to, SameKind(to), UNCHANGED <<threadVars, waiters>>
  PROVE  /\ InTheMaking' /\ TidsLeft' /\ IdleInPlace' /\ BootInOrder' /\ SleepersAccounted'
         /\ \A t \in Threads : status'[t] = "FREE" => pc'[t] \in {"run", "exited"}
  <1> USE DEF SameKind, threadVars
  <1>0. running \in Threads /\ status[running] = "RUNNING"
    BY Running
  <1>1. \A u \in Threads : (BeforeTid(u)' <=> BeforeTid(u)) /\ (AfterTid(u)' <=> AfterTid(u))
    BY DEF BeforeTid, AfterTid
  <1>2. \A u \in Threads : new[u] # NULL => new[u] # running /\ new[u] \in Threads
    BY Making
  <1>3. InTheMaking'
    <2>1. \A u \in Threads : new[u] # NULL => pc'[new[u]] = pc[new[u]]
      BY <1>2
    <2> QED BY <1>1, <2>1 DEF SynchInv, InTheMaking
  <1>4. TidsLeft'
    <2>1. Makers' = Makers
      BY <1>1 DEF Makers
    <2> QED BY <2>1 DEF SynchInv, TidsLeft
  <1>5. IdleInPlace'
    BY <1>0 DEF SynchInv, IdleInPlace, Special
  <1>6. BootInOrder'
    <2>1. \A t \in Threads : pc'[t] \in {"boot", "boot_enable", "idle_init"}
                             => pc'[t] = pc[t]
      BY <1>0 DEF Special
    <2>2. \A t \in Threads : pc[t] \in {"boot", "boot_enable", "idle_init"}
                             => pc'[t] = pc[t]
      BY <1>0 DEF Special
    <2>3. ~started => running = Main /\ \A t \in Page : pc'[t] = pc[t]
      BY ThreadAssumption DEF SynchInv, BootInOrder, Threads
    <2>4. Page \subseteq Threads /\ Main \in Threads
      BY ThreadsNotNull
    <2>5. \A t \in Threads : pc'[t] \in {"boot", "boot_enable"} => t = Main /\ ~started'
      BY <2>1 DEF SynchInv, BootInOrder
    <2>6. pc'[Main] = "boot" => \A t \in Threads : pc'[t] # "idle_init"
      BY <2>1, <2>4 DEF SynchInv, BootInOrder
    <2>7. ~started' =>
            /\ running' = Main /\ idle_thread' = NULL
            /\ \A t \in Page : pc'[t] \in {"run", "idle_init"}
            /\ pc'[Main] \in {"boot", "boot_enable"} \/ new'[Main] # NULL
            /\ pc'[Main] # "down"
      BY <2>2, <2>3, <2>4 DEF SynchInv, BootInOrder
    <2>8. ~started' => (new'[Main] # NULL => pc'[new'[Main]] = "idle_init")
      BY <1>2, <2>4 DEF SynchInv, BootInOrder
    <2>9. (started' \/ pc'[Main] = "boot_enable") /\ idle_thread' = NULL
            => \E t \in Page : pc'[t] = "idle_init" /\ status'[t] \in {"READY", "RUNNING"}
      BY <2>1, <2>2, <2>4 DEF SynchInv, BootInOrder
    <2> QED BY <2>5, <2>6, <2>7, <2>8, <2>9 DEF BootInOrder
  <1>7. SleepersAccounted'
    <2>1. \A s \in Semaphores : running \notin Elems(waiters[s])
      BY RunningNotListed
    <2>2. \A s \in Semaphores : \A t \in Elems(waiters'[s]) : pc'[t] = "down" /\ arg'[t] = s
      <3> SUFFICES ASSUME NEW s \in Semaphores, NEW t \in Elems(waiters[s])
                   PROVE  pc'[t] = "down" /\ arg'[t] = s
        OBVIOUS
      <3>1. t \in Threads
        BY DEF SynchInv, SynchTypeOK, Elems
      <3> QED BY <2>1, <3>1 DEF SynchInv, SleepersAccounted
    <2>3. ASSUME NEW t \in Threads
          PROVE  status'[t] = "BLOCKED" <=>
                   \/ pc'[t] = "down" /\ t \in Elems(waiters'[arg'[t]])
                   \/ \E u \in Threads : new'[u] = t
                   \/ t = idle_thread' /\ pc'[t] = "hlt" /\ running' # t
      <3>1. CASE t # running
        BY <3>1 DEF SynchInv, SleepersAccounted
      <3>2. CASE t = running
        <4>1. \A u \in Threads : new[u] # running
          BY <1>0, <1>2, ThreadsNotNull
        <4> QED BY <1>0, <3>2, <4>1
      <3> QED BY <3>1, <3>2
    <2>4. \A s \in Semaphores : NoDuplicates(waiters'[s])
      BY DEF SynchInv, SleepersAccounted
    <2> QED BY <2>2, <2>3, <2>4 DEF SleepersAccounted
  <1>8. \A t \in Threads : status'[t] = "FREE" => pc'[t] \in {"run", "exited"}
    BY <1>0 DEF SynchInv, CallArgs
  <1> QED BY <1>3, <1>4, <1>5, <1>6, <1>7, <1>8

-----------------------------------------------------------------------------
(* Steps of the running thread alone.                                      *)

(* sema_down() finds a value: a lock passes from nobody to the caller.     *)
LEMMA TakeInv ==
  ASSUME SynchInv, ThreadInv', NEW s \in Semaphores, DownFrom(s),
         value[s] > 0, value' = [value EXCEPT ![s] = @ - 1],
         Goto(AfterDown(s)), arg' = [arg EXCEPT ![running] = s],
         UNCHANGED <<threadVars, waiters, holder, new, tmp, started>>
  PROVE  SynchInv'
  <1> DEFINE to == AfterDown(s)
  <1>0. to \in Label /\ running \in Threads /\ running' = running
    BY Running DEF AfterDown, Label, threadVars
  <1>1. pc' \in [Threads -> Label] /\ pc'[running] = to /\ \A u \in Threads : u # running => pc'[u] = pc[u]
    BY <1>0, Moves
  <1>2. arg'[running] = s /\ \A u \in Threads : u # running => arg'[u] = arg[u]
    BY <1>0 DEF SynchInv, SynchTypeOK
  <1>3. SynchTypeOK'
    <2>1. value' \in [Semaphores -> Nat] /\ arg' \in [Threads -> Semaphores \cup {NULL}]
      BY <1>0 DEF SynchInv, SynchTypeOK
    <2> QED BY <1>1, <2>1 DEF SynchInv, SynchTypeOK, ThreadInv
  <1>4. /\ pc[running] \in {"run", "tid_lock", "boot_wait", "down"} /\ to \in {"acquired", "run"}
        /\ (to = "acquired" <=> s \in Locks)
    BY DEF DownFrom, AfterDown
  <1>5. SameKind(to)
    <2>1. BeforeTid(running) <=> s = TidLock
      BY <1>4, SynchSets DEF BeforeTid, DownFrom
    <2>2. BeforeTid(running)' <=> s = TidLock
      BY <1>0, <1>1, <1>2, <1>4, SynchSets DEF BeforeTid
    <2>3. ~AfterTid(running) /\ ~AfterTid(running)'
      BY <1>0, <1>1, <1>4 DEF AfterTid
    <2> QED BY <1>0, <1>1, <1>2, <1>4, <2>1, <2>2, <2>3 DEF SameKind, Special
  <1>6. /\ InTheMaking' /\ TidsLeft' /\ IdleInPlace' /\ BootInOrder' /\ SleepersAccounted'
        /\ \A t \in Threads : status'[t] = "FREE" => pc'[t] \in {"run", "exited"}
    BY <1>5, QuietStep
  <1>7. CallArgs'
    BY <1>1, <1>2, <1>4, <1>6 DEF SynchInv, CallArgs
  <1>8. TidLockHeld'
    BY <1>0, <1>1, <1>4, TidLockKept DEF TidCritical, threadVars
  <1>9. ASSUME NEW l \in Locks PROVE LockSound(l)'
    <2>1. \A t \in Threads : t # running => (Window(t, l)' <=> Window(t, l))
      BY <1>1, <1>2 DEF Window
    <2>2. ~Window(running, l) /\ (Window(running, l)' <=> l = s)
      BY <1>0, <1>1, <1>2, <1>4 DEF Window
    <2>3. CASE l # s
      <3>1. value'[l] = value[l]
        BY <2>3, SynchSets DEF SynchInv, SynchTypeOK
      <3>2. \A t \in Threads : Window(t, l)' <=> Window(t, l)
        BY <1>0, <2>1, <2>2, <2>3 DEF Window
      <3> QED BY <3>1, <3>2, LockKept
    <2>4. CASE l = s
      <3>1. value[s] = 1 /\ value'[s] = 0 /\ \A t \in Threads : ~Owns(t, s)
        BY <2>4 DEF SynchInv, SynchTypeOK, OneOwner, LockSound
      <3>2. holder[s] = NULL
        BY <2>4, <3>1 DEF SynchInv, SynchTypeOK, Owns
      <3>3. \A t \in Threads : Owns(t, s)' <=> t = running
        BY <1>0, <2>1, <2>2, <2>4, <3>1, <3>2, ThreadsNotNull DEF Owns, Window
      <3> QED BY <1>0, <2>4, <3>1, <3>2, <3>3 DEF LockSound
    <2> QED BY <2>3, <2>4
  <1> QED BY <1>3, <1>6, <1>7, <1>8, <1>9 DEF SynchInv, OneOwner

(* sema_try_down() of a plain semaphore.                                   *)
LEMMA TryDownInv ==
  ASSUME SynchInv, ThreadInv', TryDown PROVE SynchInv'
  <1>1. PICK s \in Sema : SemaTryDown(s)
    BY DEF TryDown
  <1>2. UNCHANGED <<threadVars, waiters, holder, pc, arg, new, tmp, started>>
    BY <1>1 DEF TryDown, SemaTryDown, callVars
  <1>3. value' \in [Semaphores -> Nat] /\ \A l \in Locks : value'[l] = value[l]
    BY <1>1, SynchSets DEF SemaTryDown, SynchInv, SynchTypeOK
  <1>4. SynchTypeOK'
    BY <1>2, <1>3 DEF SynchInv, SynchTypeOK, ThreadInv
  <1>5. SameKind("run")
    BY <1>2 DEF TryDown, At, SameKind, Special, Label, BeforeTid, AfterTid, threadVars
  <1>6. /\ InTheMaking' /\ TidsLeft' /\ IdleInPlace' /\ BootInOrder' /\ SleepersAccounted'
    BY <1>2, <1>5, QuietStep
  <1>7. CallArgs' /\ TidLockHeld'
    BY <1>2 DEF SynchInv, CallArgs, TidLockHeld, threadVars
  <1>8. OneOwner'
    BY <1>2, <1>3, LockKept DEF OneOwner, Window
  <1> QED BY <1>4, <1>6, <1>7, <1>8 DEF SynchInv

(* lock_try_acquire(): as lock_acquire() if the lock is free.              *)
LEMMA TryAcquireLockInv ==
  ASSUME SynchInv, ThreadInv', TryAcquireLock PROVE SynchInv'
  <1>1. PICK l \in Lock : LockTryAcquire(l)
    BY DEF TryAcquireLock
  <1>2. /\ l \in Locks /\ l \in Semaphores /\ pc[running] = "run" /\ running \in Threads
        /\ DownFrom(l) /\ AfterDown(l) = "acquired"
    BY SynchSets, Running DEF TryAcquireLock, At, DownFrom, AfterDown
  <1>3. UNCHANGED <<threadVars, waiters, holder, new, tmp, started>>
    BY <1>1 DEF LockTryAcquire, SemaTryDown
  <1>4. CASE value[l] > 0
    <2>1. /\ value' = [value EXCEPT ![l] = @ - 1] /\ Goto(AfterDown(l))
          /\ arg' = [arg EXCEPT ![running] = l]
      BY <1>1, <1>2, <1>4 DEF LockTryAcquire, SemaTryDown
    <2> QED BY <1>2, <1>3, <1>4, <2>1, TakeInv
  <1>5. CASE ~(value[l] > 0)
    <2>1. UNCHANGED value
      BY <1>1, <1>5 DEF LockTryAcquire, SemaTryDown
    <2>2. UNCHANGED <<pc, arg>>
      BY <1>1, <1>2, <1>5 DEF LockTryAcquire, Goto, SynchInv, SynchTypeOK
    <2>3. SameKind("run")
      BY <1>2, <1>3, <2>2 DEF SameKind, Special, Label, BeforeTid, AfterTid, threadVars
    <2>4. InTheMaking' /\ TidsLeft' /\ IdleInPlace' /\ BootInOrder' /\ SleepersAccounted'
      BY <1>3, <2>3, QuietStep
    <2>5. SynchTypeOK' /\ CallArgs' /\ TidLockHeld'
      BY <1>3, <2>1, <2>2 DEF SynchInv, SynchTypeOK, ThreadInv, CallArgs, TidLockHeld, threadVars
    <2>6. OneOwner'
      BY <1>3, <2>1, <2>2, LockKept DEF OneOwner, Window
    <2> QED BY <2>4, <2>5, <2>6 DEF SynchInv
  <1> QED BY <1>4, <1>5

(* lock->holder = thread_current().                                        *)
LEMMA SetHolderInv ==
  ASSUME SynchInv, ThreadInv', SetHolder PROVE SynchInv'
  <1> DEFINE me == running
             m == arg[me]
             to == AfterAcquire(m)
  <1>0. /\ me \in Threads /\ me' = me /\ pc[me] = "acquired" /\ m \in Locks
        /\ to \in {"tid_read", "run"} /\ to \in Label /\ (to = "tid_read" <=> m = TidLock)
    BY Running DEF SetHolder, At, SynchInv, CallArgs, AfterAcquire, Label, threadVars
  <1>1. /\ UNCHANGED <<threadVars, value, waiters, arg, new, tmp, started>>
        /\ Goto(to) /\ holder' = [holder EXCEPT ![m] = me]
    BY DEF SetHolder, semaVars, callVars
  <1>2. pc' \in [Threads -> Label] /\ pc'[me] = to /\ \A u \in Threads : u # me => pc'[u] = pc[u]
    BY <1>0, <1>1, Moves
  <1>3. holder' \in [Locks -> Threads \cup {NULL}] /\ holder'[m] = me
        /\ \A l \in Locks : l # m => holder'[l] = holder[l]
    BY <1>0, <1>1 DEF SynchInv, SynchTypeOK
  <1> HIDE DEF to
  <1>4. SynchTypeOK'
    BY <1>1, <1>2, <1>3 DEF SynchInv, SynchTypeOK, ThreadInv
  <1>5. SameKind(to)
    BY <1>0, <1>1, <1>2 DEF SameKind, Special, BeforeTid, AfterTid
  <1>6. /\ InTheMaking' /\ TidsLeft' /\ IdleInPlace' /\ BootInOrder' /\ SleepersAccounted'
        /\ \A t \in Threads : status'[t] = "FREE" => pc'[t] \in {"run", "exited"}
    BY <1>1, <1>5, QuietStep
  <1>7. CallArgs'
    BY <1>0, <1>1, <1>2, <1>6 DEF SynchInv, CallArgs
  <1>8. Owns(me, m) /\ Window(me, m) /\ \A t \in Threads : Owns(t, m) => t = me
    BY <1>0 DEF SynchInv, OneOwner, LockSound, Owns, Window
  <1>9. ASSUME NEW l \in Locks PROVE LockSound(l)'
    <2>1. CASE l # m
      BY <1>0, <1>1, <1>2, <1>3, <2>1, LockKept DEF Window
    <2>2. CASE l = m
      <3>1. \A t \in Threads : ~Window(t, l)'
        BY <1>0, <1>1, <1>2, <1>8, <2>2 DEF Owns, Window
      <3>2. \A t \in Threads : Owns(t, l)' <=> t = me
        BY <1>0, <1>3, <2>2, <3>1 DEF Owns, Window
      <3>3. value'[l] = 0
        BY <1>0, <1>1, <1>8, <2>2 DEF SynchInv, OneOwner, LockSound
      <3> QED BY <1>0, <3>1, <3>2, <3>3 DEF LockSound
    <2> QED BY <2>1, <2>2
  <1>10. TidLockHeld'
    <2>1. CASE m # TidLock
      BY <1>0, <1>1, <1>2, <1>3, <2>1, SynchSets, TidLockKept DEF TidCritical, threadVars
    <2>2. CASE m = TidLock
      <3>1. \A t \in Threads : pc[t] \notin TidCritical
        BY <1>0, <1>8, <2>2 DEF SynchInv, TidLockHeld, Owns, TidCritical
      <3> QED BY <1>0, <1>2, <1>3, <2>2, <3>1 DEF TidLockHeld, TidCritical
    <2> QED BY <2>1, <2>2
  <1> QED BY <1>4, <1>6, <1>7, <1>9, <1>10 DEF SynchInv, OneOwner

(* lock->holder = NULL, before the semaphore goes up.                      *)
LEMMA ReleaseInv ==
  ASSUME SynchInv, ThreadInv', ReleaseLock \/ FreeTidLock PROVE SynchInv'
  <1> DEFINE me == running
  <1>1. PICK m \in Locks : /\ LockRelease(m)
                           /\ \/ pc[me] = "run" /\ m # TidLock
                              \/ pc[me] = "tid_unlock" /\ m = TidLock
    BY SynchSets DEF ReleaseLock, FreeTidLock, At
  <1>2. /\ UNCHANGED <<threadVars, value, waiters, new, tmp, started>>
        /\ Goto("releasing") /\ holder' = [holder EXCEPT ![m] = NULL]
        /\ arg' = [arg EXCEPT ![me] = m] /\ holder[m] = me
    BY <1>1 DEF LockRelease, LockHeldByCurrentThread, semaVars
  <1>3. me \in Threads /\ me' = me /\ m \in Semaphores
    BY <1>2, Running, SynchSets DEF threadVars
  <1>4. /\ pc' \in [Threads -> Label] /\ pc'[me] = "releasing"
        /\ \A u \in Threads : u # me => pc'[u] = pc[u]
    BY <1>2, Moves DEF Label
  <1>5. /\ holder' \in [Locks -> Threads \cup {NULL}] /\ holder'[m] = NULL
        /\ \A l \in Locks : l # m => holder'[l] = holder[l]
        /\ arg' \in [Threads -> Semaphores \cup {NULL}] /\ arg'[me] = m
        /\ \A u \in Threads : u # me => arg'[u] = arg[u]
    BY <1>2, <1>3 DEF SynchInv, SynchTypeOK
  <1>6. SynchTypeOK'
    BY <1>2, <1>4, <1>5 DEF SynchInv, SynchTypeOK, ThreadInv
  <1>7. SameKind("releasing")
    BY <1>1, <1>2, <1>3, <1>4, <1>5 DEF SameKind, Special, BeforeTid, AfterTid, Label
  <1>8. /\ InTheMaking' /\ TidsLeft' /\ IdleInPlace' /\ BootInOrder' /\ SleepersAccounted'
        /\ \A t \in Threads : status'[t] = "FREE" => pc'[t] \in {"run", "exited"}
    BY <1>2, <1>7, QuietStep
  <1>9. CallArgs'
    BY <1>4, <1>5, <1>8 DEF SynchInv, CallArgs
  <1>10. Owns(me, m) /\ \A t \in Threads : Owns(t, m) => t = me
    BY <1>2, <1>3 DEF SynchInv, OneOwner, LockSound, Owns
  <1>11. ASSUME NEW l \in Locks PROVE LockSound(l)'
    <2>1. CASE l # m
      BY <1>1, <1>2, <1>3, <1>4, <1>5, <2>1, LockKept DEF Window
    <2>2. CASE l = m
      <3>1. \A t \in Threads : Window(t, l)' <=> t = me
        BY <1>3, <1>4, <1>5, <1>10, <2>2 DEF Owns, Window
      <3>2. \A t \in Threads : Owns(t, l)' <=> t = me
        BY <1>3, <1>5, <2>2, <3>1, ThreadsNotNull DEF Owns, Window
      <3>3. value'[l] = 0
        BY <1>2, <1>3, <1>10, <2>2 DEF SynchInv, OneOwner, LockSound
      <3> QED BY <1>3, <1>5, <2>2, <3>1, <3>2, <3>3 DEF LockSound
    <2> QED BY <2>1, <2>2
  <1>12. TidLockHeld'
    <2>1. CASE m # TidLock
      BY <1>1, <1>2, <1>3, <1>4, <1>5, <2>1, SynchSets, TidLockKept DEF TidCritical, threadVars
    <2>2. CASE m = TidLock
      <3>1. \A t \in Threads : t # me => pc[t] \notin TidCritical
        BY <1>2, <2>2 DEF SynchInv, TidLockHeld
      <3> QED BY <1>3, <1>4, <1>5, <2>2, <3>1, ThreadsNotNull DEF TidLockHeld, TidCritical
    <2> QED BY <2>1, <2>2
  <1> QED BY <1>6, <1>8, <1>9, <1>11, <1>12 DEF SynchInv, OneOwner

LEMMA TidReadInv ==
  ASSUME SynchInv, ThreadInv', TidRead PROVE SynchInv'
  <1> USE DEF TidRead, At, semaVars
  <1>0. running \in Threads /\ running' = running /\ next_tid' = next_tid
    BY Running DEF threadVars
  <1>1. /\ pc' \in [Threads -> Label] /\ pc'[running] = "tid_write"
        /\ \A u \in Threads : u # running => pc'[u] = pc[u]
    BY Moves DEF Label
  <1>2. next_tid \in Nat
    BY DEF SynchInv, ThreadInv, ThreadTypeOK
  <1>3. /\ tmp' \in [Threads -> Nat] /\ tmp'[running] = next_tid
    BY <1>0, <1>2 DEF SynchInv, SynchTypeOK
  <1>4. SynchTypeOK'
    BY <1>1, <1>3 DEF SynchInv, SynchTypeOK, ThreadInv
  <1>5. SameKind("tid_write")
    BY <1>0, <1>1 DEF SameKind, Special, BeforeTid, AfterTid, Label
  <1>6. /\ InTheMaking' /\ TidsLeft' /\ IdleInPlace' /\ BootInOrder' /\ SleepersAccounted'
        /\ \A t \in Threads : status'[t] = "FREE" => pc'[t] \in {"run", "exited"}
    BY <1>5, QuietStep
  <1>7. CallArgs'
    BY <1>0, <1>1, <1>6 DEF SynchInv, CallArgs
  <1>8. OneOwner'
    BY <1>0, <1>1, LockKept DEF OneOwner, Window
  <1>9. TidLockHeld'
    BY <1>0, <1>1, <1>3 DEF SynchInv, TidLockHeld, TidCritical
  <1> QED BY <1>4, <1>6, <1>7, <1>8, <1>9 DEF SynchInv

(* intr_enable() of thread_start().                                        *)
LEMMA BootEnableInv ==
  ASSUME SynchInv, ThreadInv', BootEnable PROVE SynchInv'
  <1> USE DEF BootEnable, At, semaVars
  <1>0. /\ running \in Threads /\ running' = running
        /\ UNCHANGED <<status, tid, next_tid, idle_thread>>
    BY Running DEF threadVars
  <1>1. /\ pc' \in [Threads -> Label] /\ pc'[running] = "boot_wait"
        /\ \A u \in Threads : u # running => pc'[u] = pc[u]
    BY Moves DEF Label
  <1>2. started' \in BOOLEAN
    OBVIOUS
  <1>3. SynchTypeOK'
    BY <1>1, <1>2 DEF SynchInv, SynchTypeOK, ThreadInv
  <1>4. \A u \in Threads : (BeforeTid(u)' <=> BeforeTid(u)) /\ (AfterTid(u)' <=> AfterTid(u))
    BY <1>0, <1>1 DEF BeforeTid, AfterTid
  <1>5. \A u \in Threads : new[u] # NULL => new[u] # running /\ new[u] \in Threads
    BY Making
  <1>6. InTheMaking'
    <2>1. \A u \in Threads : new[u] # NULL => pc'[new[u]] = pc[new[u]]
      BY <1>1, <1>5
    <2> QED BY <1>0, <1>4, <2>1 DEF SynchInv, InTheMaking
  <1>7. TidsLeft'
    <2>1. Makers' = Makers
      BY <1>4 DEF Makers
    <2> QED BY <1>0, <2>1 DEF SynchInv, TidsLeft
  <1>8. IdleInPlace' /\ CallArgs' /\ TidLockHeld'
    BY <1>0, <1>1 DEF SynchInv, IdleInPlace, CallArgs, TidLockHeld, TidCritical
  <1>9. OneOwner'
    BY <1>0, <1>1, LockKept DEF OneOwner, Window
  <1>10. BootInOrder'
    BY <1>0, <1>1, ThreadsNotNull DEF SynchInv, BootInOrder
  <1>11. SleepersAccounted'
    <2>1. \A s \in Semaphores : running \notin Elems(waiters[s])
      BY RunningNotListed
    <2>2. \A s \in Semaphores : Elems(waiters[s]) \subseteq Threads
      BY DEF SynchInv, SynchTypeOK, Elems
    <2> QED BY <1>0, <1>1, <2>1, <2>2 DEF SynchInv, SleepersAccounted
  <1> QED BY <1>3, <1>6, <1>7, <1>8, <1>9, <1>10, <1>11 DEF SynchInv

-----------------------------------------------------------------------------
(* sema_up() and its callers.                                              *)

IdlePlace == {"idle_up", "idle_loop", "hlt"}

(* The running thread ups s and goes on, within idle() if it was there.    *)
UpMove(to) ==
  /\ pc'[running] = to /\ to \in Label \ {"boot", "boot_enable", "down", "hlt"}
  /\ pc[running] \notin {"boot", "boot_enable", "down"}
  /\ \A u \in Threads : u # running => pc'[u] = pc[u]
  /\ pc[running] \in IdlePlace <=> to \in IdlePlace
  /\ pc[running] = "idle_init" <=> to = "idle_init"
  /\ \A u \in Threads : BeforeTid(u)' <=> BeforeTid(u)
  /\ \A u \in Threads : AfterTid(u)' <=> AfterTid(u)
  /\ UNCHANGED <<arg, new, started>>

(* The woken thread, if any, leaves the list as it becomes ready.          *)
LEMMA UpEffect ==
  ASSUME SynchInv, NEW s \in Semaphores, SemaUp(s)
  PROVE  /\ value' \in [Semaphores -> Nat] /\ waiters' \in [Semaphores -> Seq(Threads)]
         /\ value'[s] = value[s] + 1 /\ \A q \in Semaphores : q # s => value'[q] = value[q]
         /\ UNCHANGED <<running, idle_thread, tid, next_tid>>
         /\ \A q \in Semaphores : NoDuplicates(waiters'[q])
         /\ \/ UNCHANGED <<waiters, status>> /\ waiters[s] = << >>
            \/ \E h \in Threads :
                 /\ h \in Elems(waiters[s]) /\ status[h] = "BLOCKED" /\ pc[h] = "down" /\ arg[h] = s
                 /\ h # idle_thread /\ h # running /\ tid[h] # 0
                 /\ \A u \in Threads : new[u] # h
                 /\ status'[h] = "READY"
                 /\ \A t \in Threads : t # h => status'[t] = status[t]
                 /\ Elems(waiters'[s]) = Elems(waiters[s]) \ {h}
                 /\ \A q \in Semaphores : q # s => waiters'[q] = waiters[q]
  <1>0. /\ value \in [Semaphores -> Nat] /\ waiters \in [Semaphores -> Seq(Threads)]
        /\ status \in [Threads -> Status] /\ waiters[s] \in Seq(Threads)
        /\ \A q \in Semaphores : NoDuplicates(waiters[q])
    BY DEF SynchInv, SynchTypeOK, ThreadTypeOK, SleepersAccounted
  <1>1. /\ value' \in [Semaphores -> Nat] /\ value'[s] = value[s] + 1
        /\ \A q \in Semaphores : q # s => value'[q] = value[q]
    BY <1>0 DEF SemaUp
  <1>2. CASE waiters[s] = << >>
    BY <1>0, <1>1, <1>2 DEF SemaUp, threadVars
  <1>3. CASE waiters[s] # << >>
    <2>1. PICK h \in Threads : h = Head(waiters[s])
      BY <1>3, FirstWaiter
    <2>2. /\ h \in Elems(waiters[s]) /\ status[h] = "BLOCKED" /\ pc[h] = "down" /\ arg[h] = s
          /\ h # idle_thread /\ h # running /\ tid[h] # 0
          /\ \A u \in Threads : new[u] # h
      BY <1>3, <2>1, FirstWaiter
    <2>3. ThreadUnblock(h) /\ waiters' = [waiters EXCEPT ![s] = Tail(waiters[s])]
      BY <1>3, <2>1 DEF SemaUp
    <2>4. /\ Tail(waiters[s]) \in Seq(Threads) /\ NoDuplicates(Tail(waiters[s]))
          /\ Elems(Tail(waiters[s])) = Elems(waiters[s]) \ {h}
      BY <1>0, <1>3, <2>1, PopFront
    <2> DEFINE rest == Tail(waiters[s])
    <2> HIDE DEF rest
    <2>5. /\ waiters' \in [Semaphores -> Seq(Threads)] /\ waiters'[s] = rest
          /\ \A q \in Semaphores : q # s => waiters'[q] = waiters[q]
      BY <1>0, <2>3, <2>4 DEF rest
    <2>6. /\ status'[h] = "READY" /\ \A t \in Threads : t # h => status'[t] = status[t]
          /\ UNCHANGED <<running, idle_thread, tid, next_tid>>
      BY <1>0, <2>3 DEF ThreadUnblock
    <2>7. NoDuplicates(rest) /\ Elems(rest) = Elems(waiters[s]) \ {h}
      BY <2>4 DEF rest
    <2>8. \A q \in Semaphores : NoDuplicates(waiters'[q])
      BY <1>0, <2>5, <2>7
    <2>9. Elems(waiters'[s]) = Elems(waiters[s]) \ {h}
      BY <2>5, <2>7
    <2> QED BY <1>1, <2>2, <2>5, <2>6, <2>8, <2>9
  <1> QED BY <1>2, <1>3

LEMMA UpStep ==
  ASSUME SynchInv, NEW s \in Semaphores, SemaUp(s), NEW to, UpMove(to)
  PROVE  /\ InTheMaking' /\ TidsLeft' /\ IdleInPlace' /\ BootInOrder' /\ SleepersAccounted'
         /\ \A t \in Threads : status'[t] = "FREE" => pc'[t] \in {"run", "exited"}
  <1>0. running \in Threads /\ status[running] = "RUNNING"
    BY Running
  <1>1. /\ UNCHANGED <<running, idle_thread, tid, next_tid>>
        /\ \A q \in Semaphores : NoDuplicates(waiters'[q])
    BY UpEffect
  <1>2. \A u \in Threads : new[u] # NULL =>
          new[u] # running /\ new[u] \in Threads /\ status[new[u]] = "BLOCKED"
    BY Making
  <1>3. \A t \in Threads : \/ status'[t] = status[t]
                           \/ /\ status[t] = "BLOCKED" /\ status'[t] = "READY"
                              /\ pc[t] = "down" /\ tid[t] # 0 /\ \A u \in Threads : new[u] # t
    BY UpEffect
  <1>4. InTheMaking'
    <2>1. \A u \in Threads : new[u] # NULL =>
            pc'[new[u]] = pc[new[u]] /\ status'[new[u]] = status[new[u]]
      BY <1>2, <1>3 DEF UpMove
    <2>2. \A t \in Threads : status'[t] \notin {"FREE", "DYING"} /\ tid'[t] = 0
                             => \E u \in Threads : new'[u] = t
      BY <1>1, <1>3 DEF SynchInv, InTheMaking, UpMove
    <2>3. \A u \in Threads : new'[u] = new[u] /\ (BeforeTid(u)' <=> BeforeTid(u))
                             /\ (AfterTid(u)' <=> AfterTid(u))
      BY DEF UpMove
    <2> QED BY <1>1, <2>1, <2>2, <2>3 DEF SynchInv, InTheMaking
  <1>5. TidsLeft'
    <2>1. Makers' = Makers
      BY DEF Makers, UpMove
    <2> QED BY <1>1, <2>1 DEF SynchInv, TidsLeft
  <1>6. IdleInPlace'
    BY <1>0, <1>1 DEF SynchInv, IdleInPlace, UpMove, IdlePlace
  <1>7. BootInOrder'
    <2>1. \A t \in Threads : pc'[t] \in {"boot", "boot_enable", "idle_init"}
                             => pc'[t] = pc[t]
      BY <1>0 DEF UpMove
    <2>2. \A t \in Threads : pc[t] \in {"boot", "boot_enable", "idle_init"}
                             => pc'[t] = pc[t]
      BY <1>0 DEF UpMove
    <2>3. ~started => running = Main /\ \A t \in Page : pc'[t] = pc[t]
      BY ThreadAssumption DEF SynchInv, BootInOrder, Threads, UpMove
    <2>4. Page \subseteq Threads /\ Main \in Threads /\ UNCHANGED <<new, started>>
      BY ThreadsNotNull DEF UpMove
    <2>5. \A t \in Threads : pc'[t] \in {"boot", "boot_enable"} => t = Main /\ ~started'
      BY <2>1, <2>4 DEF SynchInv, BootInOrder
    <2>6. pc'[Main] = "boot" => \A t \in Threads : pc'[t] # "idle_init"
      BY <2>1, <2>4 DEF SynchInv, BootInOrder
    <2>7. ~started' =>
            /\ running' = Main /\ idle_thread' = NULL
            /\ \A t \in Page : pc'[t] \in {"run", "idle_init"}
            /\ pc'[Main] \in {"boot", "boot_enable"} \/ new'[Main] # NULL
            /\ pc'[Main] # "down"
      BY <1>1, <2>2, <2>3, <2>4 DEF SynchInv, BootInOrder, UpMove
    <2>8. ~started' => (new'[Main] # NULL => pc'[new'[Main]] = "idle_init")
      BY <1>2, <2>4 DEF SynchInv, BootInOrder, UpMove
    <2>9. (started' \/ pc'[Main] = "boot_enable") /\ idle_thread' = NULL
            => \E t \in Page : pc'[t] = "idle_init" /\ status'[t] \in {"READY", "RUNNING"}
      BY <1>1, <1>3, <2>1, <2>2, <2>4 DEF SynchInv, BootInOrder
    <2> QED BY <2>5, <2>6, <2>7, <2>8, <2>9 DEF BootInOrder
  <1>8. \A t \in Threads : status'[t] = "FREE" => pc'[t] \in {"run", "exited"}
    BY <1>0, <1>3 DEF SynchInv, CallArgs, UpMove
  <1>9. SleepersAccounted'
    <2>0. /\ \A q \in Semaphores : Elems(waiters[q]) \subseteq Threads /\ running \notin Elems(waiters[q])
          /\ \A q \in Semaphores : \A t \in Elems(waiters[q]) : pc[t] = "down" /\ arg[t] = q
      BY RunningNotListed DEF SynchInv, SynchTypeOK, Elems, SleepersAccounted
    <2>1. \A q \in Semaphores : Elems(waiters'[q]) \subseteq Elems(waiters[q])
      BY UpEffect, ZenonT(60)
    <2>2. \A q \in Semaphores : \A t \in Elems(waiters'[q]) : pc'[t] = "down" /\ arg'[t] = q
      BY <2>0, <2>1 DEF UpMove
    <2>3. ASSUME NEW t \in Threads
          PROVE  status'[t] = "BLOCKED" <=>
                   \/ pc'[t] = "down" /\ t \in Elems(waiters'[arg'[t]])
                   \/ \E u \in Threads : new'[u] = t
                   \/ t = idle_thread' /\ pc'[t] = "hlt" /\ running' # t
      <3>0. status[t] = "BLOCKED" <=>
                   \/ pc[t] = "down" /\ t \in Elems(waiters[arg[t]])
                   \/ \E u \in Threads : new[u] = t
                   \/ t = idle_thread /\ pc[t] = "hlt" /\ running # t
        BY DEF SynchInv, SleepersAccounted
      <3>1. CASE t = running
        <4>1. \A u \in Threads : new[u] # running
          BY <1>0, <1>2, ThreadsNotNull
        <4>2. pc'[t] # "down" /\ status'[t] # "BLOCKED"
          BY <1>0, <1>3, <3>1 DEF UpMove
        <4> QED BY <1>1, <3>1, <4>1, <4>2 DEF UpMove
      <3>2. CASE t # running
        <4>1. pc'[t] = pc[t] /\ arg'[t] = arg[t] /\ UNCHANGED new
          BY <3>2 DEF UpMove
        <4>2. pc[t] = "down" => arg[t] \in Semaphores
          BY DEF SynchInv, CallArgs
        <4>3. CASE UNCHANGED <<waiters, status>>
          BY <1>1, <3>0, <4>1, <4>3
        <4>4. CASE \E h \in Threads :
                 /\ h \in Elems(waiters[s]) /\ status[h] = "BLOCKED" /\ pc[h] = "down" /\ arg[h] = s
                 /\ h # idle_thread /\ h # running /\ tid[h] # 0
                 /\ \A u \in Threads : new[u] # h
                 /\ status'[h] = "READY"
                 /\ \A v \in Threads : v # h => status'[v] = status[v]
                 /\ Elems(waiters'[s]) = Elems(waiters[s]) \ {h}
                 /\ \A q \in Semaphores : q # s => waiters'[q] = waiters[q]
          BY <1>1, <2>0, <3>0, <4>1, <4>2, <4>4
        <4> QED BY <4>3, <4>4, UpEffect
      <3> QED BY <3>1, <3>2
    <2> QED BY <1>1, <2>2, <2>3 DEF SleepersAccounted
  <1> QED BY <1>4, <1>5, <1>6, <1>7, <1>8, <1>9

(* Up, DeviceInterrupt and IdleUp: s is no lock's semaphore.               *)
LEMMA PlainUpInv ==
  ASSUME SynchInv, ThreadInv', NEW s \in Semaphores \ Locks, SemaUp(s), NEW to, UpMove(to),
         pc' \in [Threads -> Label], UNCHANGED <<holder, tmp>>,
         pc[running] \notin {"acquired", "releasing", "tid_lock"} \cup TidCritical \/ to = pc[running],
         to \notin {"acquired", "releasing", "tid_lock"} \cup TidCritical \/ to = pc[running]
  PROVE  SynchInv'
  <1>0. running \in Threads
    BY Running
  <1>1. /\ value' \in [Semaphores -> Nat] /\ waiters' \in [Semaphores -> Seq(Threads)]
        /\ \A l \in Locks : value'[l] = value[l]
        /\ UNCHANGED <<running, idle_thread, tid, next_tid>>
    BY UpEffect, SynchSets
  <1>2. SynchTypeOK'
    BY <1>1 DEF SynchInv, SynchTypeOK, ThreadInv, UpMove
  <1>3. /\ InTheMaking' /\ TidsLeft' /\ IdleInPlace' /\ BootInOrder' /\ SleepersAccounted'
        /\ \A t \in Threads : status'[t] = "FREE" => pc'[t] \in {"run", "exited"}
    BY UpStep
  <1>4. CallArgs'
    BY <1>0, <1>3 DEF SynchInv, CallArgs, UpMove
  <1>5. OneOwner'
    <2>1. \A t \in Threads, l \in Locks : Window(t, l)' <=> Window(t, l)
      BY <1>0 DEF Window, UpMove
    <2> QED BY <1>1, <2>1, LockKept DEF OneOwner
  <1>6. TidLockHeld'
    BY <1>0, <1>1, TidLockKept DEF TidCritical, UpMove
  <1> QED BY <1>2, <1>3, <1>4, <1>5, <1>6 DEF SynchInv

LEMMA UpInv ==
  ASSUME SynchInv, ThreadInv', Up PROVE SynchInv'
  <1>1. PICK s \in Sema : SemaUp(s)
    BY DEF Up
  <1>2. s \in Semaphores \ Locks /\ pc[running] = "run" /\ UNCHANGED <<holder, pc, arg, new, tmp, started>>
    BY SynchSets DEF Up, At, callVars
  <1>3. UpMove("run")
    BY <1>2 DEF UpMove, Label, IdlePlace, BeforeTid, AfterTid
  <1>4. pc' \in [Threads -> Label]
    BY <1>2 DEF SynchInv, SynchTypeOK
  <1> QED BY <1>1, <1>2, <1>3, <1>4, PlainUpInv

LEMMA IdleUpInv ==
  ASSUME SynchInv, ThreadInv', IdleUp PROVE SynchInv'
  <1>1. /\ IdleStarted \in Semaphores \ Locks /\ SemaUp(IdleStarted)
        /\ pc[running] = "idle_up" /\ Goto("idle_loop") /\ UNCHANGED <<holder, arg, new, tmp, started>>
        /\ running \in Threads
    BY SynchSets, Running DEF IdleUp, At, callVars
  <1>2. /\ pc' \in [Threads -> Label] /\ pc'[running] = "idle_loop"
        /\ \A u \in Threads : u # running => pc'[u] = pc[u]
    BY <1>1, Moves DEF Label
  <1>3. UpMove("idle_loop")
    BY <1>1, <1>2 DEF UpMove, Label, IdlePlace, BeforeTid, AfterTid
  <1> QED BY <1>1, <1>2, <1>3, PlainUpInv DEF TidCritical

(* EndHlt only moves the idle thread, from hlt back to its loop.           *)
LEMMA EndHltMoves ==
  ASSUME SynchInv, EndHlt, IntrOn
  PROVE  /\ pc' \in [Threads -> Label]
         /\ pc'[running] = IF pc[running] = "hlt" THEN "idle_loop" ELSE pc[running]
         /\ \A u \in Threads : u # running => pc'[u] = pc[u]
         /\ started /\ pc[running] \notin {"boot", "boot_enable", "down"}
  <1>0. running \in Threads /\ status[running] = "RUNNING"
    BY Running
  <1>1. /\ pc' \in [Threads -> Label]
        /\ pc'[running] = IF pc[running] = "hlt" THEN "idle_loop" ELSE pc[running]
        /\ \A u \in Threads : u # running => pc'[u] = pc[u]
    BY <1>0 DEF EndHlt, SynchInv, SynchTypeOK, Label
  <1>2. started /\ pc[running] \notin {"boot", "boot_enable", "down"}
    BY <1>0 DEF IntrOn, At, SynchInv, BootInOrder
  <1> QED BY <1>1, <1>2

LEMMA DeviceInterruptInv ==
  ASSUME SynchInv, ThreadInv', DeviceInterrupt PROVE SynchInv'
  <1>1. PICK s \in Sema : SemaUp(s)
    BY DEF DeviceInterrupt
  <1>2. s \in Semaphores \ Locks /\ UNCHANGED <<holder, arg, new, tmp, started>> /\ running \in Threads
    BY SynchSets, Running DEF DeviceInterrupt, callVars
  <1> DEFINE to == IF pc[running] = "hlt" THEN "idle_loop" ELSE pc[running]
  <1>3. /\ pc' \in [Threads -> Label] /\ pc'[running] = to
        /\ \A u \in Threads : u # running => pc'[u] = pc[u]
        /\ pc[running] \notin {"boot", "boot_enable", "down"}
    BY EndHltMoves DEF DeviceInterrupt
  <1>4. to = pc[running] \/ (to = "idle_loop" /\ pc[running] = "hlt")
    OBVIOUS
  <1>5. to # "hlt" /\ pc[running] \in Label
    BY Running
  <1> HIDE DEF to
  <1>6. UpMove(to)
    <2>1. to \in Label \ {"boot", "boot_enable", "down", "hlt"}
      BY <1>3, <1>4, <1>5 DEF Label
    <2>2. \A u \in Threads : (BeforeTid(u)' <=> BeforeTid(u)) /\ (AfterTid(u)' <=> AfterTid(u))
      BY <1>2, <1>3, <1>4 DEF BeforeTid, AfterTid
    <2>3. (pc[running] \in IdlePlace <=> to \in IdlePlace)
          /\ (pc[running] = "idle_init" <=> to = "idle_init")
      BY <1>4 DEF IdlePlace
    <2> QED BY <1>2, <1>3, <2>1, <2>2, <2>3 DEF UpMove
  <1> QED BY <1>1, <1>2, <1>3, <1>4, <1>6, PlainUpInv DEF TidCritical

(* The second half of lock_release(): the owner gives the lock up.         *)
LEMMA LockUpInv ==
  ASSUME SynchInv, ThreadInv', LockUp PROVE SynchInv'
  <1>0. running \in Threads /\ pc[running] = "releasing"
    BY Running DEF LockUp, At
  <1>1. PICK m \in Locks : m = arg[running]
    BY <1>0 DEF SynchInv, CallArgs
  <1> DEFINE to == AfterRelease(m)
  <1>2. /\ to \in {"create_unblock", "run"} /\ to \in Label /\ (to = "create_unblock" <=> m = TidLock)
        /\ m \in Semaphores
    BY SynchSets DEF AfterRelease, Label
  <1>3. SemaUp(m) /\ Goto(to) /\ UNCHANGED <<holder, arg, new, tmp, started>>
    BY <1>1 DEF LockUp, callVars
  <1> HIDE DEF to
  <1>4. pc' \in [Threads -> Label] /\ pc'[running] = to /\ \A u \in Threads : u # running => pc'[u] = pc[u]
    BY <1>2, <1>3, Moves
  <1>5. UpMove(to)
    <2>1. \A u \in Threads : (BeforeTid(u)' <=> BeforeTid(u)) /\ (AfterTid(u)' <=> AfterTid(u))
      BY <1>0, <1>1, <1>2, <1>3, <1>4 DEF BeforeTid, AfterTid
    <2> QED BY <1>0, <1>2, <1>3, <1>4, <2>1 DEF UpMove, IdlePlace, Label
  <1>6. /\ value' \in [Semaphores -> Nat] /\ waiters' \in [Semaphores -> Seq(Threads)]
        /\ value'[m] = value[m] + 1 /\ \A q \in Semaphores : q # m => value'[q] = value[q]
        /\ UNCHANGED <<running, idle_thread, tid, next_tid>>
    BY <1>2, <1>3, UpEffect
  <1>7. SynchTypeOK'
    BY <1>3, <1>4, <1>6 DEF SynchInv, SynchTypeOK, ThreadInv
  <1>8. /\ InTheMaking' /\ TidsLeft' /\ IdleInPlace' /\ BootInOrder' /\ SleepersAccounted'
        /\ \A t \in Threads : status'[t] = "FREE" => pc'[t] \in {"run", "exited"}
    BY <1>2, <1>3, <1>5, UpStep
  <1>9. CallArgs'
    BY <1>0, <1>2, <1>3, <1>4, <1>8 DEF SynchInv, CallArgs
  <1>10. TidLockHeld'
    BY <1>0, <1>2, <1>3, <1>4, <1>6, TidLockKept DEF TidCritical
  <1>11. ASSUME NEW l \in Locks PROVE LockSound(l)'
    <2>1. CASE l # m
      <3>1. value'[l] = value[l]
        BY <1>6, <2>1, SynchSets
      <3>2. \A t \in Threads : Window(t, l)' <=> Window(t, l)
        BY <1>0, <1>1, <1>2, <1>3, <1>4, <2>1 DEF Window
      <3> QED BY <1>3, <3>1, <3>2, LockKept
    <2>2. CASE l = m
      <3>1. Window(running, m) /\ Owns(running, m) /\ holder[m] = NULL
        BY <1>0, <1>1 DEF SynchInv, OneOwner, LockSound, Owns, Window
      <3>2. \A t \in Threads : Owns(t, m) => t = running
        BY <1>0, <3>1 DEF SynchInv, OneOwner, LockSound
      <3>3. value[m] = 0
        BY <1>0, <3>1 DEF SynchInv, OneOwner, LockSound
      <3>4. \A t \in Threads : ~Window(t, m)'
        BY <1>0, <1>2, <1>3, <1>4, <3>2 DEF Window, Owns
      <3>5. \A t \in Threads : ~Owns(t, m)'
        BY <1>3, <3>1, <3>4, ThreadsNotNull DEF Window, Owns
      <3> QED BY <1>6, <2>2, <3>3, <3>4, <3>5 DEF LockSound
    <2> QED BY <2>1, <2>2
  <1> QED BY <1>7, <1>8, <1>9, <1>10, <1>11 DEF SynchInv, OneOwner

-----------------------------------------------------------------------------
(* Switches to another thread.                                             *)

\* What schedule() does to the threads when the running one gets status s.
Switched(s) ==
  /\ running' \in Threads /\ status'[running'] = "RUNNING"
  /\ running' # running => status'[running] = s \/ (s = "DYING" /\ status'[running] = "FREE")
  /\ \A t \in Threads : t # running /\ t # running' => status'[t] = status[t]
  /\ running' # running => running' = idle_thread \/ status[running'] = "READY"
  /\ running' = running => s = "READY" \/ running = idle_thread
  /\ idle_thread # NULL => status[idle_thread] \notin {"FREE", "DYING"}
  /\ UNCHANGED <<idle_thread, tid, next_tid>>

LEMMA SwitchEffect ==
  ASSUME SynchInv, NEW s \in {"READY", "BLOCKED", "DYING"}, NEW queue \in Seq(Threads),
         Schedule(s, queue), SomeoneToRun(queue), UNCHANGED <<idle_thread, tid, next_tid>>,
         \A t \in Elems(queue) : /\ t # idle_thread
                                 /\ status[t] = "READY" \/ (t = running /\ s = "READY")
  PROVE  Switched(s)
  <1> DEFINE next == NextThreadToRun(queue)
             left == IF running # next /\ s = "DYING" /\ running # Main THEN "FREE" ELSE s
  <1>0. /\ running \in Threads /\ status \in [Threads -> Status]
        /\ idle_thread \in Page \cup {NULL} /\ status[running] = "RUNNING"
        /\ idle_thread # NULL => status[idle_thread] \notin {"FREE", "DYING"}
    BY Running DEF SynchInv, ThreadInv, ThreadTypeOK, IdleAlive
  <1>1. /\ next \in Threads
        /\ next = idle_thread \/ status[next] = "READY" \/ (next = running /\ s = "READY")
    <2>1. CASE queue # << >>
      <3>1. next \in Threads /\ next \in Elems(queue)
        BY <2>1, PopFront DEF NextThreadToRun
      <3> QED BY <3>1
    <2>2. CASE queue = << >>
      BY <1>0, <2>2, ThreadsNotNull DEF NextThreadToRun, SomeoneToRun
    <2> QED BY <2>1, <2>2
  <1>2. status' = [status EXCEPT ![running] = left, ![next] = "RUNNING"] /\ running' = next
    BY DEF Schedule
  <1> HIDE DEF next
  <1>3. left = s \/ (s = "DYING" /\ left = "FREE")
    OBVIOUS
  <1> HIDE DEF left
  <1> QED BY <1>0, <1>1, <1>2, <1>3 DEF Switched

\* What the thread that gives the processor away does with its own state.
SwitchMove(s, to) ==
  /\ pc'[running] = to /\ to \in Label \ {"boot", "boot_enable"}
  /\ pc[running] \notin {"boot", "boot_enable"}
  /\ \A u \in Threads : u # running => pc'[u] = pc[u] /\ arg'[u] = arg[u]
  /\ pc[running] \in IdlePlace <=> to \in IdlePlace
  /\ pc[running] = "idle_init" <=> to = "idle_init"
  /\ pc[running] = "idle_init" => s = "READY"
  /\ \A u \in Threads : BeforeTid(u)' <=> BeforeTid(u)
  /\ \A u \in Threads : AfterTid(u)' <=> AfterTid(u)
  /\ s = "DYING" => to = "exited"
  /\ s = "DYING" => running # idle_thread
  /\ started
  /\ UNCHANGED <<new, started>>

LEMMA SwitchStep ==
  ASSUME SynchInv, NEW s \in {"READY", "BLOCKED", "DYING"}, NEW to,
         Switched(s), SwitchMove(s, to)
  PROVE  /\ InTheMaking' /\ TidsLeft' /\ IdleInPlace' /\ BootInOrder'
         /\ \A t \in Threads : status'[t] = "FREE" => pc'[t] \in {"run", "exited"}
         /\ \A u \in Threads : new[u] # NULL => status'[new[u]] = "BLOCKED"
  <1>0. running \in Threads /\ status[running] = "RUNNING"
    BY Running
  <1>1. \A u \in Threads : new[u] # NULL =>
          /\ new[u] # running /\ new[u] \in Threads /\ status[new[u]] = "BLOCKED"
          /\ new[u] # idle_thread
    BY Making
  <1>2. \A u \in Threads : new[u] # NULL =>
            pc'[new[u]] = pc[new[u]] /\ status'[new[u]] = status[new[u]]
    BY <1>1 DEF SwitchMove, Switched
  <1>3. \A t \in Threads : status'[t] \notin {"FREE", "DYING"} => status[t] \notin {"FREE", "DYING"}
    BY <1>0, ThreadsNotNull DEF Switched
  <1>4. InTheMaking'
    <2>1. \A t \in Threads : status'[t] \notin {"FREE", "DYING"} /\ tid'[t] = 0
                             => \E u \in Threads : new'[u] = t
      BY <1>3 DEF SynchInv, InTheMaking, SwitchMove, Switched
    <2>2. \A u \in Threads : new'[u] = new[u] /\ (BeforeTid(u)' <=> BeforeTid(u))
                             /\ (AfterTid(u)' <=> AfterTid(u))
      BY DEF SwitchMove
    <2>3. tid' = tid
      BY DEF Switched
    <2> QED BY <1>2, <2>1, <2>2, <2>3 DEF SynchInv, InTheMaking
  <1>5. TidsLeft'
    <2>1. Makers' = Makers /\ next_tid' = next_tid
      BY DEF Makers, SwitchMove, Switched
    <2> QED BY <2>1 DEF SynchInv, TidsLeft
  <1>6. IdleInPlace'
    BY <1>0 DEF SynchInv, IdleInPlace, SwitchMove, IdlePlace, Switched
  <1>7. BootInOrder'
    <2>1. \A t \in Threads : pc'[t] \notin {"boot", "boot_enable"}
      BY <1>0 DEF SwitchMove, SynchInv, BootInOrder
    <2>2. ASSUME idle_thread' = NULL
          PROVE  \E t \in Page : pc'[t] = "idle_init" /\ status'[t] \in {"READY", "RUNNING"}
      <3>1. PICK t \in Page : pc[t] = "idle_init" /\ status[t] \in {"READY", "RUNNING"}
        BY <2>2 DEF SynchInv, BootInOrder, SwitchMove, Switched
      <3>2. t \in Threads
        BY ThreadsNotNull
      <3> QED BY <1>0, <3>1, <3>2 DEF SwitchMove, Switched
    <2> QED BY <2>1, <2>2, ThreadsNotNull DEF BootInOrder, SwitchMove
  <1>8. \A t \in Threads : status'[t] = "FREE" => pc'[t] \in {"run", "exited"}
    BY <1>0 DEF SynchInv, CallArgs, SwitchMove, Switched
  <1> QED BY <1>1, <1>2, <1>4, <1>5, <1>6, <1>7, <1>8

(* A switch that touches no waiters list: the idle thread blocks at its    *)
(* hlt, any other thread is preempted or exits.                            *)
LEMMA SwitchSleepers ==
  ASSUME SynchInv, NEW s \in {"READY", "BLOCKED", "DYING"}, NEW to,
         Switched(s), SwitchMove(s, to), UNCHANGED waiters,
         pc[running] # "down", to # "down", s = "BLOCKED" <=> to = "hlt"
  PROVE  SleepersAccounted'
  <1>0. running \in Threads /\ status[running] = "RUNNING"
    BY Running
  <1>1. \A u \in Threads : new[u] # NULL =>
          new[u] # running /\ new[u] \in Threads /\ status[new[u]] = "BLOCKED"
    BY Making
  <1>2. \A u \in Threads : new[u] # NULL => status'[new[u]] = "BLOCKED"
    BY SwitchStep
  <1>3. /\ \A q \in Semaphores : Elems(waiters[q]) \subseteq Threads /\ running \notin Elems(waiters[q])
        /\ \A q \in Semaphores : \A t \in Elems(waiters[q]) : pc[t] = "down" /\ arg[t] = q
    BY RunningNotListed DEF SynchInv, SynchTypeOK, Elems, SleepersAccounted
  <1>4. \A q \in Semaphores : \A t \in Elems(waiters'[q]) : pc'[t] = "down" /\ arg'[t] = q
    BY <1>3 DEF SwitchMove
  <1>5. \A t \in Threads : pc[t] \in IdlePlace <=> t = idle_thread
    BY DEF SynchInv, IdleInPlace, IdlePlace
  <1>6. ASSUME NEW t \in Threads
        PROVE  status'[t] = "BLOCKED" <=>
                   \/ pc'[t] = "down" /\ t \in Elems(waiters'[arg'[t]])
                   \/ \E u \in Threads : new'[u] = t
                   \/ t = idle_thread' /\ pc'[t] = "hlt" /\ running' # t
    <2>0. status[t] = "BLOCKED" <=>
                   \/ pc[t] = "down" /\ t \in Elems(waiters[arg[t]])
                   \/ \E u \in Threads : new[u] = t
                   \/ t = idle_thread /\ pc[t] = "hlt" /\ running # t
      BY DEF SynchInv, SleepersAccounted
    <2>1. CASE t = running
      <3>1. \A u \in Threads : new'[u] # t
        BY <1>0, <1>1, <2>1, ThreadsNotNull DEF SwitchMove
      <3>2. t = idle_thread <=> to \in IdlePlace
        BY <1>5, <2>1 DEF SwitchMove
      <3> QED BY <1>0, <2>1, <3>1, <3>2 DEF SwitchMove, Switched, IdlePlace
    <2>2. CASE t # running /\ t = running'
      <3>1. status'[t] = "RUNNING" /\ pc'[t] = pc[t] /\ arg'[t] = arg[t]
        BY <2>2 DEF SwitchMove, Switched
      <3>2. \A u \in Threads : new'[u] # t
        BY <1>2, <3>1, ThreadsNotNull DEF SwitchMove
      <3>3. ~(pc[t] = "down" /\ t \in Elems(waiters[arg[t]]))
        BY <1>5, <2>0, <2>2 DEF Switched, IdlePlace
      <3> QED BY <2>2, <3>1, <3>2, <3>3
    <2>3. CASE t # running /\ t # running'
      BY <2>0, <2>3 DEF SwitchMove, Switched
    <2> QED BY <2>1, <2>2, <2>3
  <1>7. \A q \in Semaphores : NoDuplicates(waiters'[q])
    BY DEF SynchInv, SleepersAccounted
  <1> QED BY <1>4, <1>6, <1>7 DEF SleepersAccounted

(* The queue thread_block() and thread_exit() leave to schedule().         *)
LEMMA RunQueue ==
  ASSUME SynchInv
  PROVE  /\ fifo_ready_list \in Seq(Threads)
         /\ \A t \in Elems(fifo_ready_list) : t # idle_thread /\ status[t] = "READY"
  BY DEF SynchInv, ThreadInv, ThreadTypeOK, ReadyListExact

LEMMA YieldSwitch ==
  ASSUME SynchInv, ThreadYield PROVE Switched("READY")
  <1>1. running \in Threads
    BY Running
  <1>2. CASE running = idle_thread
    <2>1. YieldQueue = fifo_ready_list /\ SomeoneToRun(fifo_ready_list)
      BY <1>1, <1>2, ThreadsNotNull DEF YieldQueue, SomeoneToRun
    <2> QED BY <2>1, RunQueue, SwitchEffect DEF ThreadYield
  <1>3. CASE running # idle_thread
    <2>1. /\ YieldQueue \in Seq(Threads)
          /\ Elems(YieldQueue) = Elems(fifo_ready_list) \cup {running}
      BY <1>1, <1>3, RunQueue, PushBack DEF YieldQueue, ThreadEnqueue
    <2>2. YieldQueue # << >>
      BY <2>1 DEF Elems
    <2>3. \A t \in Elems(YieldQueue) : t # idle_thread /\ (status[t] = "READY" \/ t = running)
      BY <1>3, <2>1, RunQueue
    <2> QED BY <2>1, <2>2, <2>3, SwitchEffect DEF ThreadYield, SomeoneToRun
  <1> QED BY <1>2, <1>3

(* What is left to show for a step that touches no semaphore and no lock.  *)
LEMMA SwitchInv ==
  ASSUME SynchInv, ThreadInv', NEW s \in {"READY", "BLOCKED", "DYING"}, NEW to,
         Switched(s), SwitchMove(s, to), UNCHANGED <<value, waiters, holder, arg, tmp>>,
         pc' \in [Threads -> Label],
         pc[running] # "down", to # "down", s = "BLOCKED" <=> to = "hlt",
         to = pc[running] \/ {to, pc[running]} \cap ({"acquired", "releasing"} \cup TidCritical) = {}
  PROVE  SynchInv'
  <1>0. running \in Threads
    BY Running
  <1>1. SynchTypeOK'
    BY DEF SynchInv, SynchTypeOK, ThreadInv, SwitchMove
  <1>2. /\ InTheMaking' /\ TidsLeft' /\ IdleInPlace' /\ BootInOrder'
        /\ \A t \in Threads : status'[t] = "FREE" => pc'[t] \in {"run", "exited"}
    BY SwitchStep
  <1>3. SleepersAccounted'
    BY SwitchSleepers
  <1>4. CallArgs'
    BY <1>0, <1>2 DEF SynchInv, CallArgs, SwitchMove
  <1>5. OneOwner'
    <2>1. \A t \in Threads, l \in Locks : Window(t, l)' <=> Window(t, l)
      BY <1>0 DEF Window, SwitchMove
    <2> QED BY <2>1, LockKept DEF OneOwner
  <1>6. TidLockHeld'
    <2>1. \A t \in Threads : /\ pc'[t] \in TidCritical <=> pc[t] \in TidCritical
                             /\ pc'[t] = "tid_write" => pc[t] = "tid_write"
      BY <1>0 DEF TidCritical, SwitchMove
    <2> QED BY <2>1, TidLockKept DEF Switched
  <1> QED BY <1>1, <1>2, <1>3, <1>4, <1>5, <1>6 DEF SynchInv

LEMMA YieldCpuInv ==
  ASSUME SynchInv, ThreadInv', YieldCpu PROVE SynchInv'
  <1>1. /\ pc[running] = "run" /\ running \in Threads /\ Switched("READY")
        /\ UNCHANGED <<value, waiters, holder, pc, arg, new, tmp, started>>
    BY Running, YieldSwitch DEF YieldCpu, At, synchVars
  <1>2. started
    BY <1>1, ThreadsNotNull DEF SynchInv, BootInOrder, InTheMaking, BeforeTid, AfterTid
  <1>3. SwitchMove("READY", "run")
    BY <1>1, <1>2 DEF SwitchMove, Label, IdlePlace, BeforeTid, AfterTid
  <1> QED BY <1>1, <1>3, SwitchInv DEF SynchInv, SynchTypeOK

(* The timer interrupt, between any two instructions with interrupts on.   *)
LEMMA TimerInterruptInv ==
  ASSUME SynchInv, ThreadInv', TimerInterrupt PROVE SynchInv'
  <1> DEFINE to == IF pc[running] = "hlt" THEN "idle_loop" ELSE pc[running]
  <1>1. UNCHANGED <<value, waiters, holder, arg, new, tmp, started>>
    BY DEF TimerInterrupt, semaVars, callVars
  <1>2. /\ pc' \in [Threads -> Label] /\ pc'[running] = to
        /\ \A u \in Threads : u # running => pc'[u] = pc[u]
        /\ started /\ pc[running] \notin {"boot", "boot_enable", "down"}
    BY EndHltMoves DEF TimerInterrupt
  <1>3. /\ running \in Threads /\ status[running] = "RUNNING" /\ pc[running] \in Label
    BY Running
  <1>4. to # "hlt" /\ (to = pc[running] \/ (to = "idle_loop" /\ pc[running] = "hlt"))
    OBVIOUS
  <1> HIDE DEF to
  <1>5. \A u \in Threads : (BeforeTid(u)' <=> BeforeTid(u)) /\ (AfterTid(u)' <=> AfterTid(u))
    BY <1>1, <1>2, <1>4 DEF BeforeTid, AfterTid
  <1>6. /\ pc[running] \in IdlePlace <=> to \in IdlePlace
        /\ pc[running] = "idle_init" <=> to = "idle_init"
        /\ to \in Label \ {"boot", "boot_enable"} /\ to # "down"
    BY <1>2, <1>3, <1>4 DEF IdlePlace, Label
  <1>7. SwitchMove("READY", to)
    BY <1>1, <1>2, <1>5, <1>6 DEF SwitchMove
  <1>8. Switched("READY")
    <2>1. CASE thread_ticks + 1 >= TIME_SLICE
      BY <2>1, YieldSwitch DEF TimerInterrupt, ThreadTick
    <2>2. CASE ~(thread_ticks + 1 >= TIME_SLICE)
      BY <1>3, <2>2 DEF TimerInterrupt, ThreadTick, Switched, SynchInv, ThreadInv, IdleAlive
    <2> QED BY <2>1, <2>2
  <1> QED BY <1>1, <1>2, <1>4, <1>6, <1>7, <1>8, SwitchInv DEF TidCritical

LEMMA ExitThreadInv ==
  ASSUME SynchInv, ThreadInv', ExitThread PROVE SynchInv'
  <1>1. /\ pc[running] = "run" /\ running \in Threads /\ ThreadExit /\ Goto("exited")
        /\ UNCHANGED <<value, waiters, holder, arg, new, tmp, started>>
    BY Running DEF ExitThread, At, semaVars, callVars
  <1>2. started
    BY <1>1, ThreadsNotNull DEF SynchInv, BootInOrder, InTheMaking, BeforeTid, AfterTid
  <1>3. SomeoneToRun(fifo_ready_list) /\ running # idle_thread
    BY <1>1, <1>2, CanBlock DEF SynchInv, IdleInPlace
  <1>4. Switched("DYING")
    BY <1>1, <1>3, RunQueue, SwitchEffect DEF ThreadExit
  <1>5. /\ pc' \in [Threads -> Label] /\ pc'[running] = "exited"
        /\ \A u \in Threads : u # running => pc'[u] = pc[u]
    BY <1>1, Moves DEF Label
  <1>6. SwitchMove("DYING", "exited")
    BY <1>1, <1>2, <1>3, <1>5 DEF SwitchMove, Label, IdlePlace, BeforeTid, AfterTid
  <1> QED BY <1>1, <1>4, <1>5, <1>6, SwitchInv DEF TidCritical

LEMMA IdleLoopInv ==
  ASSUME SynchInv, ThreadInv', IdleLoop PROVE SynchInv'
  <1>1. /\ pc[running] = "idle_loop" /\ running \in Threads /\ ThreadBlock /\ Goto("hlt")
        /\ UNCHANGED <<value, waiters, holder, arg, new, tmp, started>>
    BY Running DEF IdleLoop, At, semaVars, callVars
  <1>2. running = idle_thread /\ idle_thread # NULL /\ started
    BY <1>1, ThreadsNotNull DEF SynchInv, IdleInPlace, BootInOrder
  <1>3. Switched("BLOCKED")
    BY <1>1, <1>2, RunQueue, SwitchEffect DEF ThreadBlock, SomeoneToRun
  <1>4. /\ pc' \in [Threads -> Label] /\ pc'[running] = "hlt"
        /\ \A u \in Threads : u # running => pc'[u] = pc[u]
    BY <1>1, Moves DEF Label
  <1>5. SwitchMove("BLOCKED", "hlt")
    BY <1>1, <1>2, <1>4 DEF SwitchMove, Label, IdlePlace, BeforeTid, AfterTid
  <1> QED BY <1>1, <1>3, <1>4, <1>5, SwitchInv DEF TidCritical

(* sema_down() finds zero: the caller queues up and sleeps.                *)
LEMMA SleepInv ==
  ASSUME SynchInv, ThreadInv', NEW s \in Semaphores, DownFrom(s), value[s] = 0,
         waiters' = [waiters EXCEPT ![s] = Append(@, running)],
         Goto("down"), arg' = [arg EXCEPT ![running] = s],
         ThreadBlock, UNCHANGED <<value, holder, new, tmp, started>>
  PROVE  SynchInv'
  <1>0. /\ running \in Threads /\ status[running] = "RUNNING"
        /\ pc[running] \in {"run", "tid_lock", "boot_wait", "down"}
    BY Running DEF DownFrom
  <1>1. started /\ SomeoneToRun(fifo_ready_list)
    BY DownContract
  <1>2. Switched("BLOCKED")
    BY <1>1, RunQueue, SwitchEffect DEF ThreadBlock
  <1>3. /\ pc' \in [Threads -> Label] /\ pc'[running] = "down"
        /\ \A u \in Threads : u # running => pc'[u] = pc[u]
    BY Moves DEF Label
  <1>4. /\ arg' \in [Threads -> Semaphores \cup {NULL}] /\ arg'[running] = s
        /\ \A u \in Threads : u # running => arg'[u] = arg[u]
    BY <1>0 DEF SynchInv, SynchTypeOK
  <1>5. \A u \in Threads : (BeforeTid(u)' <=> BeforeTid(u)) /\ (AfterTid(u)' <=> AfterTid(u))
    <2>1. BeforeTid(running) <=> s = TidLock
      BY SynchSets DEF BeforeTid, DownFrom
    <2> QED BY <1>0, <1>3, <1>4, <2>1 DEF BeforeTid, AfterTid
  <1>6. SwitchMove("BLOCKED", "down")
    BY <1>0, <1>1, <1>3, <1>4, <1>5 DEF SwitchMove, Label, IdlePlace
  <1>7. /\ InTheMaking' /\ TidsLeft' /\ IdleInPlace' /\ BootInOrder'
        /\ \A t \in Threads : status'[t] = "FREE" => pc'[t] \in {"run", "exited"}
        /\ \A u \in Threads : new[u] # NULL => status'[new[u]] = "BLOCKED"
    BY <1>2, <1>6, SwitchStep
  <1>8. CallArgs'
    BY <1>0, <1>3, <1>4, <1>7 DEF SynchInv, CallArgs
  <1>9. OneOwner'
    <2>1. \A t \in Threads, l \in Locks : Window(t, l)' <=> Window(t, l)
      BY <1>0, <1>3, <1>4 DEF Window
    <2> QED BY <2>1, LockKept DEF OneOwner
  <1>10. TidLockHeld'
    <2>1. \A t \in Threads : /\ pc'[t] \in TidCritical <=> pc[t] \in TidCritical
                             /\ pc'[t] = "tid_write" => pc[t] = "tid_write"
      BY <1>0, <1>3 DEF TidCritical
    <2> QED BY <1>2, <2>1, TidLockKept DEF Switched
  <1> DEFINE list == Append(waiters[s], running)
  <1>11. waiters \in [Semaphores -> Seq(Threads)] /\ waiters[s] \in Seq(Threads)
         /\ running \notin Elems(waiters[s]) /\ NoDuplicates(waiters[s])
    BY RunningNotListed DEF SynchInv, SynchTypeOK, SleepersAccounted
  <1>12. list \in Seq(Threads) /\ NoDuplicates(list) /\ Elems(list) = Elems(waiters[s]) \cup {running}
    BY <1>0, <1>11, PushBack
  <1>13. waiters' = [waiters EXCEPT ![s] = list]
    BY <1>11
  <1> HIDE DEF list
  <1>14. /\ waiters' \in [Semaphores -> Seq(Threads)] /\ waiters'[s] = list
         /\ \A q \in Semaphores : q # s => waiters'[q] = waiters[q]
    BY <1>11, <1>12, <1>13
  <1>15. SynchTypeOK'
    BY <1>3, <1>4, <1>14 DEF SynchInv, SynchTypeOK, ThreadInv
  <1>16. SleepersAccounted'
    <2>1. /\ \A q \in Semaphores : Elems(waiters[q]) \subseteq Threads /\ running \notin Elems(waiters[q])
          /\ \A q \in Semaphores : \A t \in Elems(waiters[q]) : pc[t] = "down" /\ arg[t] = q
      BY RunningNotListed DEF SynchInv, SynchTypeOK, Elems, SleepersAccounted
    <2>2. \A q \in Semaphores : \A t \in Elems(waiters'[q]) : pc'[t] = "down" /\ arg'[t] = q
      <3> SUFFICES ASSUME NEW q \in Semaphores, NEW t \in Elems(waiters'[q])
                   PROVE  pc'[t] = "down" /\ arg'[t] = q
        OBVIOUS
      <3>1. CASE t = running
        <4>1. q = s
          BY <1>14, <2>1, <3>1
        <4> QED BY <1>3, <1>4, <3>1, <4>1
      <3>2. CASE t # running
        <4>1. t \in Elems(waiters[q])
          BY <1>12, <1>14, <3>2
        <4> QED BY <1>3, <1>4, <2>1, <3>2, <4>1
      <3> QED BY <3>1, <3>2
    <2>3. \A q \in Semaphores : NoDuplicates(waiters'[q])
      BY <1>12, <1>14 DEF SynchInv, SleepersAccounted
    <2>4. \A t \in Threads : pc[t] \in IdlePlace <=> t = idle_thread
      BY DEF SynchInv, IdleInPlace, IdlePlace
    <2>5. ASSUME NEW t \in Threads
          PROVE  status'[t] = "BLOCKED" <=>
                   \/ pc'[t] = "down" /\ t \in Elems(waiters'[arg'[t]])
                   \/ \E u \in Threads : new'[u] = t
                   \/ t = idle_thread' /\ pc'[t] = "hlt" /\ running' # t
      <3>0. status[t] = "BLOCKED" <=>
                   \/ pc[t] = "down" /\ t \in Elems(waiters[arg[t]])
                   \/ \E u \in Threads : new[u] = t
                   \/ t = idle_thread /\ pc[t] = "hlt" /\ running # t
        BY DEF SynchInv, SleepersAccounted
      <3>1. CASE t = running
        <4>1. running # idle_thread
          BY <1>0, <2>4 DEF IdlePlace
        <4>2. running' # running /\ status'[t] = "BLOCKED"
          BY <1>2, <3>1, <4>1 DEF Switched
        <4> QED BY <1>3, <1>4, <1>12, <1>14, <3>1, <4>2
      <3>2. CASE t # running
        <4>1. pc'[t] = pc[t] /\ arg'[t] = arg[t]
          BY <1>3, <1>4, <3>2
        <4>2. pc[t] = "down" => (t \in Elems(waiters'[arg[t]]) <=> t \in Elems(waiters[arg[t]]))
          BY <1>12, <1>14, <3>2 DEF SynchInv, CallArgs
        <4>3. CASE t = running'
          <5>1. status'[t] = "RUNNING" /\ (t = idle_thread \/ status[t] = "READY")
            BY <1>2, <3>2, <4>3 DEF Switched
          <5>2. \A u \in Threads : new'[u] # t
            BY <1>7, <5>1, ThreadsNotNull
          <5>3. ~(pc[t] = "down" /\ t \in Elems(waiters[arg[t]]))
            BY <2>4, <3>0, <5>1 DEF IdlePlace
          <5> QED BY <4>1, <4>2, <4>3, <5>1, <5>2, <5>3
        <4>4. CASE t # running'
          <5>1. status'[t] = status[t] /\ idle_thread' = idle_thread
            BY <1>2, <3>2, <4>4 DEF Switched
          <5> QED BY <3>0, <3>2, <4>1, <4>2, <4>4, <5>1
        <4> QED BY <4>3, <4>4
      <3> QED BY <3>1, <3>2
    <2> QED BY <2>2, <2>3, <2>5 DEF SleepersAccounted
  <1> QED BY <1>7, <1>8, <1>9, <1>10, <1>15, <1>16 DEF SynchInv

(* sema_down(), from any of its callers.                                   *)
LEMMA DownInv ==
  ASSUME SynchInv, ThreadInv', NEW s \in Semaphores, DownFrom(s), SemaDown(s)
  PROVE  SynchInv'
  <1>1. CASE value[s] > 0
    <2>1. value \in [Semaphores -> Nat]
      BY DEF SynchInv, SynchTypeOK
    <2>2. /\ value' = [value EXCEPT ![s] = @ - 1] /\ Goto(AfterDown(s))
          /\ arg' = [arg EXCEPT ![running] = s]
          /\ UNCHANGED <<threadVars, waiters, holder, new, tmp, started>>
      BY <1>1, <2>1 DEF SemaDown
    <2> QED BY <1>1, <2>2, TakeInv
  <1>2. CASE ~(value[s] > 0)
    <2>1. /\ value[s] = 0 /\ waiters' = [waiters EXCEPT ![s] = Append(@, running)]
          /\ Goto("down") /\ arg' = [arg EXCEPT ![running] = s]
          /\ ThreadBlock /\ UNCHANGED <<value, holder, new, tmp, started>>
      BY <1>2 DEF SemaDown
    <2> QED BY <2>1, SleepInv
  <1> QED BY <1>1, <1>2

-----------------------------------------------------------------------------
(* Making a thread.                                                        *)

(* thread_create() up to allocate_tid(): a free page becomes a blocked     *)
(* thread in the making.                                                   *)
LEMMA ThreadCreateInv ==
  ASSUME SynchInv, ThreadInv', NEW first \in {"run", "idle_init"}, ThreadCreate(first),
         \/ pc[running] = "run" /\ first = "run"
         \/ pc[running] = "boot" /\ first = "idle_init"
  PROVE  SynchInv'
  <1> DEFINE me == running
  <1>0. me \in Threads /\ status[me] = "RUNNING" /\ pc[me] \in {"run", "boot"}
    BY Running
  <1>1. PICK t \in Page :
          /\ InitThread(t) /\ new' = [new EXCEPT ![me] = t]
          /\ pc' = [pc EXCEPT ![t] = first, ![me] = "tid_lock"]
          /\ arg' = [arg EXCEPT ![t] = NULL]
          /\ UNCHANGED <<value, waiters, holder, tmp, started>>
    BY DEF ThreadCreate, semaVars
  <1>2. /\ t \in Threads /\ t # NULL /\ status[t] = "FREE" /\ t # me /\ t # idle_thread
        /\ t # Main
    <2>1. t \in Threads /\ t # NULL /\ t # Main
      BY ThreadsNotNull, ThreadAssumption
    <2>2. status[t] = "FREE"
      BY <1>1 DEF InitThread
    <2> QED BY <1>0, <2>1, <2>2 DEF SynchInv, ThreadInv, IdleAlive
  <1>3. /\ pc' \in [Threads -> Label] /\ pc'[me] = "tid_lock" /\ pc'[t] = first
        /\ \A u \in Threads : u # me /\ u # t => pc'[u] = pc[u]
    BY <1>0, <1>1, <1>2 DEF SynchInv, SynchTypeOK, Label
  <1>4. /\ new' \in [Threads -> Page \cup {NULL}] /\ new'[me] = t
        /\ \A u \in Threads : u # me => new'[u] = new[u]
        /\ arg' \in [Threads -> Semaphores \cup {NULL}] /\ arg'[t] = NULL
        /\ \A u \in Threads : u # t => arg'[u] = arg[u]
    BY <1>0, <1>1, <1>2 DEF SynchInv, SynchTypeOK
  <1>5. /\ status'[t] = "BLOCKED" /\ \A u \in Threads : u # t => status'[u] = status[u]
        /\ tid'[t] = 0 /\ \A u \in Threads : u # t => tid'[u] = tid[u]
        /\ UNCHANGED <<running, idle_thread, next_tid>>
    BY <1>1, <1>2 DEF InitThread, SynchInv, SynchTypeOK, ThreadTypeOK
  <1>6. pc[t] \in {"run", "exited"}
    BY <1>2 DEF SynchInv, CallArgs
  <1>7. SynchTypeOK'
    BY <1>1, <1>3, <1>4 DEF SynchInv, SynchTypeOK, ThreadInv
  <1>8. CallArgs'
    BY <1>0, <1>2, <1>3, <1>4, <1>5 DEF SynchInv, CallArgs
  <1>9. OneOwner'
    <2>1. \A u \in Threads, l \in Locks : Window(u, l)' <=> Window(u, l)
      BY <1>0, <1>3, <1>4, <1>6 DEF Window
    <2> QED BY <1>1, <2>1, LockKept DEF OneOwner
  <1>10. TidLockHeld'
    BY <1>0, <1>1, <1>3, <1>5, <1>6, TidLockKept DEF TidCritical
  <1>11. /\ ~BeforeTid(me) /\ ~AfterTid(me) /\ new[me] = NULL
         /\ ~BeforeTid(t) /\ ~AfterTid(t) /\ new[t] = NULL
    <2>1. ~BeforeTid(me) /\ ~AfterTid(me) /\ ~BeforeTid(t) /\ ~AfterTid(t)
      BY <1>0, <1>6 DEF BeforeTid, AfterTid
    <2> QED BY <1>0, <1>2, <2>1 DEF SynchInv, InTheMaking
  <1>12. \A u \in Threads : /\ BeforeTid(u)' <=> (BeforeTid(u) \/ u = me)
                            /\ AfterTid(u)' <=> AfterTid(u)
    <2>1. \A u \in Threads : u # me /\ u # t =>
            (BeforeTid(u)' <=> BeforeTid(u)) /\ (AfterTid(u)' <=> AfterTid(u))
      BY <1>3, <1>4 DEF BeforeTid, AfterTid
    <2>2. \A u \in Threads : u = me => BeforeTid(u)' /\ ~AfterTid(u)'
      BY <1>3 DEF BeforeTid, AfterTid
    <2>3. \A u \in Threads : u = t => ~BeforeTid(u)' /\ ~AfterTid(u)'
      BY <1>3, <1>4 DEF BeforeTid, AfterTid
    <2> QED BY <1>2, <1>11, <2>1, <2>2, <2>3
  <1>13. \A u \in Threads : u # me /\ new[u] # NULL =>
            new[u] \in Threads /\ new[u] # t /\ new[u] # me
    BY <1>2, Making
  <1>14. InTheMaking'
    <2>1. \A u \in Threads : new'[u] # NULL <=> (BeforeTid(u)' \/ AfterTid(u)')
      BY <1>2, <1>4, <1>12 DEF SynchInv, InTheMaking
    <2>2. ASSUME NEW u \in Threads, new'[u] # NULL
          PROVE  /\ status'[new'[u]] = "BLOCKED" /\ pc'[new'[u]] \in {"run", "idle_init"}
                 /\ tid'[new'[u]] = 0 <=> BeforeTid(u)'
      <3>1. CASE u = me
        BY <1>3, <1>4, <1>5, <1>12, <3>1
      <3>2. CASE u # me
        BY <1>3, <1>4, <1>5, <1>12, <1>13, <2>2, <3>2 DEF SynchInv, InTheMaking
      <3> QED BY <3>1, <3>2
    <2>3. \A u, v \in Threads : new'[u] # NULL /\ new'[u] = new'[v] => u = v
      BY <1>4, <1>13, <1>2 DEF SynchInv, InTheMaking
    <2>4. ASSUME NEW v \in Threads, status'[v] \notin {"FREE", "DYING"}, tid'[v] = 0
          PROVE  \E u \in Threads : new'[u] = v
      <3>1. CASE v = t
        BY <1>0, <1>4, <3>1
      <3>2. CASE v # t
        <4>1. PICK u \in Threads : new[u] = v
          BY <1>5, <2>4, <3>2 DEF SynchInv, InTheMaking
        <4>2. u # me
          BY <1>11, <4>1, ThreadsNotNull
        <4> QED BY <1>4, <4>1, <4>2
      <3> QED BY <3>1, <3>2
    <2> QED BY <2>1, <2>2, <2>3, <2>4 DEF InTheMaking
  <1>15. TidsLeft'
    <2>1. Makers' = Makers \cup {me} /\ me \notin Makers
      BY <1>0, <1>11, <1>12 DEF Makers
    <2>2. IsFiniteSet(Makers) /\ IsFiniteSet({u \in Threads : new[u] # NULL})
      BY SynchSets, FS_Subset DEF Makers
    <2>3. Makers \subseteq {u \in Threads : new[u] # NULL}
      BY DEF Makers, SynchInv, InTheMaking
    <2>4. Cardinality(Makers') = Cardinality(Makers) + 1
      BY <2>1, <2>2, FS_AddElement
    <2>5. Cardinality(Makers) <= Cardinality({u \in Threads : new[u] # NULL})
      BY <2>2, <2>3, FS_Subset
    <2>6. Cardinality(Makers) \in Nat /\ Cardinality({u \in Threads : new[u] # NULL}) \in Nat
      BY <2>2, FS_CardinalityType
    <2>7. next_tid + Cardinality({u \in Threads : new[u] # NULL}) <= MaxTid
      BY DEF ThreadCreate
    <2>8. next_tid \in Nat /\ MaxTid \in Nat
      BY ThreadAssumption DEF SynchInv, ThreadInv, ThreadTypeOK
    <2> QED BY <1>5, <2>4, <2>5, <2>6, <2>7, <2>8 DEF TidsLeft
  <1>16. IdleInPlace'
    <2>1. first = "idle_init" => idle_thread = NULL /\ \A u \in Threads : pc[u] # "idle_init"
      BY <1>0 DEF SynchInv, BootInOrder
    <2> QED BY <1>0, <1>2, <1>3, <1>5, <1>6, <2>1 DEF SynchInv, IdleInPlace
  <1>17. BootInOrder'
    <2>0. Main \in Threads /\ Page \subseteq Threads
      BY ThreadsNotNull
    <2>1. ~started <=> pc[me] = "boot"
      BY <1>0, <1>11 DEF SynchInv, BootInOrder
    <2>2. ~started => me = Main /\ idle_thread = NULL /\ \A u \in Page : pc[u] \in {"run", "idle_init"}
      BY DEF SynchInv, BootInOrder
    <2>3. \A u \in Threads : pc'[u] \notin {"boot", "boot_enable"}
      <3>1. \A u \in Threads : pc[u] \in {"boot", "boot_enable"} => u = me
        BY <2>1, <2>2 DEF SynchInv, BootInOrder
      <3> QED BY <1>3, <1>0, <3>1
    <2>4. ~started' => /\ \A u \in Page : pc'[u] \in {"run", "idle_init"}
                       /\ new'[Main] # NULL /\ pc'[new'[Main]] = "idle_init" /\ pc'[Main] # "down"
      BY <1>0, <1>1, <1>2, <1>3, <1>4, <2>0, <2>1, <2>2, ThreadAssumption
    <2>5. ASSUME started', idle_thread' = NULL
          PROVE  \E u \in Page : pc'[u] = "idle_init" /\ status'[u] \in {"READY", "RUNNING"}
      <3>1. PICK u \in Page : pc[u] = "idle_init" /\ status[u] \in {"READY", "RUNNING"}
        BY <1>1, <1>5, <2>5 DEF SynchInv, BootInOrder
      <3>2. u # me /\ u # t /\ u \in Threads
        BY <1>0, <1>2, <2>0, <3>1
      <3> QED BY <1>3, <1>5, <3>1, <3>2
    <2> QED BY <1>1, <1>5, <2>0, <2>2, <2>3, <2>4, <2>5 DEF BootInOrder
  <1>18. SleepersAccounted'
    <2>1. /\ \A q \in Semaphores : Elems(waiters[q]) \subseteq Threads
          /\ \A q \in Semaphores : \A v \in Elems(waiters[q]) : pc[v] = "down" /\ arg[v] = q
      BY DEF SynchInv, SynchTypeOK, Elems, SleepersAccounted
    <2>2. \A q \in Semaphores : \A v \in Elems(waiters'[q]) : pc'[v] = "down" /\ arg'[v] = q
      BY <1>0, <1>1, <1>3, <1>4, <1>6, <2>1
    <2>3. ASSUME NEW v \in Threads
          PROVE  status'[v] = "BLOCKED" <=>
                   \/ pc'[v] = "down" /\ v \in Elems(waiters'[arg'[v]])
                   \/ \E u \in Threads : new'[u] = v
                   \/ v = idle_thread' /\ pc'[v] = "hlt" /\ running' # v
      <3>0. status[v] = "BLOCKED" <=>
                   \/ pc[v] = "down" /\ v \in Elems(waiters[arg[v]])
                   \/ \E u \in Threads : new[u] = v
                   \/ v = idle_thread /\ pc[v] = "hlt" /\ running # v
        BY DEF SynchInv, SleepersAccounted
      <3>1. CASE v = t
        BY <1>0, <1>4, <1>5, <3>1
      <3>2. CASE v = me
        BY <1>0, <1>2, <1>3, <1>4, <1>5, <1>13, <3>2, ThreadsNotNull
      <3>3. CASE v # t /\ v # me
        <4>1. (\E u \in Threads : new'[u] = v) <=> (\E u \in Threads : new[u] = v)
          BY <1>4, <1>11, <3>3, ThreadsNotNull
        <4> QED BY <1>1, <1>3, <1>4, <1>5, <3>0, <3>3, <4>1
      <3> QED BY <3>1, <3>2, <3>3
    <2>4. \A q \in Semaphores : NoDuplicates(waiters'[q])
      BY <1>1 DEF SynchInv, SleepersAccounted
    <2> QED BY <2>2, <2>3, <2>4 DEF SleepersAccounted
  <1> QED BY <1>7, <1>8, <1>9, <1>10, <1>14, <1>15, <1>16, <1>17, <1>18 DEF SynchInv

(* tid = next_tid++: the thread in the making gets its tid.                *)
LEMMA TidWriteInv ==
  ASSUME SynchInv, ThreadInv', TidWrite PROVE SynchInv'
  <1> DEFINE me == running
             t == new[me]
  <1>0. /\ me \in Threads /\ me' = me /\ status[me] = "RUNNING" /\ pc[me] = "tid_write"
        /\ BeforeTid(me) /\ ~AfterTid(me) /\ t # NULL /\ tmp[me] = next_tid
        /\ holder[TidLock] = me
    BY Running DEF TidWrite, SetTid, At, SynchInv, InTheMaking, BeforeTid, AfterTid,
      TidLockHeld, TidCritical
  <1>1. /\ tid' = [tid EXCEPT ![t] = next_tid] /\ next_tid' = next_tid + 1
        /\ UNCHANGED <<status, fifo_ready_list, all_list, running, idle_thread, thread_ticks>>
        /\ Goto("tid_unlock") /\ UNCHANGED <<value, waiters, holder, arg, new, tmp, started>>
    BY <1>0 DEF TidWrite, SetTid, semaVars, callVars
  <1>2. /\ pc' \in [Threads -> Label] /\ pc'[me] = "tid_unlock"
        /\ \A u \in Threads : u # me => pc'[u] = pc[u]
    BY <1>1, Moves DEF Label
  <1>3. t \in Threads /\ t # me /\ \A u \in Threads : new[u] # NULL => new[u] \in Threads /\ new[u] # me
    BY <1>0, Making
  <1>4. next_tid \in Nat \ {0} /\ tid'[t] = next_tid /\ \A u \in Threads : u # t => tid'[u] = tid[u]
    BY <1>1, <1>3 DEF SynchInv, ThreadInv, ThreadTypeOK
  <1> HIDE DEF t
  <1>5. SynchTypeOK'
    BY <1>1, <1>2 DEF SynchInv, SynchTypeOK, ThreadInv
  <1>6. CallArgs'
    BY <1>0, <1>1, <1>2 DEF SynchInv, CallArgs
  <1>7. OneOwner'
    <2>1. \A u \in Threads, l \in Locks : Window(u, l)' <=> Window(u, l)
      BY <1>0, <1>1, <1>2 DEF Window
    <2> QED BY <1>1, <2>1, LockKept DEF OneOwner
  <1>8. TidLockHeld'
    <2>1. \A u \in Threads : pc[u] = "tid_write" => u = me
      BY <1>0 DEF SynchInv, TidLockHeld, TidCritical
    <2>2. \A u \in Threads : pc'[u] \in TidCritical <=> pc[u] \in TidCritical
      BY <1>0, <1>2 DEF TidCritical
    <2> QED BY <1>1, <1>2, <2>1, <2>2 DEF SynchInv, TidLockHeld
  <1>9. /\ ~BeforeTid(me)' /\ AfterTid(me)'
        /\ \A u \in Threads : u # me => /\ BeforeTid(u)' <=> BeforeTid(u)
                                        /\ AfterTid(u)' <=> AfterTid(u)
    BY <1>0, <1>1, <1>2 DEF BeforeTid, AfterTid
  <1>10. InTheMaking'
    <2>1. \A u \in Threads : new'[u] # NULL <=> (BeforeTid(u)' \/ AfterTid(u)')
      BY <1>0, <1>1, <1>9 DEF SynchInv, InTheMaking, t
    <2>2. ASSUME NEW u \in Threads, new'[u] # NULL
          PROVE  /\ status'[new'[u]] = "BLOCKED" /\ pc'[new'[u]] \in {"run", "idle_init"}
                 /\ tid'[new'[u]] = 0 <=> BeforeTid(u)'
      <3>1. u # me => new[u] # t
        BY <1>0, <1>1, <2>2 DEF SynchInv, InTheMaking, t
      <3> QED BY <1>0, <1>1, <1>2, <1>3, <1>4, <1>9, <2>2, <3>1 DEF SynchInv, InTheMaking, t
    <2>3. \A v \in Threads : status'[v] \notin {"FREE", "DYING"} /\ tid'[v] = 0
                             => \E u \in Threads : new'[u] = v
      BY <1>1, <1>4 DEF SynchInv, InTheMaking
    <2>4. \A u, v \in Threads : new'[u] # NULL /\ new'[u] = new'[v] => u = v
      BY <1>1 DEF SynchInv, InTheMaking
    <2> QED BY <2>1, <2>2, <2>3, <2>4 DEF InTheMaking
  <1>11. TidsLeft'
    <2>1. Makers' = Makers \ {me} /\ me \in Makers /\ IsFiniteSet(Makers)
      BY <1>0, <1>9, SynchSets, FS_Subset DEF Makers
    <2>2. Cardinality(Makers') = Cardinality(Makers) - 1 /\ Cardinality(Makers) \in Nat
      BY <2>1, FS_RemoveElement, FS_CardinalityType
    <2> QED BY <1>1, <1>4, <2>2, ThreadAssumption DEF SynchInv, TidsLeft
  <1>12. IdleInPlace'
    BY <1>0, <1>1, <1>2 DEF SynchInv, IdleInPlace
  <1>13. BootInOrder'
    <2>0. Main \in Threads /\ Page \subseteq Threads
      BY ThreadsNotNull
    <2>1. \A u \in Threads : \A where \in {"boot", "boot_enable", "idle_init"} :
            pc'[u] = where <=> pc[u] = where
      BY <1>0, <1>2
    <2>2. ~started => me = Main /\ \A u \in Page : pc'[u] = pc[u]
      BY <1>2, <2>0, ThreadAssumption DEF SynchInv, BootInOrder
    <2>3. ~started' => /\ running' = Main /\ idle_thread' = NULL
                       /\ \A u \in Page : pc'[u] \in {"run", "idle_init"}
                       /\ pc'[Main] \in {"boot", "boot_enable"} \/ new'[Main] # NULL
                       /\ new'[Main] # NULL => pc'[new'[Main]] = "idle_init"
                       /\ pc'[Main] # "down"
      BY <1>0, <1>1, <1>2, <1>3, <2>0, <2>1, <2>2 DEF SynchInv, BootInOrder
    <2>4. (started' \/ pc'[Main] = "boot_enable") /\ idle_thread' = NULL
            => \E u \in Page : pc'[u] = "idle_init" /\ status'[u] \in {"READY", "RUNNING"}
      BY <1>1, <2>0, <2>1 DEF SynchInv, BootInOrder
    <2>5. /\ \A u \in Threads : pc'[u] \in {"boot", "boot_enable"} => u = Main /\ ~started'
          /\ pc'[Main] = "boot" => \A u \in Threads : pc'[u] # "idle_init"
      BY <1>1, <2>0, <2>1 DEF SynchInv, BootInOrder
    <2> QED BY <2>3, <2>4, <2>5 DEF BootInOrder
  <1>14. SleepersAccounted'
    <2>1. /\ \A q \in Semaphores : Elems(waiters[q]) \subseteq Threads /\ me \notin Elems(waiters[q])
          /\ \A q \in Semaphores : \A v \in Elems(waiters[q]) : pc[v] = "down" /\ arg[v] = q
      BY RunningNotListed DEF SynchInv, SynchTypeOK, Elems, SleepersAccounted
    <2>2. \A q \in Semaphores : \A v \in Elems(waiters'[q]) : pc'[v] = "down" /\ arg'[v] = q
      BY <1>1, <1>2, <2>1
    <2>3. ASSUME NEW v \in Threads
          PROVE  status'[v] = "BLOCKED" <=>
                   \/ pc'[v] = "down" /\ v \in Elems(waiters'[arg'[v]])
                   \/ \E u \in Threads : new'[u] = v
                   \/ v = idle_thread' /\ pc'[v] = "hlt" /\ running' # v
      <3>1. CASE v # me
        BY <1>1, <1>2, <3>1 DEF SynchInv, SleepersAccounted
      <3>2. CASE v = me
        BY <1>0, <1>1, <1>2, <1>3, <3>2, ThreadsNotNull
      <3> QED BY <3>1, <3>2
    <2>4. \A q \in Semaphores : NoDuplicates(waiters'[q])
      BY <1>1 DEF SynchInv, SleepersAccounted
    <2> QED BY <2>2, <2>3, <2>4 DEF SleepersAccounted
  <1> QED BY <1>5, <1>6, <1>7, <1>8, <1>10, <1>11, <1>12, <1>13, <1>14 DEF SynchInv

(* thread_create() ends: the new thread is ready to run.                   *)
LEMMA CreateUnblockInv ==
  ASSUME SynchInv, ThreadInv', CreateUnblock PROVE SynchInv'
  <1> DEFINE me == running
             t == new[me]
             to == IF ~started THEN "boot_enable" ELSE "run"
  <1>0. /\ me \in Threads /\ me' = me /\ status[me] = "RUNNING" /\ pc[me] = "create_unblock"
        /\ AfterTid(me) /\ ~BeforeTid(me) /\ t # NULL
    BY Running DEF CreateUnblock, ThreadUnblock, At, SynchInv, InTheMaking, BeforeTid, AfterTid
  <1>1. /\ ThreadUnblock(t) /\ new' = [new EXCEPT ![me] = NULL] /\ Goto(to)
        /\ UNCHANGED <<value, waiters, holder, arg, tmp, started>>
    BY DEF CreateUnblock, semaVars
  <1>2. /\ t \in Page /\ t \in Threads /\ t # me /\ t # idle_thread /\ tid[t] # 0
        /\ pc[t] \in {"run", "idle_init"} /\ status[t] = "BLOCKED"
    BY <1>0, Making
  <1>3. \A u \in Threads : u # me /\ new[u] # NULL => new[u] \in Threads /\ new[u] # me /\ new[u] # t
    BY <1>0, Making DEF SynchInv, InTheMaking
  <1>4. /\ pc' \in [Threads -> Label] /\ pc'[me] = to
        /\ \A u \in Threads : u # me => pc'[u] = pc[u]
    BY <1>1, Moves DEF Label
  <1>5. /\ new' \in [Threads -> Page \cup {NULL}] /\ new'[me] = NULL
        /\ \A u \in Threads : u # me => new'[u] = new[u]
    BY <1>0, <1>1 DEF SynchInv, SynchTypeOK
  <1>6. /\ status'[t] = "READY" /\ \A u \in Threads : u # t => status'[u] = status[u]
        /\ UNCHANGED <<running, idle_thread, tid, next_tid>>
    BY <1>1, <1>2 DEF ThreadUnblock, SynchInv, ThreadInv, ThreadTypeOK
  <1>7. to \in {"boot_enable", "run"} /\ (to = "boot_enable" <=> ~started)
    OBVIOUS
  <1>8. ~started => me = Main /\ pc[t] = "idle_init" /\ idle_thread = NULL
    BY <1>0 DEF SynchInv, BootInOrder
  <1> HIDE DEF t, to
  <1>9. SynchTypeOK'
    BY <1>1, <1>4, <1>5 DEF SynchInv, SynchTypeOK, ThreadInv
  <1>10. CallArgs'
    BY <1>0, <1>1, <1>2, <1>4, <1>6, <1>7 DEF SynchInv, CallArgs
  <1>11. OneOwner'
    <2>1. \A u \in Threads, l \in Locks : Window(u, l)' <=> Window(u, l)
      BY <1>0, <1>1, <1>4, <1>7 DEF Window
    <2> QED BY <1>1, <2>1, LockKept DEF OneOwner
  <1>12. TidLockHeld'
    BY <1>0, <1>1, <1>4, <1>6, <1>7, TidLockKept DEF TidCritical
  <1>13. /\ ~BeforeTid(me)' /\ ~AfterTid(me)'
         /\ \A u \in Threads : u # me => /\ BeforeTid(u)' <=> BeforeTid(u)
                                         /\ AfterTid(u)' <=> AfterTid(u)
    BY <1>0, <1>1, <1>4, <1>7 DEF BeforeTid, AfterTid
  <1>14. InTheMaking'
    <2>1. \A u \in Threads : new'[u] # NULL <=> (BeforeTid(u)' \/ AfterTid(u)')
      BY <1>0, <1>5, <1>13 DEF SynchInv, InTheMaking
    <2>2. ASSUME NEW u \in Threads, new'[u] # NULL
          PROVE  /\ status'[new'[u]] = "BLOCKED" /\ pc'[new'[u]] \in {"run", "idle_init"}
                 /\ tid'[new'[u]] = 0 <=> BeforeTid(u)'
      <3>1. u # me /\ new'[u] = new[u] /\ new[u] \in Threads /\ new[u] # me /\ new[u] # t
        BY <1>3, <1>5, <2>2
      <3> QED BY <1>4, <1>6, <1>13, <2>2, <3>1 DEF SynchInv, InTheMaking
    <2>3. ASSUME NEW v \in Threads, status'[v] \notin {"FREE", "DYING"}, tid'[v] = 0
          PROVE  \E u \in Threads : new'[u] = v
      <3>1. v # t
        BY <1>2, <1>6, <2>3
      <3>2. PICK u \in Threads : new[u] = v
        BY <1>6, <2>3, <3>1 DEF SynchInv, InTheMaking
      <3>3. u # me
        BY <3>1, <3>2 DEF t
      <3> QED BY <1>5, <3>2, <3>3
    <2>4. \A u, v \in Threads : new'[u] # NULL /\ new'[u] = new'[v] => u = v
      BY <1>5 DEF SynchInv, InTheMaking
    <2> QED BY <2>1, <2>2, <2>3, <2>4 DEF InTheMaking
  <1>15. TidsLeft'
    <2>1. Makers' = Makers
      BY <1>0, <1>13 DEF Makers
    <2> QED BY <1>6, <2>1 DEF SynchInv, TidsLeft
  <1>16. IdleInPlace'
    BY <1>0, <1>4, <1>6, <1>7 DEF SynchInv, IdleInPlace
  <1>17. BootInOrder'
    <2>0. Main \in Threads /\ Page \subseteq Threads /\ Main \notin Page
      BY ThreadsNotNull, ThreadAssumption
    <2>1. /\ \A u \in Threads : pc'[u] \in {"boot", "boot_enable"} => u = Main /\ ~started'
          /\ pc'[Main] = "boot" => \A u \in Threads : pc'[u] # "idle_init"
      BY <1>0, <1>1, <1>4, <1>7, <1>8, <2>0 DEF SynchInv, BootInOrder
    <2>2. ~started' => /\ running' = Main /\ idle_thread' = NULL
                       /\ \A u \in Page : pc'[u] \in {"run", "idle_init"}
                       /\ pc'[Main] = "boot_enable" /\ new'[Main] = NULL
      BY <1>1, <1>4, <1>5, <1>6, <1>7, <1>8, <2>0 DEF SynchInv, BootInOrder
    <2>3. ASSUME started', idle_thread' = NULL
          PROVE  \E u \in Page : pc'[u] = "idle_init" /\ status'[u] \in {"READY", "RUNNING"}
      <3>1. PICK u \in Page : pc[u] = "idle_init" /\ status[u] \in {"READY", "RUNNING"}
        BY <1>1, <1>6, <2>3 DEF SynchInv, BootInOrder
      <3>2. u # me /\ u # t /\ u \in Threads
        BY <1>0, <1>2, <2>0, <3>1
      <3> QED BY <1>4, <1>6, <3>1, <3>2
    <2>4. ~started' => pc'[t] = "idle_init" /\ status'[t] = "READY" /\ t \in Page
      BY <1>1, <1>2, <1>4, <1>6, <1>8
    <2> QED BY <1>1, <2>1, <2>2, <2>3, <2>4, <2>0 DEF BootInOrder
  <1>18. SleepersAccounted'
    <2>1. /\ \A q \in Semaphores : Elems(waiters[q]) \subseteq Threads /\ me \notin Elems(waiters[q])
          /\ \A q \in Semaphores : \A v \in Elems(waiters[q]) : pc[v] = "down" /\ arg[v] = q
      BY RunningNotListed DEF SynchInv, SynchTypeOK, Elems, SleepersAccounted
    <2>2. \A q \in Semaphores : \A v \in Elems(waiters'[q]) : pc'[v] = "down" /\ arg'[v] = q
      BY <1>1, <1>4, <2>1
    <2>3. ASSUME NEW v \in Threads
          PROVE  status'[v] = "BLOCKED" <=>
                   \/ pc'[v] = "down" /\ v \in Elems(waiters'[arg'[v]])
                   \/ \E u \in Threads : new'[u] = v
                   \/ v = idle_thread' /\ pc'[v] = "hlt" /\ running' # v
      <3>1. CASE v = t
        <4>1. \A u \in Threads : new'[u] # t
          BY <1>2, <1>3, <1>5, ThreadsNotNull
        <4> QED BY <1>2, <1>4, <1>6, <3>1, <4>1
      <3>2. CASE v = me
        <4>1. \A u \in Threads : new'[u] # me
          BY <1>0, <1>3, <1>5, ThreadsNotNull
        <4> QED BY <1>0, <1>2, <1>4, <1>6, <1>7, <3>2, <4>1
      <3>3. CASE v # me /\ v # t
        <4>1. (\E u \in Threads : new'[u] = v) <=> (\E u \in Threads : new[u] = v)
          BY <1>5, <3>3, ThreadsNotNull DEF t
        <4> QED BY <1>1, <1>4, <1>6, <3>3, <4>1 DEF SynchInv, SleepersAccounted
      <3> QED BY <3>1, <3>2, <3>3
    <2>4. \A q \in Semaphores : NoDuplicates(waiters'[q])
      BY <1>1 DEF SynchInv, SleepersAccounted
    <2> QED BY <2>2, <2>3, <2>4 DEF SleepersAccounted
  <1> QED BY <1>9, <1>10, <1>11, <1>12, <1>14, <1>15, <1>16, <1>17, <1>18 DEF SynchInv

(* The first statement of idle(): there is an idle thread from now on.     *)
LEMMA IdleInitInv ==
  ASSUME SynchInv, ThreadInv', IdleInit PROVE SynchInv'
  <1> DEFINE me == running
  <1>0. me \in Threads /\ me' = me /\ status[me] = "RUNNING" /\ pc[me] = "idle_init"
    BY Running DEF IdleInit, SetIdleThread, At
  <1>1. /\ idle_thread' = me /\ Goto("idle_up")
        /\ UNCHANGED <<status, running, tid, next_tid, value, waiters, holder, arg, new, tmp, started>>
    BY DEF IdleInit, SetIdleThread, semaVars, callVars
  <1>2. /\ pc' \in [Threads -> Label] /\ pc'[me] = "idle_up"
        /\ \A u \in Threads : u # me => pc'[u] = pc[u]
    BY <1>1, Moves DEF Label
  <1>3. idle_thread = NULL /\ me # Main /\ started
    BY <1>0 DEF SynchInv, IdleInPlace, BootInOrder
  <1>4. SynchTypeOK'
    BY <1>1, <1>2 DEF SynchInv, SynchTypeOK, ThreadInv
  <1>5. CallArgs'
    BY <1>0, <1>1, <1>2 DEF SynchInv, CallArgs
  <1>6. OneOwner'
    <2>1. \A u \in Threads, l \in Locks : Window(u, l)' <=> Window(u, l)
      BY <1>0, <1>1, <1>2 DEF Window
    <2> QED BY <1>1, <2>1, LockKept DEF OneOwner
  <1>7. TidLockHeld'
    BY <1>0, <1>1, <1>2, TidLockKept DEF TidCritical
  <1>8. \A u \in Threads : (BeforeTid(u)' <=> BeforeTid(u)) /\ (AfterTid(u)' <=> AfterTid(u))
    BY <1>0, <1>1, <1>2 DEF BeforeTid, AfterTid
  <1>9. \A u \in Threads : new[u] # NULL => new[u] \in Threads /\ new[u] # me
    BY Making
  <1>10. InTheMaking'
    <2>1. \A u \in Threads : new[u] # NULL => pc'[new[u]] = pc[new[u]]
      BY <1>2, <1>9
    <2> QED BY <1>1, <1>8, <2>1 DEF SynchInv, InTheMaking
  <1>11. TidsLeft'
    <2>1. Makers' = Makers
      BY <1>8 DEF Makers
    <2> QED BY <1>1, <2>1 DEF SynchInv, TidsLeft
  <1>12. IdleInPlace'
    BY <1>0, <1>1, <1>2, <1>3, ThreadsNotNull DEF SynchInv, IdleInPlace
  <1>13. BootInOrder'
    BY <1>0, <1>1, <1>2, <1>3, ThreadsNotNull DEF SynchInv, BootInOrder
  <1>14. SleepersAccounted'
    <2>1. /\ \A q \in Semaphores : Elems(waiters[q]) \subseteq Threads /\ me \notin Elems(waiters[q])
          /\ \A q \in Semaphores : \A v \in Elems(waiters[q]) : pc[v] = "down" /\ arg[v] = q
      BY RunningNotListed DEF SynchInv, SynchTypeOK, Elems, SleepersAccounted
    <2>2. \A q \in Semaphores : \A v \in Elems(waiters'[q]) : pc'[v] = "down" /\ arg'[v] = q
      BY <1>1, <1>2, <2>1
    <2>3. ASSUME NEW v \in Threads
          PROVE  status'[v] = "BLOCKED" <=>
                   \/ pc'[v] = "down" /\ v \in Elems(waiters'[arg'[v]])
                   \/ \E u \in Threads : new'[u] = v
                   \/ v = idle_thread' /\ pc'[v] = "hlt" /\ running' # v
      <3>1. CASE v # me
        BY <1>1, <1>2, <1>3, <3>1, ThreadsNotNull DEF SynchInv, SleepersAccounted
      <3>2. CASE v = me
        BY <1>0, <1>1, <1>2, <1>9, <3>2, ThreadsNotNull
      <3> QED BY <3>1, <3>2
    <2>4. \A q \in Semaphores : NoDuplicates(waiters'[q])
      BY <1>1 DEF SynchInv, SleepersAccounted
    <2> QED BY <2>2, <2>3, <2>4 DEF SleepersAccounted
  <1> QED BY <1>4, <1>5, <1>6, <1>7, <1>10, <1>11, <1>12, <1>13, <1>14 DEF SynchInv

-----------------------------------------------------------------------------
(* Every step, and the invariant.                                          *)

LEMMA SynchStep ==
  ASSUME SynchInv, [Next]_vars PROVE SynchInv'
  <1>0. ThreadInv'
    BY ThreadContracts, SchedulerStep DEF SynchInv
  <1>1. CASE DownAgain \/ Down \/ AcquireLock \/ AllocateTid \/ BootWait
    <2>1. PICK s \in Semaphores : DownFrom(s) /\ SemaDown(s)
      BY <1>1, SynchSets, Running DEF DownAgain, Down, AcquireLock, AllocateTid, BootWait,
        LockAcquire, DownFrom, At, SynchInv, CallArgs
    <2> QED BY <1>0, <2>1, DownInv
  <1>2. CASE Up \/ DeviceInterrupt \/ IdleUp \/ LockUp
    BY <1>0, <1>2, UpInv, DeviceInterruptInv, IdleUpInv, LockUpInv
  <1>3. CASE TryDown \/ TryAcquireLock \/ SetHolder \/ ReleaseLock \/ FreeTidLock
    BY <1>0, <1>3, TryDownInv, TryAcquireLockInv, SetHolderInv, ReleaseInv
  <1>4. CASE CreateThread \/ BootCreate
    BY <1>0, <1>4, ThreadCreateInv DEF CreateThread, BootCreate, At
  <1>5. CASE TidRead \/ TidWrite \/ CreateUnblock
    BY <1>0, <1>5, TidReadInv, TidWriteInv, CreateUnblockInv
  <1>6. CASE BootEnable \/ IdleInit \/ IdleLoop
    BY <1>0, <1>6, BootEnableInv, IdleInitInv, IdleLoopInv
  <1>7. CASE ExitThread \/ YieldCpu \/ TimerInterrupt
    BY <1>0, <1>7, ExitThreadInv, YieldCpuInv, TimerInterruptInv
  <1>8. CASE UNCHANGED vars
    <2>1. UNCHANGED <<value, waiters, holder, pc, arg, new, tmp, started>>
      BY <1>8 DEF vars, synchVars
    <2>2. UNCHANGED <<status, fifo_ready_list, all_list, running, idle_thread, thread_ticks, tid, next_tid>>
      BY <1>8 DEF vars, threadVars
    <2>3. SynchTypeOK' /\ CallArgs' /\ TidLockHeld' /\ InTheMaking' /\ IdleInPlace'
          /\ BootInOrder' /\ SleepersAccounted'
      BY <1>0, <2>1, <2>2 DEF SynchInv, SynchTypeOK, ThreadInv, CallArgs, TidLockHeld, InTheMaking,
        BeforeTid, AfterTid, IdleInPlace, BootInOrder, SleepersAccounted
    <2>4. OneOwner'
      BY <2>1, LockKept DEF OneOwner, Window
    <2>5. TidsLeft'
      <3>1. Makers' = Makers
        BY <2>1 DEF Makers, BeforeTid
      <3> QED BY <2>2, <3>1 DEF SynchInv, TidsLeft
    <2> QED BY <1>0, <2>3, <2>4, <2>5 DEF SynchInv
  <1> QED BY <1>1, <1>2, <1>3, <1>4, <1>5, <1>6, <1>7, <1>8 DEF Next, KernelStep, ClientStep

(* SynchInv is an invariant of the specification: the parts of it below    *)
(* are what synch.c and its callers maintain together.                     *)
THEOREM SynchInvariant == Spec => []SynchInv
  BY SynchInitInv, SynchStep, PTL DEF Spec

(* Values, lists, call states and holders keep their types, whatever the   *)
(* threads and the interrupts do.                                          *)
THEOREM SynchTypes == Spec => []SynchTypeOK
  <1>1. SynchInv => SynchTypeOK
    BY DEF SynchInv
  <1> QED BY <1>1, SynchInvariant, PTL

(* No sleeping thread is forgotten or on two lists.                        *)
THEOREM SleepersAlwaysAccounted == Spec => []SleepersAccounted
  <1>1. SynchInv => SleepersAccounted
    BY DEF SynchInv
  <1> QED BY <1>1, SynchInvariant, PTL

(* lock_acquire(), lock_try_acquire() and lock_release(): at every moment  *)
(* a lock has one owner and a semaphore of 0, or no owner and a semaphore  *)
(* of 1, also between the semaphore and lock->holder.                      *)
THEOREM LocksExclude == Spec => []MutualExclusion
  <1>1. SynchInv => MutualExclusion
    <2> SUFFICES ASSUME SynchInv, NEW l \in Locks
                 PROVE  Cardinality({t \in Threads : Owns(t, l)}) + value[l] = 1
      BY DEF MutualExclusion
    <2>1. LockSound(l)
      BY DEF SynchInv, OneOwner
    <2>2. CASE \E t \in Threads : Owns(t, l)
      <3>1. PICK t \in Threads : Owns(t, l)
        BY <2>2
      <3>2. {u \in Threads : Owns(u, l)} = {t} /\ value[l] = 0
        BY <2>1, <3>1 DEF LockSound
      <3>3. Cardinality({t}) = 1
        BY FS_Singleton
      <3> QED BY <3>2, <3>3
    <2>3. CASE ~(\E t \in Threads : Owns(t, l))
      <3>1. {u \in Threads : Owns(u, l)} = {} /\ value[l] = 1
        BY <2>1, <2>3 DEF LockSound
      <3>2. Cardinality({}) = 0
        BY FS_EmptySet
      <3> QED BY <3>1, <3>2
    <2> QED BY <2>2, <2>3
  <1> QED BY <1>1, SynchInvariant, PTL

(* The callers keep the contracts of thread.c: schedule() always finds a   *)
(* thread to run, thread_unblock() is only called on a blocked thread that *)
(* has its tid, nobody unblocks the idle thread and it never exits.        *)
THEOREM CallersKeepContracts == Spec => ImplementsThread
  <1>1. Init => ThreadInit
    BY DEF Init
  <1>2. SynchInv /\ [Next]_vars => [ThreadNext]_threadVars
    BY ThreadContracts
  <1> QED BY <1>1, <1>2, SynchInvariant, PTL DEF Spec, ImplementsThread, ThreadSpec

(* So what thread.c promises under its contracts holds of the kernel with  *)
(* its real callers: the run queue is exact...                             *)
THEOREM KernelReadyList == Spec => []ReadyListExact
  BY CallersKeepContracts, ReadyListAlwaysExact, PTL DEF ImplementsThread

(* ...and no ready thread is overtaken in it.                              *)
THEOREM KernelFifo == Spec => NoOvertaking
  BY CallersKeepContracts, FifoOrder, PTL DEF ImplementsThread

-----------------------------------------------------------------------------
(* No lost wakeup.                                                         *)

\* NoLostWakeup for one semaphore.
WakeupsKept(s) == waiters[s] # << >> => value[s] <= Cardinality(Woken(s))

(* Cardinalities of sets of threads.                                       *)
LEMMA WokenCount ==
  ASSUME NEW A \in SUBSET Threads, NEW B \in SUBSET Threads
  PROVE  /\ Cardinality(A) \in Nat
         /\ A \subseteq B => Cardinality(A) <= Cardinality(B)
         /\ \A t \in A : Cardinality(A \ {t}) = Cardinality(A) - 1
         /\ \A t \in Threads \ A : Cardinality(A \cup {t}) = Cardinality(A) + 1
  <1>1. IsFiniteSet(A) /\ IsFiniteSet(B)
    BY SynchSets, FS_Subset
  <1>2. Cardinality(A) \in Nat
    BY <1>1, FS_CardinalityType
  <1>3. A \subseteq B => Cardinality(A) <= Cardinality(B)
    BY <1>1, FS_Subset
  <1>4. \A t \in A : Cardinality(A \ {t}) = Cardinality(A) - 1
    BY <1>1, FS_RemoveElement
  <1>5. \A t \in Threads \ A : Cardinality(A \cup {t}) = Cardinality(A) + 1
    BY <1>1, FS_AddElement
  <1> QED BY <1>2, <1>3, <1>4, <1>5

(* A semaphore whose value does not grow and whose woken threads stay.     *)
LEMMA WakeupsLeft ==
  ASSUME SynchInv, NoLostWakeup, SynchInv', NEW s \in Semaphores,
         value'[s] <= value[s], waiters'[s] = waiters[s],
         \A t \in Threads : pc[t] = "down" /\ arg[t] = s => pc'[t] = "down" /\ arg'[t] = s
  PROVE  WakeupsKept(s)'
  <1>1. Woken(s) \subseteq Woken(s)' /\ Woken(s) \in SUBSET Threads /\ Woken(s)' \in SUBSET Threads
    BY DEF Woken
  <1>2. /\ Cardinality(Woken(s)) \in Nat /\ Cardinality(Woken(s)') \in Nat
        /\ Cardinality(Woken(s)) <= Cardinality(Woken(s)')
    BY <1>1, WokenCount
  <1>3. value[s] \in Nat /\ value'[s] \in Nat
    BY DEF SynchInv, SynchTypeOK
  <1> QED BY <1>2, <1>3 DEF NoLostWakeup, WakeupsKept

(* sema_down(): the caller, if it was woken, takes with the value the unit *)
(* it was woken for; a caller that goes back to sleep found no value.      *)
LEMMA DownWakeups ==
  ASSUME SynchInv, NoLostWakeup, SynchInv', NEW s \in Semaphores, DownFrom(s), SemaDown(s),
         NEW q \in Semaphores
  PROVE  WakeupsKept(q)'
  <1>0. /\ running \in Threads /\ value \in [Semaphores -> Nat] /\ arg \in [Threads -> Semaphores \cup {NULL}]
        /\ waiters \in [Semaphores -> Seq(Threads)] /\ pc \in [Threads -> Label]
        /\ value'[q] \in Nat
    BY Running DEF SynchInv, SynchTypeOK
  <1>1. \A t \in Threads : t # running => pc'[t] = pc[t] /\ arg'[t] = arg[t]
    BY <1>0 DEF SemaDown, Goto
  <1>2. pc[running] = "down" => arg[running] = s
    BY DEF DownFrom
  <1>3. CASE q # s
    <2>1. value'[q] = value[q] /\ waiters'[q] = waiters[q]
      BY <1>0, <1>3 DEF SemaDown
    <2>2. \A t \in Threads : pc[t] = "down" /\ arg[t] = q => pc'[t] = "down" /\ arg'[t] = q
      BY <1>1, <1>2, <1>3
    <2>3. value'[q] <= value[q]
      BY <1>0, <2>1
    <2> QED BY <2>1, <2>2, <2>3, WakeupsLeft
  <1>4. CASE q = s /\ value[s] > 0
    <2>1. value'[s] = value[s] - 1 /\ waiters'[s] = waiters[s]
      BY <1>0, <1>4 DEF SemaDown
    <2>2. Woken(s) \in SUBSET Threads /\ Woken(s)' \in SUBSET Threads /\ Woken(s) \ {running} \in SUBSET Threads
      BY DEF Woken
    <2>3. Woken(s) \ {running} \subseteq Woken(s)'
      BY <1>1, <2>1 DEF Woken
    <2>4. Cardinality(Woken(s) \ {running}) >= Cardinality(Woken(s)) - 1
      <3>1. CASE running \in Woken(s)
        BY <2>2, <3>1, WokenCount
      <3>2. CASE running \notin Woken(s)
        <4>1. Woken(s) \ {running} = Woken(s)
          BY <3>2
        <4> QED BY <2>2, <4>1, WokenCount
      <3> QED BY <3>1, <3>2
    <2>5. /\ Cardinality(Woken(s)) \in Nat /\ Cardinality(Woken(s)') \in Nat
          /\ Cardinality(Woken(s) \ {running}) \in Nat
          /\ Cardinality(Woken(s) \ {running}) <= Cardinality(Woken(s)')
      BY <2>2, <2>3, WokenCount
    <2> QED BY <1>0, <1>4, <2>1, <2>4, <2>5 DEF NoLostWakeup, WakeupsKept
  <1>5. CASE q = s /\ ~(value[s] > 0)
    <2>1. value'[s] = 0
      BY <1>0, <1>5 DEF SemaDown
    <2>2. Cardinality(Woken(s)') \in Nat
      BY WokenCount DEF Woken
    <2> QED BY <1>5, <2>1, <2>2 DEF WakeupsKept
  <1> QED BY <1>3, <1>4, <1>5

(* sema_up(): with the unit comes a thread that is woken for it.           *)
LEMMA UpWakeups ==
  ASSUME SynchInv, NoLostWakeup, SynchInv', NEW s \in Semaphores, SemaUp(s),
         UNCHANGED arg,
         \A t \in Threads : pc[t] = "down" => pc'[t] = "down",
         NEW q \in Semaphores
  PROVE  WakeupsKept(q)'
  <1>0. value[q] \in Nat /\ value'[q] \in Nat
    BY DEF SynchInv, SynchTypeOK
  <1>1. CASE q # s
    <2>1. value'[q] = value[q] /\ waiters'[q] = waiters[q]
      BY <1>1, UpEffect
    <2> QED BY <1>0, <2>1, WakeupsLeft
  <1>2. CASE q = s /\ waiters[s] = << >>
    <2>1. waiters' = waiters
      BY <1>2, UpEffect DEF Elems
    <2> QED BY <1>2, <2>1 DEF WakeupsKept
  <1>3. CASE q = s /\ waiters[s] # << >>
    <2>1. PICK h \in Threads :
                 /\ h \in Elems(waiters[s]) /\ pc[h] = "down" /\ arg[h] = s
                 /\ Elems(waiters'[s]) = Elems(waiters[s]) \ {h}
      BY <1>3, UpEffect, ZenonT(60)
    <2>2. /\ Woken(s) \in SUBSET Threads /\ Woken(s)' \in SUBSET Threads
          /\ Woken(s) \cup {h} \in SUBSET Threads
          /\ h \in Threads \ Woken(s) /\ Woken(s) \cup {h} \subseteq Woken(s)'
      BY <2>1 DEF Woken
    <2>3. /\ Cardinality(Woken(s) \cup {h}) = Cardinality(Woken(s)) + 1
          /\ Cardinality(Woken(s)) \in Nat /\ Cardinality(Woken(s)') \in Nat
          /\ Cardinality(Woken(s) \cup {h}) <= Cardinality(Woken(s)')
      BY <2>2, WokenCount
    <2>4. value'[s] = value[s] + 1
      BY UpEffect
    <2> QED BY <1>0, <1>3, <2>3, <2>4 DEF NoLostWakeup, WakeupsKept
  <1> QED BY <1>1, <1>2, <1>3

LEMMA StepWakeups ==
  ASSUME SynchInv, NoLostWakeup, SynchInv', [Next]_vars
  PROVE  NoLostWakeup'
  <1> SUFFICES ASSUME NEW q \in Semaphores PROVE WakeupsKept(q)'
    BY DEF NoLostWakeup, WakeupsKept
  <1>0. /\ running \in Threads /\ pc \in [Threads -> Label] /\ value \in [Semaphores -> Nat]
        /\ arg \in [Threads -> Semaphores \cup {NULL}]
    BY Running DEF SynchInv, SynchTypeOK
  <1>1. CASE DownAgain \/ Down \/ AcquireLock \/ AllocateTid \/ BootWait
    <2>1. PICK s \in Semaphores : DownFrom(s) /\ SemaDown(s)
      BY <1>1, SynchSets, Running DEF DownAgain, Down, AcquireLock, AllocateTid, BootWait,
        LockAcquire, DownFrom, At, SynchInv, CallArgs
    <2> QED BY <2>1, DownWakeups
  <1>2. CASE Up \/ DeviceInterrupt \/ IdleUp \/ LockUp
    <2>1. PICK s \in Semaphores : SemaUp(s)
      BY <1>2, SynchSets, Running DEF Up, DeviceInterrupt, IdleUp, LockUp, At, SynchInv, CallArgs
    <2>2. UNCHANGED arg /\ \A t \in Threads : pc[t] = "down" => pc'[t] = "down"
      BY <1>0, <1>2 DEF Up, DeviceInterrupt, IdleUp, LockUp, At, Goto, EndHlt, callVars
    <2> QED BY <2>1, <2>2, UpWakeups
  <1>3. CASE TryDown
    <2>1. value'[q] <= value[q] /\ UNCHANGED <<waiters, pc, arg>>
      BY <1>0, <1>3, SynchSets DEF TryDown, SemaTryDown, callVars
    <2> QED BY <2>1, WakeupsLeft
  <1>4. CASE TryAcquireLock
    <2>1. PICK l \in Lock : At("run") /\ LockTryAcquire(l)
      BY <1>4 DEF TryAcquireLock
    <2>2. value'[q] <= value[q] /\ UNCHANGED waiters
      BY <1>0, <2>1, SynchSets DEF LockTryAcquire, SemaTryDown
    <2>3. \A t \in Threads : pc[t] = "down" => pc'[t] = "down" /\ arg'[t] = arg[t]
      BY <1>0, <2>1 DEF LockTryAcquire, At, Goto
    <2> QED BY <2>2, <2>3, WakeupsLeft
  <1>5. CASE SetHolder \/ ReleaseLock \/ FreeTidLock \/ TidRead \/ TidWrite \/ CreateUnblock
             \/ BootEnable \/ IdleInit
    <2>1. UNCHANGED <<value, waiters>>
      BY <1>5 DEF SetHolder, ReleaseLock, FreeTidLock, LockRelease, TidRead, TidWrite,
        CreateUnblock, BootEnable, IdleInit, semaVars
    <2>2. \A t \in Threads : pc[t] = "down" => pc'[t] = "down" /\ arg'[t] = arg[t]
      BY <1>0, <1>5 DEF SetHolder, ReleaseLock, FreeTidLock, LockRelease, TidRead, TidWrite,
        CreateUnblock, BootEnable, IdleInit, callVars, At, Goto
    <2> QED BY <1>0, <2>1, <2>2, WakeupsLeft
  <1>6. CASE CreateThread \/ BootCreate
    <2>1. UNCHANGED <<value, waiters>>
      BY <1>6 DEF CreateThread, BootCreate, ThreadCreate, semaVars
    <2>2. \A t \in Threads : pc[t] = "down" => pc'[t] = "down" /\ arg'[t] = arg[t]
      <3>1. PICK t \in Page : /\ status[t] = "FREE" /\ arg' = [arg EXCEPT ![t] = NULL]
                              /\ \A u \in Threads : u # t /\ u # running => pc'[u] = pc[u]
        BY <1>0, <1>6 DEF CreateThread, BootCreate, ThreadCreate, InitThread
      <3>2. t \in Threads /\ pc[t] \in {"run", "exited"}
        BY <3>1, ThreadsNotNull DEF SynchInv, CallArgs
      <3> QED BY <1>0, <1>6, <3>1, <3>2 DEF CreateThread, BootCreate, At
    <2> QED BY <1>0, <2>1, <2>2, WakeupsLeft
  <1>7. CASE ExitThread \/ YieldCpu \/ TimerInterrupt \/ IdleLoop \/ UNCHANGED vars
    <2>1. UNCHANGED <<value, waiters, arg>>
      BY <1>7 DEF ExitThread, YieldCpu, TimerInterrupt, IdleLoop, vars, semaVars, callVars, synchVars
    <2>2. \A t \in Threads : pc[t] = "down" => pc'[t] = "down"
      BY <1>0, <1>7 DEF ExitThread, YieldCpu, TimerInterrupt, IdleLoop, vars, synchVars, EndHlt, At, Goto
    <2> QED BY <1>0, <2>1, <2>2, WakeupsLeft
  <1> QED BY <1>1, <1>2, <1>3, <1>4, <1>5, <1>6, <1>7 DEF Next, KernelStep, ClientStep

(* sema_up() loses no wakeup, whoever barges in between the moment it      *)
(* wakes a thread and the moment that thread looks at the value again.     *)
THEOREM WakeupsNeverLost == Spec => []NoLostWakeup
  <1>1. Init => NoLostWakeup
    BY DEF Init, NoLostWakeup
  <1> QED BY <1>1, StepWakeups, SynchInvariant, PTL DEF Spec

-----------------------------------------------------------------------------
(* The locks implement Mutex.                                              *)

(* The owner the refinement mapping chooses is the one there is.           *)
LEMMA OwnerIs ==
  SynchInv => \A l \in Locks :
                /\ \A t \in Threads : OwnerOf(l) = t <=> Owns(t, l)
                /\ OwnerOf(l) = NULL <=> \A t \in Threads : ~Owns(t, l)
                /\ OwnerOf(l) \in Threads \cup {NULL}
  <1> SUFFICES ASSUME SynchInv, NEW l \in Locks
               PROVE  /\ \A t \in Threads : OwnerOf(l) = t <=> Owns(t, l)
                      /\ OwnerOf(l) = NULL <=> \A t \in Threads : ~Owns(t, l)
                      /\ OwnerOf(l) \in Threads \cup {NULL}
    OBVIOUS
  <1>1. \A t, u \in Threads : Owns(t, l) /\ Owns(u, l) => t = u
    BY DEF SynchInv, OneOwner, LockSound
  <1>2. CASE \E t \in Threads : Owns(t, l)
    <2>1. PICK t \in Threads : Owns(t, l)
      BY <1>2
    <2>2. OwnerOf(l) = CHOOSE u \in Threads : Owns(u, l)
      BY <1>2 DEF OwnerOf
    <2>3. OwnerOf(l) = t
      BY <1>1, <2>1, <2>2
    <2> QED BY <1>1, <2>1, <2>3, ThreadsNotNull
  <1>3. CASE ~(\E t \in Threads : Owns(t, l))
    <2>1. OwnerOf(l) = NULL
      BY <1>3 DEF OwnerOf
    <2> QED BY <1>3, <2>1, ThreadsNotNull
  <1> QED BY <1>2, <1>3

\* What a step may do to the owners of lock l...
SameOwner(l) == \A t \in Threads : Owns(t, l)' <=> Owns(t, l)
TakenBy(t, l) == (\A u \in Threads : ~Owns(u, l)) /\ Owns(t, l)'
GivenUpBy(t, l) == Owns(t, l) /\ \A u \in Threads : ~Owns(u, l)'

\* ...and to those of all of them.
OwnersStep == \/ \A l \in Locks : SameOwner(l)
              \/ \E t \in Threads, l \in Locks :
                   /\ TakenBy(t, l) \/ GivenUpBy(t, l)
                   /\ \A m \in Locks : m # l => SameOwner(m)

(* sema_down(), from any of its callers, takes a lock or none.             *)
LEMMA DownOwners ==
  ASSUME SynchInv, SynchInv', NEW s \in Semaphores, DownFrom(s),
         \/ SemaDown(s)
         \/ s \in Lock /\ LockTryAcquire(s)
  PROVE  OwnersStep
  <1>0. /\ running \in Threads /\ value \in [Semaphores -> Nat] /\ arg \in [Threads -> Semaphores \cup {NULL}]
        /\ pc \in [Threads -> Label] /\ UNCHANGED holder
        /\ pc[running] \notin {"acquired", "releasing"}
    BY Running DEF SynchInv, SynchTypeOK, SemaDown, LockTryAcquire, DownFrom
  <1>1. \A t \in Threads : t # running => pc'[t] = pc[t] /\ arg'[t] = arg[t]
    BY <1>0 DEF SemaDown, LockTryAcquire, Goto
  <1>2. CASE s \in Locks /\ value[s] > 0
    <2>1. arg'[running] = s /\ pc'[running] = "acquired"
      BY <1>0, <1>2, SynchSets DEF SemaDown, LockTryAcquire, Goto, AfterDown
    <2>2. \A m \in Locks : m # s => SameOwner(m)
      BY <1>0, <1>1, <2>1 DEF SameOwner, Owns
    <2>3. \A u \in Threads : ~Owns(u, s)
      BY <1>0, <1>2 DEF SynchInv, OneOwner, LockSound
    <2>4. running' = running
      BY <1>0, <1>2 DEF SemaDown, LockTryAcquire, SemaTryDown, threadVars
    <2>5. TakenBy(running, s)
      BY <1>0, <2>1, <2>3, <2>4 DEF TakenBy, Owns
    <2> QED BY <1>0, <1>2, <2>2, <2>5 DEF OwnersStep
  <1>3. CASE ~(s \in Locks /\ value[s] > 0)
    <2>1. pc'[running] \notin {"acquired", "releasing"}
      BY <1>0, <1>3, SynchSets DEF SemaDown, LockTryAcquire, Goto, AfterDown
    <2> QED BY <1>0, <1>1, <2>1 DEF OwnersStep, SameOwner, Owns
  <1> QED BY <1>2, <1>3

LEMMA StepOwners ==
  ASSUME SynchInv, SynchInv', [Next]_vars
  PROVE  OwnersStep
  <1>0. /\ running \in Threads /\ pc \in [Threads -> Label] /\ holder \in [Locks -> Threads \cup {NULL}]
        /\ arg \in [Threads -> Semaphores \cup {NULL}]
    BY Running DEF SynchInv, SynchTypeOK
  <1>1. CASE DownAgain \/ Down \/ AcquireLock \/ AllocateTid \/ BootWait \/ TryAcquireLock
    <2>1. PICK s \in Semaphores : DownFrom(s) /\ (SemaDown(s) \/ (s \in Lock /\ LockTryAcquire(s)))
      BY <1>1, SynchSets, Running DEF DownAgain, Down, AcquireLock, AllocateTid, BootWait,
        TryAcquireLock, LockAcquire, DownFrom, At, SynchInv, CallArgs
    <2> QED BY <2>1, DownOwners
  <1>2. CASE LockUp
    <2>1. PICK m \in Locks : m = arg[running] /\ pc[running] = "releasing"
      BY <1>0, <1>2 DEF LockUp, At, SynchInv, CallArgs
    <2>2. /\ UNCHANGED <<holder, arg>> /\ pc'[running] \in {"create_unblock", "run"}
          /\ \A t \in Threads : t # running => pc'[t] = pc[t]
      BY <1>0, <1>2 DEF LockUp, Goto, AfterRelease, callVars
    <2>3. Owns(running, m) /\ holder[m] = NULL /\ \A t \in Threads : Owns(t, m) => t = running
      BY <1>0, <2>1 DEF Owns, Window, SynchInv, OneOwner, LockSound
    <2>4. \A t \in Threads : ~Owns(t, m)'
      BY <1>0, <2>2, <2>3, ThreadsNotNull DEF Owns
    <2>5. \A l \in Locks : l # m => SameOwner(l)
      BY <1>0, <2>1, <2>2 DEF SameOwner, Owns
    <2> QED BY <1>0, <2>3, <2>4, <2>5 DEF OwnersStep, GivenUpBy
  <1>3. CASE SetHolder
    <2>1. PICK m \in Locks : m = arg[running] /\ pc[running] = "acquired"
      BY <1>0, <1>3 DEF SetHolder, At, SynchInv, CallArgs
    <2>2. /\ UNCHANGED arg /\ holder' = [holder EXCEPT ![m] = running]
          /\ pc'[running] \in {"tid_read", "run"} /\ \A t \in Threads : t # running => pc'[t] = pc[t]
      BY <1>0, <1>3, <2>1 DEF SetHolder, Goto, AfterAcquire, callVars
    <2>3. Owns(running, m) /\ \A t \in Threads : Owns(t, m) => t = running
      BY <1>0, <2>1 DEF Owns, SynchInv, OneOwner, LockSound
    <2>4. SameOwner(m)
      BY <1>0, <2>1, <2>2, <2>3 DEF SameOwner, Owns
    <2>5. \A l \in Locks : l # m => SameOwner(l)
      BY <1>0, <2>1, <2>2 DEF SameOwner, Owns
    <2> QED BY <2>4, <2>5 DEF OwnersStep
  <1>4. CASE ReleaseLock \/ FreeTidLock
    <2>1. PICK m \in Locks : LockRelease(m) /\ pc[running] \in {"run", "tid_unlock"}
      BY <1>4, SynchSets DEF ReleaseLock, FreeTidLock, At
    <2>2. /\ arg'[running] = m /\ \A t \in Threads : t # running => pc'[t] = pc[t] /\ arg'[t] = arg[t]
          /\ holder' = [holder EXCEPT ![m] = NULL] /\ pc'[running] = "releasing" /\ holder[m] = running
      BY <1>0, <2>1 DEF LockRelease, LockHeldByCurrentThread, Goto
    <2>3. Owns(running, m) /\ \A t \in Threads : Owns(t, m) => t = running
      BY <1>0, <2>2 DEF Owns, SynchInv, OneOwner, LockSound
    <2>4. SameOwner(m)
      BY <1>0, <2>2, <2>3, ThreadsNotNull DEF SameOwner, Owns
    <2>5. \A l \in Locks : l # m => SameOwner(l)
      BY <1>0, <2>1, <2>2 DEF SameOwner, Owns
    <2> QED BY <2>4, <2>5 DEF OwnersStep
  <1>5. CASE CreateThread \/ BootCreate
    <2>1. PICK t \in Page : /\ status[t] = "FREE" /\ arg' = [arg EXCEPT ![t] = NULL]
                            /\ UNCHANGED holder /\ t # running
                            /\ pc'[t] \in {"run", "idle_init"} /\ pc'[running] = "tid_lock"
                            /\ pc[running] \in {"run", "boot"}
                            /\ \A u \in Threads : u # t /\ u # running => pc'[u] = pc[u]
      BY <1>0, <1>5, Running, ThreadsNotNull DEF CreateThread, BootCreate, ThreadCreate, InitThread, At
    <2>2. t \in Threads /\ pc[t] \in {"run", "exited"}
      BY <2>1, ThreadsNotNull DEF SynchInv, CallArgs
    <2>3. \A u \in Threads : \/ pc'[u] = pc[u] /\ arg'[u] = arg[u]
                             \/ pc[u] \notin {"acquired", "releasing"} /\ pc'[u] \notin {"acquired", "releasing"}
      BY <1>0, <2>1, <2>2
    <2> QED BY <2>1, <2>3 DEF OwnersStep, SameOwner, Owns
  <1>6. CASE Up \/ DeviceInterrupt \/ IdleUp \/ TryDown \/ TidRead \/ TidWrite \/ CreateUnblock
             \/ BootEnable \/ IdleInit \/ ExitThread \/ YieldCpu \/ TimerInterrupt \/ IdleLoop
             \/ UNCHANGED vars
    <2>1. UNCHANGED <<holder, arg>>
      BY <1>6 DEF Up, DeviceInterrupt, IdleUp, TryDown, TidRead, TidWrite, CreateUnblock, BootEnable,
        IdleInit, ExitThread, YieldCpu, TimerInterrupt, IdleLoop, vars, synchVars, callVars
    <2>2. \A t \in Threads : \/ pc'[t] = pc[t]
                             \/ pc[t] \notin {"acquired", "releasing"} /\ pc'[t] \notin {"acquired", "releasing"}
      BY <1>0, <1>6 DEF Up, DeviceInterrupt, IdleUp, TryDown, TidRead, TidWrite, CreateUnblock, BootEnable,
        IdleInit, ExitThread, YieldCpu, TimerInterrupt, IdleLoop, vars, synchVars, EndHlt, At, Goto
    <2> QED BY <2>1, <2>2 DEF OwnersStep, SameOwner, Owns
  <1> QED BY <1>1, <1>2, <1>3, <1>4, <1>5, <1>6 DEF Next, KernelStep, ClientStep

(* struct lock is the abstract lock of module Mutex: through the windows   *)
(* in which the semaphore and lock->holder disagree, a lock passes only    *)
(* from nobody to one thread and from that thread back to nobody.          *)
THEOREM LocksImplementMutex == Spec => LocksAreMutexes
  <1> DEFINE owners == [l \in Locks |-> OwnerOf(l)]
  <1>1. Init => M!MutexInit
    <2> SUFFICES ASSUME Init PROVE owners = [l \in Locks |-> NULL]
      BY DEF M!MutexInit
    <2>1. SynchInv
      BY SynchInitInv
    <2>2. \A l \in Locks, t \in Threads : ~Owns(t, l)
      BY ThreadsNotNull, SynchSets DEF Init, Owns
    <2> QED BY <2>1, <2>2, OwnerIs
  <1>2. ASSUME SynchInv, SynchInv', [Next]_vars
        PROVE  [M!MutexNext]_owners
    <2>1. \A l \in Locks : /\ \A t \in Threads : OwnerOf(l) = t <=> Owns(t, l)
                           /\ OwnerOf(l) = NULL <=> \A t \in Threads : ~Owns(t, l)
                           /\ OwnerOf(l) \in Threads \cup {NULL}
      BY <1>2, OwnerIs
    <2>2. \A l \in Locks : /\ \A t \in Threads : OwnerOf(l)' = t <=> Owns(t, l)'
                           /\ OwnerOf(l)' = NULL <=> \A t \in Threads : ~Owns(t, l)'
                           /\ OwnerOf(l)' \in Threads \cup {NULL}
      <3>1. (SynchInv => \A l \in Locks :
                /\ \A t \in Threads : OwnerOf(l) = t <=> Owns(t, l)
                /\ OwnerOf(l) = NULL <=> \A t \in Threads : ~Owns(t, l)
                /\ OwnerOf(l) \in Threads \cup {NULL})'
        BY OwnerIs, PTL
      <3> QED BY <1>2, <3>1
    <2>3. \A l \in Locks : SameOwner(l) => OwnerOf(l)' = OwnerOf(l)
      BY <2>1, <2>2 DEF SameOwner
    <2>4. OwnersStep
      BY <1>2, StepOwners
    <2>5. CASE \A l \in Locks : SameOwner(l)
      <3>1. owners' = owners
        BY <2>3, <2>5
      <3> QED BY <3>1
    <2>6. CASE \E t \in Threads, l \in Locks :
                 /\ TakenBy(t, l) \/ GivenUpBy(t, l)
                 /\ \A m \in Locks : m # l => SameOwner(m)
      <3>1. PICK t \in Threads, l \in Locks :
                 /\ TakenBy(t, l) \/ GivenUpBy(t, l)
                 /\ \A m \in Locks : m # l => SameOwner(m)
        BY <2>6
      <3>2. CASE TakenBy(t, l)
        <4>1. OwnerOf(l) = NULL /\ OwnerOf(l)' = t
          BY <2>1, <2>2, <3>2 DEF TakenBy
        <4>2. owners' = [owners EXCEPT ![l] = t]
          BY <2>3, <3>1, <4>1
        <4> QED BY <4>1, <4>2 DEF M!MutexNext, M!Acquire
      <3>3. CASE GivenUpBy(t, l)
        <4>1. OwnerOf(l) = t /\ OwnerOf(l)' = NULL
          BY <2>1, <2>2, <3>3 DEF GivenUpBy
        <4>2. owners' = [owners EXCEPT ![l] = NULL]
          BY <2>3, <3>1, <4>1
        <4> QED BY <4>1, <4>2 DEF M!MutexNext, M!Release
      <3> QED BY <3>1, <3>2, <3>3
    <2> QED BY <2>4, <2>5, <2>6 DEF OwnersStep
  <1> QED BY <1>1, <1>2, SynchInvariant, PTL DEF Spec, LocksAreMutexes, M!MutexSpec
==============================================================================
