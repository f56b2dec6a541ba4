---------------------------- MODULE RWLockProofs ----------------------------
(***************************************************************************)
(* The readers-writers lock keeps readers and writers apart, for any       *)
(* finite set of threads.  The counters are what the code decides by, so   *)
(* the invariant says that they count the right threads, that the guard    *)
(* lock is held wherever they are read or written, and that the test a     *)
(* thread has passed is still true when it is let in.                      *)
(***************************************************************************)
EXTENDS RWLock, FiniteSetTheorems, TLAPS

\* The points of the code at which the guard lock is held.
Guarded == {"test", "grant", "wait", "unlock_wait", "woke", "unlock_in", "leave", "unlock_out"}

GuardHeld == \A t \in Client : pc[t] \in Guarded => owner[Guard] = t
GrantHolds == \A t \in Client : pc[t] = "grant" => ~MustWait(t)

RWInv == TypeOK /\ GuardHeld /\ GrantHolds /\ CountsExact /\ Exclusion

-----------------------------------------------------------------------------
(* Counting threads.                                                       *)

LEMMA Finite == /\ IsFiniteSet(Readers) /\ IsFiniteSet(Writers)
                /\ IsFiniteSet(WaitingReaders) /\ IsFiniteSet(WaitingWriters)
  BY RWLockAssumption, FS_Subset DEF Readers, Writers, WaitingReaders, WaitingWriters

LEMMA CountUp ==
  ASSUME NEW S, IsFiniteSet(S), NEW x, x \notin S
  PROVE  Cardinality(S \cup {x}) = Cardinality(S) + 1
  BY FS_AddElement

LEMMA CountDown ==
  ASSUME NEW S, IsFiniteSet(S), NEW x \in S
  PROVE  Cardinality(S \ {x}) = Cardinality(S) - 1 /\ Cardinality(S) \in Nat /\ Cardinality(S) >= 1
  <1>1. Cardinality(S) \in Nat /\ Cardinality(S) # 0
    BY FS_CardinalityType, FS_EmptySet
  <1> QED BY <1>1, FS_RemoveElement

LEMMA CountZero ==
  ASSUME NEW S, IsFiniteSet(S), Cardinality(S) = 0 PROVE S = {}
  BY FS_EmptySet

-----------------------------------------------------------------------------
LEMMA InitInv == Init => RWInv
  <1> SUFFICES ASSUME Init PROVE RWInv
    OBVIOUS
  <1> USE DEF Init, MonitorInit, MutexInit
  <1>1. TypeOK
    BY RWLockAssumption DEF TypeOK, Label
  <1>2. GuardHeld /\ GrantHolds
    BY DEF GuardHeld, GrantHolds, Guarded
  <1>3. Readers = {} /\ Writers = {} /\ WaitingReaders = {} /\ WaitingWriters = {}
    BY DEF Readers, Writers, WaitingReaders, WaitingWriters, Inside, Asleep
  <1>4. CountsExact /\ Exclusion
    BY <1>3, FS_EmptySet DEF CountsExact, Exclusion
  <1> QED BY <1>1, <1>2, <1>4 DEF RWInv

(* A step of t within its call that does not move t in or out of the lock  *)
(* or the waiters changes none of the four sets.                           *)
LEMMA SameSets ==
  ASSUME RWInv, NEW t \in Client, NEW to \in Label, Goto(t, to),
         pc[t] \in Inside <=> to \in Inside, pc[t] \in Asleep <=> to \in Asleep,
         UNCHANGED <<counts, reader>>
  PROVE  /\ Readers' = Readers /\ Writers' = Writers
         /\ WaitingReaders' = WaitingReaders /\ WaitingWriters' = WaitingWriters
         /\ CountsExact' /\ Exclusion'
  <1>1. pc'[t] = to /\ \A u \in Client : u # t => pc'[u] = pc[u]
    BY DEF RWInv, TypeOK, Goto
  <1>2. /\ Readers' = Readers /\ Writers' = Writers
        /\ WaitingReaders' = WaitingReaders /\ WaitingWriters' = WaitingWriters
    BY <1>1 DEF Readers, Writers, WaitingReaders, WaitingWriters
  <1> QED BY <1>2 DEF RWInv, CountsExact, Exclusion, counts

(* While t holds the guard lock no other thread is at a guarded point.     *)
LEMMA Alone ==
  ASSUME RWInv, NEW t \in Client, owner[Guard] = t
  PROVE  \A u \in Client : u # t => pc[u] \notin Guarded
  BY DEF RWInv, GuardHeld

LEMMA CallInv ==
  ASSUME RWInv, NEW t \in Client, NEW r \in BOOLEAN, Call(t, r) PROVE RWInv'
  <1> USE DEF Call, Goto, At
  <1>1. TypeOK'
    BY DEF RWInv, TypeOK, Label, counts
  <1>2. /\ pc'[t] = "acq" /\ pc[t] = "out"
        /\ \A u \in Client : u # t => pc'[u] = pc[u] /\ reader'[u] = reader[u]
    BY DEF RWInv, TypeOK
  <1>3. GuardHeld' /\ GrantHolds'
    BY <1>2 DEF RWInv, GuardHeld, GrantHolds, Guarded, MustWait, counts
  <1>4. /\ Readers' = Readers /\ Writers' = Writers
        /\ WaitingReaders' = WaitingReaders /\ WaitingWriters' = WaitingWriters
    BY <1>2 DEF Readers, Writers, WaitingReaders, WaitingWriters, Inside, Asleep
  <1>5. CountsExact' /\ Exclusion'
    BY <1>4 DEF RWInv, CountsExact, Exclusion, counts
  <1> QED BY <1>1, <1>3, <1>5 DEF RWInv

LEMMA CallReleaseInv ==
  ASSUME RWInv, NEW t \in Client, CallRelease(t) PROVE RWInv'
  <1> USE DEF CallRelease, At
  <1>1. TypeOK' /\ pc'[t] = "rel" /\ \A u \in Client : u # t => pc'[u] = pc[u]
    BY DEF RWInv, TypeOK, Label, counts, Goto
  <1>2. GuardHeld' /\ GrantHolds'
    BY <1>1 DEF RWInv, GuardHeld, GrantHolds, Guarded, MustWait, counts
  <1>3. CountsExact' /\ Exclusion'
    BY SameSets DEF Inside, Asleep, Label
  <1> QED BY <1>1, <1>2, <1>3 DEF RWInv

(* lock_acquire(&rw_lock->lock) returns.                                   *)
LEMMA LockGuardInv ==
  ASSUME RWInv, NEW t \in Client, NEW from, NEW to \in Guarded \ {"grant"},
         from \in Inside <=> to \in Inside, from \in Asleep <=> to \in Asleep,
         LockGuard(t, from, to)
  PROVE  RWInv'
  <1> USE DEF LockGuard, At, Acquire
  <1>0. to \in Label /\ Guard \in Locks
    BY RWLockAssumption DEF Guarded, Label
  <1>1. TypeOK' /\ pc'[t] = to /\ \A u \in Client : u # t => pc'[u] = pc[u]
    BY <1>0 DEF RWInv, TypeOK, counts, Goto
  <1>2. owner'[Guard] = t /\ \A u \in Client : pc[u] \notin Guarded
    BY <1>0, RWLockAssumption DEF RWInv, TypeOK, GuardHeld
  <1>3. GuardHeld' /\ GrantHolds'
    BY <1>1, <1>2 DEF GuardHeld, GrantHolds, Guarded
  <1>4. CountsExact' /\ Exclusion'
    BY <1>0, SameSets
  <1> QED BY <1>1, <1>3, <1>4 DEF RWInv

(* lock_release(&rw_lock->lock).                                           *)
LEMMA UnlockGuardInv ==
  ASSUME RWInv, NEW t \in Client, NEW from \in Guarded, NEW to \in Label \ Guarded,
         from \in Inside <=> to \in Inside, from \in Asleep <=> to \in Asleep,
         UnlockGuard(t, from, to)
  PROVE  RWInv'
  <1> USE DEF UnlockGuard, At, Release
  <1>1. TypeOK' /\ pc'[t] = to /\ \A u \in Client : u # t => pc'[u] = pc[u]
    BY RWLockAssumption DEF RWInv, TypeOK, counts, Goto
  <1>2. \A u \in Client : u # t => pc[u] \notin Guarded
    BY Alone
  <1>3. GuardHeld' /\ GrantHolds'
    BY <1>1, <1>2 DEF GuardHeld, GrantHolds, Guarded
  <1>4. CountsExact' /\ Exclusion'
    BY SameSets
  <1> QED BY <1>1, <1>3, <1>4 DEF RWInv

(* What every step of t at a guarded point, to another guarded point, gives.*)
LEMMA GuardedStep ==
  ASSUME RWInv, NEW t \in Client, pc[t] \in Guarded,
         NEW to \in Guarded, Goto(t, to), UNCHANGED <<owner, reader>>,
         to = "grant" => ~MustWait(t)'
  PROVE  /\ pc' \in [Client -> Label]
         /\ pc'[t] = to /\ \A u \in Client : u # t => pc'[u] = pc[u]
         /\ GuardHeld' /\ GrantHolds'
  <1>1. /\ pc' \in [Client -> Label]
        /\ pc'[t] = to /\ \A u \in Client : u # t => pc'[u] = pc[u]
    BY DEF RWInv, TypeOK, Goto, Guarded, Label
  <1>2. owner[Guard] = t
    BY DEF RWInv, GuardHeld
  <1>3. \A u \in Client : u # t => pc[u] \notin Guarded
    BY <1>2, Alone
  <1>4. GuardHeld'
    BY <1>1, <1>2, <1>3 DEF GuardHeld
  <1>5. GrantHolds'
    BY <1>1, <1>3 DEF GrantHolds, Guarded
  <1> QED BY <1>1, <1>4, <1>5

-----------------------------------------------------------------------------
(* The steps that read or change the counters.                             *)

LEMMA TestInv ==
  ASSUME RWInv, NEW t \in Client, Test(t)
  PROVE  RWInv' /\ UNCHANGED <<Readers, Writers>>
  <1> USE DEF Test, At
  <1> DEFINE to == IF MustWait(t) THEN "wait" ELSE "grant"
  <1>1. to \in Guarded /\ to \in Label /\ pc[t] \in Guarded
    BY DEF Guarded, Label
  <1>2. MustWait(t)' = MustWait(t)
    BY DEF MustWait, counts
  <1>3. pc' \in [Client -> Label] /\ GuardHeld' /\ GrantHolds'
    BY <1>1, <1>2, GuardedStep
  <1>4. CountsExact' /\ Exclusion' /\ UNCHANGED <<Readers, Writers>>
    BY <1>1, SameSets DEF Inside, Asleep
  <1> QED BY <1>3, <1>4 DEF RWInv, TypeOK, counts

(* The thread that is let in finds nobody inside that it excludes.         *)
LEMMA GrantInv ==
  ASSUME RWInv, NEW t \in Client, Grant(t)
  PROVE  RWInv' /\ (RW!EnterRead(t) \/ RW!EnterWrite(t))
  <1> USE DEF Grant, At
  <1>1. /\ pc' \in [Client -> Label] /\ GuardHeld' /\ GrantHolds'
        /\ pc'[t] = "unlock_in" /\ \A u \in Client : u # t => pc'[u] = pc[u]
    BY GuardedStep DEF Guarded
  <1>2. WaitingReaders' = WaitingReaders /\ WaitingWriters' = WaitingWriters
    BY <1>1 DEF WaitingReaders, WaitingWriters, Asleep
  <1>3. /\ AR \in Nat /\ AW \in Nat /\ WW \in Nat /\ reader[t] \in BOOLEAN
        /\ AR = Cardinality(Readers) /\ AW = Cardinality(Writers) /\ ~MustWait(t)
    BY DEF RWInv, TypeOK, CountsExact, GrantHolds
  <1>4. Writers = {} /\ (~reader[t] => Readers = {})
    <2>1. AW = 0 /\ (~reader[t] => AR = 0)
      BY <1>3 DEF MustWait
    <2> QED BY <1>3, <2>1, Finite, CountZero
  <1>5. t \notin Readers /\ t \notin Writers
    BY DEF Readers, Writers, Inside
  <1>6. CASE reader[t]
    <2>1. Readers' = Readers \cup {t} /\ Writers' = Writers
      BY <1>1, <1>5, <1>6 DEF Readers, Writers, Inside
    <2>2. Cardinality(Readers') = AR + 1
      BY <1>3, <1>5, <2>1, Finite, CountUp
    <2>3. CountsExact' /\ Exclusion' /\ RW!EnterRead(t)
      BY <1>2, <1>4, <1>5, <1>6, <2>1, <2>2
      DEF RWInv, CountsExact, Exclusion, RW!EnterRead
    <2> QED BY <1>1, <1>3, <1>6, <2>3 DEF RWInv, TypeOK
  <1>7. CASE ~reader[t]
    <2>1. Readers' = Readers /\ Writers' = Writers \cup {t}
      BY <1>1, <1>5, <1>7 DEF Readers, Writers, Inside
    <2>2. Cardinality(Writers') = AW + 1
      BY <1>3, <1>5, <2>1, Finite, CountUp
    <2>3. CountsExact' /\ Exclusion' /\ RW!EnterWrite(t)
      BY <1>2, <1>4, <1>7, <2>1, <2>2
      DEF RWInv, CountsExact, Exclusion, RW!EnterWrite
    <2> QED BY <1>1, <1>3, <1>7, <2>3 DEF RWInv, TypeOK
  <1> QED BY <1>6, <1>7

LEMMA WaitInv ==
  ASSUME RWInv, NEW t \in Client, Wait(t)
  PROVE  RWInv' /\ UNCHANGED <<Readers, Writers>>
  <1> USE DEF Wait, At
  <1>1. /\ pc' \in [Client -> Label] /\ GuardHeld' /\ GrantHolds'
        /\ pc'[t] = "unlock_wait" /\ \A u \in Client : u # t => pc'[u] = pc[u]
    BY GuardedStep DEF Guarded
  <1>2. Readers' = Readers /\ Writers' = Writers
    BY <1>1 DEF Readers, Writers, Inside
  <1>3. /\ waiting' \in [Conds -> Seq(Client)] /\ sema' \in [Client -> Nat]
    BY RWLockAssumption DEF RWInv, TypeOK, CondEnqueue, CondOf
  <1>4. t \notin WaitingReaders /\ t \notin WaitingWriters
    BY DEF WaitingReaders, WaitingWriters, Asleep
  <1>5. CASE reader[t]
    <2>1. WaitingReaders' = WaitingReaders \cup {t} /\ WaitingWriters' = WaitingWriters
      BY <1>1, <1>4, <1>5 DEF WaitingReaders, WaitingWriters, Asleep
    <2>2. Cardinality(WaitingReaders') = Cardinality(WaitingReaders) + 1
      BY <1>4, <2>1, Finite, CountUp
    <2>3. CountsExact' /\ Exclusion'
      BY <1>2, <1>5, <2>1, <2>2 DEF RWInv, CountsExact, Exclusion
    <2> QED BY <1>1, <1>2, <1>3, <1>5, <2>3 DEF RWInv, TypeOK
  <1>6. CASE ~reader[t]
    <2>1. WaitingReaders' = WaitingReaders /\ WaitingWriters' = WaitingWriters \cup {t}
      BY <1>1, <1>4, <1>6 DEF WaitingReaders, WaitingWriters, Asleep
    <2>2. Cardinality(WaitingWriters') = Cardinality(WaitingWriters) + 1
      BY <1>4, <2>1, Finite, CountUp
    <2>3. CountsExact' /\ Exclusion'
      BY <1>2, <1>6, <2>1, <2>2 DEF RWInv, CountsExact, Exclusion
    <2> QED BY <1>1, <1>2, <1>3, <1>6, <2>3 DEF RWInv, TypeOK
  <1> QED BY <1>5, <1>6

LEMMA WaitSleepInv ==
  ASSUME RWInv, NEW t \in Client, WaitSleep(t)
  PROVE  RWInv' /\ UNCHANGED <<Readers, Writers>>
  <1> USE DEF WaitSleep, At
  <1>1. pc' \in [Client -> Label] /\ pc'[t] = "reacq" /\ \A u \in Client : u # t => pc'[u] = pc[u]
    BY DEF RWInv, TypeOK, Label, Goto
  <1>2. sema' \in [Client -> Nat] /\ UNCHANGED waiting
    BY DEF RWInv, TypeOK, CondWoken
  <1>3. GuardHeld' /\ GrantHolds'
    BY <1>1 DEF RWInv, GuardHeld, GrantHolds, Guarded, MustWait, counts
  <1>4. CountsExact' /\ Exclusion' /\ UNCHANGED <<Readers, Writers>>
    BY SameSets DEF Inside, Asleep, Label
  <1> QED BY <1>1, <1>2, <1>3, <1>4 DEF RWInv, TypeOK, counts

LEMMA WaitReturnsInv ==
  ASSUME RWInv, NEW t \in Client, WaitReturns(t)
  PROVE  RWInv' /\ UNCHANGED <<Readers, Writers>>
  <1> USE DEF WaitReturns, At
  <1>1. /\ pc' \in [Client -> Label] /\ GuardHeld' /\ GrantHolds'
        /\ pc'[t] = "test" /\ \A u \in Client : u # t => pc'[u] = pc[u]
    BY GuardedStep DEF Guarded
  <1>2. Readers' = Readers /\ Writers' = Writers
    BY <1>1 DEF Readers, Writers, Inside
  <1>3. CASE reader[t]
    <2>1. /\ WaitingReaders' = WaitingReaders \ {t} /\ t \in WaitingReaders
          /\ WaitingWriters' = WaitingWriters
      BY <1>1, <1>3 DEF WaitingReaders, WaitingWriters, Asleep
    <2>2. Cardinality(WaitingReaders') = WR - 1 /\ WR \in Nat /\ WR >= 1
      BY <2>1, Finite, CountDown DEF RWInv, CountsExact
    <2>3. CountsExact' /\ Exclusion'
      BY <1>2, <1>3, <2>1, <2>2 DEF RWInv, CountsExact, Exclusion
    <2> QED BY <1>1, <1>2, <1>3, <2>2, <2>3 DEF RWInv, TypeOK
  <1>4. CASE ~reader[t]
    <2>1. /\ WaitingWriters' = WaitingWriters \ {t} /\ t \in WaitingWriters
          /\ WaitingReaders' = WaitingReaders
      BY <1>1, <1>4 DEF WaitingReaders, WaitingWriters, Asleep
    <2>2. Cardinality(WaitingWriters') = WW - 1 /\ WW \in Nat /\ WW >= 1
      BY <2>1, Finite, CountDown DEF RWInv, CountsExact
    <2>3. CountsExact' /\ Exclusion'
      BY <1>2, <1>4, <2>1, <2>2 DEF RWInv, CountsExact, Exclusion
    <2> QED BY <1>1, <1>2, <1>4, <2>2, <2>3 DEF RWInv, TypeOK
  <1> QED BY <1>3, <1>4

LEMMA SignalTypes ==
  ASSUME RWInv, NEW c \in Conds, CondSignal(c)
  PROVE  waiting' \in [Conds -> Seq(Client)] /\ sema' \in [Client -> Nat]
  <1>0. waiting \in [Conds -> Seq(Client)] /\ sema \in [Client -> Nat] /\ waiting[c] \in Seq(Client)
    BY DEF RWInv, TypeOK
  <1>1. CASE waiting[c] = << >>
    BY <1>0, <1>1 DEF CondSignal
  <1>2. CASE waiting[c] # << >>
    <2>1. Tail(waiting[c]) \in Seq(Client) /\ Head(waiting[c]) \in Client
      BY <1>0, <1>2
    <2> DEFINE rest == Tail(waiting[c])
               first == Head(waiting[c])
    <2>2. waiting' = [waiting EXCEPT ![c] = rest] /\ sema' = [sema EXCEPT ![first] = @ + 1]
      BY <1>2 DEF CondSignal
    <2> HIDE DEF rest, first
    <2>3. rest \in Seq(Client) /\ first \in Client
      BY <2>1 DEF rest, first
    <2> QED BY <1>0, <2>2, <2>3
  <1> QED BY <1>1, <1>2

LEMMA BroadcastTypes ==
  ASSUME RWInv, NEW c \in Conds, CondBroadcast(c)
  PROVE  waiting' \in [Conds -> Seq(Client)] /\ sema' \in [Client -> Nat]
  BY DEF RWInv, TypeOK, CondBroadcast

LEMMA LeaveReaderInv ==
  ASSUME RWInv, NEW t \in Client, LeaveReader(t)
  PROVE  RWInv' /\ RW!LeaveRead(t)
  <1> USE DEF LeaveReader, At
  <1>1. /\ pc' \in [Client -> Label] /\ GuardHeld' /\ GrantHolds'
        /\ pc'[t] = "unlock_out" /\ \A u \in Client : u # t => pc'[u] = pc[u]
    BY GuardedStep DEF Guarded
  <1>2. waiting' \in [Conds -> Seq(Client)] /\ sema' \in [Client -> Nat]
    BY SignalTypes, RWLockAssumption DEF RWInv, TypeOK
  <1>3. /\ WaitingReaders' = WaitingReaders /\ WaitingWriters' = WaitingWriters
        /\ Readers' = Readers \ {t} /\ t \in Readers /\ Writers' = Writers
    BY <1>1 DEF Readers, Writers, WaitingReaders, WaitingWriters, Inside, Asleep
  <1>4. Cardinality(Readers') = AR - 1 /\ AR \in Nat /\ AR >= 1
    BY <1>3, Finite, CountDown DEF RWInv, CountsExact
  <1>5. CountsExact' /\ Exclusion' /\ RW!LeaveRead(t)
    BY <1>3, <1>4 DEF RWInv, CountsExact, Exclusion, RW!LeaveRead
  <1> QED BY <1>1, <1>2, <1>4, <1>5 DEF RWInv, TypeOK

LEMMA LeaveWriterInv ==
  ASSUME RWInv, NEW t \in Client, LeaveWriter(t)
  PROVE  RWInv' /\ RW!LeaveWrite(t)
  <1> USE DEF LeaveWriter, At
  <1>1. /\ pc' \in [Client -> Label] /\ GuardHeld' /\ GrantHolds'
        /\ pc'[t] = "unlock_out" /\ \A u \in Client : u # t => pc'[u] = pc[u]
    BY GuardedStep DEF Guarded
  <1>2. waiting' \in [Conds -> Seq(Client)] /\ sema' \in [Client -> Nat]
    BY SignalTypes, BroadcastTypes, RWLockAssumption DEF RWInv, TypeOK
  <1>3. /\ WaitingReaders' = WaitingReaders /\ WaitingWriters' = WaitingWriters
        /\ Writers' = Writers \ {t} /\ t \in Writers /\ Readers' = Readers
    BY <1>1 DEF Readers, Writers, WaitingReaders, WaitingWriters, Inside, Asleep
  <1>4. Cardinality(Writers') = AW - 1 /\ AW \in Nat /\ AW >= 1
    BY <1>3, Finite, CountDown DEF RWInv, CountsExact
  <1>5. CountsExact' /\ Exclusion' /\ RW!LeaveWrite(t)
    BY <1>3, <1>4 DEF RWInv, CountsExact, Exclusion, RW!LeaveWrite
  <1> QED BY <1>1, <1>2, <1>4, <1>5 DEF RWInv, TypeOK

-----------------------------------------------------------------------------
(* Every step keeps the invariant, and enters or leaves the abstract lock  *)
(* or leaves it alone.                                                     *)
LEMMA StepInv ==
  ASSUME RWInv, [Next]_vars
  PROVE  RWInv' /\ [RW!RWNext]_<<Readers, Writers>>
  <1>1. ASSUME NEW t \in Client, Step(t)
        PROVE  RWInv' /\ [RW!RWNext]_<<Readers, Writers>>
    <2>0. /\ {"test", "woke", "leave"} \subseteq Guarded \ {"grant"}
          /\ {"unlock_in", "unlock_wait", "unlock_out"} \subseteq Guarded
          /\ {"in", "sleep", "out"} \subseteq Label \ Guarded
      BY DEF Guarded, Label
    <2>1. ASSUME NEW from, NEW to \in Guarded \ {"grant"}, LockGuard(t, from, to),
                 from \in Inside <=> to \in Inside, from \in Asleep <=> to \in Asleep
          PROVE  RWInv' /\ UNCHANGED <<Readers, Writers>>
      <3>1. RWInv'
        BY <2>1, LockGuardInv
      <3>2. UNCHANGED <<Readers, Writers>>
        BY <2>1, SameSets DEF LockGuard, At, Guarded, Label
      <3> QED BY <3>1, <3>2
    <2>2. ASSUME NEW from \in Guarded, NEW to \in Label \ Guarded, UnlockGuard(t, from, to),
                 from \in Inside <=> to \in Inside, from \in Asleep <=> to \in Asleep
          PROVE  RWInv' /\ UNCHANGED <<Readers, Writers>>
      <3>1. RWInv'
        BY <2>2, UnlockGuardInv
      <3>2. UNCHANGED <<Readers, Writers>>
        BY <2>2, SameSets DEF UnlockGuard, At
      <3> QED BY <3>1, <3>2
    <2>3. CASE AcquireLock(t)
      BY <2>0, <2>1, <2>3 DEF AcquireLock, Inside, Asleep
    <2>4. CASE AcquireReturns(t)
      BY <2>0, <2>2, <2>4 DEF AcquireReturns, Inside, Asleep
    <2>5. CASE WaitUnlock(t)
      BY <2>0, <2>2, <2>5 DEF WaitUnlock, Inside, Asleep
    <2>6. CASE WaitLock(t)
      BY <2>0, <2>1, <2>6 DEF WaitLock, Inside, Asleep
    <2>7. CASE ReleaseLock(t)
      BY <2>0, <2>1, <2>7 DEF ReleaseLock, Inside, Asleep
    <2>8. CASE ReleaseReturns(t)
      BY <2>0, <2>2, <2>8 DEF ReleaseReturns, Inside, Asleep
    <2>9. CASE Test(t) \/ Wait(t) \/ WaitSleep(t) \/ WaitReturns(t)
      BY <2>9, TestInv, WaitInv, WaitSleepInv, WaitReturnsInv
    <2>10. CASE Grant(t) \/ LeaveReader(t) \/ LeaveWriter(t)
      BY <2>10, GrantInv, LeaveReaderInv, LeaveWriterInv DEF RW!RWNext
    <2> QED BY <1>1, <2>3, <2>4, <2>5, <2>6, <2>7, <2>8, <2>9, <2>10 DEF Step
  <1>2. ASSUME NEW t \in Client, NEW r \in BOOLEAN, Call(t, r)
        PROVE  RWInv' /\ UNCHANGED <<Readers, Writers>>
    <2>1. /\ pc'[t] = "acq" /\ pc[t] = "out"
          /\ \A u \in Client : u # t => pc'[u] = pc[u] /\ reader'[u] = reader[u]
      BY <1>2 DEF Call, Goto, At, RWInv, TypeOK
    <2> QED BY <1>2, <2>1, CallInv DEF Readers, Writers, Inside
  <1>3. ASSUME NEW t \in Client, CallRelease(t)
        PROVE  RWInv' /\ UNCHANGED <<Readers, Writers>>
    <2>1. UNCHANGED <<Readers, Writers>>
      BY <1>3, SameSets DEF CallRelease, At, Inside, Asleep, Label
    <2> QED BY <1>3, <2>1, CallReleaseInv
  <1>4. CASE UNCHANGED vars
    <2> USE <1>4 DEF vars
    <2>1. /\ Readers' = Readers /\ Writers' = Writers
          /\ WaitingReaders' = WaitingReaders /\ WaitingWriters' = WaitingWriters
      BY DEF Readers, Writers, WaitingReaders, WaitingWriters
    <2> QED
      BY <2>1 DEF RWInv, TypeOK, GuardHeld, GrantHolds, MustWait, CountsExact, Exclusion
  <1> QED BY <1>1, <1>2, <1>3, <1>4 DEF Next

(* The invariant of the readers-writers lock.                              *)
THEOREM RWLockInvariant == Spec => []RWInv
  <1>1. RWInv /\ [Next]_vars => RWInv'
    BY StepInv
  <1> QED BY InitInv, <1>1, PTL DEF Spec

(* The lock's variables, the guard lock's owner and the condition          *)
(* variables keep their types; in particular no counter goes below zero.   *)
THEOREM RWLockTypes == Spec => []TypeOK
  <1>1. RWInv => TypeOK
    BY DEF RWInv
  <1> QED BY RWLockInvariant, <1>1, PTL

(* rw_lock_acquire() never lets a writer in with readers or another writer. *)
THEOREM RWLockExclusion == Spec => []Exclusion
  <1>1. RWInv => Exclusion
    BY DEF RWInv
  <1> QED BY RWLockInvariant, <1>1, PTL

(* AR, AW, WR and WW count exactly the threads they stand for.             *)
THEOREM RWLockCounts == Spec => []CountsExact
  <1>1. RWInv => CountsExact
    BY DEF RWInv
  <1> QED BY RWLockInvariant, <1>1, PTL

(* The monitor implements the abstract readers-writers lock.               *)
THEOREM RWLockRefines == Spec => ImplementsReadersWriter
  <1>1. Init => RW!RWInit
    BY DEF Init, RW!RWInit, Readers, Writers, Inside
  <1>2. RWInv /\ [Next]_vars => [RW!RWNext]_<<Readers, Writers>>
    BY StepInv
  <1> QED BY RWLockInvariant, <1>1, <1>2, PTL DEF Spec, ImplementsReadersWriter, RW!RWSpec

-----------------------------------------------------------------------------
(* Writer preference.  A reader enters only at Grant, where the test it    *)
(* has passed still holds, and WW counts the waiting writers exactly.      *)

LEMMA StepReaders ==
  ASSUME RWInv, [Next]_vars
  PROVE  Readers' \subseteq Readers \/ WaitingWriters = {}
  <1>1. ASSUME NEW t \in Client, Grant(t)
        PROVE  Readers' \subseteq Readers \/ WaitingWriters = {}
    <2>1. pc'[t] = "unlock_in" /\ \A u \in Client : u # t => pc'[u] = pc[u]
      BY <1>1 DEF Grant, Goto, RWInv, TypeOK
    <2>2. CASE reader[t]
      <3>1. WW = 0
        BY <1>1, <2>2 DEF Grant, At, RWInv, TypeOK, GrantHolds, MustWait
      <3> QED BY <3>1, Finite, CountZero DEF RWInv, CountsExact
    <2>3. CASE ~reader[t]
      BY <1>1, <2>1, <2>3 DEF Grant, Readers
    <2> QED BY <2>2, <2>3
  <1>2. ASSUME NEW t \in Client, NEW to \in Label,
               pc[t] \in Inside \/ to \notin Inside, Goto(t, to), UNCHANGED reader
        PROVE  Readers' \subseteq Readers
    BY <1>2 DEF Readers, Goto, RWInv, TypeOK
  <1>3. ASSUME NEW t \in Client, Step(t), ~Grant(t)
        PROVE  Readers' \subseteq Readers
    BY <1>2, <1>3 DEF Step, AcquireLock, AcquireReturns, Test, Wait, WaitUnlock, WaitSleep,
      WaitLock, WaitReturns, ReleaseLock, LeaveReader, LeaveWriter, ReleaseReturns,
      LockGuard, UnlockGuard, At, Inside, Label
  <1>4. ASSUME NEW t \in Client, CallRelease(t)
        PROVE  Readers' \subseteq Readers
    BY <1>2, <1>4 DEF CallRelease, At, Inside, Label
  <1>5. ASSUME NEW t \in Client, NEW r \in BOOLEAN, Call(t, r)
        PROVE  Readers' \subseteq Readers
    BY <1>5 DEF Call, At, Goto, Readers, Inside, RWInv, TypeOK
  <1>6. CASE UNCHANGED vars
    BY <1>6 DEF vars, Readers
  <1> QED BY <1>1, <1>3, <1>4, <1>5, <1>6 DEF Next

(* No reader is let in while a writer waits.                               *)
THEOREM RWLockPrefersWriters == Spec => WriterPreference
  <1>1. RWInv /\ [Next]_vars
          => [\A t \in Client : t \in Readers' \ Readers => WaitingWriters = {}]_vars
    BY StepReaders
  <1> QED BY RWLockInvariant, <1>1, PTL DEF Spec, WriterPreference

-----------------------------------------------------------------------------
(* Nobody is stranded.  The second invariant says that the condition       *)
(* variables list exactly the threads that wait without a signal, that a   *)
(* thread about to wait still has to, and whom the waiters wait for: a     *)
(* writer for somebody inside or for a writer that was signalled and will  *)
(* look again, a reader for a writer that has not been through yet.        *)

Queued == {"unlock_wait", "sleep"}
Pending(t) == pc[t] \in Queued /\ sema[t] = 0

ListsExact ==
  \A c \in Conds :
    /\ \A i, j \in DOMAIN waiting[c] : waiting[c][i] = waiting[c][j] => i = j
    /\ \A t \in Client : t \in Listed(c) <=> (Pending(t) /\ CondOf(t) = c)

WaitHolds == \A t \in Client : pc[t] = "wait" => MustWait(t)

\* A writer that will come to the test of the while loop, or has passed it.
Looking(u) == ~reader[u] /\ ~Pending(u) /\ pc[u] \in Asleep \cup {"test", "grant"}

\* A writer in the middle of rw_lock_acquire(), or inside.
OnItsWay(u) == ~reader[u] /\ pc[u] \in Inside \cup Asleep \cup {"test", "grant", "wait"}

WritersWaitForSomeone ==
  (\E t \in Client : Pending(t) /\ ~reader[t])
    => \E u \in Client : pc[u] \in Inside \/ Looking(u)
ReadersWaitForAWriter ==
  (\E t \in Client : Pending(t) /\ reader[t]) => \E u \in Client : OnItsWay(u)

StrandInv == ListsExact /\ WaitHolds /\ WritersWaitForSomeone /\ ReadersWaitForAWriter

LEMMA InitStrand == Init => StrandInv
  BY RWLockAssumption DEF Init, MonitorInit, StrandInv, ListsExact, Listed, WaitHolds,
    WritersWaitForSomeone, ReadersWaitForAWriter, Pending, Queued

(* A thread that has to wait finds the thread it waits for.                *)
LEMMA SomeoneToWaitFor ==
  ASSUME RWInv, NEW t \in Client, MustWait(t)
  PROVE  /\ ~reader[t] => \E u \in Client : pc[u] \in Inside
         /\ reader[t] => \E u \in Client : OnItsWay(u)
  <1>1. /\ AR \in Nat /\ AW \in Nat /\ WW \in Nat /\ reader[t] \in BOOLEAN
        /\ AR = Cardinality(Readers) /\ AW = Cardinality(Writers)
        /\ WW = Cardinality(WaitingWriters)
    BY DEF RWInv, TypeOK, CountsExact
  <1>2. AR # 0 => Readers # {}
    BY <1>1, FS_EmptySet
  <1>3. AW # 0 => Writers # {}
    BY <1>1, FS_EmptySet
  <1>4. WW # 0 => WaitingWriters # {}
    BY <1>1, FS_EmptySet
  <1>5. CASE reader[t]
    <2>1. AW # 0 \/ WW # 0
      BY <1>1, <1>5 DEF MustWait
    <2> QED BY <1>3, <1>4, <1>5, <2>1 DEF Writers, WaitingWriters, OnItsWay
  <1>6. CASE ~reader[t]
    <2>1. AW # 0 \/ AR # 0
      BY <1>1, <1>6 DEF MustWait
    <2> QED BY <1>2, <1>3, <1>6, <2>1 DEF Readers, Writers
  <1> QED BY <1>1, <1>5, <1>6

(* A step that touches no list and no semaphore and takes t on its way.    *)
LEMMA OnwardStrand ==
  ASSUME RWInv, StrandInv, NEW t \in Client, NEW to \in Label, Goto(t, to),
         UNCHANGED <<waiting, sema, reader>>,
         pc[t] \in Queued <=> to \in Queued,
         pc[t] \in Inside => to \in Inside,
         pc[t] \in Asleep \cup {"test", "grant"}
           => to \in Asleep \cup {"test", "grant"} \cup Inside \/ (to = "wait" /\ MustWait(t)),
         pc[t] # "wait"
  PROVE  ListsExact' /\ WritersWaitForSomeone' /\ ReadersWaitForAWriter'
  <1>1. pc'[t] = to /\ \A u \in Client : u # t => pc'[u] = pc[u]
    BY DEF RWInv, TypeOK, Goto
  <1>2. \A u \in Client : Pending(u)' <=> Pending(u)
    BY <1>1 DEF Pending
  <1>3. ListsExact'
    BY <1>2 DEF StrandInv, ListsExact, Listed, CondOf
  <1>4. ASSUME NEW w \in Client, Pending(w)', ~reader[w]
        PROVE  \E u \in Client : pc'[u] \in Inside \/ Looking(u)'
    <2>1. PICK u \in Client : pc[u] \in Inside \/ Looking(u)
      BY <1>2, <1>4 DEF StrandInv, WritersWaitForSomeone
    <2>2. CASE u # t
      BY <1>1, <1>2, <2>1, <2>2 DEF Looking
    <2>3. CASE u = t /\ to # "wait"
      BY <1>1, <1>2, <2>1, <2>3 DEF Looking
    <2>4. CASE u = t /\ to = "wait"
      <3>1. ~reader[t] /\ MustWait(t) /\ pc[t] \notin Inside
        BY <2>1, <2>4 DEF Looking, Inside, Asleep
      <3>2. PICK v \in Client : pc[v] \in Inside
        BY <3>1, SomeoneToWaitFor
      <3> QED BY <1>1, <3>1, <3>2
    <2> QED BY <2>2, <2>3, <2>4
  <1>5. ASSUME NEW r \in Client, Pending(r)', reader[r]
        PROVE  \E u \in Client : OnItsWay(u)'
    <2>1. PICK u \in Client : OnItsWay(u)
      BY <1>2, <1>5 DEF StrandInv, ReadersWaitForAWriter
    <2> QED BY <1>1, <2>1 DEF OnItsWay
  <1>6. WritersWaitForSomeone'
    BY <1>4 DEF WritersWaitForSomeone
  <1>7. ReadersWaitForAWriter'
    BY <1>5 DEF ReadersWaitForAWriter
  <1> QED BY <1>3, <1>6, <1>7

(* cond_signal() takes the first waiter off the list and marks it.         *)
LEMMA SignalStrand ==
  ASSUME RWInv, ListsExact, NEW c \in Conds, CondSignal(c), UNCHANGED reader,
         \A u \in Client : pc'[u] \in Queued <=> pc[u] \in Queued
  PROVE  /\ ListsExact'
         /\ \A u \in Client : Pending(u)' => Pending(u)
         /\ (\E u \in Client : Pending(u) /\ CondOf(u) = c)
              => \E u \in Client : Pending(u) /\ CondOf(u) = c /\ ~Pending(u)'
  <1>0. /\ waiting \in [Conds -> Seq(Client)] /\ sema \in [Client -> Nat]
        /\ waiting[c] \in Seq(Client)
    BY DEF RWInv, TypeOK
  <1>1. CASE waiting[c] = << >>
    <2>1. UNCHANGED <<waiting, sema>>
      BY <1>1 DEF CondSignal
    <2>2. \A u \in Client : Pending(u)' <=> Pending(u)
      BY <2>1 DEF Pending
    <2>3. ListsExact'
      BY <2>1, <2>2 DEF ListsExact, Listed, CondOf
    <2>4. \A u \in Client : ~(Pending(u) /\ CondOf(u) = c)
      BY <1>1 DEF ListsExact, Listed
    <2> QED BY <2>2, <2>3, <2>4
  <1>2. CASE waiting[c] # << >>
    <2> DEFINE list == waiting[c]
               rest == Tail(list)
    <2>0. PICK first \in Client : first = Head(list)
      BY <1>0, <1>2
    <2>1. /\ Len(list) \in Nat /\ Len(list) >= 1 /\ DOMAIN list = 1..Len(list)
          /\ rest \in Seq(Client) /\ DOMAIN rest = 1..(Len(list) - 1)
          /\ first = list[1]
      BY <1>0, <1>2, <2>0
    <2>2. \A i \in 1..(Len(list) - 1) : rest[i] = list[i + 1]
      BY <1>0, <1>2
    <2>3. waiting' = [waiting EXCEPT ![c] = rest] /\ sema' = [sema EXCEPT ![first] = @ + 1]
      BY <1>2, <2>0 DEF CondSignal
    <2>4. \A i, j \in DOMAIN list : list[i] = list[j] => i = j
      BY DEF ListsExact
    <2>5. Pending(first) /\ CondOf(first) = c
      BY <2>1 DEF ListsExact, Listed
    <2> HIDE DEF list, rest
    <2>6. \A i, j \in DOMAIN rest : rest[i] = rest[j] => i = j
      <3> SUFFICES ASSUME NEW i \in DOMAIN rest, NEW j \in DOMAIN rest, rest[i] = rest[j]
                   PROVE  i = j
        OBVIOUS
      <3>1. list[i + 1] = list[j + 1] /\ i + 1 \in DOMAIN list /\ j + 1 \in DOMAIN list
        BY <2>1, <2>2
      <3>2. i + 1 = j + 1
        BY <2>4, <3>1
      <3> QED BY <3>2, <2>1
    <2>7. \A u : u \in {rest[i] : i \in DOMAIN rest}
                 <=> (u \in {list[i] : i \in DOMAIN list} /\ u # first)
      <3>1. ASSUME NEW i \in DOMAIN rest
            PROVE  rest[i] \in {list[k] : k \in DOMAIN list} /\ rest[i] # first
        <4>1. rest[i] = list[i + 1] /\ i + 1 \in DOMAIN list /\ i + 1 # 1 /\ 1 \in DOMAIN list
          BY <2>1, <2>2
        <4> QED BY <2>1, <2>4, <4>1
      <3>2. ASSUME NEW i \in DOMAIN list, list[i] # first
            PROVE  list[i] \in {rest[k] : k \in DOMAIN rest}
        <4>1. i - 1 \in DOMAIN rest /\ rest[i - 1] = list[i]
          BY <2>1, <2>2, <3>2
        <4> QED BY <4>1
      <3> QED BY <3>1, <3>2
    <2>8. /\ waiting'[c] = rest /\ \A d \in Conds : d # c => waiting'[d] = waiting[d]
          /\ sema'[first] # 0 /\ \A u \in Client : u # first => sema'[u] = sema[u]
      BY <1>0, <2>1, <2>3, <2>5 DEF Pending
    <2>9. ~Pending(first)' /\ \A u \in Client : u # first => (Pending(u)' <=> Pending(u))
      BY <2>1, <2>8 DEF Pending
    <2>10. \A u : u \in Listed(c)' <=> (u \in Listed(c) /\ u # first)
      BY <2>7, <2>8 DEF Listed, list
    <2>11. ListsExact'
      <3> SUFFICES ASSUME NEW d \in Conds
                   PROVE  /\ \A i, j \in DOMAIN waiting'[d] : waiting'[d][i] = waiting'[d][j] => i = j
                          /\ \A u \in Client : u \in Listed(d)' <=> (Pending(u)' /\ CondOf(u) = d)
        BY DEF ListsExact, CondOf
      <3>1. CASE d = c
        BY <2>1, <2>6, <2>8, <2>9, <2>10, <3>1 DEF ListsExact
      <3>2. CASE d # c
        <4>1. Listed(d)' = Listed(d)
          BY <2>8, <3>2 DEF Listed
        <4> QED BY <2>5, <2>8, <2>9, <3>2, <4>1 DEF ListsExact
      <3> QED BY <3>1, <3>2
    <2> QED BY <2>1, <2>5, <2>9, <2>11
  <1> QED BY <1>1, <1>2

(* cond_broadcast() marks them all.                                        *)
LEMMA BroadcastStrand ==
  ASSUME RWInv, ListsExact, NEW c \in Conds, CondBroadcast(c), UNCHANGED reader,
         \A u \in Client : pc'[u] \in Queued <=> pc[u] \in Queued
  PROVE  /\ ListsExact'
         /\ \A u \in Client : Pending(u)' <=> (Pending(u) /\ CondOf(u) # c)
  <1>0. waiting \in [Conds -> Seq(Client)] /\ sema \in [Client -> Nat]
    BY DEF RWInv, TypeOK
  <1>1. /\ waiting'[c] = << >> /\ \A d \in Conds : d # c => waiting'[d] = waiting[d]
        /\ \A u \in Client : sema'[u] = IF u \in Listed(c) THEN sema[u] + 1 ELSE sema[u]
    BY <1>0 DEF CondBroadcast
  <1>2. \A u \in Client : Pending(u)' <=> (Pending(u) /\ CondOf(u) # c)
    BY <1>0, <1>1 DEF Pending, ListsExact
  <1>3. \A d \in Conds : d # c => Listed(d)' = Listed(d)
    BY <1>1 DEF Listed
  <1>4. Listed(c)' = {}
    BY <1>1 DEF Listed
  <1>5. ListsExact'
    BY <1>1, <1>2, <1>3, <1>4 DEF ListsExact, CondOf
  <1> QED BY <1>2, <1>5

LEMMA WaitStrand ==
  ASSUME RWInv, StrandInv, NEW t \in Client, Wait(t) PROVE StrandInv'
  <1> USE DEF Wait, At
  <1>1. pc'[t] = "unlock_wait" /\ \A u \in Client : u # t => pc'[u] = pc[u]
    BY DEF RWInv, TypeOK, Goto
  <1>2. MustWait(t) /\ reader[t] \in BOOLEAN
    BY DEF StrandInv, WaitHolds, RWInv, TypeOK
  <1>3. WaitHolds'
    <2>1. \A u \in Client : u # t => pc[u] \notin Guarded
      BY Alone DEF RWInv, GuardHeld, Guarded
    <2> QED BY <1>1, <2>1 DEF WaitHolds, Guarded
  <1> DEFINE c == CondOf(t)
             list == waiting[c]
             longer == Append(list, t)
  <1>4. /\ c \in Conds /\ waiting \in [Conds -> Seq(Client)] /\ sema \in [Client -> Nat]
        /\ list \in Seq(Client)
    BY RWLockAssumption DEF RWInv, TypeOK, CondOf
  <1>5. /\ Len(list) \in Nat /\ DOMAIN list = 1..Len(list)
        /\ DOMAIN longer = 1..(Len(list) + 1) /\ longer[Len(list) + 1] = t
        /\ \A i \in 1..Len(list) : longer[i] = list[i]
    BY <1>4
  <1>6. waiting' = [waiting EXCEPT ![c] = longer] /\ sema' = [sema EXCEPT ![t] = 0]
    BY DEF CondEnqueue
  <1> HIDE DEF longer
  <1>7. /\ waiting'[c] = longer /\ \A d \in Conds : d # c => waiting'[d] = waiting[d]
        /\ sema'[t] = 0 /\ \A u \in Client : u # t => sema'[u] = sema[u]
    BY <1>4, <1>6
  <1>8. /\ Pending(t)' /\ ~Pending(t)
        /\ \A u \in Client : u # t => (Pending(u)' <=> Pending(u))
    BY <1>1, <1>7 DEF Pending, Queued
  <1>9. ListsExact'
    <2> SUFFICES ASSUME NEW d \in Conds
                 PROVE  /\ \A i, j \in DOMAIN waiting'[d] : waiting'[d][i] = waiting'[d][j] => i = j
                        /\ \A u \in Client : u \in Listed(d)' <=> (Pending(u)' /\ CondOf(u) = d)
      BY DEF ListsExact, CondOf
    <2>1. CASE d # c
      <3>1. waiting'[d] = waiting[d] /\ Listed(d)' = Listed(d)
        BY <1>7, <2>1 DEF Listed
      <3> QED BY <1>8, <2>1, <3>1 DEF StrandInv, ListsExact
    <2>2. CASE d = c
      <3>1. /\ \A i, j \in DOMAIN list : list[i] = list[j] => i = j
            /\ \A u \in Client : u \in {list[i] : i \in DOMAIN list} <=> (Pending(u) /\ CondOf(u) = d)
        BY <2>2 DEF StrandInv, ListsExact, Listed
      <3> HIDE DEF list, c
      <3>2. \A i \in DOMAIN list : list[i] # t
        BY <1>8, <3>1
      <3>3. \A i, j \in DOMAIN longer : longer[i] = longer[j] => i = j
        BY <1>5, <3>1, <3>2
      <3>4. \A u : u \in {longer[i] : i \in DOMAIN longer}
                   <=> u = t \/ u \in {list[i] : i \in DOMAIN list}
        BY <1>5
      <3>5. \A u : u \in Listed(d)' <=> u = t \/ u \in {list[i] : i \in DOMAIN list}
        BY <1>7, <2>2, <3>4 DEF Listed
      <3> QED BY <1>7, <1>8, <2>2, <3>1, <3>3, <3>5 DEF c
    <2> QED BY <2>1, <2>2
  <1>10. WritersWaitForSomeone'
    <2> SUFFICES ASSUME NEW w \in Client, Pending(w)', ~reader[w]
                 PROVE  \E u \in Client : pc'[u] \in Inside \/ Looking(u)'
      BY DEF WritersWaitForSomeone
    <2>1. PICK u \in Client : u # t /\ (pc[u] \in Inside \/ Looking(u))
      <3>1. CASE ~reader[t]
        BY <1>2, <3>1, SomeoneToWaitFor DEF Inside
      <3>2. CASE reader[t]
        BY <1>8, <3>2 DEF StrandInv, WritersWaitForSomeone, Looking, Inside
      <3> QED BY <1>2, <3>1, <3>2
    <2> QED BY <1>1, <1>8, <2>1 DEF Looking
  <1>11. ReadersWaitForAWriter'
    <2> SUFFICES ASSUME NEW r \in Client, Pending(r)', reader[r]
                 PROVE  \E u \in Client : OnItsWay(u)'
      BY DEF ReadersWaitForAWriter
    <2>1. PICK u \in Client : OnItsWay(u)
      BY <1>2, <1>8, SomeoneToWaitFor DEF StrandInv, ReadersWaitForAWriter
    <2> QED BY <1>1, <2>1 DEF OnItsWay, Asleep
  <1> QED BY <1>3, <1>9, <1>10, <1>11 DEF StrandInv

LEMMA WaitSleepStrand ==
  ASSUME RWInv, StrandInv, NEW t \in Client, WaitSleep(t) PROVE StrandInv'
  <1> USE DEF WaitSleep, At, CondWoken
  <1>1. pc'[t] = "reacq" /\ \A u \in Client : u # t => pc'[u] = pc[u] /\ sema'[u] = sema[u]
    BY DEF RWInv, TypeOK, Goto
  <1>2. ~Pending(t) /\ \A u \in Client : Pending(u)' <=> Pending(u)
    BY <1>1 DEF Pending, Queued, RWInv, TypeOK
  <1>3. ListsExact'
    BY <1>2 DEF StrandInv, ListsExact, Listed, CondOf
  <1>4. WaitHolds'
    BY <1>1 DEF StrandInv, WaitHolds, MustWait, counts
  <1>5. WritersWaitForSomeone'
    BY <1>1, <1>2 DEF StrandInv, WritersWaitForSomeone, Looking, Inside, Asleep
  <1>6. ReadersWaitForAWriter'
    BY <1>1, <1>2 DEF StrandInv, ReadersWaitForAWriter, OnItsWay, Inside, Asleep
  <1> QED BY <1>3, <1>4, <1>5, <1>6 DEF StrandInv

LEMMA CallStrand ==
  ASSUME RWInv, StrandInv, NEW t \in Client, NEW r \in BOOLEAN, Call(t, r) PROVE StrandInv'
  <1> USE DEF Call, At
  <1>1. /\ pc'[t] = "acq"
        /\ \A u \in Client : u # t => pc'[u] = pc[u] /\ reader'[u] = reader[u]
    BY DEF RWInv, TypeOK, Goto
  <1>2. ~Pending(t) /\ ~Pending(t)' /\ \A u \in Client : Pending(u)' <=> Pending(u)
    BY <1>1 DEF Pending, Queued
  <1>3. ListsExact'
    BY <1>1, <1>2 DEF StrandInv, ListsExact, Listed, CondOf
  <1>4. WaitHolds'
    BY <1>1 DEF StrandInv, WaitHolds, MustWait, counts
  <1>5. WritersWaitForSomeone'
    BY <1>1, <1>2 DEF StrandInv, WritersWaitForSomeone, Looking, Inside, Asleep
  <1>6. ReadersWaitForAWriter'
    BY <1>1, <1>2 DEF StrandInv, ReadersWaitForAWriter, OnItsWay, Inside, Asleep
  <1> QED BY <1>3, <1>4, <1>5, <1>6 DEF StrandInv

(* What a thread that leaves finds: it is alone with the guard lock, and   *)
(* the counters tell it whether anybody waits.                             *)
LEMMA LeaveFacts ==
  ASSUME RWInv, StrandInv, NEW t \in Client, pc[t] = "leave", Goto(t, "unlock_out")
  PROVE  /\ pc'[t] = "unlock_out" /\ \A u \in Client : u # t => pc'[u] = pc[u]
         /\ \A u \in Client : pc'[u] \in Queued <=> pc[u] \in Queued
         /\ WaitHolds'
         /\ WW \in Nat /\ WR \in Nat /\ Conds = {"read", "write"} /\ ListsExact
         /\ (\E w \in Client : Pending(w) /\ ~reader[w]) => WW > 0
         /\ (\E r \in Client : Pending(r) /\ reader[r]) => WR > 0
         /\ WW > 0 => \E u \in Client : ~reader[u] /\ pc[u] \in Asleep
  <1>1. pc'[t] = "unlock_out" /\ \A u \in Client : u # t => pc'[u] = pc[u]
    BY DEF RWInv, TypeOK, Goto
  <1>2. WaitHolds'
    <2>1. \A u \in Client : u # t => pc[u] \notin Guarded
      BY Alone DEF RWInv, GuardHeld, Guarded
    <2> QED BY <1>1, <2>1 DEF WaitHolds, Guarded
  <1>3. \A u \in Client : pc'[u] \in Queued <=> pc[u] \in Queued
    BY <1>1 DEF Queued
  <1>4. WW \in Nat /\ WR \in Nat /\ Conds = {"read", "write"} /\ ListsExact
    BY RWLockAssumption DEF RWInv, TypeOK, StrandInv
  <1>5. (WW = 0 => WaitingWriters = {}) /\ (WR = 0 => WaitingReaders = {})
    BY Finite, CountZero DEF RWInv, CountsExact
  <1>6. WW # 0 => WaitingWriters # {}
    BY FS_EmptySet DEF RWInv, CountsExact
  <1>7. /\ (\E w \in Client : Pending(w) /\ ~reader[w]) => WaitingWriters # {}
        /\ (\E r \in Client : Pending(r) /\ reader[r]) => WaitingReaders # {}
    BY DEF WaitingWriters, WaitingReaders, Pending, Queued, Asleep
  <1>8. WaitingWriters # {} => \E u \in Client : ~reader[u] /\ pc[u] \in Asleep
    BY DEF WaitingWriters
  <1> QED BY <1>1, <1>2, <1>3, <1>4, <1>5, <1>6, <1>7, <1>8

(* cond_signal() of the writers' condition leaves a writer looking.        *)
LEMMA SignalWriters ==
  ASSUME RWInv, StrandInv, NEW t \in Client, pc[t] = "leave", Goto(t, "unlock_out"),
         CondSignal("write"), UNCHANGED reader
  PROVE  ListsExact' /\ WritersWaitForSomeone' /\ \A u \in Client : Pending(u)' => Pending(u)
  <1>1. /\ \A u \in Client : u # t => pc'[u] = pc[u]
        /\ \A u \in Client : pc'[u] \in Queued <=> pc[u] \in Queued
        /\ "write" \in Conds /\ ListsExact
    BY LeaveFacts
  <1>2. /\ ListsExact' /\ \A u \in Client : Pending(u)' => Pending(u)
        /\ (\E u \in Client : Pending(u) /\ CondOf(u) = "write")
             => \E u \in Client : Pending(u) /\ CondOf(u) = "write" /\ ~Pending(u)'
    BY <1>1, SignalStrand
  <1>3. ASSUME NEW w \in Client, Pending(w)', ~reader[w]
        PROVE  \E u \in Client : Looking(u)'
    <2>1. PICK u \in Client : Pending(u) /\ CondOf(u) = "write" /\ ~Pending(u)'
      BY <1>2, <1>3 DEF CondOf
    <2>2. u # t /\ ~reader[u] /\ pc[u] \in Asleep
      BY <2>1 DEF Pending, Queued, Asleep, CondOf
    <2> QED BY <1>1, <2>1, <2>2 DEF Looking
  <1> QED BY <1>2, <1>3 DEF WritersWaitForSomeone

LEMMA LeaveReaderStrand ==
  ASSUME RWInv, StrandInv, NEW t \in Client, LeaveReader(t) PROVE StrandInv'
  <1> USE DEF LeaveReader, At
  <1>1. /\ pc'[t] = "unlock_out" /\ \A u \in Client : u # t => pc'[u] = pc[u]
        /\ \A u \in Client : pc'[u] \in Queued <=> pc[u] \in Queued
        /\ WaitHolds' /\ WW \in Nat
        /\ (\E w \in Client : Pending(w) /\ ~reader[w]) => WW > 0
    BY LeaveFacts
  <1>2. ListsExact' /\ WritersWaitForSomeone' /\ \A u \in Client : Pending(u)' => Pending(u)
    <2>1. CASE AR' = 0 /\ WW > 0
      BY <2>1, SignalWriters
    <2>2. CASE ~(AR' = 0 /\ WW > 0)
      <3>1. UNCHANGED <<waiting, sema, reader>>
        BY <2>2
      <3>2. \A u \in Client : Pending(u)' <=> Pending(u)
        BY <1>1, <3>1 DEF Pending
      <3>3. ListsExact'
        BY <3>1, <3>2 DEF StrandInv, ListsExact, Listed, CondOf
      <3>4. ASSUME NEW w \in Client, Pending(w)', ~reader[w]
            PROVE  \E u \in Client : pc'[u] \in Inside
        <4>1. AR' # 0 /\ RWInv'
          BY <1>1, <2>2, <3>2, <3>4, LeaveReaderInv
        <4>2. Readers' # {}
          BY <4>1, FS_EmptySet DEF RWInv, CountsExact
        <4> QED BY <4>2 DEF Readers
      <3> QED BY <3>1, <3>2, <3>3, <3>4 DEF WritersWaitForSomeone
    <2> QED BY <2>1, <2>2
  <1>3. ReadersWaitForAWriter'
    BY <1>1, <1>2 DEF StrandInv, ReadersWaitForAWriter, OnItsWay
  <1> QED BY <1>1, <1>2, <1>3 DEF StrandInv

LEMMA LeaveWriterStrand ==
  ASSUME RWInv, StrandInv, NEW t \in Client, LeaveWriter(t) PROVE StrandInv'
  <1> USE DEF LeaveWriter, At
  <1>1. /\ pc'[t] = "unlock_out" /\ \A u \in Client : u # t => pc'[u] = pc[u]
        /\ \A u \in Client : pc'[u] \in Queued <=> pc[u] \in Queued
        /\ WaitHolds' /\ WW \in Nat /\ WR \in Nat /\ "read" \in Conds /\ ListsExact
        /\ (\E w \in Client : Pending(w) /\ ~reader[w]) => WW > 0
        /\ (\E r \in Client : Pending(r) /\ reader[r]) => WR > 0
        /\ WW > 0 => \E u \in Client : ~reader[u] /\ pc[u] \in Asleep
    BY LeaveFacts
  <1>2. CASE WW > 0
    <2>1. ListsExact' /\ WritersWaitForSomeone'
      BY <1>2, SignalWriters
    <2>2. PICK u \in Client : ~reader[u] /\ pc[u] \in Asleep
      BY <1>1, <1>2
    <2>3. OnItsWay(u)'
      BY <1>1, <2>2 DEF OnItsWay, Asleep
    <2>4. ReadersWaitForAWriter'
      BY <2>3 DEF ReadersWaitForAWriter
    <2> QED BY <1>1, <2>1, <2>4 DEF StrandInv
  <1>3. CASE ~(WW > 0) /\ WR > 0
    <2>1. CondBroadcast("read")
      BY <1>3
    <2>2. ListsExact' /\ \A u \in Client : Pending(u)' <=> (Pending(u) /\ CondOf(u) # "read")
      BY <1>1, <2>1, BroadcastStrand
    <2>3. WritersWaitForSomeone' /\ ReadersWaitForAWriter'
      BY <1>1, <1>3, <2>2 DEF WritersWaitForSomeone, ReadersWaitForAWriter, CondOf
    <2> QED BY <1>1, <2>2, <2>3 DEF StrandInv
  <1>4. CASE ~(WW > 0) /\ ~(WR > 0)
    <2>1. UNCHANGED <<waiting, sema, reader>>
      BY <1>4
    <2>2. \A u \in Client : Pending(u)' <=> Pending(u)
      BY <1>1, <2>1 DEF Pending
    <2>3. ListsExact'
      BY <1>1, <2>1, <2>2 DEF ListsExact, Listed, CondOf
    <2>4. WritersWaitForSomeone' /\ ReadersWaitForAWriter'
      BY <1>1, <1>4, <2>1, <2>2 DEF WritersWaitForSomeone, ReadersWaitForAWriter
    <2> QED BY <1>1, <2>3, <2>4 DEF StrandInv
  <1> QED BY <1>2, <1>3, <1>4

(* Every step keeps the second invariant.                                  *)
LEMMA StepStrand ==
  ASSUME RWInv, StrandInv, [Next]_vars PROVE StrandInv'
  <1>1. ASSUME NEW t \in Client, Step(t) PROVE StrandInv'
    <2>1. ASSUME NEW to \in Label, Goto(t, to), to # "wait",
                 pc[t] \in Guarded \/ owner[Guard] = Nobody
          PROVE  WaitHolds'
      <3>1. pc'[t] = to /\ \A u \in Client : u # t => pc'[u] = pc[u]
        BY <2>1 DEF RWInv, TypeOK, Goto
      <3>2. \A u \in Client : u # t => pc[u] # "wait"
        BY <2>1, Alone, RWLockAssumption DEF RWInv, GuardHeld, Guarded
      <3> QED BY <2>1, <3>1, <3>2 DEF WaitHolds
    <2>2. ASSUME NEW from, NEW to, LockGuard(t, from, to),
                 <<from, to>> \in {<<"acq", "test">>, <<"reacq", "woke">>, <<"rel", "leave">>}
          PROVE  StrandInv'
      <3>1. to \in Label /\ to # "wait" /\ pc[t] # "wait" /\ owner[Guard] = Nobody
        BY <2>2 DEF Label, LockGuard, Acquire, At
      <3>2. WaitHolds'
        BY <2>1, <2>2, <3>1 DEF LockGuard
      <3>3. ListsExact' /\ WritersWaitForSomeone' /\ ReadersWaitForAWriter'
        BY <2>2, <3>1, OnwardStrand DEF LockGuard, At, Queued, Inside, Asleep
      <3> QED BY <3>2, <3>3 DEF StrandInv
    <2>3. ASSUME NEW from, NEW to, UnlockGuard(t, from, to),
                 <<from, to>> \in {<<"unlock_in", "in">>, <<"unlock_wait", "sleep">>,
                                  <<"unlock_out", "out">>}
          PROVE  StrandInv'
      <3>1. to \in Label /\ to # "wait" /\ pc[t] # "wait" /\ pc[t] \in Guarded
        BY <2>3 DEF Label, UnlockGuard, At, Guarded
      <3>2. WaitHolds'
        BY <2>1, <2>3, <3>1 DEF UnlockGuard
      <3>3. ListsExact' /\ WritersWaitForSomeone' /\ ReadersWaitForAWriter'
        BY <2>3, <3>1, OnwardStrand DEF UnlockGuard, At, Queued, Inside, Asleep
      <3> QED BY <3>2, <3>3 DEF StrandInv
    <2>4. CASE AcquireLock(t) \/ WaitLock(t) \/ ReleaseLock(t)
      BY <2>2, <2>4 DEF AcquireLock, WaitLock, ReleaseLock
    <2>5. CASE AcquireReturns(t) \/ WaitUnlock(t) \/ ReleaseReturns(t)
      BY <2>3, <2>5 DEF AcquireReturns, WaitUnlock, ReleaseReturns
    <2>6. CASE Test(t)
      <3> USE <2>6 DEF Test, At
      <3>1. PICK to \in {"wait", "grant"} :
              Goto(t, to) /\ (to = "wait" => MustWait(t))
        OBVIOUS
      <3>2. MustWait(t)' = MustWait(t)
        BY DEF MustWait, counts
      <3>3. pc'[t] = to /\ \A u \in Client : u # t => pc'[u] = pc[u]
        BY <3>1 DEF RWInv, TypeOK, Goto
      <3>4. \A u \in Client : u # t => pc[u] # "wait"
        BY Alone DEF RWInv, GuardHeld, Guarded
      <3>5. WaitHolds'
        BY <3>1, <3>2, <3>3, <3>4 DEF WaitHolds
      <3>6. ListsExact' /\ WritersWaitForSomeone' /\ ReadersWaitForAWriter'
        BY <3>1, OnwardStrand DEF Queued, Inside, Asleep, Label
      <3> QED BY <3>5, <3>6 DEF StrandInv
    <2>7. CASE Grant(t) \/ WaitReturns(t)
      <3>1. PICK to \in {"unlock_in", "test"} :
              Goto(t, to) /\ <<pc[t], to>> \in {<<"grant", "unlock_in">>, <<"woke", "test">>}
        BY <2>7 DEF Grant, WaitReturns, At
      <3>2. UNCHANGED <<waiting, sema, reader>>
        BY <2>7 DEF Grant, WaitReturns
      <3>3. WaitHolds'
        BY <2>1, <3>1 DEF Guarded, Label
      <3>4. ListsExact' /\ WritersWaitForSomeone' /\ ReadersWaitForAWriter'
        BY <3>1, <3>2, OnwardStrand DEF Queued, Inside, Asleep, Label
      <3> QED BY <3>3, <3>4 DEF StrandInv
    <2>8. CASE Wait(t) \/ WaitSleep(t) \/ LeaveReader(t) \/ LeaveWriter(t)
      BY <2>8, WaitStrand, WaitSleepStrand, LeaveReaderStrand, LeaveWriterStrand
    <2> QED BY <1>1, <2>4, <2>5, <2>6, <2>7, <2>8 DEF Step
  <1>2. ASSUME NEW t \in Client, CallRelease(t) PROVE StrandInv'
    <2> USE <1>2 DEF CallRelease, At
    <2>1. pc'[t] = "rel" /\ \A u \in Client : u # t => pc'[u] = pc[u]
      BY DEF RWInv, TypeOK, Goto
    <2>2. WaitHolds'
      BY <2>1 DEF StrandInv, WaitHolds, MustWait, counts
    <2>3. ListsExact' /\ WritersWaitForSomeone' /\ ReadersWaitForAWriter'
      BY OnwardStrand DEF Queued, Inside, Asleep, Label
    <2> QED BY <2>2, <2>3 DEF StrandInv
  <1>3. CASE UNCHANGED vars
    BY <1>3 DEF vars, StrandInv, ListsExact, Listed, WaitHolds, MustWait, CondOf,
      WritersWaitForSomeone, ReadersWaitForAWriter, Pending, Looking, OnItsWay
  <1> QED BY <1>1, <1>2, <1>3, CallStrand DEF Next

(* While a thread sleeps in cond_wait() without a signal, another one is   *)
(* inside, in the middle of a call, or signalled, for any set of threads.  *)
THEOREM RWLockStrandsNobody == Spec => []NobodyStranded
  <1>1. StrandInv => NobodyStranded
    <2> SUFFICES ASSUME StrandInv, NEW t \in Client, Unsignalled(t)
                 PROVE  \E u \in Client : pc[u] \notin {"out", "acq"} /\ ~Unsignalled(u)
      BY DEF NobodyStranded
    <2>1. ASSUME NEW w \in Client, Pending(w), ~reader[w]
          PROVE  \E u \in Client : pc[u] \notin {"out", "acq"} /\ ~Unsignalled(u)
      BY <2>1 DEF StrandInv, WritersWaitForSomeone, Looking, Inside, Asleep, Unsignalled,
        Pending, Queued
    <2>2. CASE ~reader[t]
      BY <2>1, <2>2 DEF Pending, Queued, Unsignalled
    <2>3. CASE reader[t]
      <3>1. PICK u \in Client : OnItsWay(u)
        BY <2>3 DEF StrandInv, ReadersWaitForAWriter, Pending, Queued, Unsignalled
      <3>2. CASE Unsignalled(u)
        BY <2>1, <3>1, <3>2 DEF OnItsWay, Pending, Queued, Unsignalled
      <3>3. CASE ~Unsignalled(u)
        BY <3>1, <3>3 DEF OnItsWay, Inside, Asleep
      <3> QED BY <3>2, <3>3
    <2> QED BY <2>2, <2>3
  <1>2. RWInv /\ StrandInv /\ [Next]_vars => StrandInv'
    BY StepStrand
  <1> QED BY InitStrand, RWLockInvariant, <1>1, <1>2, PTL DEF Spec
=============================================================================
