---------------------------- MODULE ConsoleProofs ----------------------------
(***************************************************************************)
(* Proofs about Console, for any number of printing threads, bytes and     *)
(* keys, and queues of any size.  ConsoleInv is inductive.  It says more   *)
(* than the invariants of the run: what holds while the machine boots,     *)
(* after a panic, and while a byte is polled out, and that a thread which  *)
(* sleeps in txq holds the queue's lock and the console.                   *)
(***************************************************************************)
EXTENDS Console, SequenceTheorems, TLAPS

PcType == {"out", "locking", "waiting", "woken"}
Spinning == [byte : Byte, then : Byte \cup {NULL}]

(* The values every variable takes.                                        *)
ConsoleTypeOK ==
  /\ mode \in {"UNINIT", "POLL", "QUEUE"}
  /\ use_console_lock \in BOOLEAN
  /\ console_owner \in Printer \cup {NULL} /\ console_lock_depth \in Nat
  /\ calls \in [Printer -> Nat] /\ left \in [Printer -> Nat] /\ off \in [Printer -> BOOLEAN]
  /\ panic \in BOOLEAN
  /\ cpu \in Printer \cup {NULL} \cup Routine
  /\ spin \in Spinning \cup {NULL}
  /\ thr \in Byte \cup {NULL} /\ rbr \in Key \cup {NULL}
  /\ ier \in [xmit : BOOLEAN, recv : BOOLEAN] /\ pend \in BOOLEAN
  /\ txq \in Tx!Rings /\ txowner \in Printer \cup {NULL} /\ not_full \in Printer \cup {NULL}
  /\ txpc \in [Printer -> PcType] /\ txbyte \in [Printer -> Byte \cup {NULL}] /\ txpanic \in BOOLEAN
  /\ buffer \in In!Rings /\ inowner \in Reader \cup {NULL} /\ not_empty \in Reader \cup {NULL}
  /\ inpc \in [Reader -> PcType] /\ inbyte \in [Reader -> Key \cup {NULL}] /\ inpanic \in BOOLEAN
  /\ nobody = NULL

(* Until the queues are used only the thread that boots prints, by         *)
(* polling; the console lock is in use from then on until a panic.         *)
Boot ==
  /\ use_console_lock => ~panic
  /\ (mode = "QUEUE" /\ ~panic) => use_console_lock
  /\ (~use_console_lock /\ ~panic) => console_owner = NULL /\ console_lock_depth = 0
  /\ mode # "QUEUE" =>
       /\ TxEmpty /\ ~ier.xmit
       /\ \A t \in Printer : (t # Main => calls[t] = 0) /\ txpc[t] = "out"
       /\ cpu \notin {"print", "recv", "xmit"}
       /\ spin # NULL => cpu \in Printer /\ spin.then = NULL

(* After a panic the panicking thread keeps the processor until it has     *)
(* printed and flushed.                                                    *)
Panicking ==
  panic => /\ cpu \in Printer \cup {"flush", "halt"}
           /\ cpu \in Printer => txpc[cpu] = "out" /\ (calls[cpu] > 0 => off[cpu])

(* Who polls runs with interrupts off, and has room for the byte that is   *)
(* to be queued next.                                                      *)
Polling ==
  spin # NULL =>
    /\ cpu \in Printer \cup {"print", "flush"}
    /\ cpu \in Printer => calls[cpu] > 0 /\ left[cpu] > 0 /\ txpc[cpu] = "out"
    /\ spin.then # NULL => mode = "QUEUE" /\ cpu # "flush" /\ ~TxFull
    /\ (spin.then = NULL /\ mode = "QUEUE") => cpu = "flush"

(* A thread that prints with interrupts off has the processor.             *)
Masked == \A t \in Printer : off[t] => cpu = t /\ calls[t] > 0

(* A thread asleep in intq_putc() holds the lock of txq, is in a call that *)
(* prints, and is its registered waiter until it is woken.                 *)
TxSleepers ==
  /\ ~txpanic
  /\ \A t \in Printer :
       /\ txpc[t] # "locking"
       /\ txpc[t] # "out" => calls[t] > 0 /\ left[t] > 0 /\ txowner = t /\ txbyte[t] \in Byte
       /\ txowner = t => txpc[t] # "out"
       /\ txpc[t] = "waiting" => not_full = t /\ TxFull
       /\ not_full = t => txpc[t] = "waiting"

(* Except within serial_interrupt() and while a byte is polled out, the    *)
(* IER says just what the queues ask for, and the transmit interrupt of an *)
(* empty THR is latched.                                                   *)
Armed ==
  (mode = "QUEUE" /\ spin = NULL /\ cpu \notin {"recv", "xmit", "flush", "halt"}) =>
    /\ ier.xmit = ~TxEmpty
    /\ ier.xmit => thr # NULL \/ pend
    /\ ier.recv = ~input_full

(* The inductive invariant.                                                *)
ConsoleInv == /\ ConsoleTypeOK /\ Boot /\ LinesWhole /\ Panicking /\ Polling
              /\ Masked /\ TxSleepers /\ Armed

(* What is known of the input queue when one thread reads it.              *)
InSleepers ==
  /\ ~inpanic
  /\ \A r \in Reader :
       /\ inpc[r] # "locking"
       /\ inpc[r] # "out" => inowner = r
       /\ inowner = r => inpc[r] # "out"
       /\ inpc[r] = "waiting" => not_empty = r /\ In!IntqEmpty(buffer)
       /\ not_empty = r => inpc[r] = "waiting"

-----------------------------------------------------------------------------
(* The ring of intq.c: arithmetic modulo its size, and what the two        *)
(* operations do to its contents.                                          *)
LEMMA Wrap ==
  ASSUME NEW n \in Nat, n > 0, NEW a \in Nat, a < 2 * n
  PROVE  a % n = (IF a < n THEN a ELSE a - n)
  <1>1. CASE a < n
    <2>1. a = n * 0 + a
      BY <1>1
    <2> QED BY <1>1, <2>1, SMT
  <1>2. CASE a >= n
    <2>1. a = n * 1 + (a - n)
      BY <1>2
    <2> QED BY <1>2, <2>1, SMT
  <1> QED BY <1>1, <1>2

(* next() stays in the ring.                                               *)
LEMMA TxNextPos ==
  ASSUME NEW c \in Tx!Cell
  PROVE  /\ Tx!NextPos(c) \in Tx!Cell
         /\ Tx!NextPos(c) = IF c + 1 = TXQ_SIZE THEN 0 ELSE c + 1
  <1>1. PICK a \in Nat : a = c + 1 /\ a < 2 * TXQ_SIZE /\ a <= TXQ_SIZE /\ TXQ_SIZE \in Nat /\ TXQ_SIZE > 1
    BY ConsoleAssumption DEF Tx!Cell
  <1>2. a % TXQ_SIZE = (IF a < TXQ_SIZE THEN a ELSE a - TXQ_SIZE)
    BY <1>1, Wrap
  <1> QED BY <1>1, <1>2 DEF Tx!Cell, Tx!NextPos

LEMMA InNextPos ==
  ASSUME NEW c \in In!Cell
  PROVE  In!NextPos(c) \in In!Cell
  BY ConsoleAssumption, Wrap DEF In!Cell, In!NextPos

(* Putting and dropping a byte keep a ring a ring.                         *)
LEMMA TxRings ==
  ASSUME NEW r \in Tx!Rings, NEW b \in Byte
  PROVE  /\ Tx!PutByte(r, b) \in Tx!Rings /\ Tx!DropByte(r) \in Tx!Rings /\ Tx!FirstByte(r) \in Byte
         /\ Tx!PutByte(r, b) = [buf |-> [r.buf EXCEPT ![r.head] = b], head |-> Tx!NextPos(r.head), tail |-> r.tail]
         /\ Tx!DropByte(r) = [buf |-> r.buf, head |-> r.head, tail |-> Tx!NextPos(r.tail)]
  <1>1. /\ r.buf \in [Tx!Cell -> Byte] /\ r.head \in Tx!Cell /\ r.tail \in Tx!Cell
        /\ r = [buf |-> r.buf, head |-> r.head, tail |-> r.tail]
    BY DEF Tx!Rings
  <1>2. /\ Tx!NextPos(r.head) \in Tx!Cell /\ Tx!NextPos(r.tail) \in Tx!Cell
        /\ [r.buf EXCEPT ![r.head] = b] \in [Tx!Cell -> Byte]
    BY <1>1, TxNextPos
  <1>3. Tx!PutByte(r, b) = [buf |-> [r.buf EXCEPT ![r.head] = b], head |-> Tx!NextPos(r.head), tail |-> r.tail]
    <2>1. PICK s : s = [r EXCEPT !.buf[r.head] = b]
      OBVIOUS
    <2>2. s = [buf |-> [r.buf EXCEPT ![r.head] = b], head |-> r.head, tail |-> r.tail]
      BY <1>1, <2>1
    <2>3. Tx!PutByte(r, b) = [s EXCEPT !.head = Tx!NextPos(r.head)]
      BY <2>1 DEF Tx!PutByte
    <2> QED BY <2>2, <2>3
  <1>4. Tx!DropByte(r) = [buf |-> r.buf, head |-> r.head, tail |-> Tx!NextPos(r.tail)]
    BY <1>1 DEF Tx!DropByte
  <1>5. Tx!FirstByte(r) \in Byte
    BY <1>1 DEF Tx!FirstByte
  <1> QED BY <1>1, <1>2, <1>3, <1>4, <1>5 DEF Tx!Rings

LEMMA InRings ==
  ASSUME NEW r \in In!Rings
  PROVE  /\ \A k \in Key : In!PutByte(r, k) \in In!Rings
         /\ In!DropByte(r) \in In!Rings
  BY InNextPos DEF In!Rings, In!PutByte, In!DropByte

(* A ring that is full is not empty.  A ring with a byte dropped is not    *)
(* full, and one with a byte put is not empty.                             *)
LEMMA TxFlags ==
  ASSUME NEW r \in Tx!Rings, NEW b \in Byte
  PROVE  /\ Tx!IntqFull(r) => ~Tx!IntqEmpty(r)
         /\ ~Tx!IntqFull(r) => ~Tx!IntqEmpty(Tx!PutByte(r, b))
         /\ ~Tx!IntqEmpty(r) => ~Tx!IntqFull(Tx!DropByte(r))
  <1>1. r.head \in Tx!Cell /\ r.tail \in Tx!Cell
    BY DEF Tx!Rings
  <1>2. /\ Tx!NextPos(r.head) = IF r.head + 1 = TXQ_SIZE THEN 0 ELSE r.head + 1
        /\ Tx!NextPos(r.tail) = IF r.tail + 1 = TXQ_SIZE THEN 0 ELSE r.tail + 1
    BY <1>1, TxNextPos
  <1>3. /\ Tx!PutByte(r, b).head = Tx!NextPos(r.head) /\ Tx!PutByte(r, b).tail = r.tail
        /\ Tx!DropByte(r).head = r.head /\ Tx!DropByte(r).tail = Tx!NextPos(r.tail)
    <2>1. PICK p : p = Tx!PutByte(r, b)
      OBVIOUS
    <2>2. p = [buf |-> [r.buf EXCEPT ![r.head] = b], head |-> Tx!NextPos(r.head), tail |-> r.tail]
      BY <2>1, TxRings
    <2>3. PICK d : d = Tx!DropByte(r)
      OBVIOUS
    <2>4. d = [buf |-> r.buf, head |-> r.head, tail |-> Tx!NextPos(r.tail)]
      BY <2>3, TxRings
    <2> QED BY <2>1, <2>2, <2>3, <2>4
  <1> QED BY <1>1, <1>2, <1>3, ConsoleAssumption DEF Tx!IntqFull, Tx!IntqEmpty, Tx!Cell

(* How many bytes are in the ring.                                         *)
LEMMA TxCount ==
  ASSUME NEW r \in Tx!Rings
  PROVE  /\ Tx!Count(r) = IF r.tail <= r.head THEN r.head - r.tail ELSE r.head + TXQ_SIZE - r.tail
         /\ Tx!Count(r) \in 0..(TXQ_SIZE - 1)
         /\ Tx!IntqEmpty(r) <=> Tx!Count(r) = 0
         /\ Tx!IntqFull(r) <=> Tx!Count(r) = TXQ_SIZE - 1
  <1>1. r.head \in Tx!Cell /\ r.tail \in Tx!Cell
    BY DEF Tx!Rings
  <1>2. Tx!Count(r) = IF r.tail <= r.head THEN r.head - r.tail ELSE r.head + TXQ_SIZE - r.tail
    <2> DEFINE a == r.head + TXQ_SIZE - r.tail
    <2>1. a \in Nat /\ a < 2 * TXQ_SIZE
      BY <1>1, ConsoleAssumption DEF Tx!Cell
    <2>2. TXQ_SIZE \in Nat /\ TXQ_SIZE > 0
      BY ConsoleAssumption
    <2>3. Tx!Count(r) = a % TXQ_SIZE
      BY DEF Tx!Count
    <2> HIDE DEF a
    <2>4. a % TXQ_SIZE = (IF a < TXQ_SIZE THEN a ELSE a - TXQ_SIZE)
      BY <2>1, <2>2, Wrap
    <2> USE DEF a
    <2> QED BY <1>1, <2>2, <2>3, <2>4 DEF Tx!Cell
  <1> QED BY <1>1, <1>2, TxNextPos, ConsoleAssumption DEF Tx!IntqFull, Tx!IntqEmpty, Tx!Cell

(* Taking a byte wakes the thread that waits for room, if any.             *)
LEMMA TakeStep ==
  ASSUME ConsoleInv, ~TxEmpty, Tx!Take(txpc), UNCHANGED <<txowner, txbyte, txpanic>>,
         \A t \in Printer : txpc[t] # "out" => calls'[t] > 0 /\ left'[t] > 0
  PROVE  /\ TxSleepers' /\ ~TxFull'
         /\ txq' \in Tx!Rings /\ txpc' \in [Printer -> PcType] /\ not_full' = NULL /\ nobody' = NULL
         /\ \A t \in Printer : txpc'[t] = "out" <=> txpc[t] = "out"
  <1>1. txq \in Tx!Rings /\ txq' = Tx!DropByte(txq)
    BY DEF ConsoleInv, ConsoleTypeOK, Tx!Take
  <1>2. txq' \in Tx!Rings /\ ~TxFull'
    BY <1>1, TxRings, TxFlags, ConsoleAssumption DEF TxFull, TxEmpty
  <1>3. /\ txpc' = IF not_full = NULL THEN txpc ELSE [txpc EXCEPT ![not_full] = "woken"]
        /\ not_full' = NULL /\ nobody' = NULL
    BY DEF ConsoleInv, ConsoleTypeOK, Tx!Take, Tx!Signal
  <1>4. txpc' \in [Printer -> PcType]
    BY <1>3 DEF ConsoleInv, ConsoleTypeOK, PcType
  <1>5. \A t \in Printer : txpc'[t] = IF not_full = t THEN "woken" ELSE txpc[t]
    BY <1>3, ConsoleAssumption DEF ConsoleInv, ConsoleTypeOK
  <1> QED BY <1>2, <1>3, <1>4, <1>5, ConsoleAssumption DEF ConsoleInv, TxSleepers

(* Storing a byte wakes nobody: no thread waits for a byte of txq.         *)
LEMMA StoreStep ==
  ASSUME ConsoleInv, ~TxFull, NEW b \in Byte, Tx!Store(txpc, b), UNCHANGED <<txowner, txbyte, txpanic>>,
         \A t \in Printer : txpc[t] # "out" => calls'[t] > 0 /\ left'[t] > 0
  PROVE  /\ TxSleepers' /\ ~TxEmpty'
         /\ txq' \in Tx!Rings /\ txpc' = txpc /\ not_full' = not_full /\ nobody' = NULL
  <1>1. txq \in Tx!Rings /\ txq' = Tx!PutByte(txq, b)
    BY DEF ConsoleInv, ConsoleTypeOK, Tx!Store
  <1>2. txq' \in Tx!Rings /\ ~TxEmpty'
    BY <1>1, TxRings, TxFlags DEF TxFull, TxEmpty
  <1>3. txpc' = txpc /\ not_full' = not_full /\ nobody' = NULL
    BY DEF ConsoleInv, ConsoleTypeOK, Tx!Store, Tx!Signal
  <1> QED BY <1>2, <1>3 DEF ConsoleInv, TxSleepers

(* A write of the IER makes it agree with the queues.  The interrupt of an *)
(* empty THR is latched if it was before, or if the write enables it.      *)
LEMMA WriteIer ==
  ASSUME NEW l \in BOOLEAN, write_ier(l)
  PROVE  /\ ier' \in [xmit : BOOLEAN, recv : BOOLEAN] /\ pend' \in BOOLEAN
         /\ ier'.xmit = ~TxEmpty' /\ ier'.recv = ~input_full'
         /\ ((ier.xmit /\ ~TxEmpty' /\ thr' = NULL) => l) => (ier'.xmit => thr' # NULL \/ pend')
  <1>1. PICK x \in BOOLEAN, r \in BOOLEAN :
           /\ x = ~TxEmpty' /\ r = ~input_full'
           /\ ier' = [xmit |-> x, recv |-> r]
           /\ pend' = IF x = ier.xmit THEN l ELSE x /\ thr' = NULL
    BY Zenon DEF write_ier, SetIer, TxEmpty, input_full
  <1>2. ier' \in [xmit : BOOLEAN, recv : BOOLEAN] /\ ier'.xmit = x /\ ier'.recv = r
    BY <1>1
  <1>3. pend' \in BOOLEAN
    BY <1>1
  <1>4. ((ier.xmit /\ x /\ thr' = NULL) => l) => (x => thr' # NULL \/ pend')
    BY <1>1
  <1> QED BY <1>1, <1>2, <1>3, <1>4

(* console_init(): nobody is printing yet.                                 *)
LEMMA ConsoleInitStep ==
  ASSUME ConsoleInv, console_init
  PROVE  ConsoleInv'
  <1> USE ConsoleAssumption DEF ConsoleInv, console_init, Running, consoleVars, uartVars, txVars, inVars
  <1>1. ConsoleTypeOK'
    BY DEF ConsoleTypeOK, Routine
  <1>2. Boot'
    BY DEF Boot, TxEmpty, ConsoleTypeOK, Routine
  <1>3. LinesWhole'
    BY DEF LinesWhole, Boot, ConsoleTypeOK
  <1>4. Panicking'
    BY DEF Panicking, Polling, ConsoleTypeOK, Routine
  <1>5. Polling'
    BY DEF Polling, TxFull
  <1>6. Masked'
    BY DEF Masked, ConsoleTypeOK, Routine
  <1>7. TxSleepers'
    BY DEF TxSleepers, TxFull
  <1>8. Armed'
    BY DEF Armed, TxEmpty, input_full, ConsoleTypeOK, Routine
  <1> QED BY <1>1, <1>2, <1>3, <1>4, <1>5, <1>6, <1>7, <1>8

(* A call that prints begins: it has the console, or the machine boots.    *)
LEMMA PutLineStep ==
  ASSUME ConsoleInv, NEW t \in Printer, NEW n \in 0..MaxLine, NEW o \in BOOLEAN, PutLine(t, n, o)
  PROVE  ConsoleInv'
  <1> USE ConsoleAssumption DEF ConsoleInv, PutLine, Running, acquire_console, consoleVars, uartVars, txVars, inVars
  <1>1. ConsoleTypeOK'
    BY DEF ConsoleTypeOK, Routine
  <1>2. Boot'
    BY DEF Boot, TxEmpty, ConsoleTypeOK, Routine
  <1>3. LinesWhole'
    BY DEF LinesWhole, Boot, ConsoleTypeOK
  <1>4. Panicking'
    BY DEF Panicking, Polling, ConsoleTypeOK, Routine
  <1>5. Polling'
    BY DEF Polling, TxFull
  <1>6. Masked'
    BY DEF Masked, ConsoleTypeOK, Routine
  <1>7. TxSleepers'
    BY DEF TxSleepers, TxFull
  <1>8. Armed'
    BY DEF Armed, TxEmpty, input_full, ConsoleTypeOK, Routine
  <1> QED BY <1>1, <1>2, <1>3, <1>4, <1>5, <1>6, <1>7, <1>8

(* A nested call: the lock depth follows the nesting.                      *)
LEMMA PrintWithinStep ==
  ASSUME ConsoleInv, NEW t \in Printer, PrintWithin(t)
  PROVE  ConsoleInv'
  <1> USE ConsoleAssumption DEF ConsoleInv, PrintWithin, Running, acquire_console, consoleVars, uartVars, txVars, inVars
  <1>1. ConsoleTypeOK'
    BY DEF ConsoleTypeOK, Routine
  <1>2. Boot'
    BY DEF Boot, TxEmpty, ConsoleTypeOK, Routine
  <1>3. LinesWhole'
    BY DEF LinesWhole, Boot, ConsoleTypeOK
  <1>4. Panicking'
    BY DEF Panicking, Polling, ConsoleTypeOK, Routine
  <1>5. Polling'
    BY DEF Polling, TxFull
  <1>6. Masked'
    BY DEF Masked, ConsoleTypeOK, Routine
  <1>7. TxSleepers'
    BY DEF TxSleepers, TxFull
  <1>8. Armed'
    BY DEF Armed, TxEmpty, input_full, ConsoleTypeOK, Routine
  <1> QED BY <1>1, <1>2, <1>3, <1>4, <1>5, <1>6, <1>7, <1>8

(* A call returns; the last one gives the console back.                    *)
LEMMA PrintReturnsStep ==
  ASSUME ConsoleInv, NEW t \in Printer, PrintReturns(t)
  PROVE  ConsoleInv'
  <1> USE ConsoleAssumption DEF ConsoleInv, PrintReturns, Running, release_console, consoleVars, uartVars, txVars, inVars
  <1>1. ConsoleTypeOK'
    BY DEF ConsoleTypeOK, Routine
  <1>2. Boot'
    BY DEF Boot, TxEmpty, ConsoleTypeOK, Routine
  <1>3. LinesWhole'
    BY DEF LinesWhole, Boot, ConsoleTypeOK
  <1>4. Panicking'
    BY DEF Panicking, Polling, ConsoleTypeOK, Routine
  <1>5. Polling'
    BY DEF Polling, TxFull
  <1>6. Masked'
    <2>1. ASSUME NEW u \in Printer, off'[u] PROVE off[u] /\ (u = t => calls[t] > 1)
      BY <2>1, Zenon DEF ConsoleTypeOK
    <2>2. \A u \in Printer : calls'[u] = IF u = t THEN calls[t] - 1 ELSE calls[u]
      BY DEF ConsoleTypeOK
    <2> QED BY <2>1, <2>2 DEF Masked, ConsoleTypeOK
  <1>7. TxSleepers'
    BY DEF TxSleepers, TxFull
  <1>8. Armed'
    BY DEF Armed, TxEmpty, input_full, ConsoleTypeOK, Routine
  <1> QED BY <1>1, <1>2, <1>3, <1>4, <1>5, <1>6, <1>7, <1>8

(* debug_panic() takes the processor and stops using the console lock.     *)
LEMMA PanicStep ==
  ASSUME ConsoleInv, NEW t \in Printer, debug_panic(t)
  PROVE  ConsoleInv'
  <1> USE ConsoleAssumption DEF ConsoleInv, debug_panic, Running, consoleVars, uartVars, txVars, inVars
  <1>1. ConsoleTypeOK'
    <2>1. off' \in [Printer -> BOOLEAN] /\ use_console_lock' \in BOOLEAN /\ panic' \in BOOLEAN
      BY Zenon DEF ConsoleTypeOK
    <2>2. calls' \in [Printer -> Nat] /\ left' \in [Printer -> Nat] /\ cpu' \in Printer
      BY DEF ConsoleTypeOK
    <2> QED BY <2>1, <2>2 DEF ConsoleTypeOK
  <1>2. Boot'
    BY DEF Boot, TxEmpty, ConsoleTypeOK, Routine
  <1>3. LinesWhole'
    BY DEF LinesWhole, Boot, ConsoleTypeOK
  <1>4. Panicking'
    BY DEF Panicking, Polling, ConsoleTypeOK, Routine
  <1>5. Polling'
    BY DEF Polling, TxFull
  <1>6. Masked'
    BY DEF Masked, ConsoleTypeOK, Routine
  <1>7. TxSleepers'
    BY DEF TxSleepers, TxFull
  <1>8. Armed'
    BY DEF Armed, TxEmpty, input_full, ConsoleTypeOK, Routine
  <1> QED BY <1>1, <1>2, <1>3, <1>4, <1>5, <1>6, <1>7, <1>8

(* serial_putc() before the queues are used.                               *)
LEMMA PutPolledStep ==
  ASSUME ConsoleInv, NEW t \in Printer, NEW b \in Byte, PutPolled(t, b)
  PROVE  ConsoleInv'
  <1> USE ConsoleAssumption DEF ConsoleInv, PutPolled, Running, Spinning, consoleVars, uartVars, txVars, inVars
  <1>1. ConsoleTypeOK'
    BY DEF ConsoleTypeOK, Routine
  <1>2. Boot'
    BY DEF Boot, TxEmpty, ConsoleTypeOK, Routine
  <1>3. LinesWhole'
    BY DEF LinesWhole, Boot, ConsoleTypeOK
  <1>4. Panicking'
    BY DEF Panicking, Polling, ConsoleTypeOK, Routine
  <1>5. Polling'
    BY DEF Polling, TxFull
  <1>6. Masked'
    BY DEF Masked, ConsoleTypeOK, Routine
  <1>7. TxSleepers'
    BY DEF TxSleepers, TxFull
  <1>8. Armed'
    BY DEF Armed, TxEmpty, input_full, ConsoleTypeOK, Routine
  <1> QED BY <1>1, <1>2, <1>3, <1>4, <1>5, <1>6, <1>7, <1>8

(* serial_flush() begins.                                                  *)
LEMMA FlushStep ==
  ASSUME ConsoleInv, NEW t \in Printer, serial_flush(t)
  PROVE  ConsoleInv'
  <1> USE ConsoleAssumption DEF ConsoleInv, serial_flush, Running, Routine, consoleVars, uartVars, txVars, inVars
  <1>1. ConsoleTypeOK'
    BY DEF ConsoleTypeOK, Routine
  <1>2. Boot'
    BY DEF Boot, TxEmpty, ConsoleTypeOK, Routine
  <1>3. LinesWhole'
    BY DEF LinesWhole, Boot, ConsoleTypeOK
  <1>4. Panicking'
    BY DEF Panicking, Polling, ConsoleTypeOK, Routine
  <1>5. Polling'
    BY DEF Polling, TxFull
  <1>6. Masked'
    BY DEF Masked, ConsoleTypeOK, Routine
  <1>7. TxSleepers'
    BY DEF TxSleepers, TxFull
  <1>8. Armed'
    BY DEF Armed, TxEmpty, input_full, ConsoleTypeOK, Routine
  <1> QED BY <1>1, <1>2, <1>3, <1>4, <1>5, <1>6, <1>7, <1>8

(* serial_interrupt() begins.                                              *)
LEMMA IrqEnterStep ==
  ASSUME ConsoleInv, IrqEnter
  PROVE  ConsoleInv'
  <1> USE ConsoleAssumption DEF ConsoleInv, IrqEnter, UartWants, Routine, consoleVars, uartVars, txVars, inVars
  <1>1. ConsoleTypeOK'
    BY DEF ConsoleTypeOK, Routine
  <1>2. Boot'
    BY DEF Boot, TxEmpty, ConsoleTypeOK, Routine
  <1>3. LinesWhole'
    BY DEF LinesWhole, Boot, ConsoleTypeOK
  <1>4. Panicking'
    BY DEF Panicking, Polling, ConsoleTypeOK, Routine
  <1>5. Polling'
    BY DEF Polling, TxFull
  <1>6. Masked'
    BY DEF Masked, ConsoleTypeOK, Routine
  <1>7. TxSleepers'
    BY DEF TxSleepers, TxFull
  <1>8. Armed'
    BY DEF Armed, TxEmpty, input_full, ConsoleTypeOK, Routine
  <1> QED BY <1>1, <1>2, <1>3, <1>4, <1>5, <1>6, <1>7, <1>8

(* The UART sends the byte of the THR, and latches its interrupt.          *)
LEMMA UartSendStep ==
  ASSUME ConsoleInv, UartSend
  PROVE  ConsoleInv'
  <1> USE ConsoleAssumption DEF ConsoleInv, UartSend, consoleVars, uartVars, txVars, inVars
  <1>1. ConsoleTypeOK'
    BY DEF ConsoleTypeOK, Routine
  <1>2. Boot'
    BY DEF Boot, TxEmpty, ConsoleTypeOK, Routine
  <1>3. LinesWhole'
    BY DEF LinesWhole, Boot, ConsoleTypeOK
  <1>4. Panicking'
    BY DEF Panicking, Polling, ConsoleTypeOK, Routine
  <1>5. Polling'
    BY DEF Polling, TxFull
  <1>6. Masked'
    BY DEF Masked, ConsoleTypeOK, Routine
  <1>7. TxSleepers'
    BY DEF TxSleepers, TxFull
  <1>8. Armed'
    BY DEF Armed, TxEmpty, input_full, ConsoleTypeOK, Routine
  <1> QED BY <1>1, <1>2, <1>3, <1>4, <1>5, <1>6, <1>7, <1>8

(* The UART receives.                                                      *)
LEMMA UartReceiveStep ==
  ASSUME ConsoleInv, UartReceive
  PROVE  ConsoleInv'
  <1> USE ConsoleAssumption DEF ConsoleInv, UartReceive, consoleVars, uartVars, txVars, inVars
  <1>1. ConsoleTypeOK'
    BY DEF ConsoleTypeOK, Routine
  <1>2. Boot'
    BY DEF Boot, TxEmpty, ConsoleTypeOK, Routine
  <1>3. LinesWhole'
    BY DEF LinesWhole, Boot, ConsoleTypeOK
  <1>4. Panicking'
    BY DEF Panicking, Polling, ConsoleTypeOK, Routine
  <1>5. Polling'
    BY DEF Polling, TxFull
  <1>6. Masked'
    BY DEF Masked, ConsoleTypeOK, Routine
  <1>7. TxSleepers'
    BY DEF TxSleepers, TxFull
  <1>8. Armed'
    BY DEF Armed, TxEmpty, input_full, ConsoleTypeOK, Routine
  <1> QED BY <1>1, <1>2, <1>3, <1>4, <1>5, <1>6, <1>7, <1>8

(* The oldest byte of txq is to be polled out, by a thread whose           *)
(* interrupts are off, by a handler or by serial_flush().                  *)
LEMMA PollOldestStep ==
  ASSUME ConsoleInv, NEW b \in Byte \cup {NULL}, ~TxEmpty, PollOldest(b), UNCHANGED consoleVars
  PROVE  /\ TxSleepers' /\ ~TxFull'
         /\ txq' \in Tx!Rings /\ txpc' \in [Printer -> PcType] /\ not_full' = NULL /\ nobody' = NULL
         /\ txowner' = txowner /\ txbyte' = txbyte /\ txpanic' = txpanic
         /\ \A t \in Printer : txpc'[t] = "out" <=> txpc[t] = "out"
         /\ spin' \in Spinning /\ spin' # NULL /\ spin'.then = b
  <1>1. /\ Tx!Take(txpc) /\ UNCHANGED <<txowner, txbyte, txpanic>>
        /\ spin' = [byte |-> Tx!FirstByte(txq), then |-> b]
    BY DEF PollOldest
  <1>2. \A t \in Printer : txpc[t] # "out" => calls'[t] > 0 /\ left'[t] > 0
    BY DEF ConsoleInv, TxSleepers, consoleVars
  <1>3. Tx!FirstByte(txq) \in Byte
    BY TxRings, ConsoleAssumption DEF ConsoleInv, ConsoleTypeOK
  <1>4. spin' \in Spinning /\ spin' # NULL /\ spin'.then = b
    BY <1>1, <1>3, ConsoleAssumption DEF Spinning
  <1> QED BY <1>1, <1>2, <1>4, TakeStep

(* serial_putc() with interrupts off and txq full: room is made.           *)
LEMMA MakingRoomStep ==
  ASSUME ConsoleInv, NEW t \in Printer, NEW b \in Byte, PutMakingRoom(t, b)
  PROVE  ConsoleInv'
  <1> USE ConsoleAssumption DEF ConsoleInv, PutMakingRoom, Running, consoleVars, uartVars, inVars
  <1>0. ~TxEmpty /\ cpu = t /\ mode = "QUEUE" /\ UNCHANGED consoleVars /\ UNCHANGED <<mode, cpu>>
    BY TxFlags DEF ConsoleTypeOK, TxFull, TxEmpty, Masked
  <1>a. /\ TxSleepers' /\ ~TxFull'
        /\ txq' \in Tx!Rings /\ txpc' \in [Printer -> PcType] /\ not_full' = NULL /\ nobody' = NULL
        /\ txowner' = txowner /\ txbyte' = txbyte /\ txpanic' = txpanic
        /\ \A u \in Printer : txpc'[u] = "out" <=> txpc[u] = "out"
        /\ spin' \in Spinning /\ spin' # NULL /\ spin'.then = b
    BY <1>0, PollOldestStep
  <1>1. ConsoleTypeOK'
    BY <1>a DEF ConsoleTypeOK
  <1>2. Boot'
    BY <1>0 DEF Boot
  <1>3. LinesWhole'
    BY DEF LinesWhole
  <1>4. Panicking'
    BY <1>0, <1>a DEF Panicking
  <1>5. Polling'
    BY <1>0, <1>a DEF Polling, Routine
  <1>6. Masked'
    BY DEF Masked
  <1>7. Armed'
    BY <1>a DEF Armed
  <1> QED BY <1>1, <1>2, <1>3, <1>4, <1>5, <1>6, <1>7, <1>a

(* A step of serial_flush(): the next byte is polled, or the machine stops. *)
LEMMA FlushByteStep ==
  ASSUME ConsoleInv, FlushByte
  PROVE  ConsoleInv'
  <1> USE ConsoleAssumption DEF ConsoleInv, FlushByte, consoleVars, uartVars, inVars
  <1>1. CASE TxEmpty
    <2>1. cpu = "flush" /\ cpu' = "halt" /\ UNCHANGED <<mode, consoleVars, uartVars, inVars, spin, txVars>> /\ spin = NULL
      BY <1>1
    <2>2. ConsoleTypeOK' /\ Boot' /\ LinesWhole' /\ Panicking' /\ Polling'
      BY <2>1 DEF ConsoleTypeOK, Boot, LinesWhole, Panicking, Polling, Routine, txVars, TxEmpty, TxFull
    <2>3. Masked' /\ TxSleepers' /\ Armed'
      BY <2>1 DEF Masked, TxSleepers, Armed, Routine, txVars, TxEmpty, TxFull
    <2> QED BY <2>2, <2>3
  <1>2. CASE ~TxEmpty
    <2>0. mode = "QUEUE" /\ cpu = "flush" /\ PollOldest(NULL) /\ UNCHANGED <<mode, cpu>> /\ UNCHANGED consoleVars
      BY <1>2 DEF Boot, ConsoleTypeOK
    <2>a. /\ TxSleepers' /\ ~TxFull'
          /\ txq' \in Tx!Rings /\ txpc' \in [Printer -> PcType] /\ not_full' = NULL /\ nobody' = NULL
          /\ txowner' = txowner /\ txbyte' = txbyte /\ txpanic' = txpanic
          /\ \A u \in Printer : txpc'[u] = "out" <=> txpc[u] = "out"
          /\ spin' \in Spinning /\ spin' # NULL /\ spin'.then = NULL
      BY <1>2, <2>0, PollOldestStep
    <2>1. ConsoleTypeOK'
      BY <2>0, <2>a DEF ConsoleTypeOK
    <2>2. Boot' /\ LinesWhole' /\ Masked'
      BY <2>0 DEF Boot, LinesWhole, Masked
    <2>3. Panicking'
      BY <2>0, <2>a DEF Panicking, Routine
    <2>4. Polling' /\ Armed'
      BY <2>0, <2>a DEF Polling, Armed, Routine
    <2> QED BY <2>1, <2>2, <2>3, <2>4, <2>a
  <1> QED BY <1>1, <1>2

(* serial_init_queue(): txq is still empty.                                *)
LEMMA InitQueueStep ==
  ASSUME ConsoleInv, serial_init_queue
  PROVE  ConsoleInv'
  <1> USE ConsoleAssumption DEF ConsoleInv, serial_init_queue, Running, consoleVars, txVars, inVars
  <1>0. /\ pend \in BOOLEAN /\ write_ier(pend) /\ ~ier.xmit /\ TxEmpty /\ ~TxEmpty' = FALSE
        /\ mode' = "QUEUE" /\ ~panic /\ use_console_lock /\ spin = NULL
    BY DEF ConsoleTypeOK, Boot, TxEmpty
  <1>a. /\ ier' \in [xmit : BOOLEAN, recv : BOOLEAN] /\ pend' \in BOOLEAN
        /\ ier'.xmit = ~TxEmpty' /\ ier'.recv = ~input_full'
        /\ ier'.xmit => thr' # NULL \/ pend'
    BY <1>0, WriteIer
  <1>1. ConsoleTypeOK'
    BY <1>a DEF ConsoleTypeOK
  <1>2. Boot'
    BY <1>0 DEF Boot
  <1>3. LinesWhole' /\ Masked' /\ Panicking'
    BY DEF LinesWhole, Masked, Panicking
  <1>4. Polling'
    BY <1>0 DEF Polling
  <1>5. TxSleepers'
    BY DEF TxSleepers, TxFull
  <1>6. Armed'
    BY <1>a DEF Armed
  <1> QED BY <1>1, <1>2, <1>3, <1>4, <1>5, <1>6

(* An interrupt handler prints.                                            *)
LEMMA IrqPrintStep ==
  ASSUME ConsoleInv, NEW b \in Byte, IrqPrint(b)
  PROVE  ConsoleInv'
  <1> USE ConsoleAssumption DEF ConsoleInv, IrqPrint, consoleVars, inVars
  <1>0. /\ cpu = NULL /\ mode = "QUEUE" /\ spin = NULL /\ ~panic /\ pend \in BOOLEAN
        /\ UNCHANGED mode /\ UNCHANGED consoleVars
    BY DEF Polling, Panicking, ConsoleTypeOK, Routine
  <1>1. CASE TxFull
    <2>0. ~TxEmpty /\ PollOldest(b) /\ cpu' = "print" /\ UNCHANGED <<uartVars, inVars>>
      BY <1>1, TxFlags DEF ConsoleTypeOK, TxFull, TxEmpty
    <2>a. /\ TxSleepers' /\ ~TxFull'
          /\ txq' \in Tx!Rings /\ txpc' \in [Printer -> PcType] /\ not_full' = NULL /\ nobody' = NULL
          /\ txowner' = txowner /\ txbyte' = txbyte /\ txpanic' = txpanic
          /\ \A u \in Printer : txpc'[u] = "out" <=> txpc[u] = "out"
          /\ spin' \in Spinning /\ spin' # NULL /\ spin'.then = b
      BY <1>0, <2>0, PollOldestStep
    <2>1. ConsoleTypeOK'
      BY <1>0, <2>0, <2>a DEF ConsoleTypeOK, Routine, uartVars
    <2>2. Boot' /\ LinesWhole' /\ Panicking'
      BY <1>0 DEF Boot, LinesWhole, Panicking
    <2>3. Masked' /\ Polling' /\ Armed'
      BY <1>0, <2>0, <2>a DEF Masked, Polling, Armed, Routine
    <2> QED BY <2>1, <2>2, <2>3, <2>a
  <1>2. CASE ~TxFull
    <2>0. /\ Tx!Store(txpc, b) /\ write_ier(pend)
          /\ UNCHANGED <<txowner, txbyte, txpanic>> /\ UNCHANGED <<inVars, cpu, spin, thr, rbr>>
          /\ \A u \in Printer : txpc[u] # "out" => calls'[u] > 0 /\ left'[u] > 0
      BY <1>0, <1>2 DEF TxSleepers
    <2>a. /\ TxSleepers' /\ ~TxEmpty'
          /\ txq' \in Tx!Rings /\ txpc' = txpc /\ not_full' = not_full /\ nobody' = NULL
      BY <1>2, <2>0, StoreStep
    <2>b. /\ ier' \in [xmit : BOOLEAN, recv : BOOLEAN] /\ pend' \in BOOLEAN
          /\ ier'.xmit = ~TxEmpty' /\ ier'.recv = ~input_full'
          /\ ier'.xmit => thr' # NULL \/ pend'
      <3>1. ier.xmit => thr' # NULL \/ pend
        BY <1>0, <2>0 DEF Armed, Routine
      <3>2. write_ier(pend) /\ pend \in BOOLEAN
        BY <1>0, <2>0
      <3> QED BY <3>1, <3>2, WriteIer
    <2>1. ConsoleTypeOK'
      BY <1>0, <2>0, <2>a, <2>b DEF ConsoleTypeOK
    <2>2. Boot' /\ LinesWhole' /\ Panicking' /\ Masked' /\ Polling'
      BY <1>0, <2>0, <2>a DEF Boot, LinesWhole, Panicking, Masked, Polling
    <2>3. Armed'
      BY <2>b DEF Armed
    <2> QED BY <2>1, <2>2, <2>3, <2>a
  <1> QED BY <1>1, <1>2

(* input_putc(): the input queue keeps its types, and the IER follows it.  *)
LEMMA InputStep ==
  ASSUME ConsoleInv, NEW k \in Key, input_putc(k)
  PROVE  /\ buffer' \in In!Rings /\ inpc' \in [Reader -> PcType]
         /\ inowner' = inowner /\ not_empty' = NULL /\ nobody' = NULL
         /\ inbyte' = inbyte /\ inpanic' = inpanic
         /\ thr' = thr /\ UNCHANGED txVars
         /\ ier' \in [xmit : BOOLEAN, recv : BOOLEAN] /\ pend' \in BOOLEAN
         /\ mode # "QUEUE" => ier' = ier
         /\ mode = "QUEUE" =>
              /\ ier'.xmit = ~TxEmpty' /\ ier'.recv = ~input_full'
              /\ ((ier.xmit /\ ~TxEmpty /\ thr = NULL) => pend) => (ier'.xmit => thr' # NULL \/ pend')
  <1>1. /\ In!Store(inpc, k) /\ UNCHANGED <<inowner, inbyte, inpanic>> /\ UNCHANGED txVars
        /\ thr' = thr
        /\ IF mode = "QUEUE" THEN write_ier(pend) ELSE UNCHANGED <<ier, pend>>
    BY DEF input_putc, serial_notify
  <1>2. /\ buffer' = In!PutByte(buffer, k) /\ not_empty' = NULL /\ nobody' = NULL
        /\ inpc' = IF not_empty = NULL THEN inpc ELSE [inpc EXCEPT ![not_empty] = "woken"]
    BY <1>1 DEF In!Store, In!Signal, ConsoleInv, ConsoleTypeOK
  <1>3. buffer' \in In!Rings
    BY <1>2, InRings DEF ConsoleInv, ConsoleTypeOK
  <1>4. inpc' \in [Reader -> PcType]
    BY <1>2 DEF ConsoleInv, ConsoleTypeOK, PcType
  <1>5. TxEmpty' = TxEmpty
    BY <1>1 DEF TxEmpty, txVars
  <1>6. pend \in BOOLEAN /\ ier \in [xmit : BOOLEAN, recv : BOOLEAN]
    BY DEF ConsoleInv, ConsoleTypeOK
  <1>7. CASE mode = "QUEUE"
    <2>1. write_ier(pend)
      BY <1>1, <1>7
    <2>2. /\ ier' \in [xmit : BOOLEAN, recv : BOOLEAN] /\ pend' \in BOOLEAN
          /\ ier'.xmit = ~TxEmpty' /\ ier'.recv = ~input_full'
          /\ ((ier.xmit /\ ~TxEmpty' /\ thr' = NULL) => pend) => (ier'.xmit => thr' # NULL \/ pend')
      BY <1>6, <2>1, WriteIer
    <2> QED BY <1>1, <1>2, <1>3, <1>4, <1>5, <1>7, <2>2
  <1>8. CASE mode # "QUEUE"
    BY <1>1, <1>2, <1>3, <1>4, <1>6, <1>8
  <1> QED BY <1>7, <1>8

(* keyboard_interrupt().                                                   *)
LEMMA KeyboardStep ==
  ASSUME ConsoleInv, NEW k \in Key, keyboard_interrupt(k)
  PROVE  ConsoleInv'
  <1> USE ConsoleAssumption DEF ConsoleInv, keyboard_interrupt, consoleVars
  <1>0. /\ cpu = NULL /\ spin = NULL /\ input_putc(k) /\ UNCHANGED <<mode, cpu, spin, rbr>> /\ UNCHANGED consoleVars
        /\ (mode = "QUEUE" /\ ier.xmit /\ ~TxEmpty /\ thr = NULL) => pend
    BY DEF Polling, ConsoleTypeOK, Routine, Armed
  <1>a. /\ buffer' \in In!Rings /\ inpc' \in [Reader -> PcType]
        /\ inowner' = inowner /\ not_empty' = NULL /\ nobody' = NULL
        /\ inbyte' = inbyte /\ inpanic' = inpanic
        /\ thr' = thr /\ UNCHANGED txVars
        /\ ier' \in [xmit : BOOLEAN, recv : BOOLEAN] /\ pend' \in BOOLEAN
        /\ mode # "QUEUE" => ier' = ier
        /\ mode = "QUEUE" => /\ ier'.xmit = ~TxEmpty' /\ ier'.recv = ~input_full'
                             /\ ier'.xmit => thr' # NULL \/ pend'
    BY <1>0, InputStep
  <1>1. ConsoleTypeOK'
    BY <1>0, <1>a DEF ConsoleTypeOK, txVars
  <1>2. Boot'
    BY <1>0, <1>a DEF Boot, TxEmpty, txVars
  <1>3. LinesWhole' /\ Masked' /\ Panicking' /\ Polling'
    BY <1>0, <1>a DEF LinesWhole, Masked, Panicking, Polling, txVars
  <1>4. TxSleepers'
    BY <1>0, <1>a DEF TxSleepers, TxFull, txVars
  <1>5. Armed'
    BY <1>0, <1>a DEF Armed
  <1> QED BY <1>1, <1>2, <1>3, <1>4, <1>5

(* The receiving loop of serial_interrupt().                               *)
LEMMA IrqReceiveStep ==
  ASSUME ConsoleInv, IrqReceive
  PROVE  ConsoleInv'
  <1> USE ConsoleAssumption DEF ConsoleInv, IrqReceive, consoleVars
  <1>0. /\ cpu = "recv" /\ mode = "QUEUE" /\ spin = NULL /\ ~panic
        /\ UNCHANGED <<mode, spin>> /\ UNCHANGED consoleVars
    BY DEF Boot, Polling, Panicking, Routine
  <1>1. CASE ~input_full /\ rbr # NULL
    <2>0. input_putc(rbr) /\ rbr \in Key /\ rbr' = NULL /\ cpu' = cpu
      BY <1>1 DEF ConsoleTypeOK
    <2>a. /\ buffer' \in In!Rings /\ inpc' \in [Reader -> PcType]
          /\ inowner' = inowner /\ not_empty' = NULL /\ nobody' = NULL
          /\ inbyte' = inbyte /\ inpanic' = inpanic
          /\ thr' = thr /\ UNCHANGED txVars
          /\ ier' \in [xmit : BOOLEAN, recv : BOOLEAN] /\ pend' \in BOOLEAN
      BY <2>0, InputStep
    <2>1. ConsoleTypeOK'
      BY <1>0, <2>0, <2>a DEF ConsoleTypeOK, txVars
    <2>2. Boot' /\ LinesWhole' /\ Masked' /\ Panicking' /\ Polling' /\ Armed'
      BY <1>0, <2>0, <2>a DEF Boot, LinesWhole, Masked, Panicking, Polling, Armed
    <2>3. TxSleepers'
      BY <1>0, <2>a DEF TxSleepers, TxFull, txVars
    <2> QED BY <2>1, <2>2, <2>3
  <1>2. CASE ~(~input_full /\ rbr # NULL)
    <2>0. cpu' = "xmit" /\ UNCHANGED <<uartVars, txVars, inVars>>
      BY <1>2
    <2>1. ConsoleTypeOK'
      BY <1>0, <2>0 DEF ConsoleTypeOK, uartVars, txVars, inVars, Routine
    <2>2. Boot' /\ LinesWhole' /\ Masked' /\ Panicking' /\ Polling' /\ Armed'
      BY <1>0, <2>0 DEF Boot, LinesWhole, Masked, Panicking, Polling, Armed, Routine
    <2>3. TxSleepers'
      BY <1>0, <2>0 DEF TxSleepers, TxFull, txVars
    <2> QED BY <2>1, <2>2, <2>3
  <1> QED BY <1>1, <1>2

(* The transmitting loop of serial_interrupt(): it ends with the THR full  *)
(* or with nothing to send.                                                *)
LEMMA IrqTransmitStep ==
  ASSUME ConsoleInv, IrqTransmit
  PROVE  ConsoleInv'
  <1> USE ConsoleAssumption DEF ConsoleInv, IrqTransmit, consoleVars
  <1>0. /\ cpu = "xmit" /\ mode = "QUEUE" /\ spin = NULL /\ ~panic /\ pend \in BOOLEAN
        /\ UNCHANGED <<mode, spin>> /\ UNCHANGED consoleVars
        /\ \A u \in Printer : txpc[u] # "out" => calls'[u] > 0 /\ left'[u] > 0
    BY DEF Boot, Polling, Panicking, Routine, TxSleepers, ConsoleTypeOK
  <1>1. CASE ~TxEmpty /\ thr = NULL
    <2>0. /\ Tx!Take(txpc) /\ UNCHANGED <<txowner, txbyte, txpanic>> /\ UNCHANGED <<cpu, ier, rbr, inVars>>
          /\ thr' = Tx!FirstByte(txq) /\ pend' = FALSE
      BY <1>1 DEF SetThr
    <2>a. /\ TxSleepers'
          /\ txq' \in Tx!Rings /\ txpc' \in [Printer -> PcType] /\ not_full' = NULL /\ nobody' = NULL
      BY <1>0, <1>1, <2>0, TakeStep
    <2>b. thr' \in Byte
      BY <2>0, TxRings DEF ConsoleTypeOK
    <2>1. ConsoleTypeOK'
      BY <1>0, <2>0, <2>a, <2>b, ZenonT(60) DEF ConsoleTypeOK, inVars
    <2>2. Boot' /\ LinesWhole' /\ Masked' /\ Panicking' /\ Polling' /\ Armed'
      BY <1>0, <2>0 DEF Boot, LinesWhole, Masked, Panicking, Polling, Armed
    <2> QED BY <2>1, <2>2, <2>a
  <1>2. CASE ~(~TxEmpty /\ thr = NULL)
    <2>0. /\ cpu' = NULL /\ UNCHANGED <<txVars, inVars, thr, rbr>> /\ write_ier(pend)
          /\ TxEmpty' = TxEmpty
      BY <1>2 DEF TxEmpty, txVars
    <2>b. /\ ier' \in [xmit : BOOLEAN, recv : BOOLEAN] /\ pend' \in BOOLEAN
          /\ ier'.xmit = ~TxEmpty' /\ ier'.recv = ~input_full'
          /\ ier'.xmit => thr' # NULL \/ pend'
      BY <1>0, <1>2, <2>0, WriteIer
    <2>1. ConsoleTypeOK'
      BY <1>0, <2>0, <2>b DEF ConsoleTypeOK, txVars, inVars
    <2>2. Boot' /\ LinesWhole' /\ Panicking' /\ Polling'
      BY <1>0, <2>0 DEF Boot, LinesWhole, Panicking, Polling, Routine
    <2>3. Masked' /\ Armed'
      BY <1>0, <2>0, <2>b DEF Masked, Armed, Routine
    <2>4. TxSleepers'
      BY <1>0, <2>0 DEF TxSleepers, TxFull, txVars
    <2> QED BY <2>1, <2>2, <2>3, <2>4
  <1> QED BY <1>1, <1>2

(* What a reader does in the input queue: it takes a byte and returns, or  *)
(* it registers and sleeps in wait(), or it sleeps for the queue's lock.   *)
ReaderTakes(r) ==
  /\ ~In!IntqEmpty(buffer) /\ buffer' = In!DropByte(buffer)
  /\ inpc' = [inpc EXCEPT ![r] = "out"] /\ not_empty' = not_empty
  /\ inbyte' = [inbyte EXCEPT ![r] = NULL] /\ inpanic' = inpanic
ReaderWaits(r) ==
  /\ inowner' = r /\ buffer' = buffer /\ not_empty' = r
  /\ inpc' = [inpc EXCEPT ![r] = "waiting"] /\ inpanic' = ~In!IntqEmpty(buffer)
ReaderLocks(r) ==
  /\ buffer' = buffer /\ not_empty' = not_empty
  /\ inpc' = [inpc EXCEPT ![r] = "locking"] /\ inpanic' = inpanic

LEMMA ReaderStep ==
  ASSUME ConsoleInv, NEW r \in Reader, In!Getc(r) \/ In!Locked(r) \/ In!Woken(r)
  PROVE  /\ nobody' = NULL /\ inbyte' \in [Reader -> Key \cup {NULL}]
         /\ \/ ReaderTakes(r) /\ inpc[r] = "out" /\ inowner' = inowner
            \/ ReaderTakes(r) /\ inpc[r] = "woken" /\ inowner' = NULL
            \/ ReaderWaits(r) /\ inpc[r] = "locking"
            \/ ReaderWaits(r) /\ inpc[r] \in {"out", "woken"} /\ In!IntqEmpty(buffer)
            \/ ReaderLocks(r) /\ inpc[r] = "out" /\ inowner # NULL /\ inowner' = inowner
  <1> USE DEF In!MustWait, In!Wait, In!Take, In!Signal
  <1>0. nobody = NULL /\ inbyte \in [Reader -> Key \cup {NULL}]
    BY DEF ConsoleInv, ConsoleTypeOK
  <1>1. CASE In!Getc(r)
    BY <1>0, <1>1 DEF In!Getc, In!Loop, ReaderTakes, ReaderWaits, ReaderLocks
  <1>2. CASE In!Locked(r)
    BY <1>0, <1>2 DEF In!Locked, ReaderWaits
  <1>3. CASE In!Woken(r)
    BY <1>0, <1>3 DEF In!Woken, In!Loop, ReaderTakes, ReaderWaits
  <1> QED BY <1>1, <1>2, <1>3

(* input_getc(): the serial port is told when a place has become free.     *)
LEMMA GetcStep ==
  ASSUME ConsoleInv, NEW r \in Reader, input_getc(r)
  PROVE  ConsoleInv'
  <1> USE ConsoleAssumption DEF ConsoleInv, input_getc, consoleVars
  <1>0. /\ cpu = NULL /\ spin = NULL /\ mode = "QUEUE" /\ UNCHANGED <<mode, cpu, spin, rbr>>
        /\ UNCHANGED consoleVars /\ UNCHANGED txVars
        /\ pend \in BOOLEAN /\ (ier.xmit => thr # NULL \/ pend)
        /\ TxEmpty' = TxEmpty
    BY DEF Polling, ConsoleTypeOK, Routine, Armed, TxEmpty, txVars
  <1>1. /\ nobody' = NULL /\ inbyte' \in [Reader -> Key \cup {NULL}]
        /\ ReaderTakes(r) \/ ReaderWaits(r) \/ ReaderLocks(r)
        /\ inowner' \in {inowner, NULL, r}
    BY ReaderStep DEF ReaderWaits
  <1>2. /\ buffer' \in In!Rings /\ inpc' \in [Reader -> PcType] /\ not_empty' \in Reader \cup {NULL}
        /\ inowner' \in Reader \cup {NULL} /\ inpanic' \in BOOLEAN
        /\ inpc'[r] # "out" => buffer' = buffer
    BY <1>1, InRings, ZenonT(60) DEF ReaderTakes, ReaderWaits, ReaderLocks, ConsoleTypeOK, PcType
  <1>3. /\ thr' = thr /\ ier' \in [xmit : BOOLEAN, recv : BOOLEAN] /\ pend' \in BOOLEAN
        /\ ier'.xmit = ~TxEmpty' /\ ier'.recv = ~input_full'
        /\ ier'.xmit => thr' # NULL \/ pend'
    <2>1. CASE inpc'[r] = "out"
      <3>1. thr' = thr /\ write_ier(pend)
        BY <1>0, <2>1 DEF serial_notify
      <3> QED BY <1>0, <3>1, WriteIer
    <2>2. CASE inpc'[r] # "out"
      <3>1. thr' = thr /\ ier' = ier /\ pend' = pend /\ buffer' = buffer
        BY <1>2, <2>2
      <3> QED BY <1>0, <3>1 DEF Armed, Routine, ConsoleTypeOK, input_full
    <2> QED BY <2>1, <2>2
  <1>4. ConsoleTypeOK'
    BY <1>0, <1>1, <1>2, <1>3 DEF ConsoleTypeOK, txVars
  <1>5. Boot' /\ LinesWhole' /\ Masked' /\ Panicking' /\ Polling'
    BY <1>0 DEF Boot, LinesWhole, Masked, Panicking, Polling, txVars
  <1>6. TxSleepers'
    BY <1>0 DEF TxSleepers, TxFull, txVars
  <1>7. Armed'
    BY <1>0, <1>3 DEF Armed
  <1> QED BY <1>4, <1>5, <1>6, <1>7

(* putc_poll() returns: the THR holds its byte, so no interrupt is needed  *)
(* for what is queued behind it until it is sent.                          *)
LEMMA PollDoneStep ==
  ASSUME ConsoleInv, PollDone
  PROVE  ConsoleInv'
  <1> USE ConsoleAssumption DEF ConsoleInv, PollDone
  <1>0. /\ spin \in Spinning /\ spin # NULL /\ spin' = NULL /\ thr' = spin.byte /\ thr' \in Byte /\ thr' # NULL /\ rbr' = rbr
        /\ UNCHANGED <<mode, use_console_lock, console_owner, console_lock_depth, calls, off, panic>>
        /\ cpu \in Printer \cup {"print", "flush"}
    BY DEF ConsoleTypeOK, SetThr, Spinning, Polling
  <1>1. \A t \in Printer : txpc[t] # "out" => calls'[t] > 0 /\ left'[t] > 0
    BY <1>0 DEF TxSleepers, Polling, ConsoleTypeOK, Routine
  <1>2. left' \in [Printer -> Nat]
    BY <1>0 DEF Polling, ConsoleTypeOK, Routine
  <1>3. cpu' \in {cpu, NULL}
    BY <1>0
  <1>a. /\ TxSleepers'
        /\ txq' \in Tx!Rings /\ txpc' = txpc /\ not_full' = not_full /\ nobody' = NULL
        /\ txowner' = txowner /\ txbyte' = txbyte /\ txpanic' = txpanic
        /\ UNCHANGED <<buffer, inowner, not_empty, inpc, inbyte, inpanic>>
        /\ ier' \in [xmit : BOOLEAN, recv : BOOLEAN] /\ pend' \in BOOLEAN
        /\ mode = "QUEUE" =>
             \/ cpu = "flush"
             \/ ier'.xmit = ~TxEmpty' /\ ier'.recv = ~input_full' /\ (ier'.xmit => thr' # NULL \/ pend')
        /\ mode # "QUEUE" => ier' = ier /\ txq' = txq
    <2>1. CASE spin.then # NULL
      <3>1. /\ Tx!Store(txpc, spin.then) /\ UNCHANGED <<txowner, txbyte, txpanic>> /\ UNCHANGED inVars
            /\ write_ier(FALSE) /\ spin.then \in Byte /\ ~TxFull /\ mode = "QUEUE"
        BY <1>0, <2>1 DEF Polling, Spinning
      <3>2. /\ TxSleepers' /\ ~TxEmpty'
            /\ txq' \in Tx!Rings /\ txpc' = txpc /\ not_full' = not_full /\ nobody' = NULL
        BY <1>1, <3>1, StoreStep
      <3>3. /\ ier' \in [xmit : BOOLEAN, recv : BOOLEAN] /\ pend' \in BOOLEAN
            /\ ier'.xmit = ~TxEmpty' /\ ier'.recv = ~input_full'
            /\ ier'.xmit => thr' # NULL \/ pend'
        BY <1>0, <3>1, WriteIer
      <3> QED BY <3>1, <3>2, <3>3 DEF inVars
    <2>2. CASE spin.then = NULL
      <3>1. pend' = FALSE /\ UNCHANGED <<ier, txVars, inVars>> /\ (mode = "QUEUE" => cpu = "flush")
        BY <1>0, <2>2 DEF Polling
      <3>2. TxSleepers'
        BY <1>1, <3>1 DEF TxSleepers, TxFull, txVars
      <3> QED BY <3>1, <3>2 DEF ConsoleTypeOK, txVars, inVars
    <2> QED BY <2>1, <2>2
  <1>4. ConsoleTypeOK'
    BY <1>0, <1>2, <1>3, <1>a DEF ConsoleTypeOK
  <1>5. Boot'
    BY <1>0, <1>a DEF Boot, TxEmpty, Routine
  <1>6. LinesWhole'
    BY <1>0 DEF LinesWhole
  <1>7. Panicking'
    BY <1>0, <1>a DEF Panicking, Polling, Routine
  <1>8. Masked'
    BY <1>0 DEF Masked, ConsoleTypeOK, Routine
  <1>9. Polling'
    BY <1>0 DEF Polling
  <1>10. Armed'
    BY <1>0, <1>a DEF Armed, Routine
  <1> QED BY <1>4, <1>5, <1>6, <1>7, <1>8, <1>9, <1>10, <1>a

(* intq_putc(&txq, b) of thread t returns, or t goes to sleep in wait().    *)
WriterStores(t, b) ==
  /\ ~TxFull /\ Tx!Store([txpc EXCEPT ![t] = "out"], b)
  /\ txowner' = NULL /\ txbyte' = [txbyte EXCEPT ![t] = NULL] /\ txpanic' = txpanic
WriterWaits(t, b) ==
  /\ TxFull /\ txowner' = t /\ txpanic' = FALSE /\ txpc' = [txpc EXCEPT ![t] = "waiting"]
  /\ not_full' = t /\ nobody' = nobody /\ txq' = txq /\ txbyte' = [txbyte EXCEPT ![t] = b]

(* The rest of serial_putc() after the queue operation of thread t.        *)
LEMMA WriterStep ==
  ASSUME ConsoleInv, NEW t \in Printer, NEW b \in Byte,
         WriterStores(t, b) \/ WriterWaits(t, b), AfterPutc(t),
         mode = "QUEUE", spin = NULL, cpu \in Printer \cup {NULL}, calls[t] > 0, left[t] > 0,
         WriterWaits(t, b) => ~panic, not_full # t,
         \A u \in Printer : u # t => txpc[u] = "out"
  PROVE  ConsoleInv'
  <1> USE ConsoleAssumption DEF ConsoleInv
  <1>0. /\ UNCHANGED <<mode, use_console_lock, console_owner, console_lock_depth, calls, off, panic>>
        /\ UNCHANGED <<cpu, spin, thr, rbr>> /\ UNCHANGED inVars
        /\ txpc'[t] = "out" => write_ier(pend) /\ left' = [left EXCEPT ![t] = @ - 1]
        /\ txpc'[t] # "out" => UNCHANGED <<ier, pend, left>>
    BY DEF AfterPutc
  <1>1. \A u \in Printer : u # t => txowner # u /\ not_full # u
    BY DEF TxSleepers
  <1>2. not_full = NULL /\ txowner \in {t, NULL}
    BY <1>1 DEF ConsoleTypeOK
  <1>3. pend \in BOOLEAN /\ (ier.xmit => thr # NULL \/ pend) /\ ier.xmit = ~TxEmpty /\ ier.recv = ~input_full
    BY DEF Armed, ConsoleTypeOK, Routine
  <1>4. CASE WriterStores(t, b)
    <2>1. /\ txq' = Tx!PutByte(txq, b) /\ txpc' = [txpc EXCEPT ![t] = "out"] /\ not_full' = NULL /\ nobody' = NULL
          /\ txpc'[t] = "out" /\ ~TxFull
          /\ txowner' = NULL /\ txbyte' = [txbyte EXCEPT ![t] = NULL] /\ txpanic' = txpanic
      BY <1>2, <1>4 DEF WriterStores, Tx!Store, Tx!Signal, ConsoleTypeOK
    <2>2. txq' \in Tx!Rings
      BY <2>1, TxRings DEF ConsoleTypeOK
    <2>3. \A u \in Printer : txpc'[u] = "out"
      BY <2>1 DEF ConsoleTypeOK
    <2>4. write_ier(pend) /\ left' = [left EXCEPT ![t] = @ - 1]
      BY <1>0, <2>1
    <2>5. /\ ier' \in [xmit : BOOLEAN, recv : BOOLEAN] /\ pend' \in BOOLEAN
          /\ ier'.xmit = ~TxEmpty' /\ ier'.recv = ~input_full'
          /\ ier'.xmit => thr' # NULL \/ pend'
      BY <1>0, <1>3, <2>4, WriteIer
    <2>6. ConsoleTypeOK'
      BY <1>0, <2>1, <2>2, <2>4, <2>5 DEF ConsoleTypeOK, inVars, PcType
    <2>7. Boot' /\ LinesWhole' /\ Polling' /\ Masked'
      BY <1>0 DEF Boot, LinesWhole, Polling, Masked
    <2>8. Panicking' /\ TxSleepers'
      BY <1>0, <2>1, <2>3 DEF Panicking, TxSleepers
    <2>9. Armed'
      BY <2>5 DEF Armed
    <2> QED BY <2>6, <2>7, <2>8, <2>9
  <1>5. CASE WriterWaits(t, b)
    <2>1. /\ TxFull /\ txowner' = t /\ txpanic' = FALSE /\ txpc' = [txpc EXCEPT ![t] = "waiting"]
          /\ not_full' = t /\ nobody' = NULL /\ txq' = txq /\ txbyte' = [txbyte EXCEPT ![t] = b]
          /\ txpc'[t] = "waiting" /\ ~panic
      BY <1>5 DEF WriterWaits, ConsoleTypeOK
    <2>2. ier' = ier /\ pend' = pend /\ left' = left
      BY <1>0, <2>1
    <2>3. ConsoleTypeOK'
      BY <1>0, <2>1, <2>2, ZenonT(60) DEF ConsoleTypeOK, inVars, PcType
    <2>4. Boot' /\ LinesWhole' /\ Polling' /\ Masked' /\ Panicking'
      BY <1>0, <2>1 DEF Boot, LinesWhole, Polling, Masked, Panicking
    <2>5. \A u \in Printer : txpc'[u] = IF u = t THEN "waiting" ELSE "out"
      BY <2>1 DEF ConsoleTypeOK
    <2>6. TxSleepers'
      BY <1>0, <2>1, <2>2, <2>5 DEF TxSleepers, TxFull, ConsoleTypeOK
    <2>7. Armed'
      BY <1>0, <1>3, <2>1, <2>2 DEF Armed, TxEmpty, input_full, inVars
    <2> QED BY <2>3, <2>4, <2>6, <2>7
  <1> QED BY <1>4, <1>5

(* serial_putc() through the queue: it holds the console, so no other      *)
(* thread sleeps in txq.  After a panic it never waits.                    *)
LEMMA PutQueuedStep ==
  ASSUME ConsoleInv, NEW t \in Printer, NEW b \in Byte, PutQueued(t, b)
  PROVE  ConsoleInv'
  <1> USE ConsoleAssumption DEF ConsoleInv, PutQueued, Running
  <1>1. /\ mode = "QUEUE" /\ spin = NULL /\ cpu \in Printer \cup {NULL} /\ calls[t] > 0 /\ left[t] > 0
        /\ AfterPutc(t) /\ Tx!Putc(t, b) /\ txpc[t] = "out" /\ not_full # t /\ txowner # t
        /\ ~(off[t] /\ TxFull)
    BY DEF TxSleepers
  <1>2. CASE ~panic
    <2>1. \A u \in Printer : u # t => txpc[u] = "out"
      BY <1>1, <1>2 DEF Boot, LinesWhole, TxSleepers
    <2>2. txowner = NULL
      BY <1>1, <2>1 DEF TxSleepers, ConsoleTypeOK
    <2>3. WriterStores(t, b) \/ WriterWaits(t, b)
      BY <1>1, <2>2 DEF Tx!Putc, Tx!Loop, Tx!MustWait, Tx!Wait, TxFull, WriterStores, WriterWaits
    <2> QED BY <1>1, <1>2, <2>1, <2>3, WriterStep
  <1>3. CASE panic
    <2>1. cpu = t /\ off[t] /\ ~TxFull
      BY <1>1, <1>3 DEF Panicking, Routine
    <2>2. /\ Tx!Store([txpc EXCEPT ![t] = "out"], b) /\ txowner' = txowner
          /\ txbyte' = [txbyte EXCEPT ![t] = NULL] /\ txpanic' = txpanic
      BY <1>1, <2>1 DEF Tx!Putc, Tx!Loop, Tx!MustWait, TxFull
    <2>3. [txpc EXCEPT ![t] = "out"] = txpc
      BY <1>1 DEF ConsoleTypeOK
    <2>4. /\ txq' = Tx!PutByte(txq, b) /\ txpc' = txpc /\ not_full' = not_full /\ nobody' = NULL
      BY <2>2, <2>3 DEF Tx!Store, Tx!Signal, ConsoleTypeOK
    <2>5. txq' \in Tx!Rings /\ pend \in BOOLEAN
      BY <2>4, TxRings DEF ConsoleTypeOK
    <2>6. /\ UNCHANGED <<mode, use_console_lock, console_owner, console_lock_depth, calls, off, panic>>
          /\ UNCHANGED <<cpu, spin, thr, rbr>> /\ UNCHANGED inVars
          /\ write_ier(pend) /\ left' = [left EXCEPT ![t] = @ - 1]
      BY <1>1, <2>4 DEF AfterPutc
    <2>7. /\ ier' \in [xmit : BOOLEAN, recv : BOOLEAN] /\ pend' \in BOOLEAN
          /\ ier'.xmit = ~TxEmpty' /\ ier'.recv = ~input_full'
          /\ ier'.xmit => thr' # NULL \/ pend'
      <3>1. ier.xmit => thr' # NULL \/ pend
        BY <1>1, <2>1, <2>6 DEF Armed, Routine
      <3> QED BY <2>5, <2>6, <3>1, WriteIer
    <2>8. ConsoleTypeOK'
      BY <1>1, <2>2, <2>4, <2>5, <2>6, <2>7 DEF ConsoleTypeOK, inVars
    <2>9. Boot' /\ LinesWhole' /\ Polling' /\ Masked' /\ Panicking'
      BY <1>1, <2>4, <2>6 DEF Boot, LinesWhole, Polling, Masked, Panicking
    <2>10. TxSleepers'
      BY <1>1, <2>1, <2>2, <2>4, <2>6 DEF TxSleepers, ConsoleTypeOK
    <2>11. Armed'
      BY <2>7 DEF Armed
    <2> QED BY <2>8, <2>9, <2>10, <2>11
  <1> QED BY <1>2, <1>3

(* A thread that slept in intq_putc() stores its byte, or waits again.      *)
LEMMA PutResumesStep ==
  ASSUME ConsoleInv, NEW t \in Printer, PutResumes(t)
  PROVE  ConsoleInv'
  <1> USE ConsoleAssumption DEF ConsoleInv, PutResumes
  <1>1. /\ cpu = NULL /\ AfterPutc(t) /\ Tx!Woken(t) /\ txpc[t] = "woken"
    BY DEF TxSleepers, Tx!Locked, Tx!Woken
  <1>2. /\ mode = "QUEUE" /\ spin = NULL /\ ~panic /\ calls[t] > 0 /\ left[t] > 0 /\ not_full # t
        /\ txbyte[t] \in Byte
    BY <1>1 DEF TxSleepers, Polling, Panicking, Boot, Routine
  <1>3. \A u \in Printer : u # t => txpc[u] = "out"
    BY <1>1, <1>2 DEF Boot, LinesWhole, TxSleepers
  <1>4. WriterStores(t, txbyte[t]) \/ WriterWaits(t, txbyte[t])
    BY <1>1 DEF Tx!Woken, Tx!Loop, Tx!MustWait, Tx!Wait, TxFull, WriterStores, WriterWaits
  <1> QED BY <1>1, <1>2, <1>3, <1>4, WriterStep

(* The static data satisfy the invariant.                                  *)
LEMMA ConsoleInitial == Init => ConsoleInv
  <1> SUFFICES ASSUME Init PROVE ConsoleInv
    OBVIOUS
  <1> USE ConsoleAssumption DEF Init
  <1>1. txq \in Tx!Rings /\ TxEmpty
    BY DEF Tx!Rings, Tx!Cell, TxEmpty, Tx!IntqEmpty
  <1>2. buffer \in In!Rings
    BY DEF In!Rings, In!Cell
  <1>3. ConsoleTypeOK
    BY <1>1, <1>2 DEF ConsoleTypeOK, PcType
  <1>4. Boot /\ LinesWhole /\ Panicking
    BY <1>1 DEF Boot, LinesWhole, Panicking, Routine
  <1>5. Polling /\ Masked /\ TxSleepers /\ Armed
    BY DEF Polling, Masked, TxSleepers, Armed
  <1> QED BY <1>3, <1>4, <1>5 DEF ConsoleInv

(* Nothing changes.                                                        *)
LEMMA ConsoleStutter == ASSUME ConsoleInv, UNCHANGED vars PROVE ConsoleInv'
  <1> USE DEF ConsoleInv, vars, consoleVars, uartVars, txVars, inVars
  <1>1. ConsoleTypeOK'
    BY DEF ConsoleTypeOK
  <1>2. Boot' /\ LinesWhole' /\ Panicking' /\ Polling' /\ Masked'
    BY DEF Boot, LinesWhole, Panicking, Polling, Masked, TxEmpty, TxFull
  <1>3. TxSleepers' /\ Armed'
    BY DEF TxSleepers, Armed, TxEmpty, TxFull, input_full
  <1> QED BY <1>1, <1>2, <1>3

(* ConsoleInv is inductive.                                                *)
LEMMA ConsoleStep == ConsoleInv /\ [Next]_vars => ConsoleInv'
  <1> SUFFICES ASSUME ConsoleInv, [Next]_vars PROVE ConsoleInv'
    OBVIOUS
  <1>1. ASSUME NEW t \in Printer, ThreadStep(t) PROVE ConsoleInv'
    <2>1. ASSUME NEW b \in Byte, PutPolled(t, b) \/ PutMakingRoom(t, b) \/ PutQueued(t, b) PROVE ConsoleInv'
      BY <2>1, PutPolledStep, MakingRoomStep, PutQueuedStep
    <2> QED BY <1>1, <2>1, PutLineStep, PrintWithinStep, PrintReturnsStep, PutResumesStep, PanicStep, FlushStep
            DEF ThreadStep, serial_putc
  <1>2. CASE console_init \/ serial_init_queue
    BY <1>2, ConsoleInitStep, InitQueueStep
  <1>3. CASE PollDone \/ FlushByte
    BY <1>3, PollDoneStep, FlushByteStep
  <1>4. CASE IrqEnter \/ Handler
    BY <1>4, IrqEnterStep, IrqReceiveStep, IrqTransmitStep DEF Handler
  <1>5. ASSUME NEW b \in Byte, IrqPrint(b) PROVE ConsoleInv'
    BY <1>5, IrqPrintStep
  <1>6. ASSUME NEW k \in Key, keyboard_interrupt(k) PROVE ConsoleInv'
    BY <1>6, KeyboardStep
  <1>7. ASSUME NEW r \in Reader, input_getc(r) PROVE ConsoleInv'
    BY <1>7, GetcStep
  <1>8. CASE UartSend \/ UartReceive
    BY <1>8, UartSendStep, UartReceiveStep
  <1>9. CASE UNCHANGED vars
    BY <1>9, ConsoleStutter
  <1> QED BY <1>1, <1>2, <1>3, <1>4, <1>5, <1>6, <1>7, <1>8, <1>9 DEF Next

(* ConsoleInv holds of every reachable state of the console, serial port   *)
(* and input queue.                                                        *)
THEOREM ConsoleInvariant == Spec => []ConsoleInv
  BY ConsoleInitial, ConsoleStep, PTL DEF Spec

(* Until a panic, a thread in the middle of a call that prints has the     *)
(* console to itself, nested calls included.                               *)
THEOREM LinesAreWhole == Spec => []LinesWhole
  <1>1. ConsoleInv => LinesWhole
    BY DEF ConsoleInv
  <1> QED BY <1>1, ConsoleInvariant, PTL

(* While interrupts are on, an interrupt is bound to come for every byte   *)
(* that waits to be sent, and for every byte received while there is room. *)
THEOREM InterruptsStayArmed == Spec => []InterruptsArmed
  <1>1. ConsoleInv => InterruptsArmed
    BY ConsoleAssumption DEF ConsoleInv, Armed, InterruptsArmed, Routine
  <1> QED BY <1>1, ConsoleInvariant, PTL

-----------------------------------------------------------------------------
(* The input queue.  intq.c lets one thread wait in a queue: OneReader is  *)
(* what input.c needs, and what its callers must see to.                   *)
OneReader == \A r, s \in Reader : r = s

(* A step either leaves the input queue alone, or stores a byte, or is a   *)
(* step of a reader.                                                       *)
LEMMA InputCases ==
  ASSUME ConsoleInv, [Next]_vars
  PROVE  \/ UNCHANGED <<buffer, inowner, not_empty, inpc, inpanic>>
         \/ \E k \in Key : In!Store(inpc, k) /\ UNCHANGED <<inowner, inpanic>>
         \/ \E r \in Reader : In!Getc(r) \/ In!Locked(r) \/ In!Woken(r)
  <1> USE DEF inVars
  <1>1. ASSUME NEW t \in Printer, ThreadStep(t) PROVE UNCHANGED <<buffer, inowner, not_empty, inpc, inpanic>>
    BY <1>1 DEF ThreadStep, PutLine, PrintWithin, PrintReturns, serial_putc, PutPolled, PutMakingRoom, PutQueued,
                PutResumes, AfterPutc, debug_panic, serial_flush
  <1>2. CASE console_init \/ serial_init_queue \/ PollDone \/ FlushByte \/ IrqEnter \/ UartSend \/ UartReceive
    BY <1>2 DEF console_init, serial_init_queue, PollDone, FlushByte, IrqEnter, UartSend, UartReceive
  <1>3. CASE IrqReceive
    BY <1>3 DEF IrqReceive, input_putc, ConsoleInv, ConsoleTypeOK
  <1>4. CASE IrqTransmit
    BY <1>4 DEF IrqTransmit
  <1>5. ASSUME NEW b \in Byte, IrqPrint(b) PROVE UNCHANGED <<buffer, inowner, not_empty, inpc, inpanic>>
    BY <1>5 DEF IrqPrint
  <1>6. ASSUME NEW k \in Key, keyboard_interrupt(k) PROVE In!Store(inpc, k) /\ UNCHANGED <<inowner, inpanic>>
    BY <1>6 DEF keyboard_interrupt, input_putc
  <1>7. ASSUME NEW r \in Reader, input_getc(r) PROVE In!Getc(r) \/ In!Locked(r) \/ In!Woken(r)
    BY <1>7 DEF input_getc
  <1>8. CASE UNCHANGED vars
    BY <1>8 DEF vars
  <1> QED BY <1>1, <1>2, <1>3, <1>4, <1>5, <1>6, <1>7, <1>8 DEF Next, Handler

(* With one reader, it is never asleep while there is a byte for it.       *)
LEMMA InSleepersStep == (OneReader /\ ConsoleInv /\ InSleepers /\ [Next]_vars) => InSleepers'
  <1> SUFFICES ASSUME OneReader, ConsoleInv, InSleepers, [Next]_vars PROVE InSleepers'
    OBVIOUS
  <1>0. /\ inpc \in [Reader -> PcType] /\ inowner \in Reader \cup {NULL} /\ not_empty \in Reader \cup {NULL}
        /\ nobody = NULL
    BY DEF ConsoleInv, ConsoleTypeOK
  <1>1. CASE UNCHANGED <<buffer, inowner, not_empty, inpc, inpanic>>
    BY <1>1 DEF InSleepers
  <1>2. ASSUME NEW k \in Key, In!Store(inpc, k), UNCHANGED <<inowner, inpanic>> PROVE InSleepers'
    <2>1. /\ not_empty' = NULL /\ inpanic' = inpanic /\ inowner' = inowner
          /\ \A r \in Reader : inpc'[r] = IF r = not_empty THEN "woken" ELSE inpc[r]
      BY <1>0, <1>2, ConsoleAssumption DEF In!Store, In!Signal
    <2> QED BY <2>1, ConsoleAssumption DEF InSleepers
  <1>3. ASSUME NEW r \in Reader, In!Getc(r) \/ In!Locked(r) \/ In!Woken(r) PROVE InSleepers'
    <2>1. \A s \in Reader : s = r
      BY DEF OneReader
    <2>2. \/ ReaderTakes(r) /\ inpc[r] = "out" /\ inowner' = inowner
          \/ ReaderTakes(r) /\ inpc[r] = "woken" /\ inowner' = NULL
          \/ ReaderWaits(r) /\ inpc[r] = "locking"
          \/ ReaderWaits(r) /\ inpc[r] \in {"out", "woken"} /\ In!IntqEmpty(buffer)
          \/ ReaderLocks(r) /\ inpc[r] = "out" /\ inowner # NULL /\ inowner' = inowner
      BY <1>3, ReaderStep
    <2>3. CASE ReaderTakes(r) /\ inpc[r] = "out" /\ inowner' = inowner
      BY <1>0, <2>1, <2>3, ConsoleAssumption DEF ReaderTakes, InSleepers
    <2>4. CASE ReaderTakes(r) /\ inpc[r] = "woken" /\ inowner' = NULL
      BY <1>0, <2>1, <2>4, ConsoleAssumption DEF ReaderTakes, InSleepers
    <2>5. CASE ReaderWaits(r) /\ In!IntqEmpty(buffer)
      <3>1. inpanic' = FALSE /\ buffer' = buffer /\ inpc'[r] = "waiting" /\ inowner' = r /\ not_empty' = r
        BY <1>0, <2>5 DEF ReaderWaits
      <3> QED BY <2>1, <2>5, <3>1 DEF InSleepers
    <2> QED BY <1>0, <2>1, <2>2, <2>3, <2>4, <2>5 DEF InSleepers
  <1> QED BY <1>1, <1>2, <1>3, InputCases

(* No thread sleeps through its wakeup in either queue, and no ASSERT of   *)
(* wait() fails, as long as one thread only reads the input.               *)
THEOREM QueuesAlwaysWake == ASSUME OneReader PROVE Spec => []QueuesWakeSleepers
  <1>1. Init => InSleepers
    BY ConsoleAssumption DEF Init, InSleepers
  <1>2. ConsoleInv /\ InSleepers => QueuesWakeSleepers
    BY DEF ConsoleInv, TxSleepers, TxFull, InSleepers, QueuesWakeSleepers, Tx!NoMissedSignal, Tx!Thread, Tx!MustWait,
           In!NoMissedSignal, In!Thread, In!MustWait
  <1> QED BY <1>1, <1>2, InSleepersStep, ConsoleInvariant, PTL DEF Spec

-----------------------------------------------------------------------------
(* The cell of the i-th byte of a ring whose tail is l.                    *)
Pos(l, i) == (l + i - 1) % TXQ_SIZE

LEMMA PosProperties ==
  ASSUME NEW l \in Tx!Cell, NEW i \in 1..TXQ_SIZE
  PROVE  /\ Pos(l, i) \in Tx!Cell
         /\ Pos(l, i) = (IF l + i - 1 < TXQ_SIZE THEN l + i - 1 ELSE l + i - 1 - TXQ_SIZE)
  <1>0. TXQ_SIZE \in Nat /\ TXQ_SIZE > 0
    BY ConsoleAssumption
  <1>1. PICK a \in Nat : a = l + i - 1 /\ a < 2 * TXQ_SIZE
    BY <1>0 DEF Tx!Cell
  <1>2. Pos(l, i) = a % TXQ_SIZE
    BY <1>1 DEF Pos
  <1>3. Pos(l, i) = (IF a < TXQ_SIZE THEN a ELSE a - TXQ_SIZE)
    BY <1>0, <1>1, <1>2, Wrap
  <1> QED BY <1>0, <1>1, <1>3 DEF Tx!Cell

(* The ring holds a sequence of bytes.                                     *)
LEMMA ContentsIsSeq ==
  ASSUME NEW r \in Tx!Rings
  PROVE  /\ Tx!Contents(r) \in Seq(Byte) /\ Len(Tx!Contents(r)) = Tx!Count(r)
         /\ \A i \in 1..Tx!Count(r) : Tx!Contents(r)[i] = r.buf[Pos(r.tail, i)]
  <1>1. r.buf \in [Tx!Cell -> Byte] /\ r.tail \in Tx!Cell
    BY DEF Tx!Rings
  <1>2. Tx!Count(r) \in 0..(TXQ_SIZE - 1) /\ TXQ_SIZE \in Nat /\ TXQ_SIZE > 0
    BY TxCount, ConsoleAssumption
  <1>3. Tx!Contents(r) = [i \in 1..Tx!Count(r) |-> r.buf[Pos(r.tail, i)]]
    BY DEF Tx!Contents, Pos
  <1>4. \A i \in 1..Tx!Count(r) : Pos(r.tail, i) \in Tx!Cell
    BY <1>1, <1>2, PosProperties
  <1>5. Tx!Contents(r) \in [1..Tx!Count(r) -> Byte]
    BY <1>1, <1>3, <1>4
  <1>6. Tx!Contents(r) \in Seq(Byte) /\ Len(Tx!Contents(r)) = Tx!Count(r)
    BY <1>2, <1>5, LenProperties, SeqDef
  <1> QED BY <1>3, <1>6

(* A byte put goes to the end of what the ring holds.                      *)
LEMMA ContentsPut ==
  ASSUME NEW r \in Tx!Rings, NEW b \in Byte, ~Tx!IntqFull(r)
  PROVE  Tx!Contents(Tx!PutByte(r, b)) = Append(Tx!Contents(r), b)
  <1>0. PICK f \in [Tx!Cell -> Byte], h \in Tx!Cell, l \in Tx!Cell : r = [buf |-> f, head |-> h, tail |-> l]
    BY DEF Tx!Rings
  <1>1. PICK g \in [Tx!Cell -> Byte], k \in Tx!Cell :
           /\ g = [f EXCEPT ![h] = b] /\ k = (IF h + 1 = TXQ_SIZE THEN 0 ELSE h + 1)
           /\ Tx!PutByte(r, b) = [buf |-> g, head |-> k, tail |-> l]
           /\ Tx!PutByte(r, b) \in Tx!Rings
    <2>1. /\ Tx!PutByte(r, b) = [buf |-> [r.buf EXCEPT ![r.head] = b], head |-> Tx!NextPos(r.head), tail |-> r.tail]
          /\ Tx!PutByte(r, b) \in Tx!Rings
      BY TxRings
    <2>2. /\ Tx!NextPos(h) = (IF h + 1 = TXQ_SIZE THEN 0 ELSE h + 1) /\ Tx!NextPos(h) \in Tx!Cell
          /\ [f EXCEPT ![h] = b] \in [Tx!Cell -> Byte]
      BY TxNextPos
    <2>3. r.buf = f /\ r.head = h /\ r.tail = l
      BY <1>0
    <2> QED BY <2>1, <2>2, <2>3
  <1>2. PICK p \in Tx!Rings : p = Tx!PutByte(r, b) /\ p = [buf |-> g, head |-> k, tail |-> l]
    BY <1>1
  <1>3. PICK c \in 0..(TXQ_SIZE - 1) : /\ c = Tx!Count(r) /\ c = (IF l <= h THEN h - l ELSE h + TXQ_SIZE - l)
                                       /\ c # TXQ_SIZE - 1
    BY <1>0, TxCount
  <1>4. Tx!Count(p) = (IF l <= k THEN k - l ELSE k + TXQ_SIZE - l)
    BY <1>2, TxCount
  <1>5. Tx!Count(p) = c + 1
    BY <1>1, <1>3, <1>4, ConsoleAssumption DEF Tx!Cell
  <1>6. PICK s \in Seq(Byte) : /\ s = Tx!Contents(r) /\ Len(s) = c
                               /\ \A i \in 1..c : s[i] = f[Pos(l, i)]
    BY <1>0, <1>3, ContentsIsSeq
  <1>7. /\ Append(s, b) \in Seq(Byte) /\ Len(Append(s, b)) = c + 1
        /\ \A i \in 1..c : Append(s, b)[i] = s[i]
        /\ Append(s, b)[c + 1] = b
    BY <1>6, AppendProperties
  <1>8. PICK z \in Seq(Byte) : /\ z = Tx!Contents(p) /\ Len(z) = c + 1
                               /\ \A i \in 1..(c + 1) : z[i] = g[Pos(l, i)]
    BY <1>2, <1>5, ContentsIsSeq, SMTT(60)
  <1>9. ASSUME NEW i \in 1..(c + 1) PROVE z[i] = Append(s, b)[i]
    <2>1. PICK m \in Tx!Cell : m = Pos(l, i) /\ m = (IF l + i - 1 < TXQ_SIZE THEN l + i - 1 ELSE l + i - 1 - TXQ_SIZE)
      BY <1>3, PosProperties, ConsoleAssumption
    <2>2. CASE i = c + 1
      <3>1. m = h
        BY <1>3, <2>1, <2>2, ConsoleAssumption, SMTT(60) DEF Tx!Cell
      <3> QED BY <1>1, <1>7, <1>8, <2>1, <2>2, <3>1
    <2>3. CASE i \in 1..c
      <3>1. m # h
        BY <1>3, <2>1, <2>3, ConsoleAssumption, SMTT(60) DEF Tx!Cell
      <3> QED BY <1>1, <1>6, <1>7, <1>8, <2>1, <2>3, <3>1
    <2>4. i = c + 1 \/ i \in 1..c
      BY <1>3
    <2> QED BY <2>2, <2>3, <2>4
  <1>10. z = Append(s, b)
    BY <1>7, <1>8, <1>9, SeqEqual
  <1> QED BY <1>2, <1>6, <1>8, <1>10

(* The byte dropped is the first of what the ring holds.                   *)
LEMMA ContentsDrop ==
  ASSUME NEW r \in Tx!Rings, ~Tx!IntqEmpty(r)
  PROVE  Tx!Contents(r) = <<Tx!FirstByte(r)>> \o Tx!Contents(Tx!DropByte(r))
  <1>0. PICK f \in [Tx!Cell -> Byte], h \in Tx!Cell, l \in Tx!Cell : r = [buf |-> f, head |-> h, tail |-> l]
    BY DEF Tx!Rings
  <1>1. PICK k \in Tx!Cell :
           /\ k = (IF l + 1 = TXQ_SIZE THEN 0 ELSE l + 1)
           /\ Tx!DropByte(r) = [buf |-> f, head |-> h, tail |-> k]
           /\ Tx!DropByte(r) \in Tx!Rings
    BY <1>0, TxRings, TxNextPos, ConsoleAssumption
  <1>2. PICK p \in Tx!Rings : p = Tx!DropByte(r) /\ p = [buf |-> f, head |-> h, tail |-> k]
    BY <1>1
  <1>3. PICK c \in 0..(TXQ_SIZE - 1) : /\ c = Tx!Count(p) /\ c = (IF k <= h THEN h - k ELSE h + TXQ_SIZE - k)
    BY <1>2, TxCount
  <1>4. /\ Tx!Count(r) = (IF l <= h THEN h - l ELSE h + TXQ_SIZE - l)
        /\ Tx!Count(r) \in 0..(TXQ_SIZE - 1) /\ Tx!Count(r) # 0
    BY <1>0, TxCount
  <1>5. Tx!Count(r) = c + 1 /\ c + 1 < TXQ_SIZE
    <2>1. CASE l + 1 = TXQ_SIZE
      BY <1>1, <1>3, <1>4, <2>1, ConsoleAssumption DEF Tx!Cell
    <2>2. CASE l + 1 # TXQ_SIZE
      <3>1. k = l + 1
        BY <1>1, <2>2
      <3>2. CASE l < h
        BY <1>3, <1>4, <3>1, <3>2, ConsoleAssumption DEF Tx!Cell
      <3>3. CASE h < l
        BY <1>3, <1>4, <3>1, <3>3, ConsoleAssumption DEF Tx!Cell
      <3> QED BY <1>4, <3>2, <3>3, ConsoleAssumption DEF Tx!Cell
    <2> QED BY <2>1, <2>2
  <1>6. PICK s \in Seq(Byte) : /\ s = Tx!Contents(p) /\ Len(s) = c
                               /\ \A i \in 1..c : s[i] = f[Pos(k, i)]
    BY <1>2, <1>3, ContentsIsSeq
  <1>7. PICK z \in Seq(Byte) : /\ z = Tx!Contents(r) /\ Len(z) = c + 1
                               /\ \A i \in 1..(c + 1) : z[i] = f[Pos(l, i)]
    BY <1>0, <1>5, ContentsIsSeq
  <1>8. PICK x \in Byte : x = Tx!FirstByte(r) /\ x = f[l]
    BY <1>0 DEF Tx!FirstByte
  <1>9. <<x>> \in Seq(Byte) /\ Len(<<x>>) = 1 /\ <<x>>[1] = x
    OBVIOUS
  <1>10. /\ <<x>> \o s \in Seq(Byte) /\ Len(<<x>> \o s) = c + 1
         /\ \A i \in 1..(c + 1) : (<<x>> \o s)[i] = IF i = 1 THEN x ELSE s[i - 1]
    BY <1>3, <1>6, <1>9, ConcatProperties
  <1>11. ASSUME NEW i \in 1..(c + 1) PROVE z[i] = (<<x>> \o s)[i]
    <2>1. PICK m \in Tx!Cell : m = Pos(l, i) /\ m = (IF l + i - 1 < TXQ_SIZE THEN l + i - 1 ELSE l + i - 1 - TXQ_SIZE)
      BY <1>5, PosProperties, ConsoleAssumption
    <2>2. CASE i = 1
      <3>1. m = l
        BY <2>1, <2>2, ConsoleAssumption DEF Tx!Cell
      <3> QED BY <1>7, <1>8, <1>10, <2>1, <2>2, <3>1
    <2>3. CASE i # 1
      <3>1. PICK j \in 1..c : j = i - 1
        BY <1>3, <2>3
      <3>2. PICK o \in Tx!Cell : o = Pos(k, j) /\ o = (IF k + j - 1 < TXQ_SIZE THEN k + j - 1 ELSE k + j - 1 - TXQ_SIZE)
        BY <1>5, PosProperties, ConsoleAssumption
      <3>3. o = m
        <4>0. /\ m = (IF l + i - 1 < TXQ_SIZE THEN l + i - 1 ELSE l + i - 1 - TXQ_SIZE)
              /\ o = (IF k + j - 1 < TXQ_SIZE THEN k + j - 1 ELSE k + j - 1 - TXQ_SIZE)
          BY <2>1, <3>2, Zenon
        <4>a. TXQ_SIZE \in Nat /\ l \in Nat /\ k \in Nat /\ c \in Nat
          BY <1>3, ConsoleAssumption DEF Tx!Cell
        <4>b. i \in Nat /\ j \in Nat /\ i = j + 1 /\ j > 0 /\ j < TXQ_SIZE
          BY <1>5, <3>1, <4>a
        <4>1. CASE l + 1 = TXQ_SIZE
          <5>1. k = 0
            BY <1>1, <4>1
          <5> QED BY <4>0, <4>a, <4>b, <4>1, <5>1
        <4>2. CASE l + 1 # TXQ_SIZE
          <5>1. k = l + 1
            BY <1>1, <4>2
          <5> QED BY <4>0, <4>a, <4>b, <5>1
        <4> QED BY <4>1, <4>2
      <3>4. (<<x>> \o s)[i] = s[j]
        BY <1>10, <2>3, <3>1
      <3>5. s[j] = f[o] /\ z[i] = f[m]
        BY <1>6, <1>7, <2>1, <3>2
      <3> QED BY <3>3, <3>4, <3>5
    <2> QED BY <2>2, <2>3
  <1>12. z = <<x>> \o s
    BY <1>7, <1>10, <1>11, SeqEqual
  <1> QED BY <1>2, <1>6, <1>7, <1>8, <1>12

(* The bytes on their way out, from the THR, the byte being polled and the *)
(* ring: Line is LineOf(thr, spin, txq).                                   *)
LineOf(h, s, r) == (IF h = NULL THEN << >> ELSE <<h>>)
                     \o (IF s = NULL THEN << >> ELSE <<s.byte>>)
                     \o Tx!Contents(r)

(* A byte in front of a sequence, and one behind it.                       *)
LEMMA OneByte ==
  ASSUME NEW x \in Byte, NEW s \in Seq(Byte)
  PROVE  /\ <<x>> \in Seq(Byte) /\ << >> \in Seq(Byte)
         /\ << >> \o s = s /\ s \o << >> = s
         /\ <<x>> \o s \in Seq(Byte) /\ <<x>> \o s # << >> /\ Tail(<<x>> \o s) = s
         /\ Len(<<x>> \o s) = Len(s) + 1
         /\ Append(s, x) = s \o <<x>>
  <1>1. <<x>> \in Seq(Byte) /\ << >> \in Seq(Byte) /\ Len(<<x>>) = 1 /\ Len(s) \in Nat
    OBVIOUS
  <1>2. << >> \o s = s /\ s \o << >> = s
    BY ConcatEmptySeq
  <1>3. PICK z : /\ z = <<x>> \o s /\ z \in Seq(Byte) /\ Len(z) = Len(s) + 1
                 /\ \A i \in 1..Len(z) : z[i] = IF i <= 1 THEN <<x>>[i] ELSE s[i - 1]
    <2>1. PICK y : y = <<x>> /\ y \in Seq(Byte) /\ Len(y) = 1
      BY <1>1
    <2>2. PICK z : z = y \o s
      OBVIOUS
    <2>3. /\ z \in Seq(Byte) /\ Len(z) = Len(y) + Len(s)
          /\ \A i \in 1..(Len(y) + Len(s)) : z[i] = IF i <= Len(y) THEN y[i] ELSE s[i - Len(y)]
      BY <2>1, <2>2, ConcatProperties
    <2>4. Len(y) + Len(s) = Len(s) + 1
      BY <1>1, <2>1
    <2> QED BY <2>1, <2>2, <2>3, <2>4
  <1>4. z # << >> /\ Tail(z) \in Seq(Byte) /\ Len(Tail(z)) = Len(s)
        /\ \A i \in 1..Len(s) : Tail(z)[i] = z[i + 1]
    BY <1>1, <1>3, HeadTailProperties
  <1>5. ASSUME NEW i \in 1..Len(s) PROVE Tail(z)[i] = s[i]
    <2>1. PICK j \in 1..Len(z) : j = i + 1
      BY <1>1, <1>3
    <2>2. z[j] = s[j - 1] /\ j - 1 = i
      BY <1>3, <2>1
    <2> QED BY <1>4, <2>1, <2>2
  <1>6. Tail(z) = s
    BY <1>4, <1>5, SeqEqual
  <1> QED BY <1>1, <1>2, <1>3, <1>4, <1>6, AppendIsConcat

(* What stands in front of the ring, in the line, is a sequence of bytes.  *)
LEMMA FrontIsSeq ==
  ASSUME NEW h \in Byte \cup {NULL}, NEW s \in Spinning \cup {NULL}
  PROVE  /\ (IF h = NULL THEN << >> ELSE <<h>>) \in Seq(Byte)
         /\ (IF s = NULL THEN << >> ELSE <<s.byte>>) \in Seq(Byte)
         /\ s # NULL => s.byte \in Byte
  <1>1. (IF h = NULL THEN << >> ELSE <<h>>) \in Seq(Byte)
    <2>1. CASE h = NULL
      BY <2>1
    <2>2. CASE h # NULL
      BY <2>2
    <2> QED BY <2>1, <2>2
  <1>2. s # NULL => s.byte \in Byte
    BY DEF Spinning
  <1>3. (IF s = NULL THEN << >> ELSE <<s.byte>>) \in Seq(Byte)
    <2>1. CASE s = NULL
      BY <2>1
    <2>2. CASE s # NULL
      BY <1>2, <2>2
    <2> QED BY <2>1, <2>2
  <1> QED BY <1>1, <1>2, <1>3

(* The parts of the line: the ring alone, the byte polled in front of it,  *)
(* the byte of the THR in front of both.                                   *)
LEMMA LineRing ==
  ASSUME NEW r \in Tx!Rings
  PROVE  /\ LineOf(NULL, NULL, r) = Tx!Contents(r)
         /\ LineOf(NULL, NULL, r) \in Seq(Byte) /\ Len(LineOf(NULL, NULL, r)) = Tx!Count(r)
  <1>1. PICK z \in Seq(Byte) : z = Tx!Contents(r) /\ Len(z) = Tx!Count(r)
    BY ContentsIsSeq
  <1>2. LineOf(NULL, NULL, r) = << >> \o << >> \o z
    BY <1>1, Zenon DEF LineOf
  <1>3. << >> \o << >> = << >> /\ << >> \o z = z
    BY ConsoleAssumption, OneByte
  <1> QED BY <1>1, <1>2, <1>3

LEMMA LinePolling ==
  ASSUME NEW s \in Spinning, NEW r \in Tx!Rings
  PROVE  /\ LineOf(NULL, s, r) = <<s.byte>> \o Tx!Contents(r) /\ s.byte \in Byte
         /\ LineOf(NULL, s, r) \in Seq(Byte) /\ Len(LineOf(NULL, s, r)) = Tx!Count(r) + 1
  <1>0. PICK x \in Byte : x = s.byte /\ s # NULL
    BY ConsoleAssumption DEF Spinning
  <1>1. PICK z \in Seq(Byte) : z = Tx!Contents(r) /\ Len(z) = Tx!Count(r)
    BY ContentsIsSeq
  <1>2. LineOf(NULL, s, r) = << >> \o <<x>> \o z
    BY <1>0, <1>1, Zenon DEF LineOf
  <1>3. << >> \o <<x>> = <<x>>
    BY OneByte
  <1>4. LineOf(NULL, s, r) = <<x>> \o z
    BY <1>2, <1>3
  <1> QED BY <1>0, <1>1, <1>4, OneByte

LEMMA LineFront ==
  ASSUME NEW h \in Byte, NEW s \in Spinning \cup {NULL}, NEW r \in Tx!Rings
  PROVE  LineOf(h, s, r) = <<h>> \o LineOf(NULL, s, r) /\ LineOf(NULL, s, r) \in Seq(Byte)
  <1>0. h # NULL
    BY ConsoleAssumption
  <1>1. PICK z \in Seq(Byte) : z = Tx!Contents(r)
    BY ContentsIsSeq
  <1>2. PICK y \in Seq(Byte) : y = (IF s = NULL THEN << >> ELSE <<s.byte>>)
    BY FrontIsSeq, ConsoleAssumption, Zenon
  <1>3. LineOf(h, s, r) = <<h>> \o y \o z /\ LineOf(NULL, s, r) = << >> \o y \o z
    BY <1>0, <1>1, <1>2, Zenon DEF LineOf
  <1>4. <<h>> \in Seq(Byte) /\ << >> \o y = y /\ (<<h>> \o y) \o z = <<h>> \o (y \o z) /\ y \o z \in Seq(Byte)
    BY OneByte, ConcatAssociative, ConcatProperties
  <1> QED BY <1>3, <1>4

(* A line with room in the ring, and a free THR or nothing polled, is      *)
(* shorter than TXQ_SIZE.                                                  *)
LEMMA LineRoom ==
  ASSUME NEW h \in Byte \cup {NULL}, NEW s \in Spinning \cup {NULL}, NEW r \in Tx!Rings,
         h = NULL \/ s = NULL, ~Tx!IntqFull(r)
  PROVE  LineOf(h, s, r) \in Seq(Byte) /\ Len(LineOf(h, s, r)) < TXQ_SIZE
  <1>1. PICK c \in Nat : c = Tx!Count(r) /\ c + 1 < TXQ_SIZE
    BY TxCount, ConsoleAssumption
  <1>2. CASE h = NULL /\ s = NULL
    BY <1>1, <1>2, LineRing, ConsoleAssumption
  <1>3. CASE h = NULL /\ s # NULL
    BY <1>1, <1>3, LinePolling, ConsoleAssumption
  <1>4. CASE h # NULL /\ s = NULL
    <2>1. h \in Byte /\ LineOf(h, s, r) = <<h>> \o LineOf(NULL, NULL, r)
      BY <1>4, LineFront
    <2>2. LineOf(NULL, NULL, r) \in Seq(Byte) /\ Len(LineOf(NULL, NULL, r)) = c
      BY <1>1, LineRing
    <2>3. LineOf(h, s, r) \in Seq(Byte) /\ Len(LineOf(h, s, r)) = c + 1
      BY <2>1, <2>2, OneByte
    <2> QED BY <1>1, <2>3
  <1> QED BY <1>2, <1>3, <1>4

(* How each kind of step moves the bytes: one leaves the THR; one joins    *)
(* the ring; one moves from the ring to be polled, from there to the THR,  *)
(* or from the ring to the THR.                                            *)
LEMMA LineSends ==
  ASSUME NEW h \in Byte, NEW s \in Spinning \cup {NULL}, NEW r \in Tx!Rings
  PROVE  LineOf(h, s, r) # << >> /\ Tail(LineOf(h, s, r)) = LineOf(NULL, s, r)
  <1>1. LineOf(h, s, r) = <<h>> \o LineOf(NULL, s, r) /\ LineOf(NULL, s, r) \in Seq(Byte)
    BY LineFront
  <1> QED BY <1>1, OneByte

LEMMA LineAccepts ==
  ASSUME NEW h \in Byte \cup {NULL}, NEW s \in Spinning \cup {NULL}, NEW r \in Tx!Rings, NEW b \in Byte, ~Tx!IntqFull(r)
  PROVE  LineOf(h, s, Tx!PutByte(r, b)) = Append(LineOf(h, s, r), b)
  <1>1. PICK u \in Seq(Byte) : u = (IF h = NULL THEN << >> ELSE <<h>>)
    BY FrontIsSeq, Zenon
  <1>2. PICK v \in Seq(Byte) : v = (IF s = NULL THEN << >> ELSE <<s.byte>>)
    BY FrontIsSeq, ConsoleAssumption, Zenon
  <1>3. PICK y \in Seq(Byte) : y = u \o v
    BY ConcatProperties
  <1>4. PICK z \in Seq(Byte) : z = Tx!Contents(r)
    BY ContentsIsSeq
  <1>5. Tx!Contents(Tx!PutByte(r, b)) = z \o <<b>> /\ <<b>> \in Seq(Byte)
    BY <1>4, ContentsPut, OneByte
  <1>6. LineOf(h, s, r) = y \o z /\ LineOf(h, s, Tx!PutByte(r, b)) = y \o (z \o <<b>>)
    BY <1>1, <1>2, <1>3, <1>4, <1>5, Zenon DEF LineOf
  <1>7. y \o (z \o <<b>>) = (y \o z) \o <<b>> /\ y \o z \in Seq(Byte)
    BY <1>5, ConcatAssociative, ConcatProperties
  <1> QED BY <1>6, <1>7, OneByte

LEMMA LinePolls ==
  ASSUME NEW h \in Byte \cup {NULL}, NEW r \in Tx!Rings, ~Tx!IntqEmpty(r), NEW b \in Byte \cup {NULL}
  PROVE  LineOf(h, [byte |-> Tx!FirstByte(r), then |-> b], Tx!DropByte(r)) = LineOf(h, NULL, r)
  <1>1. PICK q \in Tx!Rings, x \in Byte : q = Tx!DropByte(r) /\ x = Tx!FirstByte(r)
    BY TxRings, ConsoleAssumption
  <1>2. [byte |-> x, then |-> b] \in Spinning /\ [byte |-> x, then |-> b].byte = x
    BY DEF Spinning
  <1>3. PICK s \in Spinning : s = [byte |-> x, then |-> b] /\ s.byte = x
    BY <1>2, Zenon
  <1>4. LineOf(NULL, s, q) = LineOf(NULL, NULL, r)
    <2>1. LineOf(NULL, s, q) = <<x>> \o Tx!Contents(q)
      BY <1>3, LinePolling
    <2>2. Tx!Contents(r) = <<x>> \o Tx!Contents(q)
      BY <1>1, ContentsDrop
    <2> QED BY <2>1, <2>2, LineRing
  <1>5. LineOf(h, s, q) = LineOf(h, NULL, r)
    <2>1. CASE h = NULL
      BY <1>4, <2>1
    <2>2. CASE h \in Byte
      <3>1. LineOf(h, s, q) = <<h>> \o LineOf(NULL, s, q)
        BY <2>2, LineFront
      <3>2. LineOf(h, NULL, r) = <<h>> \o LineOf(NULL, NULL, r)
        BY <2>2, LineFront
      <3> QED BY <1>4, <3>1, <3>2
    <2> QED BY <2>1, <2>2
  <1> QED BY <1>1, <1>3, <1>5

LEMMA LineMoves ==
  ASSUME NEW s \in Spinning, NEW r \in Tx!Rings
  PROVE  LineOf(s.byte, NULL, r) = LineOf(NULL, s, r)
  <1>1. LineOf(NULL, s, r) = <<s.byte>> \o Tx!Contents(r) /\ s.byte \in Byte
    BY LinePolling
  <1>2. PICK x \in Byte : x = s.byte
    BY <1>1
  <1>3. LineOf(x, NULL, r) = <<x>> \o LineOf(NULL, NULL, r)
    BY LineFront
  <1> QED BY <1>1, <1>2, <1>3, LineRing

LEMMA LineTransmits ==
  ASSUME NEW r \in Tx!Rings, ~Tx!IntqEmpty(r)
  PROVE  LineOf(Tx!FirstByte(r), NULL, Tx!DropByte(r)) = LineOf(NULL, NULL, r)
  <1>1. PICK q \in Tx!Rings, x \in Byte : q = Tx!DropByte(r) /\ x = Tx!FirstByte(r)
    BY TxRings, ConsoleAssumption
  <1>2. LineOf(x, NULL, q) = <<x>> \o LineOf(NULL, NULL, q)
    BY LineFront
  <1>3. LineOf(NULL, NULL, q) = Tx!Contents(q) /\ LineOf(NULL, NULL, r) = Tx!Contents(r)
    BY LineRing
  <1>4. Tx!Contents(r) = <<x>> \o Tx!Contents(q)
    BY <1>1, ContentsDrop
  <1> QED BY <1>1, <1>2, <1>3, <1>4

LEMMA LineJoins ==
  ASSUME NEW h \in Byte \cup {NULL}, NEW r \in Tx!Rings, Tx!IntqEmpty(r), NEW b \in Byte
  PROVE  LineOf(h, [byte |-> b, then |-> NULL], r) = Append(LineOf(h, NULL, r), b)
  <1>1. [byte |-> b, then |-> NULL] \in Spinning /\ [byte |-> b, then |-> NULL].byte = b
    BY DEF Spinning
  <1>2. PICK s \in Spinning : s = [byte |-> b, then |-> NULL] /\ s.byte = b
    BY <1>1, Zenon
  <1>3. Tx!Contents(r) = << >>
    <2>1. Tx!Contents(r) \in Seq(Byte) /\ Len(Tx!Contents(r)) = 0
      BY ContentsIsSeq, TxCount
    <2> QED BY <2>1
  <1>4. LineOf(NULL, s, r) = <<b>> /\ LineOf(NULL, NULL, r) = << >>
    <2>1. LineOf(NULL, s, r) = <<b>> \o << >> /\ LineOf(NULL, NULL, r) = << >>
      BY <1>2, <1>3, LinePolling, LineRing
    <2>2. <<b>> \o << >> = <<b>>
      BY OneByte
    <2> QED BY <2>1, <2>2
  <1>5. CASE h = NULL
    <2>1. Append(<< >>, b) = <<b>>
      OBVIOUS
    <2> QED BY <1>2, <1>4, <1>5, <2>1
  <1>6. CASE h \in Byte
    <2>1. LineOf(h, s, r) = <<h>> \o LineOf(NULL, s, r) /\ LineOf(h, NULL, r) = <<h>> \o LineOf(NULL, NULL, r)
      BY <1>6, LineFront
    <2>2. <<h>> \in Seq(Byte) /\ <<h>> \o << >> = <<h>> /\ Append(<<h>>, b) = <<h>> \o <<b>>
      BY <1>6, OneByte
    <2> QED BY <1>2, <1>4, <2>1, <2>2
  <1> QED BY <1>5, <1>6

(* The steps that move bytes, and what they require.                       *)
WireIdle    == UNCHANGED <<thr, spin, txq>>
WireStore   == \E b \in Byte : /\ spin = NULL /\ ~TxFull /\ txq' = Tx!PutByte(txq, b) /\ UNCHANGED <<thr, spin>>
WirePoll    == \E b \in Byte \cup {NULL} :
                 /\ spin = NULL /\ ~TxEmpty /\ txq' = Tx!DropByte(txq) /\ UNCHANGED thr
                 /\ spin' = [byte |-> Tx!FirstByte(txq), then |-> b]
WireFirst   == \E b \in Byte : /\ spin = NULL /\ TxEmpty /\ spin' = [byte |-> b, then |-> NULL] /\ UNCHANGED <<thr, txq>>
WirePolled  == /\ spin # NULL /\ thr = NULL /\ thr' = spin.byte /\ spin' = NULL
               /\ \/ txq' = txq
                  \/ spin.then \in Byte /\ ~TxFull /\ txq' = Tx!PutByte(txq, spin.then)
WireLoad    == /\ spin = NULL /\ thr = NULL /\ ~TxEmpty /\ UNCHANGED spin
               /\ thr' = Tx!FirstByte(txq) /\ txq' = Tx!DropByte(txq)
WireSend    == thr # NULL /\ thr' = NULL /\ UNCHANGED <<spin, txq>>

(* Every step is one of them, for the line.                                *)
LEMMA WireCases ==
  ASSUME ConsoleInv, [Next]_vars
  PROVE  WireIdle \/ WireStore \/ WirePoll \/ WireFirst \/ WirePolled \/ WireLoad \/ WireSend
  <1> USE DEF consoleVars, txVars, inVars, uartVars
  <1>1. ASSUME NEW t \in Printer, ThreadStep(t) PROVE WireIdle \/ WireStore \/ WirePoll \/ WireFirst
    <2>1. ASSUME NEW b \in Byte, PutPolled(t, b) PROVE WireFirst
      BY <2>1 DEF PutPolled, Running, WireFirst, ConsoleInv, Boot
    <2>2. ASSUME NEW b \in Byte, PutMakingRoom(t, b) PROVE WirePoll
      <3>1. ~TxEmpty
        BY <2>2, TxFlags DEF PutMakingRoom, ConsoleInv, ConsoleTypeOK, TxFull, TxEmpty
      <3> QED BY <2>2, <3>1 DEF PutMakingRoom, PollOldest, Running, Tx!Take, WirePoll
    <2>3. ASSUME NEW b \in Byte, PutQueued(t, b) PROVE WireIdle \/ WireStore
      BY <2>3 DEF PutQueued, Running, AfterPutc, Tx!Putc, Tx!Loop, Tx!MustWait, Tx!Wait, Tx!Store, TxFull, WireIdle, WireStore
    <2>4. CASE PutResumes(t)
      <3>1. spin = NULL /\ Tx!Woken(t) /\ txbyte[t] \in Byte
        BY <2>4, ConsoleAssumption DEF PutResumes, ConsoleInv, Polling, TxSleepers, Tx!Locked, Tx!Woken, Routine
      <3> QED BY <2>4, <3>1 DEF PutResumes, AfterPutc, Tx!Woken, Tx!Loop, Tx!MustWait, Tx!Wait, Tx!Store, TxFull,
                              WireIdle, WireStore
    <2>5. CASE PrintWithin(t) \/ PrintReturns(t) \/ debug_panic(t) \/ serial_flush(t)
      BY <2>5 DEF PrintWithin, PrintReturns, debug_panic, serial_flush, WireIdle
    <2>6. ASSUME NEW n \in 0..MaxLine, NEW o \in BOOLEAN, PutLine(t, n, o) PROVE WireIdle
      BY <2>6 DEF PutLine, WireIdle
    <2> QED BY <1>1, <2>1, <2>2, <2>3, <2>4, <2>5, <2>6 DEF ThreadStep, serial_putc
  <1>2. CASE console_init \/ serial_init_queue \/ IrqEnter \/ UartReceive
    BY <1>2 DEF console_init, serial_init_queue, IrqEnter, UartReceive, WireIdle
  <1>3. CASE PollDone
    <2>1. CASE spin.then # NULL
      <3>1. spin.then \in Byte /\ ~TxFull
        BY <1>3, <2>1 DEF PollDone, ConsoleInv, ConsoleTypeOK, Spinning, Polling
      <3> QED BY <1>3, <2>1, <3>1 DEF PollDone, SetThr, Tx!Store, WirePolled
    <2>2. CASE spin.then = NULL
      BY <1>3, <2>2 DEF PollDone, SetThr, WirePolled
    <2> QED BY <2>1, <2>2
  <1>4. CASE FlushByte
    BY <1>4 DEF FlushByte, PollOldest, Tx!Take, WirePoll, WireIdle
  <1>5. CASE IrqReceive
    BY <1>5 DEF IrqReceive, input_putc, serial_notify, WireIdle
  <1>6. CASE IrqTransmit
    <2>1. spin = NULL
      BY <1>6, ConsoleAssumption DEF IrqTransmit, ConsoleInv, Polling, Routine
    <2> QED BY <1>6, <2>1 DEF IrqTransmit, SetThr, Tx!Take, WireLoad, WireIdle
  <1>7. ASSUME NEW b \in Byte, IrqPrint(b) PROVE WireStore \/ WirePoll
    <2>1. spin = NULL /\ (TxFull => ~TxEmpty)
      BY <1>7, TxFlags, ConsoleAssumption DEF IrqPrint, ConsoleInv, ConsoleTypeOK, Polling, Routine, TxFull, TxEmpty
    <2> QED BY <1>7, <2>1 DEF IrqPrint, PollOldest, Tx!Take, Tx!Store, WireStore, WirePoll
  <1>8. ASSUME NEW k \in Key, keyboard_interrupt(k) PROVE WireIdle
    BY <1>8 DEF keyboard_interrupt, input_putc, serial_notify, WireIdle
  <1>9. ASSUME NEW r \in Reader, input_getc(r) PROVE WireIdle
    BY <1>9 DEF input_getc, serial_notify, WireIdle
  <1>10. CASE UartSend
    BY <1>10 DEF UartSend, WireSend
  <1>11. CASE UNCHANGED vars
    BY <1>11 DEF vars, WireIdle
  <1> QED BY <1>1, <1>2, <1>3, <1>4, <1>5, <1>6, <1>7, <1>8, <1>9, <1>10, <1>11 DEF Next, Handler

(* For the line, each is a step of the FIFO queue or changes nothing.      *)
LEMMA WireStep == ConsoleInv /\ [Next]_vars => [F!FifoNext]_Line
  <1> SUFFICES ASSUME ConsoleInv, [Next]_vars PROVE F!FifoNext \/ Line' = Line
    OBVIOUS
  <1>0. /\ thr \in Byte \cup {NULL} /\ spin \in Spinning \cup {NULL} /\ txq \in Tx!Rings
        /\ NULL \in Byte \cup {NULL} /\ NULL \in Spinning \cup {NULL}
        /\ spin # NULL => spin \in Spinning
    BY DEF ConsoleInv, ConsoleTypeOK
  <1>1. Line = LineOf(thr, spin, txq) /\ Line' = LineOf(thr', spin', txq')
    BY DEF Line, LineOf
  <1>2. ASSUME NEW b \in Byte, Line' = Append(Line, b), Len(Line) < TXQ_SIZE PROVE F!FifoNext
    BY <1>2 DEF F!FifoNext, F!Put
  <1>3. CASE WireIdle
    BY <1>1, <1>3 DEF WireIdle
  <1>4. CASE WireStore
    <2>1. PICK b \in Byte : spin = NULL /\ ~TxFull /\ txq' = Tx!PutByte(txq, b) /\ thr' = thr /\ spin' = NULL
      BY <1>4 DEF WireStore
    <2>2. LineOf(thr, NULL, Tx!PutByte(txq, b)) = Append(LineOf(thr, NULL, txq), b)
      BY <1>0, <2>1, LineAccepts DEF TxFull
    <2>3. Len(LineOf(thr, NULL, txq)) < TXQ_SIZE
      BY <1>0, <2>1, LineRoom DEF TxFull
    <2> QED BY <1>1, <1>2, <2>1, <2>2, <2>3
  <1>5. CASE WirePoll
    <2>1. PICK b \in Byte \cup {NULL} :
            /\ spin = NULL /\ ~TxEmpty /\ txq' = Tx!DropByte(txq) /\ thr' = thr
            /\ spin' = [byte |-> Tx!FirstByte(txq), then |-> b]
      BY <1>5 DEF WirePoll
    <2>2. LineOf(thr, [byte |-> Tx!FirstByte(txq), then |-> b], Tx!DropByte(txq)) = LineOf(thr, NULL, txq)
      BY <1>0, <2>1, LinePolls DEF TxEmpty
    <2> QED BY <1>1, <2>1, <2>2
  <1>6. CASE WireFirst
    <2>1. PICK b \in Byte : spin = NULL /\ TxEmpty /\ spin' = [byte |-> b, then |-> NULL] /\ thr' = thr /\ txq' = txq
      BY <1>6 DEF WireFirst
    <2>2. LineOf(thr, [byte |-> b, then |-> NULL], txq) = Append(LineOf(thr, NULL, txq), b)
      BY <1>0, <2>1, LineJoins DEF TxEmpty
    <2>3. ~TxFull
      BY <1>0, <2>1, TxFlags DEF TxEmpty, TxFull
    <2>4. Len(LineOf(thr, NULL, txq)) < TXQ_SIZE
      BY <1>0, <2>3, LineRoom DEF TxFull
    <2> QED BY <1>1, <1>2, <2>1, <2>2, <2>4
  <1>7. CASE WirePolled
    <2>1. spin \in Spinning /\ thr = NULL /\ thr' = spin.byte /\ spin' = NULL
      BY <1>0, <1>7 DEF WirePolled
    <2>2. CASE txq' = txq
      <3>1. LineOf(spin.byte, NULL, txq) = LineOf(NULL, spin, txq)
        BY <1>0, <2>1, LineMoves
      <3> QED BY <1>1, <2>1, <2>2, <3>1
    <2>3. CASE spin.then \in Byte /\ ~TxFull /\ txq' = Tx!PutByte(txq, spin.then)
      <3>1. PICK b \in Byte : b = spin.then
        BY <2>3
      <3>2. Tx!PutByte(txq, b) \in Tx!Rings
        BY <1>0, TxRings
      <3>3. LineOf(spin.byte, NULL, Tx!PutByte(txq, b)) = LineOf(NULL, spin, Tx!PutByte(txq, b))
        BY <2>1, <3>2, LineMoves
      <3>4. LineOf(NULL, spin, Tx!PutByte(txq, b)) = Append(LineOf(NULL, spin, txq), b)
        BY <1>0, <2>3, LineAccepts DEF TxFull
      <3>5. Len(LineOf(NULL, spin, txq)) < TXQ_SIZE
        BY <1>0, <2>3, LineRoom DEF TxFull
      <3> QED BY <1>1, <1>2, <2>1, <2>3, <3>1, <3>3, <3>4, <3>5
    <2> QED BY <1>7, <2>2, <2>3 DEF WirePolled
  <1>8. CASE WireLoad
    <2>1. LineOf(Tx!FirstByte(txq), NULL, Tx!DropByte(txq)) = LineOf(NULL, NULL, txq)
      BY <1>0, <1>8, LineTransmits DEF WireLoad, TxEmpty
    <2> QED BY <1>1, <1>8, <2>1 DEF WireLoad
  <1>9. CASE WireSend
    <2>1. Line # << >> /\ Tail(Line) = LineOf(NULL, spin, txq)
      BY <1>0, <1>1, <1>9, LineSends DEF WireSend
    <2>2. Line' = Tail(Line)
      BY <1>1, <1>9, <2>1 DEF WireSend
    <2> QED BY <2>1, <2>2 DEF F!FifoNext, F!Get
  <1> QED BY <1>3, <1>4, <1>5, <1>6, <1>7, <1>8, <1>9, WireCases

(* All bytes leave the serial port in the order they were accepted,        *)
(* however they travel: polled, by interrupt, or polled to make room.      *)
THEOREM BytesLeaveInOrder == Spec => WireInOrder
  <1>1. Init => F!FifoInit
    <2> SUFFICES ASSUME Init PROVE Line = << >>
      BY DEF F!FifoInit
    <2>1. txq \in Tx!Rings /\ Tx!IntqEmpty(txq)
      BY ConsoleAssumption DEF Init, Tx!Rings, Tx!Cell, Tx!IntqEmpty
    <2>2. Tx!Contents(txq) = << >>
      <3>1. Tx!Contents(txq) \in Seq(Byte) /\ Len(Tx!Contents(txq)) = 0
        BY <2>1, ContentsIsSeq, TxCount
      <3> QED BY <3>1
    <2>3. Line = LineOf(NULL, NULL, txq)
      BY DEF Init, Line, LineOf
    <2> QED BY <2>1, <2>2, <2>3, LineRing
  <1> QED BY <1>1, WireStep, ConsoleInvariant, PTL DEF Spec, WireInOrder, F!FifoSpec
==============================================================================
