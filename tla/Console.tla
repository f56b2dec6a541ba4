------------------------------ MODULE Console -------------------------------
(***************************************************************************)
(* Characters in and out: console.c over serial.c, input.c and their two   *)
(* interrupt queues (txq and buffer, instances of Intq).  Threads print    *)
(* with interrupts on or off, interrupt handlers print, a thread reads     *)
(* keys, a panic prints and flushes.  There is one processor: while cpu    *)
(* names somebody who runs with interrupts off, only it and the UART go    *)
(* on.  The UART is external, modelled from what serial.c relies on: one   *)
(* byte each way, and a transmit interrupt that is latched when the THR    *)
(* becomes empty or is enabled while it is, and that reading the IIR or    *)
(* writing the THR clears.                                                 *)
(***************************************************************************)
EXTENDS Naturals, Sequences, FiniteSets

CONSTANTS Printer,     \* threads that print
          Main,        \* the one of them that boots the machine
          Reader,      \* threads that call input_getc()
          Byte, Key,   \* what is printed, what is typed or received
          TXQ_SIZE,    \* bound: INTQ_BUFSIZE of txq
          INPUT_SIZE,  \* bound: INTQ_BUFSIZE of buffer
          MaxLine,     \* bound: characters printed in one call
          NULL

\* Who runs with interrupts off, other than a thread: a handler that prints, the
\* two loops of serial_interrupt(), serial_flush(), and nobody any more.
Routine == {"print", "recv", "xmit", "flush", "halt"}

ASSUME ConsoleAssumption ==
  /\ Main \in Printer
  /\ NULL \notin Printer \cup Reader \cup Byte \cup Key
  /\ NULL \notin Routine /\ Printer \cap Routine = {}
  /\ NULL \notin [byte : Byte, then : Byte \cup {NULL}]
  /\ Byte # {} /\ Key # {}
  /\ TXQ_SIZE \in Nat /\ INPUT_SIZE \in Nat /\ MaxLine \in Nat
  /\ TXQ_SIZE > 1 /\ INPUT_SIZE > 1

VARIABLES mode,              \* of serial.c
          use_console_lock, console_owner, console_lock_depth,
          calls, left, off,  \* printer -> calls it is in, characters to go, caller's interrupts off
          panic,             \* debug_panic() has been called
          cpu,               \* who runs with interrupts off, or NULL
          spin,              \* putc_poll(): its byte, and the byte to queue after it, or NULL
          thr, rbr,          \* UART: byte to be sent, byte received, or NULL
          ier, pend,         \* interrupts enabled, transmit interrupt latched
          txq, txowner, not_full, txpc, txbyte, txpanic,    \* intq txq
          buffer, inowner, not_empty, inpc, inbyte, inpanic, \* intq buffer
          nobody             \* NULL: no thread waits for a byte of txq or for room in buffer

consoleVars == <<use_console_lock, console_owner, console_lock_depth, calls, left, off, panic>>
txVars   == <<txq, txowner, not_full, txpc, txbyte, txpanic>>
inVars   == <<buffer, inowner, not_empty, inpc, inbyte, inpanic, nobody>>
uartVars == <<thr, rbr, ier, pend>>
vars == <<mode, consoleVars, cpu, spin, uartVars, txVars, inVars>>

Tx == INSTANCE Intq WITH Reader <- {}, Writer <- Printer, IrqPuts <- TRUE, IrqGets <- TRUE,
        INTQ_BUFSIZE <- TXQ_SIZE, q <- txq, owner <- txowner, not_empty <- nobody,
        not_full <- not_full, pc <- txpc, byte <- txbyte, panicked <- txpanic
In == INSTANCE Intq WITH Reader <- Reader, Writer <- {}, IrqPuts <- TRUE, IrqGets <- FALSE,
        INTQ_BUFSIZE <- INPUT_SIZE, Byte <- Key, q <- buffer, owner <- inowner,
        not_empty <- not_empty, not_full <- nobody, pc <- inpc, byte <- inbyte, panicked <- inpanic

\* The static data; thread_init() has been called, console_init() has not.
Init == /\ mode = "UNINIT"
        /\ use_console_lock = FALSE /\ console_owner = NULL /\ console_lock_depth = 0
        /\ calls = [t \in Printer |-> 0]
        /\ left = [t \in Printer |-> 0]
        /\ off = [t \in Printer |-> FALSE]
        /\ panic = FALSE
        /\ cpu = NULL /\ spin = NULL
        /\ thr = NULL /\ rbr = NULL
        /\ ier = [xmit |-> FALSE, recv |-> FALSE] /\ pend = FALSE
        /\ txq = [buf |-> [c \in 0..(TXQ_SIZE - 1) |-> CHOOSE b \in Byte : TRUE],
                  head |-> 0, tail |-> 0]
        /\ txowner = NULL /\ not_full = NULL /\ txpanic = FALSE
        /\ txpc = [t \in Printer |-> "out"]
        /\ txbyte = [t \in Printer |-> NULL]
        /\ buffer = [buf |-> [c \in 0..(INPUT_SIZE - 1) |-> CHOOSE k \in Key : TRUE],
                     head |-> 0, tail |-> 0]
        /\ inowner = NULL /\ not_empty = NULL /\ inpanic = FALSE
        /\ nobody = NULL
        /\ inpc = [r \in Reader |-> "out"]
        /\ inbyte = [r \in Reader |-> NULL]

TxEmpty    == Tx!IntqEmpty(txq)
TxFull     == Tx!IntqFull(txq)
input_full == In!IntqFull(buffer)

-----------------------------------------------------------------------------
(* The UART (external).  SetIer: what a write of the IER does to the latch *)
(* that was l before it.                                                   *)
SetIer(x, r, l) == /\ ier' = [xmit |-> x, recv |-> r]
                   /\ pend' = IF x = ier.xmit THEN l ELSE x /\ thr' = NULL
SetThr(b)       == thr = NULL /\ thr' = b /\ UNCHANGED rbr
UartSend    == /\ thr # NULL /\ thr' = NULL /\ pend' = TRUE
               /\ UNCHANGED <<mode, consoleVars, cpu, spin, rbr, ier, txVars, inVars>>
UartReceive == /\ rbr = NULL /\ rbr' \in Key
               /\ UNCHANGED <<mode, consoleVars, cpu, spin, thr, ier, pend, txVars, inVars>>
UartWants   == (ier.xmit /\ pend) \/ (ier.recv /\ rbr # NULL)

\* Mutant: the transmit interrupt is enabled only when the queue is full.
write_ier_Late(l) == SetIer(Tx!IntqFull(txq'), ~In!IntqFull(buffer'), l)

write_ier(l) == SetIer(~Tx!IntqEmpty(txq'), ~In!IntqFull(buffer'), l)

\* serial_notify(), from input.c.
serial_notify == /\ UNCHANGED <<thr>>
                 /\ IF mode = "QUEUE" THEN write_ier(pend) ELSE UNCHANGED <<ier, pend>>

-----------------------------------------------------------------------------
(* console.c.  A thread waits for the console lock by not being able to    *)
(* take this step.                                                         *)
acquire_console(t) ==
  IF ~use_console_lock THEN UNCHANGED <<console_owner, console_lock_depth>>
  ELSE \/ /\ console_owner = t
          /\ console_lock_depth' = console_lock_depth + 1
          /\ UNCHANGED console_owner
       \/ /\ console_owner = NULL
          /\ console_owner' = t
          /\ UNCHANGED console_lock_depth

\* Mutant: no depth counter.
release_console_Flat(t) ==
  IF ~use_console_lock THEN UNCHANGED <<console_owner, console_lock_depth>>
  ELSE console_owner' = NULL /\ UNCHANGED console_lock_depth

release_console(t) ==
  IF ~use_console_lock THEN UNCHANGED <<console_owner, console_lock_depth>>
  ELSE IF console_lock_depth > 0
       THEN console_lock_depth' = console_lock_depth - 1 /\ UNCHANGED console_owner
       ELSE console_owner' = NULL /\ UNCHANGED console_lock_depth

\* Thread t can run and is not in the middle of a serial_putc().
Running(t) == /\ cpu \in {NULL, t} /\ spin = NULL /\ txpc[t] = "out"
              /\ mode = "QUEUE" \/ t = Main

console_init == /\ Running(Main) /\ mode # "QUEUE" /\ ~panic /\ calls[Main] = 0
                /\ ~use_console_lock /\ use_console_lock' = TRUE
                /\ UNCHANGED <<mode, console_owner, console_lock_depth, calls, left, off, panic,
                               cpu, spin, uartVars, txVars, inVars>>

(* vprintf(), puts(), putbuf() or putchar() of n characters; o: interrupts *)
(* are off in the caller.                                                  *)
PutLine(t, n, o) ==
  /\ Running(t) /\ calls[t] = 0 /\ ~panic
  /\ acquire_console(t)
  /\ calls' = [calls EXCEPT ![t] = 1]
  /\ left' = [left EXCEPT ![t] = n]
  /\ off' = [off EXCEPT ![t] = o]
  /\ cpu' = IF o THEN t ELSE NULL
  /\ UNCHANGED <<mode, use_console_lock, panic, spin, uartVars, txVars, inVars>>

\* A call within a call, as when a thread switch prints.  It prints from left, too.
PrintWithin(t) ==
  /\ Running(t) /\ calls[t] = 1 /\ left[t] > 0 /\ use_console_lock
  /\ acquire_console(t)
  /\ calls' = [calls EXCEPT ![t] = 2]
  /\ UNCHANGED <<mode, use_console_lock, left, off, panic, cpu, spin, uartVars, txVars, inVars>>

PrintReturns(t) ==
  /\ Running(t) /\ calls[t] > 0 /\ (calls[t] = 1 => left[t] = 0)
  /\ release_console(t)
  /\ calls' = [calls EXCEPT ![t] = @ - 1]
  /\ off' = [off EXCEPT ![t] = @ /\ calls[t] > 1]
  /\ cpu' = IF calls[t] = 1 /\ ~panic THEN NULL ELSE cpu
  /\ UNCHANGED <<mode, use_console_lock, left, panic, spin, uartVars, txVars, inVars>>

(* debug_panic(), wherever thread t is: console_panic(), a message, then   *)
(* serial_flush().                                                         *)
debug_panic(t) ==
  /\ Running(t) /\ ~panic /\ panic' = TRUE
  /\ use_console_lock' = FALSE
  /\ calls' = [calls EXCEPT ![t] = 1]
  /\ left' = [left EXCEPT ![t] = 1]
  /\ off' = [off EXCEPT ![t] = TRUE]
  /\ cpu' = t
  /\ UNCHANGED <<mode, console_owner, console_lock_depth, spin, uartVars, txVars, inVars>>

-----------------------------------------------------------------------------
(* serial_putc() of the next character.  Not yet interrupt-driven: poll.   *)
\* putc_poll(intq_getc(&txq)), with byte b to be queued after it.
PollOldest(b) == /\ Tx!Take(txpc)
                 /\ spin' = [byte |-> Tx!FirstByte(txq), then |-> b]
                 /\ UNCHANGED <<txowner, txbyte, txpanic>>

PutPolled(t, b) ==
  /\ Running(t) /\ calls[t] > 0 /\ left[t] > 0
  /\ mode # "QUEUE" /\ mode' = "POLL"
  /\ spin' = [byte |-> b, then |-> NULL]
  /\ cpu' = t
  /\ UNCHANGED <<consoleVars, uartVars, txVars, inVars>>

\* Mutant: the new byte is polled out, ahead of those that wait.
PutMakingRoom_Newest(t, b) ==
  /\ Running(t) /\ calls[t] > 0 /\ left[t] > 0
  /\ mode = "QUEUE" /\ off[t] /\ TxFull
  /\ spin' = [byte |-> b, then |-> NULL]
  /\ UNCHANGED <<mode, consoleVars, cpu, uartVars, txVars, inVars>>

\* Interrupts are off and txq is full: the oldest byte goes by polling first.
PutMakingRoom(t, b) ==
  /\ Running(t) /\ calls[t] > 0 /\ left[t] > 0
  /\ mode = "QUEUE" /\ off[t] /\ TxFull
  /\ PollOldest(b)
  /\ UNCHANGED <<mode, consoleVars, cpu, uartVars, inVars>>

\* The rest of serial_putc(), if intq_putc() has returned.
AfterPutc(t) ==
  /\ UNCHANGED <<mode, use_console_lock, console_owner, console_lock_depth, calls, off, panic,
                 cpu, spin, thr, rbr, inVars>>
  /\ IF txpc'[t] = "out"
     THEN write_ier(pend) /\ left' = [left EXCEPT ![t] = @ - 1]
     ELSE UNCHANGED <<ier, pend, left>>

PutQueued(t, b) == /\ Running(t) /\ calls[t] > 0 /\ left[t] > 0
                   /\ mode = "QUEUE" /\ ~(off[t] /\ TxFull)
                   /\ Tx!Putc(t, b)
                   /\ AfterPutc(t)

\* A thread that slept in intq_putc() runs again.
PutResumes(t) == /\ cpu = NULL
                 /\ Tx!Locked(t) \/ Tx!Woken(t)
                 /\ AfterPutc(t)

(* The THR is empty: putc_poll() writes it and returns; serial_putc() then *)
(* queues the byte it made room for.                                       *)
PollDone ==
  /\ spin # NULL
  /\ SetThr(spin.byte)
  /\ spin' = NULL
  /\ IF spin.then # NULL
     THEN /\ Tx!Store(txpc, spin.then)
          /\ UNCHANGED <<txowner, txbyte, txpanic, inVars>>
          /\ write_ier(FALSE)
     ELSE pend' = FALSE /\ UNCHANGED <<ier, txVars, inVars>>
  /\ IF cpu \in Printer
     THEN /\ left' = [left EXCEPT ![cpu] = @ - 1]
          /\ cpu' = IF off[cpu] THEN cpu ELSE NULL
     ELSE /\ cpu' = IF cpu = "print" THEN NULL ELSE cpu
          /\ UNCHANGED left
  /\ UNCHANGED <<mode, use_console_lock, console_owner, console_lock_depth, calls, off, panic>>

serial_init_queue ==
  /\ Running(Main) /\ mode # "QUEUE" /\ use_console_lock /\ calls[Main] = 0
  /\ mode' = "QUEUE"
  /\ UNCHANGED <<consoleVars, cpu, spin, thr, rbr, txVars, inVars>>
  /\ write_ier(pend)

\* An interrupt handler prints a character; it does not use the console lock.
IrqPrint(b) ==
  /\ cpu = NULL /\ mode = "QUEUE"
  /\ IF TxFull
     THEN PollOldest(b) /\ cpu' = "print" /\ UNCHANGED <<uartVars, inVars>>
     ELSE /\ Tx!Store(txpc, b)
          /\ UNCHANGED <<txowner, txbyte, txpanic, inVars, cpu, spin, thr, rbr>>
          /\ write_ier(pend)
  /\ UNCHANGED <<mode, consoleVars>>

(* serial_flush(), by debug_panic() or by shutdown_power_off(), after      *)
(* which the machine stops.                                                *)
serial_flush(t) == /\ Running(t) /\ calls[t] = 0 /\ (panic \/ mode = "QUEUE")
                   /\ cpu' = "flush"
                   /\ UNCHANGED <<mode, consoleVars, spin, uartVars, txVars, inVars>>
\* Mutant: the flush sends one byte only.
FlushByte_One == /\ cpu = "flush" /\ spin = NULL
                 /\ IF TxEmpty THEN cpu' = "halt" /\ UNCHANGED <<spin, txVars>>
                               ELSE PollOldest(NULL) /\ cpu' = "halt"
                 /\ UNCHANGED <<mode, consoleVars, uartVars, inVars>>

FlushByte == /\ cpu = "flush" /\ spin = NULL
             /\ IF TxEmpty THEN cpu' = "halt" /\ UNCHANGED <<spin, txVars>>
                           ELSE PollOldest(NULL) /\ UNCHANGED cpu
             /\ UNCHANGED <<mode, consoleVars, uartVars, inVars>>

-----------------------------------------------------------------------------
\* serial_interrupt(): it reads the IIR, then receives, then transmits.
IrqEnter == /\ cpu = NULL /\ mode = "QUEUE" /\ UartWants
            /\ cpu' = "recv"
            /\ pend' = (pend /\ ier.recv /\ rbr # NULL)
            /\ UNCHANGED <<mode, consoleVars, spin, thr, rbr, ier, txVars, inVars>>

\* input_putc().
input_putc(k) == /\ In!Store(inpc, k)
                 /\ UNCHANGED <<inowner, inbyte, inpanic, txVars>>
                 /\ serial_notify

IrqReceive == /\ cpu = "recv"
              /\ IF ~input_full /\ rbr # NULL
                 THEN input_putc(rbr) /\ rbr' = NULL /\ UNCHANGED cpu
                 ELSE cpu' = "xmit" /\ UNCHANGED <<uartVars, txVars, inVars>>
              /\ UNCHANGED <<mode, consoleVars, spin>>
IrqTransmit == /\ cpu = "xmit"
               /\ IF ~TxEmpty /\ thr = NULL
                  THEN /\ Tx!Take(txpc) /\ SetThr(Tx!FirstByte(txq)) /\ pend' = FALSE
                       /\ UNCHANGED <<txowner, txbyte, txpanic, cpu, ier>>
                  ELSE /\ cpu' = NULL
                       /\ UNCHANGED <<txVars, inVars, thr, rbr>>
                       /\ write_ier(pend)
               /\ UNCHANGED <<mode, consoleVars, spin, inVars>>

\* keyboard_interrupt() with a character, if there is room.
keyboard_interrupt(k) == /\ cpu = NULL /\ ~input_full
                         /\ input_putc(k)
                         /\ UNCHANGED <<mode, consoleVars, cpu, spin, rbr>>

input_getc(r) == /\ cpu = NULL /\ mode = "QUEUE"
                 /\ In!Getc(r) \/ In!Locked(r) \/ In!Woken(r)
                 /\ UNCHANGED <<mode, consoleVars, cpu, spin, rbr, txVars>>
                 /\ IF inpc'[r] = "out" THEN serial_notify ELSE UNCHANGED <<thr, ier, pend>>

-----------------------------------------------------------------------------
serial_putc(t) == \E b \in Byte : PutPolled(t, b) \/ PutMakingRoom(t, b) \/ PutQueued(t, b)
ThreadStep(t) == \/ \E n \in 0..MaxLine, o \in BOOLEAN : PutLine(t, n, o)
                 \/ PrintWithin(t) \/ PrintReturns(t)
                 \/ serial_putc(t) \/ PutResumes(t)
                 \/ debug_panic(t) \/ serial_flush(t)
Handler == IrqReceive \/ IrqTransmit

Next == \/ \E t \in Printer : ThreadStep(t)
        \/ console_init \/ serial_init_queue
        \/ PollDone \/ FlushByte
        \/ IrqEnter \/ Handler
        \/ \E b \in Byte : IrqPrint(b)
        \/ \E k \in Key : keyboard_interrupt(k)
        \/ \E r \in Reader : input_getc(r)
        \/ UartSend \/ UartReceive

(* What runs with interrupts off goes on; a pending interrupt is taken as  *)
(* soon as they are on; the UART sends what it has.  Nothing is assumed of *)
(* threads that run with interrupts on.                                    *)
OffPut  == \E t \in Printer : cpu = t /\ serial_putc(t)
OffStep == \E t \in Printer : cpu = t /\ (PrintReturns(t) \/ serial_flush(t))
Spec == /\ Init /\ [][Next]_vars
        /\ WF_vars(OffPut) /\ WF_vars(OffStep) /\ WF_vars(PollDone) /\ WF_vars(FlushByte) /\ WF_vars(Handler)
        /\ SF_vars(IrqEnter)
        /\ WF_vars(UartSend)

-----------------------------------------------------------------------------
(* No thread sleeps through its wakeup in either queue, and the ASSERT of  *)
(* wait() never fails: since threads print under the console lock and all  *)
(* others poll, txq has one waiter at most.                                *)
QueuesWakeSleepers == /\ ~txpanic /\ ~inpanic
                      /\ Tx!NoMissedSignal /\ In!NoMissedSignal

(* While interrupts are on, an interrupt is bound to come for every byte   *)
(* that waits: either the THR is still full or its interrupt is latched    *)
(* and enabled.  Receiving is enabled just when there is room.             *)
InterruptsArmed ==
  cpu = NULL /\ spin = NULL /\ mode = "QUEUE" =>
    /\ ~TxEmpty => ier.xmit /\ (thr # NULL \/ pend)
    /\ ier.recv = ~input_full

(* Until a panic, a thread in the middle of a call has the console to      *)
(* itself, nested calls included: the lines of two threads do not mix.     *)
LinesWhole == use_console_lock =>
  /\ \A t \in Printer : calls[t] > 0 => console_owner = t
  /\ console_lock_depth = (IF console_owner = NULL THEN 0 ELSE calls[console_owner] - 1)

(* All bytes leave in the order they were accepted, however they travel:   *)
(* polled, by interrupt, or polled to make room.                           *)
Line == (IF thr = NULL THEN << >> ELSE <<thr>>)
          \o (IF spin = NULL THEN << >> ELSE <<spin.byte>>)
          \o Tx!Contents(txq)
F == INSTANCE Fifo WITH Item <- Byte, Capacity <- TXQ_SIZE, items <- Line
WireInOrder == F!FifoSpec

(* The line never stalls with bytes to send: it sends for ever or is empty *)
(* again and again, after a panic or a shutdown too.                       *)
WireKeepsGoing == ([]<><<UartSend>>_vars) \/ ([]<>(Line = << >>))
=============================================================================
