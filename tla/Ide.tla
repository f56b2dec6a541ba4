-------------------------------- MODULE Ide --------------------------------
(***************************************************************************)
(* One ATA channel with two disks (devices/ide.c), used by several threads *)
(* under the channel's lock.  A command goes to the controller through its *)
(* registers; the completion interrupt ups completion_wait.  What the      *)
(* controller does by itself is external, and so are interrupts that no    *)
(* command caused.  A disk answers within the time the polling loops allow.*)
(***************************************************************************)
EXTENDS Naturals, Sequences

CONSTANTS Thread, NULL,
          Data,          \* what a sector may hold
          Capacity,      \* <<sectors of disk 1, of disk 2>>, 0 if it is no ATA disk
          MaxSpurious    \* bound: how many interrupts come without a cause

ASSUME IdeAssumption == /\ NULL \notin Thread \cup Data
                        /\ Data # {}
                        /\ Capacity \in Seq(Nat) /\ Len(Capacity) = 2
                        /\ MaxSpurious \in Nat

Dev == 1..2
Address == UNION {{<<d, s>> : s \in 0..(Capacity[d] - 1)} : d \in Dev}

VARIABLES owner,               \* who holds c->lock
          expecting_interrupt,
          completion_wait,     \* the value of the semaphore
          hw,                  \* the controller's registers and buffer
          media,               \* address -> what is on the disk
          pc,                  \* thread -> where it is in ide.c
          req,                 \* thread -> its request
          spurious             \* interrupts without a cause so far

ideVars == <<owner, expecting_interrupt, completion_wait, hw, media, pc, req, spurious>>

NoReq == [op |-> "none", dev |-> 1, sec |-> 0, data |-> NULL]

(* ide_init() up to the reset of the channel, after which the controller   *)
(* is idle.  The disks are blank, but for their partition tables.          *)
Blank == CHOOSE v \in Data : TRUE

IdeInit == /\ owner = NULL
           /\ expecting_interrupt = FALSE
           /\ completion_wait = 0
           /\ hw = [dev |-> 1, sec |-> 0, cmd |-> "none", buf |-> NULL,
                    bsy |-> FALSE, drq |-> FALSE, intrq |-> FALSE]
           /\ media = [a \in Address |-> Blank]
           /\ pc = [t \in Thread |-> "out"]
           /\ req = [t \in Thread |-> NoReq]
           /\ spurious = 0

At(t, label)   == pc[t] = label
Goto(t, label) == pc' = [pc EXCEPT ![t] = label]

-----------------------------------------------------------------------------
(* ide_read(), ide_write() and the first part of identify_ata_device(),    *)
(* which runs before any other thread uses the channel and takes no lock.  *)
Begin(t, op, d, s, v) ==
  /\ At(t, "out")
  /\ req' = [req EXCEPT ![t] = [op |-> op, dev |-> d, sec |-> s, data |-> v]]
  /\ Goto(t, IF op = "identify" THEN "idle_before" ELSE "lock")
  /\ UNCHANGED <<owner, expecting_interrupt, completion_wait, hw, media, spurious>>

AcquireChannel(t) ==
  /\ At(t, "lock")
  /\ owner = NULL
  /\ owner' = t
  /\ Goto(t, "idle_before")
  /\ UNCHANGED <<expecting_interrupt, completion_wait, hw, media, req, spurious>>

Idle == ~hw.bsy /\ ~hw.drq

\* Mutant: the channel is taken to be idle.
wait_until_idle_Not(t, here, next) ==
  /\ At(t, here)
  /\ hw' = [hw EXCEPT !.intrq = FALSE]
  /\ Goto(t, next)
  /\ UNCHANGED <<owner, expecting_interrupt, completion_wait, media, req, spurious>>

(* One look at the status register, which also clears a pending interrupt. *)
wait_until_idle(t, here, next) ==
  /\ At(t, here)
  /\ hw' = [hw EXCEPT !.intrq = FALSE]
  /\ Goto(t, IF Idle THEN next ELSE here)
  /\ UNCHANGED <<owner, expecting_interrupt, completion_wait, media, req, spurious>>

\* select_device_wait().
select_device(t) ==
  /\ At(t, "select")
  /\ hw' = [hw EXCEPT !.dev = req[t].dev]
  /\ Goto(t, "idle_after")
  /\ UNCHANGED <<owner, expecting_interrupt, completion_wait, media, req, spurious>>

SelectDeviceWait(t) == \/ wait_until_idle(t, "idle_before", "select")
                       \/ select_device(t)
                       \/ wait_until_idle(t, "idle_after", "program")

\* Mutant: the flag is left as it is.
select_sector_NotExpecting(t) ==
  /\ At(t, "program")
  /\ hw' = [hw EXCEPT !.sec = req[t].sec]
  /\ Goto(t, "command")
  /\ UNCHANGED <<owner, expecting_interrupt, completion_wait, media, req, spurious>>

(* The rest of select_sector(), and issue_pio_command() before its outb(). *)
select_sector(t) ==
  /\ At(t, "program")
  /\ hw' = [hw EXCEPT !.sec = req[t].sec]
  /\ expecting_interrupt' = TRUE
  /\ Goto(t, "command")
  /\ UNCHANGED <<owner, completion_wait, media, req, spurious>>

\* Mutant: a read polls and does not wait for its interrupt.
issue_pio_command_Polls(t) ==
  /\ At(t, "command")
  /\ hw' = [hw EXCEPT !.cmd = req[t].op, !.bsy = TRUE]
  /\ Goto(t, "busy")
  /\ UNCHANGED <<owner, expecting_interrupt, completion_wait, media, req, spurious>>

\* outb(reg_command(c), command).
issue_pio_command(t) ==
  /\ At(t, "command")
  /\ hw' = [hw EXCEPT !.cmd = req[t].op, !.bsy = TRUE]
  /\ Goto(t, IF req[t].op = "write" THEN "busy" ELSE "down")
  /\ UNCHANGED <<owner, expecting_interrupt, completion_wait, media, req, spurious>>

\* sema_down(&c->completion_wait): a read's data come next, a write is done.
WaitCompletion(t) ==
  /\ At(t, "down")
  /\ completion_wait > 0
  /\ completion_wait' = completion_wait - 1
  /\ Goto(t, IF req[t].op = "write" THEN "unlock" ELSE "busy")
  /\ UNCHANGED <<owner, expecting_interrupt, hw, media, req, spurious>>

(* wait_while_busy(), which polls the alternate status register and so     *)
(* leaves a pending interrupt alone, and the transfer of the sector.       *)
Transfer(t) ==
  /\ At(t, "busy")
  /\ ~hw.bsy /\ hw.drq
  /\ IF req[t].op = "write"
     THEN /\ hw' = [hw EXCEPT !.drq = FALSE, !.bsy = TRUE, !.cmd = "store", !.buf = req[t].data]
          /\ Goto(t, "down")
          /\ UNCHANGED req
     ELSE /\ hw' = [hw EXCEPT !.drq = FALSE, !.cmd = "none"]
          /\ req' = [req EXCEPT ![t].data = hw.buf]
          /\ Goto(t, IF req[t].op = "identify" THEN "identified" ELSE "unlock")
  /\ UNCHANGED <<owner, expecting_interrupt, completion_wait, media, spurious>>

\* wait_while_busy() finds BSY clear and no DRQ: the caller panics.
TransferFails(t) == At(t, "busy") /\ ~hw.bsy /\ ~hw.drq

ReleaseChannel(t) ==
  /\ At(t, "unlock")
  /\ owner' = NULL
  /\ Goto(t, "out")
  /\ req' = [req EXCEPT ![t] = NoReq]
  /\ UNCHANGED <<expecting_interrupt, completion_wait, hw, media, spurious>>

IdeStep(t) == \/ AcquireChannel(t) \/ SelectDeviceWait(t) \/ select_sector(t)
              \/ issue_pio_command(t) \/ WaitCompletion(t) \/ Transfer(t) \/ ReleaseChannel(t)

-----------------------------------------------------------------------------
(* interrupt_handler(): the status register is read only if an interrupt   *)
(* is expected.  Nothing ever sets expecting_interrupt back to false.      *)
interrupt_handler ==
  /\ IF expecting_interrupt
     THEN /\ hw' = [hw EXCEPT !.intrq = FALSE]
          /\ completion_wait' = completion_wait + 1
     ELSE UNCHANGED <<hw, completion_wait>>
  /\ UNCHANGED <<owner, expecting_interrupt, media, pc, req>>

Completion == hw.intrq /\ expecting_interrupt /\ interrupt_handler /\ UNCHANGED spurious
Spurious   == /\ spurious < MaxSpurious
              /\ spurious' = spurious + 1
              /\ interrupt_handler

(* The controller: it fetches the sector (or its identity), asks for the   *)
(* data of a write, and stores them.                                       *)
Fetch == /\ hw.bsy /\ hw.cmd \in {"read", "identify"}
         /\ hw' = [hw EXCEPT !.bsy = FALSE, !.drq = TRUE, !.intrq = TRUE,
                             !.buf = IF hw.cmd = "read" THEN media[<<hw.dev, hw.sec>>] ELSE NULL]
         /\ UNCHANGED media
AskData == /\ hw.bsy /\ hw.cmd = "write"
           /\ hw' = [hw EXCEPT !.bsy = FALSE, !.drq = TRUE]
           /\ UNCHANGED media
Store == /\ hw.bsy /\ hw.cmd = "store"
         /\ media' = [media EXCEPT ![<<hw.dev, hw.sec>>] = hw.buf]
         /\ hw' = [hw EXCEPT !.bsy = FALSE, !.intrq = TRUE, !.cmd = "none"]

Controller == /\ Fetch \/ AskData \/ Store
              /\ UNCHANGED <<owner, expecting_interrupt, completion_wait, pc, req, spurious>>
=============================================================================
