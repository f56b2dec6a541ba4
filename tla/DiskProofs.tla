----------------------------- MODULE DiskProofs -----------------------------
(***************************************************************************)
(* Proofs about the IDE channel and the block layer: no command is         *)
(* mistaken for another and no partition leaves its disk                   *)
(* (PanicsAreDeserved), writes are acknowledged (WritesAcknowledged), and  *)
(* reads and writes of sectors are atomic (ImplementsSectorStore), for any *)
(* number of threads, disks of any size, any partition tables and any      *)
(* number of interrupts without a cause.                                   *)
(*                                                                         *)
(* The inductive invariant DiskInv says who is between the acquisition and *)
(* the release of the channel and, for each place that thread can be in,   *)
(* what state the controller is in.                                        *)
(***************************************************************************)
EXTENDS Disk, TLAPS

Label == {"out", "lock", "idle_before", "select", "idle_after", "program", "command",
          "down", "busy", "identified", "unlock"}

HwType  == [dev : Dev, sec : Nat, cmd : {"none", "read", "write", "identify", "store"},
            buf : Data \cup {NULL}, bsy : BOOLEAN, drq : BOOLEAN, intrq : BOOLEAN]
ReqType == [op : {"none", "read", "write", "identify"}, dev : Dev, sec : Nat,
            data : Data \cup {NULL}]
BlockType == [dev : Dev, start : Nat, size : Nat, type : {"raw"} \cup PartitionType]
Asked == Nat \X Nat \X {"none", "read", "write"}

DiskTypeOK ==
  /\ owner \in Thread \cup {NULL}
  /\ expecting_interrupt \in BOOLEAN
  /\ completion_wait \in Nat
  /\ hw \in HwType
  /\ media \in [Address -> Data]
  /\ pc \in [Thread -> Label]
  /\ req \in [Thread -> ReqType]
  /\ spurious \in Nat
  /\ table \in Tables
  /\ blocks \in Seq(BlockType)
  /\ phase \in {"identify", "identifying", "scan", "reading", "up"}
  /\ disk \in 1..3 /\ (phase # "up" => disk \in Dev)
  /\ stack \in Seq([sector : Nat, primary : Nat, i : Nat])
  /\ asked \in [Thread -> Asked]
  /\ panicked \in BOOLEAN

\* t uses the channel: it has the lock, or it is the boot and needs none.
Inside(t) == pc[t] \notin {"out", "lock"}

(* At most one thread uses the channel.                                    *)
OneUser ==
  /\ \A t \in Thread : Inside(t) <=> (owner = t \/ (t = Main /\ phase = "identifying"))
  /\ phase = "identifying" => owner = NULL

(* What the boot leaves the other threads to do.                           *)
BootAlone ==
  /\ phase \in {"identify", "scan"} => pc[Main] = "out"
  /\ phase # "up" => \A t \in Thread : t # Main => pc[t] = "out"
  /\ phase \in {"identifying", "scan", "reading"} => Capacity[disk] > 0
  /\ phase = "reading" => stack # << >>

(* Who asked for what.                                                     *)
Served(t) ==
  /\ <<req[t].dev, req[t].sec>> \in Address
  /\ req[t].op \in {"read", "write", "identify"}
  /\ req[t].op = "identify" <=> (t = Main /\ phase = "identifying")
  /\ req[t].op = "write" => req[t].data \in Data
  /\ req[t].op = "read" => (IF pc[t] = "unlock" THEN req[t].data \in Data ELSE req[t].data = NULL)
  /\ pc[t] = "identified" => req[t].op = "identify"
  /\ pc[t] = "unlock" => req[t].op # "identify"
  /\ IF req[t].op = "identify" THEN asked[t] = Nowhere
     ELSE /\ asked[t][1] \in DOMAIN blocks
          /\ req[t].dev = blocks[asked[t][1]].dev
          /\ req[t].sec = blocks[asked[t][1]].start + asked[t][2]
Requested == \A t \in Thread : pc[t] # "out" => Served(t)

\* The states of the controller.
Quiet   == ~hw.bsy /\ ~hw.drq /\ hw.cmd = "none"
Storing == /\ hw.bsy /\ ~hw.drq /\ hw.cmd = "store"
           /\ <<hw.dev, hw.sec>> \in Address /\ hw.buf \in Data
Working(t) == /\ hw.cmd = req[t].op /\ (hw.bsy <=> ~hw.drq)
              /\ hw.dev = req[t].dev /\ hw.sec = req[t].sec
              /\ hw.cmd = "read" /\ hw.drq => hw.buf = media[<<hw.dev, hw.sec>>]

(* The controller, as the one thread that uses it finds it.                *)
Found(t) ==
  /\ pc[t] \in {"select", "idle_after", "program", "command", "identified"} => Quiet
  /\ pc[t] = "idle_before" => Quiet \/ Storing
  /\ pc[t] \in {"idle_after", "program", "command"} => hw.dev = req[t].dev
  /\ pc[t] = "command" => hw.sec = req[t].sec
  /\ pc[t] = "busy" => Working(t)
  /\ pc[t] = "down" => IF req[t].op = "write" THEN Quiet \/ Storing ELSE Working(t)
  /\ pc[t] = "unlock" => Quiet \/ (req[t].op = "write" /\ Storing)

HardwareKnown ==
  /\ \A t \in Thread : Found(t)
  /\ (\A t \in Thread : ~Inside(t)) => Quiet \/ Storing

(* Every block lies on its disk, and the disk being scanned has its block. *)
BlocksOnDisk ==
  /\ \A b \in DOMAIN blocks :
       /\ blocks[b].start + blocks[b].size <= Capacity[blocks[b].dev]
       /\ Capacity[blocks[b].dev] < Word
       /\ blocks[b].type = "raw" => blocks[b].start = 0 /\ blocks[b].size = Capacity[blocks[b].dev]
  /\ phase \in {"scan", "reading"} =>
       \E b \in DOMAIN blocks : blocks[b].dev = disk /\ blocks[b].type = "raw"

(* Completions are counted one for one until the first interrupt that has  *)
(* no cause: there is one to be had exactly when a thread waits for it and *)
(* the controller has done its part; data are on their way to the disk     *)
(* only while their writer waits, and a reader stops waiting only when the *)
(* data are there.                                                         *)
Awaited == \E t \in Thread : /\ pc[t] = "down"
                             /\ hw.cmd = "none" \/ (hw.cmd = req[t].op /\ hw.drq)
Counted ==
  spurious = 0 =>
    /\ Awaited => (completion_wait = 1 /\ ~hw.intrq) \/ (completion_wait = 0 /\ hw.intrq)
    /\ ~Awaited => completion_wait = 0 /\ ~hw.intrq
    /\ hw.cmd = "store" => \E t \in Thread : pc[t] = "down"
    /\ \A t \in Thread : pc[t] = "busy" /\ req[t].op # "write" => hw.drq

\* The first half of PanicsAreDeserved.
MistakesOnly ==
  panicked => \E t \in Thread : /\ asked[t] # Nowhere /\ At(t, "out")
                                /\ LET blk == blocks[asked[t][1]]
                                   IN  \/ asked[t][2] >= blk.size
                                       \/ asked[t][3] = "write" /\ blk.type = "foreign"

\* A thread that is in no call has asked for nothing, unless the kernel has panicked.
NotAsking == ~panicked => \A t \in Thread : pc[t] = "out" => asked[t] = Nowhere

DiskInv == /\ DiskTypeOK /\ OneUser /\ BootAlone /\ Requested /\ HardwareKnown
           /\ BlocksOnDisk /\ MistakesOnly /\ NotAsking

-----------------------------------------------------------------------------
(* Constants, and the step of a thread that uses the channel.              *)

LEMMA DiskConstants ==
  /\ Main \in Thread /\ NULL \notin Thread /\ NULL \notin Data /\ Blank \in Data
  /\ Word \in Nat /\ Word > 0
  /\ \A d \in Dev : Capacity[d] \in Nat
  /\ \A d \in Dev, s \in Nat : <<d, s>> \in Address <=> s < Capacity[d]
  <1>1. Blank \in Data
    BY IdeAssumption DEF Blank
  <1>2. \A d \in Dev : Capacity[d] \in Nat
    BY IdeAssumption DEF Dev
  <1>3. \A d \in Dev, s \in Nat : <<d, s>> \in Address <=> s < Capacity[d]
    <2> SUFFICES ASSUME NEW d \in Dev, NEW s \in Nat PROVE <<d, s>> \in Address <=> s < Capacity[d]
      OBVIOUS
    <2>1. s < Capacity[d] <=> s \in 0..(Capacity[d] - 1)
      BY <1>2
    <2> QED BY <2>1 DEF Address
  <1> QED BY <1>1, <1>2, <1>3, IdeAssumption, DiskAssumption

(* x % Word for the sums the code forms.                                   *)
LEMMA WordWraps ==
  ASSUME NEW x \in Nat
  PROVE  /\ x % Word \in 0..(Word - 1)
         /\ x < Word => x % Word = x
         /\ Word <= x /\ x < 2 * Word => x % Word = x - Word
  BY DiskConstants

LEMMA DiskInitInv == Init => DiskInv
  <1> SUFFICES ASSUME Init PROVE DiskInv
    OBVIOUS
  <1> USE DEF Init, IdeInit
  <1>0. 1 \in Dev
    BY DEF Dev
  <1>1. DiskTypeOK
    <2>1. hw \in HwType /\ req \in [Thread -> ReqType]
      BY <1>0 DEF HwType, ReqType, NoReq
    <2>2. media \in [Address -> Data] /\ pc \in [Thread -> Label] /\ asked \in [Thread -> Asked]
      BY DiskConstants DEF Label, Nowhere, Asked
    <2>3. blocks \in Seq(BlockType) /\ stack \in Seq([sector : Nat, primary : Nat, i : Nat])
      OBVIOUS
    <2>4. /\ owner \in Thread \cup {NULL} /\ expecting_interrupt \in BOOLEAN /\ panicked \in BOOLEAN
          /\ completion_wait \in Nat /\ spurious \in Nat /\ table \in Tables
      OBVIOUS
    <2>5. phase = "identify" /\ disk \in 1..3 /\ disk \in Dev
      BY <1>0
    <2> QED BY <2>1, <2>2, <2>3, <2>4, <2>5 DEF DiskTypeOK
  <1>2. /\ OneUser /\ BootAlone /\ Requested /\ HardwareKnown /\ BlocksOnDisk /\ MistakesOnly
        /\ NotAsking
    BY DiskConstants DEF OneUser, BootAlone, Requested, HardwareKnown, Found, Inside, Quiet,
      BlocksOnDisk, MistakesOnly, NotAsking
  <1> QED BY <1>1, <1>2 DEF DiskInv

(* The thread that uses the channel goes on; the others are elsewhere.     *)
LEMMA UserStep ==
  ASSUME DiskInv, ~panicked, NEW t \in Thread, Inside(t), NEW to \in Label \ {"out", "lock"},
         pc' = [pc EXCEPT ![t] = to],
         UNCHANGED <<owner, media, bootVars, asked, panicked>>,
         hw' \in HwType, req' \in [Thread -> ReqType],
         \A u \in Thread : u # t => req'[u] = req[u],
         expecting_interrupt' \in BOOLEAN, completion_wait' \in Nat, spurious' \in Nat,
         Served(t)', Found(t)'
  PROVE  DiskInv'
  <1>0. UNCHANGED <<table, blocks, phase, disk, stack>>
    BY DEF bootVars
  <1>1. /\ pc' \in [Thread -> Label] /\ pc'[t] = to /\ \A u \in Thread : u # t => pc'[u] = pc[u]
    BY DEF DiskInv, DiskTypeOK
  <1>2. DiskTypeOK'
    BY <1>0, <1>1 DEF DiskInv, DiskTypeOK
  <1>3. \A u \in Thread : (Inside(u)' <=> Inside(u)) /\ (Inside(u) => u = t)
    BY <1>1, DiskConstants DEF Inside, DiskInv, OneUser
  <1>4. OneUser'
    BY <1>0, <1>3 DEF DiskInv, OneUser
  <1>5. BootAlone'
    BY <1>0, <1>1 DEF DiskInv, BootAlone, Inside
  <1>6. Requested'
    <2>1. ASSUME NEW u \in Thread, u # t, pc'[u] # "out" PROVE Served(u)'
      BY <1>0, <1>1, <2>1 DEF DiskInv, Requested, Served
    <2> QED BY <2>1 DEF Requested
  <1>7. HardwareKnown'
    <2>1. ASSUME NEW u \in Thread, u # t PROVE Found(u)'
      BY <1>3, <2>1 DEF Found, Inside
    <2> QED BY <1>3, <2>1 DEF HardwareKnown
  <1>8. BlocksOnDisk'
    BY <1>0 DEF DiskInv, BlocksOnDisk
  <1>9. MistakesOnly' /\ NotAsking'
    BY <1>1 DEF DiskInv, MistakesOnly, NotAsking
  <1> QED BY <1>2, <1>4, <1>5, <1>6, <1>7, <1>8, <1>9 DEF DiskInv

(* wait_until_idle(): past it the controller is quiet, whatever a write    *)
(* that was released early left behind.                                    *)
LEMMA WaitIdleInv ==
  ASSUME DiskInv, ~panicked, NEW t \in Thread, NEW here, NEW next,
         <<here, next>> \in {<<"idle_before", "select">>, <<"idle_after", "program">>},
         wait_until_idle(t, here, next), UNCHANGED <<bootVars, asked, panicked>>
  PROVE  DiskInv'
  <1>0. here \in {"idle_before", "idle_after"} /\ next \in Label \ {"out", "lock"}
        /\ (here = "idle_before" <=> next = "select") /\ (here = "idle_after" <=> next = "program")
    BY DEF Label
  <1>1. /\ pc[t] = here /\ hw' = [hw EXCEPT !.intrq = FALSE]
        /\ UNCHANGED <<owner, expecting_interrupt, completion_wait, media, req, spurious>>
        /\ pc' = [pc EXCEPT ![t] = IF Idle THEN next ELSE here]
    BY DEF wait_until_idle, At, Goto
  <1>2. Inside(t) /\ Served(t) /\ Found(t)
    BY <1>0, <1>1 DEF Inside, DiskInv, Requested, HardwareKnown
  <1>3. PICK to \in Label \ {"out", "lock"} : to = IF Idle THEN next ELSE here
    BY <1>0 DEF Label
  <1>4. hw \in HwType /\ pc'[t] = to
    BY <1>1, <1>3 DEF DiskInv, DiskTypeOK
  <1>5. hw' \in HwType /\ hw'.bsy = hw.bsy /\ hw'.drq = hw.drq /\ hw'.cmd = hw.cmd /\ hw'.dev = hw.dev
        /\ hw'.sec = hw.sec /\ hw'.buf = hw.buf
    BY <1>1, <1>4 DEF HwType
  <1>6. Served(t)'
    BY <1>0, <1>1, <1>2, <1>3, <1>4 DEF Served, bootVars
  <1>7. Found(t)'
    BY <1>0, <1>1, <1>2, <1>3, <1>4, <1>5 DEF Found, Quiet, Storing, Idle
  <1> QED BY <1>1, <1>2, <1>3, <1>5, <1>6, <1>7, UserStep DEF DiskInv, DiskTypeOK

(* select_device(), select_sector() and the command.                       *)
LEMMA CommandInv ==
  ASSUME DiskInv, ~panicked, NEW t \in Thread,
         select_device(t) \/ select_sector(t) \/ issue_pio_command(t),
         UNCHANGED <<bootVars, asked, panicked>>
  PROVE  DiskInv'
  <1>1. UNCHANGED <<owner, completion_wait, media, req, spurious>>
    BY DEF select_device, select_sector, issue_pio_command
  <1>2. pc[t] \in {"select", "program", "command"} /\ Inside(t)
    BY DEF select_device, select_sector, issue_pio_command, At, Inside
  <1>3. Served(t) /\ Found(t) /\ hw \in HwType /\ req[t] \in ReqType /\ pc \in [Thread -> Label]
        /\ expecting_interrupt' \in BOOLEAN
    BY <1>2 DEF DiskInv, Requested, HardwareKnown, DiskTypeOK, select_device, select_sector,
      issue_pio_command
  <1>4. CASE select_device(t)
    <2>1. pc' = [pc EXCEPT ![t] = "idle_after"] /\ pc'[t] = "idle_after" /\ pc[t] = "select"
      BY <1>3, <1>4 DEF select_device, Goto, At
    <2>2. /\ hw' \in HwType /\ hw'.bsy = hw.bsy /\ hw'.drq = hw.drq /\ hw'.cmd = hw.cmd
          /\ hw'.dev = req[t].dev
      BY <1>3, <1>4 DEF HwType, ReqType, select_device
    <2>3. Served(t)' /\ Found(t)'
      BY <1>1, <1>3, <2>1, <2>2 DEF Served, Found, Quiet, bootVars
    <2> QED BY <1>1, <1>2, <1>3, <2>1, <2>2, <2>3, UserStep DEF DiskInv, DiskTypeOK, Label
  <1>5. CASE select_sector(t)
    <2>1. pc' = [pc EXCEPT ![t] = "command"] /\ pc'[t] = "command" /\ pc[t] = "program"
      BY <1>3, <1>5 DEF select_sector, Goto, At
    <2>2. /\ hw' \in HwType /\ hw'.bsy = hw.bsy /\ hw'.drq = hw.drq /\ hw'.cmd = hw.cmd
          /\ hw'.dev = hw.dev /\ hw'.sec = req[t].sec
      BY <1>3, <1>5 DEF HwType, ReqType, select_sector
    <2>3. Served(t)' /\ Found(t)'
      BY <1>1, <1>3, <2>1, <2>2 DEF Served, Found, Quiet, bootVars
    <2> QED BY <1>1, <1>2, <1>3, <2>1, <2>2, <2>3, UserStep DEF DiskInv, DiskTypeOK, Label
  <1>6. CASE issue_pio_command(t)
    <2>1. PICK to \in Label \ {"out", "lock"} : to = IF req[t].op = "write" THEN "busy" ELSE "down"
      BY DEF Label
    <2>2. pc' = [pc EXCEPT ![t] = to] /\ pc'[t] = to /\ pc[t] = "command"
      BY <1>3, <1>6, <2>1 DEF issue_pio_command, Goto, At
    <2>3. /\ hw' \in HwType /\ hw'.bsy /\ hw'.drq = hw.drq /\ hw'.cmd = req[t].op
          /\ hw'.dev = hw.dev /\ hw'.sec = hw.sec
      BY <1>3, <1>6 DEF HwType, ReqType, issue_pio_command
    <2>4. Served(t)' /\ Found(t)'
      BY <1>1, <1>3, <2>1, <2>2, <2>3 DEF Served, Found, Quiet, Working, bootVars
    <2> QED BY <1>1, <1>2, <1>3, <2>1, <2>2, <2>3, <2>4, UserStep DEF DiskInv, DiskTypeOK
  <1> QED BY <1>4, <1>5, <1>6

(* sema_down(&c->completion_wait), however it comes to return.             *)
LEMMA WaitCompletionInv ==
  ASSUME DiskInv, ~panicked, NEW t \in Thread, WaitCompletion(t),
         UNCHANGED <<bootVars, asked, panicked>>
  PROVE  DiskInv'
  <1>1. /\ UNCHANGED <<owner, expecting_interrupt, hw, media, req, spurious>>
        /\ pc[t] = "down" /\ completion_wait' \in Nat
    BY DEF WaitCompletion, At, DiskInv, DiskTypeOK
  <1>2. Inside(t) /\ Served(t) /\ Found(t)
    BY <1>1 DEF Inside, DiskInv, Requested, HardwareKnown
  <1>3. PICK to \in Label \ {"out", "lock"} : to = IF req[t].op = "write" THEN "unlock" ELSE "busy"
    BY DEF Label
  <1>4. pc' = [pc EXCEPT ![t] = to] /\ pc'[t] = to
    BY <1>3 DEF WaitCompletion, Goto, DiskInv, DiskTypeOK
  <1>5. Served(t)' /\ Found(t)'
    BY <1>1, <1>2, <1>3, <1>4 DEF Served, Found, Quiet, Storing, Working, bootVars
  <1> QED BY <1>1, <1>2, <1>3, <1>4, <1>5, UserStep DEF DiskInv, DiskTypeOK

(* The transfer of the sector.                                             *)
LEMMA TransferInv ==
  ASSUME DiskInv, ~panicked, NEW t \in Thread, Transfer(t),
         UNCHANGED <<bootVars, asked, panicked>>
  PROVE  DiskInv'
  <1>1. /\ UNCHANGED <<owner, expecting_interrupt, completion_wait, media, spurious>>
        /\ pc[t] = "busy" /\ ~hw.bsy /\ hw.drq
    BY DEF Transfer, At
  <1>2. Inside(t) /\ Served(t) /\ Working(t)
    BY <1>1 DEF Inside, DiskInv, Requested, HardwareKnown, Found
  <1>3. /\ hw \in HwType /\ req \in [Thread -> ReqType] /\ req[t] \in ReqType
        /\ pc \in [Thread -> Label] /\ media \in [Address -> Data]
    BY DEF DiskInv, DiskTypeOK
  <1>4. CASE req[t].op = "write"
    <2>1. pc' = [pc EXCEPT ![t] = "down"] /\ pc'[t] = "down" /\ UNCHANGED req
      BY <1>3, <1>4 DEF Transfer, Goto
    <2>2. /\ hw' \in HwType /\ hw'.bsy /\ ~hw'.drq /\ hw'.cmd = "store" /\ hw'.buf = req[t].data
          /\ hw'.dev = hw.dev /\ hw'.sec = hw.sec
      BY <1>3, <1>4, ZenonT(60) DEF HwType, ReqType, Transfer
    <2>3. Served(t)' /\ Found(t)'
      BY <1>2, <1>4, <2>1, <2>2 DEF Served, Found, Storing, Working, bootVars
    <2> QED BY <1>1, <1>2, <1>3, <2>1, <2>2, <2>3, UserStep DEF DiskInv, DiskTypeOK, Label
  <1>5. CASE req[t].op # "write"
    <2>1. PICK to \in Label \ {"out", "lock"} : to = IF req[t].op = "identify" THEN "identified" ELSE "unlock"
      BY DEF Label
    <2>2. pc' = [pc EXCEPT ![t] = to] /\ pc'[t] = to
      BY <1>3, <1>5, <2>1 DEF Transfer, Goto
    <2>3. /\ hw' \in HwType /\ ~hw'.bsy /\ ~hw'.drq /\ hw'.cmd = "none" /\ hw.buf \in Data \cup {NULL}
      BY <1>1, <1>3, <1>5 DEF HwType, Transfer
    <2>4. /\ req' \in [Thread -> ReqType] /\ \A u \in Thread : u # t => req'[u] = req[u]
          /\ req'[t].op = req[t].op /\ req'[t].dev = req[t].dev /\ req'[t].sec = req[t].sec
          /\ req'[t].data = hw.buf
      BY <1>3, <1>5, <2>3 DEF ReqType, Transfer
    <2>5. req[t].op = "read" => hw.buf \in Data
      BY <1>1, <1>2, <1>3 DEF Working, Served
    <2>6. Served(t)'
      BY <1>2, <1>5, <2>1, <2>2, <2>4, <2>5 DEF Served, bootVars
    <2>7. Found(t)'
      BY <2>1, <2>2, <2>3 DEF Found, Quiet
    <2> QED BY <1>1, <1>2, <1>3, <2>1, <2>2, <2>3, <2>4, <2>6, <2>7, UserStep DEF DiskInv, DiskTypeOK
  <1> QED BY <1>4, <1>5

-----------------------------------------------------------------------------
(* The lock, the calls and the controller.                                 *)

(* lock_acquire(&c->lock): nobody uses the channel then.                   *)
LEMMA AcquireChannelInv ==
  ASSUME DiskInv, ~panicked, NEW t \in Thread, AcquireChannel(t),
         UNCHANGED <<bootVars, asked, panicked>>
  PROVE  DiskInv'
  <1>0. UNCHANGED <<table, blocks, phase, disk, stack>>
    BY DEF bootVars
  <1>1. /\ UNCHANGED <<expecting_interrupt, completion_wait, hw, media, req, spurious>>
        /\ pc[t] = "lock" /\ owner = NULL /\ owner' = t /\ pc' = [pc EXCEPT ![t] = "idle_before"]
    BY DEF AcquireChannel, At, Goto
  <1>2. /\ pc' \in [Thread -> Label] /\ pc'[t] = "idle_before"
        /\ \A u \in Thread : u # t => pc'[u] = pc[u]
    BY <1>1 DEF DiskInv, DiskTypeOK, Label
  <1>3. phase # "identifying"
    BY <1>1, DiskConstants DEF DiskInv, OneUser, BootAlone, Inside
  <1>4. \A u \in Thread : ~Inside(u) /\ (Inside(u)' <=> u = t)
    BY <1>1, <1>2, <1>3, DiskConstants DEF DiskInv, OneUser, Inside
  <1>5. DiskTypeOK'
    BY <1>0, <1>1, <1>2 DEF DiskInv, DiskTypeOK
  <1>6. OneUser' /\ BootAlone'
    BY <1>0, <1>1, <1>2, <1>3, <1>4, DiskConstants DEF DiskInv, OneUser, BootAlone
  <1>7. Requested'
    <2> SUFFICES ASSUME NEW u \in Thread, pc'[u] # "out" PROVE Served(u)'
      BY DEF Requested
    <2>1. Served(u)
      BY <1>1, <1>2 DEF DiskInv, Requested
    <2> QED BY <1>0, <1>1, <1>2, <2>1 DEF Served
  <1>8. HardwareKnown'
    <2>1. (Quiet \/ Storing)'
      BY <1>1, <1>4 DEF DiskInv, HardwareKnown, Quiet, Storing
    <2>2. ASSUME NEW u \in Thread PROVE Found(u)'
      BY <1>2, <1>4, <2>1 DEF Found, Inside
    <2> QED BY <1>4, <2>2 DEF HardwareKnown
  <1>9. BlocksOnDisk' /\ MistakesOnly' /\ NotAsking'
    BY <1>0, <1>2 DEF DiskInv, BlocksOnDisk, MistakesOnly, NotAsking
  <1> QED BY <1>5, <1>6, <1>7, <1>8, <1>9 DEF DiskInv

(* lock_release(&c->lock) and the return of the call.                      *)
LEMMA BlockReturnInv ==
  ASSUME DiskInv, ~panicked, NEW t \in Thread, BlockReturn(t), UNCHANGED <<bootVars, panicked>>
  PROVE  DiskInv'
  <1>0. UNCHANGED <<table, blocks, phase, disk, stack>>
    BY DEF bootVars
  <1>1. /\ UNCHANGED <<expecting_interrupt, completion_wait, hw, media, spurious>>
        /\ pc[t] = "unlock" /\ owner' = NULL /\ pc' = [pc EXCEPT ![t] = "out"]
        /\ req' = [req EXCEPT ![t] = NoReq] /\ asked' = [asked EXCEPT ![t] = Nowhere]
    BY DEF BlockReturn, ReleaseChannel, At, Goto
  <1>2. /\ pc' \in [Thread -> Label] /\ pc'[t] = "out"
        /\ \A u \in Thread : u # t => pc'[u] = pc[u] /\ req'[u] = req[u] /\ asked'[u] = asked[u]
    BY <1>1 DEF DiskInv, DiskTypeOK, Label
  <1>3. Inside(t) /\ Found(t) /\ Served(t)
    BY <1>1 DEF DiskInv, HardwareKnown, Requested, Inside
  <1>4. phase # "identifying" /\ owner = t
    BY <1>1, <1>3, DiskConstants DEF DiskInv, OneUser, Served, Inside
  <1>5. \A u \in Thread : ~Inside(u)'
    BY <1>2, <1>4 DEF DiskInv, OneUser, Inside
  <1>6. DiskTypeOK'
    <2>1. req' \in [Thread -> ReqType] /\ asked' \in [Thread -> Asked]
      BY <1>1 DEF DiskInv, DiskTypeOK, ReqType, NoReq, Nowhere, Asked, Dev
    <2> QED BY <1>0, <1>1, <1>2, <2>1 DEF DiskInv, DiskTypeOK
  <1>7. OneUser' /\ BootAlone'
    BY <1>0, <1>1, <1>2, <1>4, <1>5, DiskConstants DEF DiskInv, OneUser, BootAlone
  <1>8. Requested'
    <2> SUFFICES ASSUME NEW u \in Thread, pc'[u] # "out" PROVE Served(u)'
      BY DEF Requested
    <2>1. Served(u) /\ u # t
      BY <1>1, <1>2 DEF DiskInv, Requested
    <2> QED BY <1>0, <1>2, <2>1 DEF Served
  <1>9. HardwareKnown'
    <2>1. (Quiet \/ Storing)'
      BY <1>1, <1>3 DEF Found, Quiet, Storing
    <2> QED BY <1>5, <2>1 DEF HardwareKnown, Found, Inside
  <1>10. BlocksOnDisk' /\ MistakesOnly'
    BY <1>0 DEF DiskInv, BlocksOnDisk, MistakesOnly
  <1>11. NotAsking'
    BY <1>1, <1>2 DEF DiskInv, DiskTypeOK, NotAsking
  <1> QED BY <1>6, <1>7, <1>8, <1>9, <1>10, <1>11 DEF DiskInv

(* The interrupt handler and the controller change nothing a thread's      *)
(* request, the lock or the boot depends on.                               *)
LEMMA DeviceInv ==
  ASSUME DiskInv, ~panicked, UNCHANGED <<owner, pc, req, bootVars, asked, panicked>>,
         hw' \in HwType, media' \in [Address -> Data], HardwareKnown',
         expecting_interrupt' \in BOOLEAN, completion_wait' \in Nat, spurious' \in Nat
  PROVE  DiskInv'
  <1>0. UNCHANGED <<table, blocks, phase, disk, stack>>
    BY DEF bootVars
  <1>1. DiskTypeOK' /\ OneUser' /\ BootAlone' /\ BlocksOnDisk' /\ MistakesOnly'
    BY <1>0 DEF DiskInv, DiskTypeOK, OneUser, Inside, BootAlone, BlocksOnDisk, MistakesOnly
  <1>2. Requested' /\ NotAsking'
    BY <1>0 DEF DiskInv, Requested, Served, NotAsking
  <1> QED BY <1>1, <1>2 DEF DiskInv

LEMMA InterruptInv ==
  ASSUME DiskInv, ~panicked, Hardware(Completion) \/ Hardware(Spurious)
  PROVE  DiskInv'
  <1>1. /\ interrupt_handler /\ UNCHANGED <<bootVars, asked, panicked>> /\ spurious' \in Nat
        /\ hw \in HwType /\ completion_wait \in Nat
    BY DEF Hardware, Completion, Spurious, DiskInv, DiskTypeOK
  <1>2. /\ UNCHANGED <<owner, expecting_interrupt, media, pc, req>> /\ completion_wait' \in Nat
    BY <1>1 DEF interrupt_handler
  <1>3. /\ hw' \in HwType /\ hw'.bsy = hw.bsy /\ hw'.drq = hw.drq /\ hw'.cmd = hw.cmd /\ hw'.dev = hw.dev
        /\ hw'.sec = hw.sec /\ hw'.buf = hw.buf
    BY <1>1 DEF interrupt_handler, HwType
  <1>4. HardwareKnown'
    BY <1>2, <1>3 DEF DiskInv, HardwareKnown, Found, Quiet, Storing, Working, Inside
  <1> QED BY <1>1, <1>2, <1>3, <1>4, DeviceInv DEF DiskInv, DiskTypeOK

LEMMA ControllerInv ==
  ASSUME DiskInv, ~panicked, Hardware(Controller)
  PROVE  DiskInv'
  <1>1. /\ UNCHANGED <<owner, expecting_interrupt, completion_wait, pc, req, spurious, bootVars, asked, panicked>>
        /\ hw \in HwType /\ media \in [Address -> Data] /\ hw.bsy
    BY DEF Hardware, Controller, Fetch, AskData, Store, DiskInv, DiskTypeOK
  <1>2. \A t \in Thread : Inside(t)' <=> Inside(t)
    BY <1>1 DEF Inside
  <1>3. \A t, u \in Thread : Inside(t) /\ Inside(u) => t = u
    BY DiskConstants DEF DiskInv, OneUser
  <1>4. CASE Store
    <2>1. hw.cmd = "store" /\ Storing
      BY <1>1, <1>4 DEF Store, DiskInv, HardwareKnown, Found, Inside, Quiet, Storing, Working,
        Requested, Served, DiskTypeOK, Label
    <2>2. hw' \in HwType /\ ~hw'.bsy /\ ~hw'.drq /\ hw'.cmd = "none"
          /\ hw'.dev = hw.dev /\ hw'.sec = hw.sec
      BY <1>1, <1>4, <2>1 DEF Store, HwType, Storing
    <2>3. media' \in [Address -> Data]
      BY <1>1, <1>4, <2>1 DEF Store, Storing
    <2>4. HardwareKnown'
      <3>1. Quiet'
        BY <2>2 DEF Quiet
      <3>2. ASSUME NEW t \in Thread PROVE Found(t)'
        <4>1. pc[t] # "busy" /\ (pc[t] = "down" => req[t].op = "write")
          BY <1>1, <2>1 DEF DiskInv, HardwareKnown, Found, Working, Requested, Served, Storing
        <4>2. pc[t] \notin {"select", "idle_after", "program", "command", "identified"}
          BY <1>1 DEF DiskInv, HardwareKnown, Found, Quiet
        <4> QED BY <1>1, <3>1, <4>1, <4>2 DEF Found
      <3> QED BY <3>1, <3>2 DEF HardwareKnown
    <2> QED BY <1>1, <2>2, <2>3, <2>4, DeviceInv DEF DiskInv, DiskTypeOK
  <1>5. CASE Fetch \/ AskData
    <2>1. hw.cmd \in {"read", "write", "identify"} /\ UNCHANGED media
      BY <1>5 DEF Fetch, AskData
    <2>2. PICK t \in Thread : Inside(t) /\ Working(t) /\ Served(t)
                              /\ (pc[t] = "busy" \/ (pc[t] = "down" /\ req[t].op # "write"))
      BY <1>1, <2>1 DEF DiskInv, HardwareKnown, Found, Inside, Quiet, Storing, Requested,
        DiskTypeOK, Label
    <2>3. hw.cmd = "read" => media[<<hw.dev, hw.sec>>] \in Data
      BY <1>1, <2>2 DEF Working, Served
    <2>4. /\ hw' \in HwType /\ ~hw'.bsy /\ hw'.drq /\ hw'.cmd = hw.cmd
          /\ hw'.dev = hw.dev /\ hw'.sec = hw.sec
          /\ hw.cmd = "read" => hw'.buf = media[<<hw.dev, hw.sec>>]
      <3>1. CASE Fetch
        BY <1>1, <2>3, <3>1 DEF Fetch, HwType
      <3>2. CASE AskData
        BY <1>1, <3>2 DEF AskData, HwType
      <3> QED BY <1>5, <3>1, <3>2
    <2>5. HardwareKnown'
      <3>1. Working(t)'
        BY <1>1, <2>1, <2>2, <2>4 DEF Working
      <3>2. ASSUME NEW u \in Thread PROVE Found(u)'
        BY <1>1, <1>2, <1>3, <2>2, <3>1 DEF Found, Inside
      <3> QED BY <1>2, <2>2, <3>2 DEF HardwareKnown
    <2> QED BY <1>1, <2>1, <2>4, <2>5, DeviceInv DEF DiskInv, DiskTypeOK
  <1> QED BY <1>4, <1>5 DEF Hardware, Controller

-----------------------------------------------------------------------------
(* The calls of the block layer.                                           *)

(* A sector of a block is a sector of the block's disk: partition_read()'s *)
(* sum does not wrap around.                                               *)
LEMMA SectorOnDisk ==
  ASSUME DiskInv, NEW b \in DOMAIN blocks, NEW s \in Nat
  PROVE  /\ blocks[b] \in BlockType /\ PartitionSector(blocks[b], s) \in Nat
         /\ s < blocks[b].size => /\ PartitionSector(blocks[b], s) = blocks[b].start + s
                                  /\ PartitionSector(blocks[b], s) < Capacity[blocks[b].dev]
  <1> DEFINE blk == blocks[b]
  <1>1. blk \in BlockType
    BY DEF DiskInv, DiskTypeOK
  <1>2. blk.start \in Nat /\ blk.size \in Nat /\ blk.dev \in Dev /\ Capacity[blk.dev] \in Nat
    BY <1>1, DiskConstants DEF BlockType
  <1>3. blk.start + blk.size <= Capacity[blk.dev] /\ Capacity[blk.dev] < Word
    BY DEF DiskInv, BlocksOnDisk
  <1>4. blk.start + s \in Nat
    BY <1>2
  <1>5. (blk.start + s) % Word \in Nat
    BY <1>4, WordWraps
  <1>6. ASSUME s < blk.size
        PROVE  (blk.start + s) % Word = blk.start + s /\ blk.start + s < Capacity[blk.dev]
    BY <1>2, <1>3, <1>4, <1>6, WordWraps, DiskConstants
  <1> QED BY <1>1, <1>5, <1>6 DEF PartitionSector

(* block_read() and block_write(): a call that is not its caller's mistake *)
(* becomes a request to the channel.                                       *)
LEMMA BlockCallInv ==
  ASSUME DiskInv, ~panicked, NEW t \in Thread, NEW op \in {"read", "write"},
         NEW b \in DOMAIN blocks, NEW s \in Nat, NEW v \in Data \cup {NULL},
         op = "read" => v = NULL, op = "write" => v \in Data,
         BlockCall(t, op, b, s, v), UNCHANGED <<table, blocks, disk, stack>>,
         \/ phase = "up" /\ phase' = "up"
         \/ phase = "scan" /\ phase' = "reading" /\ t = Main /\ stack # << >>
  PROVE  DiskInv'
  <1> DEFINE blk == blocks[b]
             sec == PartitionSector(blk, s)
             fine == s < blk.size /\ sec < Capacity[blk.dev] /\ ~(op = "write" /\ blk.type = "foreign")
  <1>0. /\ pc[t] = "out" /\ asked' = [asked EXCEPT ![t] = <<b, s, op>>] /\ b \in Nat /\ b > 0
        /\ blk \in BlockType /\ sec \in Nat /\ blk.dev \in Dev
        /\ s < blk.size => sec = blk.start + s /\ sec < Capacity[blk.dev]
    <2>1. pc[t] = "out" /\ asked' = [asked EXCEPT ![t] = <<b, s, op>>]
      BY DEF BlockCall, At
    <2>2. b \in Nat /\ b > 0
      BY DEF DiskInv, DiskTypeOK
    <2>3. blk \in BlockType /\ sec \in Nat /\ blk.dev \in Dev
      BY SectorOnDisk DEF BlockType
    <2> QED BY <2>1, <2>2, <2>3, SectorOnDisk
  <1>1. /\ asked' \in [Thread -> Asked] /\ asked'[t] = <<b, s, op>>
        /\ \A u \in Thread : u # t => asked'[u] = asked[u]
    BY <1>0 DEF DiskInv, DiskTypeOK, Asked
  <1>2. BlocksOnDisk'
    BY DEF DiskInv, BlocksOnDisk
  <1>3. CASE ~fine
    <2>1. panicked' = TRUE /\ UNCHANGED ideVars
      BY <1>3 DEF BlockCall
    <2>2. UNCHANGED <<owner, expecting_interrupt, completion_wait, hw, media, pc, req, spurious>>
      BY <2>1 DEF ideVars
    <2>3. DiskTypeOK'
      BY <1>1, <2>1, <2>2 DEF DiskInv, DiskTypeOK
    <2>4. OneUser' /\ HardwareKnown'
      BY <2>2 DEF DiskInv, OneUser, HardwareKnown, Found, Quiet, Storing, Working, Inside
    <2>5. BootAlone'
      BY <1>0, <2>2 DEF DiskInv, BootAlone
    <2>6. Requested'
      <3> SUFFICES ASSUME NEW u \in Thread, pc'[u] # "out" PROVE Served(u)'
        BY DEF Requested
      <3>1. Served(u) /\ u # t
        BY <1>0, <2>2 DEF DiskInv, Requested
      <3> QED BY <1>1, <2>2, <3>1 DEF Served
    <2>7. MistakesOnly'
      <3>1. s >= blk.size \/ (op = "write" /\ blk.type = "foreign")
        BY <1>0, <1>3 DEF BlockType
      <3>2. asked'[t] # Nowhere /\ pc'[t] = "out"
        BY <1>0, <1>1, <2>2 DEF Nowhere
      <3>3. asked'[t][1] = b /\ asked'[t][2] = s /\ asked'[t][3] = op /\ blocks' = blocks
        BY <1>1
      <3> QED BY <3>1, <3>2, <3>3 DEF MistakesOnly, At
    <2>8. NotAsking'
      BY <2>1 DEF NotAsking
    <2> QED BY <1>2, <2>3, <2>4, <2>5, <2>6, <2>7, <2>8 DEF DiskInv
  <1>4. CASE fine
    <2>1. Begin(t, op, blk.dev, sec, v) /\ UNCHANGED panicked
      BY <1>4 DEF BlockCall
    <2>2. /\ UNCHANGED <<owner, expecting_interrupt, completion_wait, hw, media, spurious>>
          /\ req' = [req EXCEPT ![t] = [op |-> op, dev |-> blk.dev, sec |-> sec, data |-> v]]
          /\ pc' = [pc EXCEPT ![t] = "lock"]
      BY <2>1 DEF Begin, Goto
    <2>3. /\ pc' \in [Thread -> Label] /\ pc'[t] = "lock" /\ \A u \in Thread : u # t => pc'[u] = pc[u]
      BY <2>2 DEF DiskInv, DiskTypeOK, Label
    <2>4. /\ req' \in [Thread -> ReqType]
          /\ req'[t] = [op |-> op, dev |-> blk.dev, sec |-> sec, data |-> v]
          /\ \A u \in Thread : u # t => req'[u] = req[u]
      BY <1>0, <2>2 DEF DiskInv, DiskTypeOK, ReqType
    <2>5. DiskTypeOK'
      BY <1>1, <2>1, <2>2, <2>3, <2>4 DEF DiskInv, DiskTypeOK
    <2>6. \A u \in Thread : (Inside(u)' <=> Inside(u)) /\ (u = t => ~Inside(u))
      BY <1>0, <2>3 DEF Inside
    <2>7. OneUser'
      BY <2>2, <2>6 DEF DiskInv, OneUser
    <2>8. BootAlone'
      BY <2>3 DEF DiskInv, BootAlone
    <2>9. HardwareKnown'
      <3>1. ASSUME NEW u \in Thread PROVE Found(u)'
        <4>1. CASE u = t
          BY <2>3, <4>1 DEF Found
        <4>2. CASE u # t
          <5>1. pc'[u] = pc[u] /\ req'[u] = req[u] /\ Found(u)
            BY <2>3, <2>4, <4>2 DEF DiskInv, HardwareKnown
          <5> QED BY <2>2, <5>1 DEF Found, Quiet, Storing, Working
        <4> QED BY <4>1, <4>2
      <3>2. (Quiet' <=> Quiet) /\ (Storing' <=> Storing)
        BY <2>2 DEF Quiet, Storing
      <3> QED BY <2>6, <3>1, <3>2 DEF DiskInv, HardwareKnown
    <2>10. Requested'
      <3> SUFFICES ASSUME NEW u \in Thread, pc'[u] # "out" PROVE Served(u)'
        BY DEF Requested
      <3>1. CASE u # t
        <4>1. Served(u)
          BY <2>3, <3>1 DEF DiskInv, Requested
        <4> QED BY <1>1, <2>3, <2>4, <3>1, <4>1 DEF Served
      <3>2. CASE u = t
        <4>1. <<blk.dev, sec>> \in Address
          BY <1>0, <1>4, DiskConstants
        <4> QED BY <1>0, <1>1, <1>4, <2>3, <2>4, <3>2, <4>1 DEF Served
      <3> QED BY <3>1, <3>2
    <2>11. MistakesOnly' /\ NotAsking'
      BY <1>1, <2>1, <2>3 DEF DiskInv, MistakesOnly, NotAsking
    <2> QED BY <1>2, <2>5, <2>7, <2>8, <2>9, <2>10, <2>11 DEF DiskInv
  <1> QED BY <1>3, <1>4

LEMMA RequestInv ==
  ASSUME DiskInv, ~panicked, NEW t \in Thread, Request(t) PROVE DiskInv'
  <1>1. UNCHANGED <<table, blocks, phase, disk, stack>> /\ phase = "up"
    BY DEF Request, bootVars
  <1>2. PICK b \in DOMAIN blocks, s \in 0..(Word - 1) :
               \/ BlockCall(t, "read", b, s, NULL)
               \/ \E v \in Data : BlockCall(t, "write", b, s, v)
    BY DEF Request
  <1>3. s \in Nat
    OBVIOUS
  <1> QED BY <1>1, <1>2, <1>3, BlockCallInv, DiskConstants

-----------------------------------------------------------------------------
(* The boot.                                                               *)

(* While nobody uses the channel the boot changes its own state only.      *)
LEMMA BootStep ==
  ASSUME DiskInv, ~panicked, UNCHANGED <<ideVars, table, asked, panicked>>,
         \A t \in Thread : pc[t] = "out", phase # "identifying", phase' # "identifying",
         blocks' \in Seq(BlockType), BlocksOnDisk',
         phase' \in {"identify", "scan", "up"}, phase' = "scan" => Capacity[disk'] > 0,
         disk' \in 1..3, phase' # "up" => disk' \in Dev,
         stack' \in Seq([sector : Nat, primary : Nat, i : Nat])
  PROVE  DiskInv'
  <1>1. UNCHANGED <<owner, expecting_interrupt, completion_wait, hw, media, pc, req, spurious>>
    BY DEF ideVars
  <1>2. DiskTypeOK'
    BY <1>1 DEF DiskInv, DiskTypeOK
  <1>3. OneUser' /\ BootAlone' /\ Requested' /\ MistakesOnly' /\ NotAsking'
    BY <1>1, DiskConstants
    DEF DiskInv, OneUser, BootAlone, Requested, MistakesOnly, NotAsking, Inside
  <1>4. HardwareKnown'
    BY <1>1 DEF DiskInv, HardwareKnown, Found, Quiet, Storing, Inside
  <1> QED BY <1>2, <1>3, <1>4 DEF DiskInv

(* The next disk, or the end of the boot.                                  *)
LEMMA NextDiskOK ==
  ASSUME DiskInv, phase # "up", NextDisk
  PROVE  /\ phase' \in {"identify", "up"} /\ disk' \in 1..3 /\ (phase' # "up" => disk' \in Dev)
  BY DEF NextDisk, DiskInv, DiskTypeOK, Dev

(* identify_ata_device() begins, or skips a disk that is not there.        *)
LEMMA IdentifyInv ==
  ASSUME DiskInv, ~panicked, Identify PROVE DiskInv'
  <1>1. /\ phase = "identify" /\ UNCHANGED <<table, blocks, stack, asked, panicked>>
        /\ disk \in Dev /\ \A t \in Thread : pc[t] = "out"
    BY DEF Identify, DiskInv, DiskTypeOK, BootAlone
  <1>2. CASE ~(Capacity[disk] > 0)
    <2>1. NextDisk /\ UNCHANGED ideVars
      BY <1>2 DEF Identify
    <2>2. /\ phase' \in {"identify", "up"} /\ disk' \in 1..3 /\ (phase' # "up" => disk' \in Dev)
      BY <1>1, <2>1, NextDiskOK
    <2>3. BlocksOnDisk'
      BY <1>1, <2>2 DEF DiskInv, BlocksOnDisk
    <2> QED BY <1>1, <2>1, <2>2, <2>3, BootStep DEF DiskInv, DiskTypeOK
  <1>3. CASE Capacity[disk] > 0
    <2>1. Begin(Main, "identify", disk, 0, NULL) /\ phase' = "identifying" /\ disk' = disk
      BY <1>3 DEF Identify
    <2>2. /\ UNCHANGED <<owner, expecting_interrupt, completion_wait, hw, media, spurious>>
          /\ req' = [req EXCEPT ![Main] = [op |-> "identify", dev |-> disk, sec |-> 0, data |-> NULL]]
          /\ pc' = [pc EXCEPT ![Main] = "idle_before"]
      BY <2>1 DEF Begin, Goto
    <2>3. /\ pc' \in [Thread -> Label] /\ pc'[Main] = "idle_before"
          /\ \A u \in Thread : u # Main => pc'[u] = "out"
      BY <1>1, <2>2, DiskConstants DEF DiskInv, DiskTypeOK, Label
    <2>4. /\ req' \in [Thread -> ReqType]
          /\ req'[Main] = [op |-> "identify", dev |-> disk, sec |-> 0, data |-> NULL]
      BY <1>1, <2>2, DiskConstants DEF DiskInv, DiskTypeOK, ReqType
    <2>5. owner = NULL
      BY <1>1 DEF DiskInv, DiskTypeOK, OneUser, Inside
    <2>6. DiskTypeOK'
      BY <1>1, <2>1, <2>2, <2>3, <2>4 DEF DiskInv, DiskTypeOK
    <2>7. OneUser' /\ BootAlone'
      BY <1>1, <1>3, <2>1, <2>2, <2>3, <2>5, DiskConstants DEF OneUser, BootAlone, Inside
    <2>8. Requested'
      <3>1. asked'[Main] = Nowhere
        BY <1>1, DiskConstants DEF DiskInv, NotAsking
      <3>2. <<disk, 0>> \in Address
        BY <1>1, <1>3, DiskConstants
      <3>3. Served(Main)'
        BY <2>1, <2>3, <2>4, <3>1, <3>2 DEF Served
      <3> QED BY <2>3, <3>3 DEF Requested
    <2>9. HardwareKnown'
      <3>1. (Quiet \/ Storing)'
        BY <1>1, <2>2 DEF DiskInv, HardwareKnown, Inside, Quiet, Storing
      <3> QED BY <2>3, <3>1 DEF HardwareKnown, Found, Inside
    <2>10. BlocksOnDisk' /\ MistakesOnly' /\ NotAsking'
      BY <1>1, <2>1, <2>3 DEF DiskInv, BlocksOnDisk, MistakesOnly, NotAsking
    <2> QED BY <2>6, <2>7, <2>8, <2>9, <2>10 DEF DiskInv
  <1> QED BY <1>2, <1>3

(* identify_ata_device() ends: the disk is registered, unless it is so     *)
(* large that it is ignored.                                               *)
LEMMA IdentifiedInv ==
  ASSUME DiskInv, ~panicked, Identified PROVE DiskInv'
  <1>1. /\ phase = "identifying" /\ pc[Main] = "identified"
        /\ pc' = [pc EXCEPT ![Main] = "out"] /\ req' = [req EXCEPT ![Main] = NoReq]
        /\ UNCHANGED <<owner, expecting_interrupt, completion_wait, hw, media, spurious,
                       table, asked, panicked>>
    BY DEF Identified, At, Goto
  <1>2. /\ owner = NULL /\ disk \in Dev /\ Capacity[disk] > 0 /\ Quiet /\ asked[Main] = Nowhere
        /\ Capacity[disk] \in Nat
    BY <1>1, DiskConstants DEF DiskInv, OneUser, DiskTypeOK, BootAlone, HardwareKnown, Found,
      Requested, Served
  <1>3. pc' \in [Thread -> Label] /\ \A u \in Thread : pc'[u] = "out"
    BY <1>1 DEF DiskInv, DiskTypeOK, BootAlone, Label
  <1>4. req' \in [Thread -> ReqType]
    <2>1. NoReq \in ReqType
      BY DEF ReqType, NoReq, Dev
    <2> QED BY <1>1, <2>1 DEF DiskInv, DiskTypeOK
  <1>5. /\ phase' \in {"identify", "scan", "up"} /\ disk' \in 1..3 /\ (phase' # "up" => disk' \in Dev)
        /\ stack' \in Seq([sector : Nat, primary : Nat, i : Nat]) /\ blocks' \in Seq(BlockType)
        /\ phase' = "scan" => Capacity[disk'] > 0
        /\ BlocksOnDisk'
    <2>1. CASE Capacity[disk] >= MaxCapacity
      <3>1. NextDisk /\ UNCHANGED <<blocks, stack>>
        BY <2>1 DEF Identified
      <3>2. phase' \in {"identify", "up"} /\ disk' \in 1..3 /\ (phase' # "up" => disk' \in Dev)
        BY <1>1, <3>1, NextDiskOK
      <3> QED BY <3>1, <3>2 DEF DiskInv, DiskTypeOK, BlocksOnDisk
    <2>2. CASE ~(Capacity[disk] >= MaxCapacity)
      <3> DEFINE blk == [dev |-> disk, start |-> 0, size |-> Capacity[disk], type |-> "raw"]
      <3>1. /\ blocks' = Append(blocks, blk) /\ stack' = <<[sector |-> 0, primary |-> 0, i |-> 0]>>
            /\ phase' = "scan" /\ disk' = disk
        BY <2>2 DEF Identified, Register
      <3>2. blk \in BlockType /\ Capacity[disk] < Word
        <4>1. Capacity[disk] < MaxCapacity /\ MaxCapacity <= Word
          BY <1>2, <2>2, DiskAssumption
        <4>2. blk \in BlockType
          BY <1>2 DEF BlockType
        <4> QED BY <1>2, <4>1, <4>2, DiskAssumption
      <3>3. blocks \in Seq(BlockType)
        BY DEF DiskInv, DiskTypeOK
      <3> HIDE DEF blk
      <3>4. /\ blocks' \in Seq(BlockType) /\ DOMAIN blocks' = DOMAIN blocks \cup {Len(blocks) + 1}
            /\ blocks'[Len(blocks) + 1] = blk /\ \A b \in DOMAIN blocks : blocks'[b] = blocks[b]
        BY <3>1, <3>2, <3>3
      <3>5. BlocksOnDisk'
        <4>1. blk.dev = disk /\ blk.start = 0 /\ blk.size = Capacity[disk] /\ blk.type = "raw"
          BY DEF blk
        <4>2. \A b \in DOMAIN blocks' : b \in DOMAIN blocks \/ blocks'[b] = blk
          BY <3>4
        <4> QED BY <1>2, <3>1, <3>2, <3>4, <4>1, <4>2 DEF DiskInv, BlocksOnDisk
      <3>6. stack' \in Seq([sector : Nat, primary : Nat, i : Nat])
        BY <3>1
      <3> QED BY <1>2, <3>1, <3>4, <3>5, <3>6 DEF DiskInv, DiskTypeOK
    <2> QED BY <2>1, <2>2
  <1>6. DiskTypeOK'
    BY <1>1, <1>3, <1>4, <1>5 DEF DiskInv, DiskTypeOK
  <1>7. OneUser' /\ BootAlone' /\ Requested' /\ MistakesOnly'
    BY <1>1, <1>2, <1>3, <1>5, DiskConstants DEF OneUser, BootAlone, Requested, MistakesOnly, Inside
  <1>8. HardwareKnown'
    BY <1>1, <1>2, <1>3 DEF HardwareKnown, Found, Quiet
  <1>9. NotAsking'
    BY <1>1, <1>2 DEF DiskInv, NotAsking, BootAlone
  <1> QED BY <1>5, <1>6, <1>7, <1>8, <1>9 DEF DiskInv

\* Activations of read_partition_table().
Activation == [sector : Nat, primary : Nat, i : Nat]

(* Return and Advance keep the stack a stack of activations.               *)
LEMMA StackOK ==
  ASSUME NEW st \in Seq(Activation), st # << >>
  PROVE  /\ Tail(st) \in Seq(Activation) /\ st[1] \in Activation
         /\ \A i \in Nat : Advance(st, i) \in Seq(Activation)
  <1>1. Tail(st) \in Seq(Activation) /\ st[1] \in Activation
    OBVIOUS
  <1>2. ASSUME NEW i \in Nat PROVE Advance(st, i) \in Seq(Activation)
    <2>1. [st[1] EXCEPT !.i = i] \in Activation
      BY <1>1 DEF Activation
    <2>2. <<[st[1] EXCEPT !.i = i]>> \in Seq(Activation)
      BY <2>1
    <2> QED BY <1>1, <2>2 DEF Advance
  <1> QED BY <1>1, <1>2

(* read_partition_table() reads its sector, or returns.                    *)
LEMMA ReadTableInv ==
  ASSUME DiskInv, ~panicked, ReadTable PROVE DiskInv'
  <1>1. /\ phase = "scan" /\ stack # << >> /\ UNCHANGED <<table, blocks, disk>> /\ disk \in Dev
        /\ stack \in Seq(Activation) /\ \A t \in Thread : pc[t] = "out"
    BY DEF ReadTable, DiskInv, DiskTypeOK, BootAlone, Activation
  <1>2. CASE stack[1].sector >= Capacity[disk]
    <2>1. stack' = Tail(stack) /\ UNCHANGED <<ideVars, phase, asked, panicked>>
      BY <1>2 DEF ReadTable, Return
    <2>2. stack' \in Seq(Activation) /\ BlocksOnDisk'
      BY <1>1, <2>1, StackOK DEF DiskInv, BlocksOnDisk
    <2> QED BY <1>1, <2>1, <2>2, BootStep DEF DiskInv, DiskTypeOK, BootAlone, Activation
  <1>3. CASE ~(stack[1].sector >= Capacity[disk])
    <2>1. BlockCall(Main, "read", RawBlock, 0, NULL) /\ phase' = "reading" /\ UNCHANGED stack
      BY <1>3 DEF ReadTable
    <2>2. RawBlock \in DOMAIN blocks
      BY <1>1 DEF RawBlock, DiskInv, BlocksOnDisk
    <2> QED BY <1>1, <2>1, <2>2, BlockCallInv, DiskConstants
  <1> QED BY <1>2, <1>3

(* The table has been read.                                                *)
LEMMA TableReadInv ==
  ASSUME DiskInv, ~panicked, TableRead PROVE DiskInv'
  <1>1. /\ phase = "reading" /\ phase' = "scan" /\ UNCHANGED <<ideVars, table, blocks, disk, asked, panicked>>
        /\ stack \in Seq(Activation) /\ stack # << >> /\ disk \in Dev
        /\ \A t \in Thread : pc[t] = "out" /\ Capacity[disk] > 0
    BY DEF TableRead, At, DiskInv, DiskTypeOK, BootAlone, Activation
  <1>2. stack' \in Seq(Activation)
    BY <1>1, StackOK DEF TableRead, Return
  <1>3. BlocksOnDisk'
    BY <1>1 DEF DiskInv, BlocksOnDisk
  <1> QED BY <1>1, <1>2, <1>3, BootStep, DiskConstants DEF DiskInv, DiskTypeOK, Activation

(* A partition is registered only if all of it lies on its disk, even when *)
(* its end wraps around.                                                   *)
LEMMA FoundPartition ==
  ASSUME DiskInv, phase = "scan", UNCHANGED <<phase, disk>>, NEW type \in PartitionType,
         NEW start \in 0..(Word - 1), NEW size \in 0..(Word - 1),
         found_partition(type, start, size)
  PROVE  blocks' \in Seq(BlockType) /\ BlocksOnDisk'
  <1> DEFINE cap == Capacity[disk]
  <1>1. blocks \in Seq(BlockType) /\ disk \in Dev /\ cap \in Nat
    BY DiskConstants DEF DiskInv, DiskTypeOK
  <1>2. CASE UNCHANGED blocks
    BY <1>1, <1>2 DEF DiskInv, BlocksOnDisk
  <1>3. CASE ~(UNCHANGED blocks)
    <2> DEFINE blk == [dev |-> disk, start |-> start, size |-> size, type |-> type]
    <2>1. /\ ~(start >= cap) /\ ~((start + size) % Word < start) /\ ~((start + size) % Word > cap)
          /\ blocks' = Append(blocks, blk)
      BY <1>3 DEF found_partition, Register
    <2>2. start + size <= cap
      <3>1. CASE start + size < Word
        BY <1>1, <2>1, <3>1, WordWraps, DiskConstants, SMTT(60)
      <3>2. CASE Word <= start + size
        <4>1. (start + size) % Word = start + size - Word
          BY <3>2, WordWraps, DiskConstants
        <4> QED BY <2>1, <4>1, DiskConstants
      <3> QED BY <3>1, <3>2, DiskConstants
    <2>3. cap < Word
      <3>1. PICK b \in DOMAIN blocks : blocks[b].dev = disk
        BY DEF DiskInv, BlocksOnDisk
      <3> QED BY <3>1 DEF DiskInv, BlocksOnDisk
    <2>4. blk \in BlockType
      BY <1>1 DEF BlockType
    <2>5. blk.dev = disk /\ blk.start = start /\ blk.size = size /\ blk.type # "raw"
      BY DEF PartitionType
    <2> HIDE DEF blk
    <2>6. /\ blocks' \in Seq(BlockType) /\ DOMAIN blocks' = DOMAIN blocks \cup {Len(blocks) + 1}
          /\ blocks'[Len(blocks) + 1] = blk /\ \A b \in DOMAIN blocks : blocks'[b] = blocks[b]
      BY <1>1, <2>1, <2>4
    <2>7. \A b \in DOMAIN blocks' : b \in DOMAIN blocks \/ blocks'[b] = blk
      BY <2>6
    <2> QED BY <2>2, <2>3, <2>5, <2>6, <2>7 DEF DiskInv, BlocksOnDisk
  <1> QED BY <1>2, <1>3

(* A round of the loop of read_partition_table().                          *)
LEMMA ParseEntryInv ==
  ASSUME DiskInv, ~panicked, ParseEntry PROVE DiskInv'
  <1> DEFINE top == stack[1]
             tab == table[disk][0]
  <1>1. /\ phase = "scan" /\ stack # << >> /\ UNCHANGED <<ideVars, table, phase, disk, asked, panicked>>
        /\ top.i > 0
    BY DEF ParseEntry
  <1>2. /\ stack \in Seq(Activation) /\ disk \in Dev /\ tab \in Seq(TableEntry)
        /\ \A t \in Thread : pc[t] = "out" /\ Capacity[disk] > 0
    BY <1>1, DiskAssumption DEF DiskInv, DiskTypeOK, BootAlone, Activation
  <1>3. top \in Activation /\ top.i \in Nat /\ top.sector \in Nat /\ top.primary \in Nat
    BY <1>1, <1>2, StackOK DEF Activation
  <1>4. ASSUME top.i <= Len(tab) PROVE tab[top.i] \in TableEntry
    BY <1>1, <1>2, <1>3, <1>4
  <1>5. Advance(stack, top.i + 1) \in Seq(Activation)
    <2>1. top.i + 1 \in Nat
      BY <1>3
    <2> QED BY <1>1, <1>2, <2>1, StackOK
  <1>6. stack' \in Seq(Activation) /\ blocks' \in Seq(BlockType) /\ BlocksOnDisk'
    <2>0. UNCHANGED blocks => blocks' \in Seq(BlockType) /\ BlocksOnDisk'
      BY <1>1 DEF DiskInv, DiskTypeOK, BlocksOnDisk
    <2>1. CASE stack' = Tail(stack) /\ UNCHANGED blocks
      BY <1>1, <1>2, <2>0, <2>1, StackOK
    <2>2. CASE stack' = Advance(stack, top.i + 1) /\ UNCHANGED blocks
      BY <1>5, <2>0, <2>2
    <2>3. ASSUME top.i <= Len(tab), tab[top.i].size > 0,
                 tab[top.i].type \notin {"empty", "extended"},
                 found_partition(tab[top.i].type, (tab[top.i].offset + top.sector) % Word, tab[top.i].size),
                 stack' = Advance(stack, top.i + 1)
          PROVE  stack' \in Seq(Activation) /\ blocks' \in Seq(BlockType) /\ BlocksOnDisk'
      <3>1. PICK e \in TableEntry : e = tab[top.i]
        BY <1>4, <2>3
      <3>2. /\ e.type \in PartitionType /\ e.size \in 0..(Word - 1) /\ e.offset \in Nat
        BY DEF TableEntry
      <3>3. (e.offset + top.sector) % Word \in 0..(Word - 1)
        BY <1>3, <3>2, WordWraps
      <3> QED BY <1>1, <1>5, <2>3, <3>1, <3>2, <3>3, FoundPartition
    <2>4. ASSUME top.i <= Len(tab), UNCHANGED blocks,
                 stack' = LET first == IF top.sector = 0 THEN tab[top.i].offset ELSE top.primary
                              sec   == IF top.sector = 0 THEN tab[top.i].offset
                                       ELSE (tab[top.i].offset + top.primary) % Word
                          IN  <<[sector |-> sec, primary |-> first, i |-> 0]>> \o Advance(stack, top.i + 1)
          PROVE  stack' \in Seq(Activation) /\ blocks' \in Seq(BlockType) /\ BlocksOnDisk'
      <3> DEFINE first == IF top.sector = 0 THEN tab[top.i].offset ELSE top.primary
                 sec   == IF top.sector = 0 THEN tab[top.i].offset
                          ELSE (tab[top.i].offset + top.primary) % Word
      <3>1. tab[top.i].offset \in Nat
        <4>1. PICK e \in TableEntry : e = tab[top.i]
          BY <1>4, <2>4
        <4>2. e.offset \in Nat
          BY DEF TableEntry
        <4> QED BY <4>1, <4>2
      <3>2. first \in Nat /\ sec \in Nat
        BY <1>3, <3>1, WordWraps
      <3> HIDE DEF first, sec
      <3>3. [sector |-> sec, primary |-> first, i |-> 0] \in Activation
        BY <3>2 DEF Activation
      <3>4. stack' = <<[sector |-> sec, primary |-> first, i |-> 0]>> \o Advance(stack, top.i + 1)
        BY <2>4 DEF first, sec
      <3>5. stack' \in Seq(Activation)
        BY <1>5, <3>3, <3>4
      <3> QED BY <2>0, <2>4, <3>5
    <2> QED BY <2>1, <2>2, <2>3, <2>4 DEF ParseEntry, Return
  <1>7. phase' = "scan" /\ disk' = disk /\ disk \in 1..3 /\ Capacity[disk'] > 0
    BY <1>1, <1>2, DiskConstants DEF DiskInv, DiskTypeOK
  <1> QED BY <1>1, <1>2, <1>6, <1>7, BootStep DEF Activation

LEMMA ScanDoneInv ==
  ASSUME DiskInv, ~panicked, ScanDone PROVE DiskInv'
  <1>1. /\ phase = "scan" /\ NextDisk /\ UNCHANGED <<ideVars, table, blocks, stack, asked, panicked>>
        /\ \A t \in Thread : pc[t] = "out"
    BY DEF ScanDone, DiskInv, BootAlone
  <1>2. /\ phase' \in {"identify", "up"} /\ disk' \in 1..3 /\ (phase' # "up" => disk' \in Dev)
    BY <1>1, NextDiskOK
  <1>3. BlocksOnDisk'
    BY <1>1, <1>2 DEF DiskInv, BlocksOnDisk
  <1> QED BY <1>1, <1>2, <1>3, BootStep DEF DiskInv, DiskTypeOK

-----------------------------------------------------------------------------
(* Every step, and the invariant.                                          *)

LEMMA DiskStep == DiskInv /\ [Next]_vars => DiskInv'
  <1> SUFFICES ASSUME DiskInv, [Next]_vars PROVE DiskInv'
    OBVIOUS
  <1>1. CASE UNCHANGED vars
    <2>1. UNCHANGED <<owner, expecting_interrupt, completion_wait, hw, media, pc, req, spurious, table,
                      blocks, phase, disk, stack, asked, panicked>>
      BY <1>1 DEF vars, ideVars, bootVars
    <2>2. DiskTypeOK' /\ OneUser' /\ BootAlone' /\ BlocksOnDisk' /\ MistakesOnly' /\ NotAsking'
      BY <2>1 DEF DiskInv, DiskTypeOK, OneUser, BootAlone, BlocksOnDisk, MistakesOnly, NotAsking,
        Inside, At
    <2>3. Requested'
      BY <2>1 DEF DiskInv, Requested, Served
    <2>4. HardwareKnown'
      BY <2>1 DEF DiskInv, HardwareKnown, Found, Quiet, Storing, Working, Inside
    <2> QED BY <2>2, <2>3, <2>4 DEF DiskInv
  <1>2. CASE ~panicked /\ Boot
    BY <1>2, IdentifyInv, IdentifiedInv, ReadTableInv, TableReadInv, ParseEntryInv, ScanDoneInv DEF Boot
  <1>3. ASSUME ~panicked, NEW t \in Thread, Request(t) PROVE DiskInv'
    BY <1>3, RequestInv
  <1>4. ASSUME ~panicked, NEW t \in Thread, DriverStep(t) PROVE DiskInv'
    <2>1. CASE BlockReturn(t)
      BY <1>4, <2>1, BlockReturnInv DEF DriverStep
    <2>2. CASE IdeStep(t) /\ ~At(t, "unlock") /\ UNCHANGED asked
      <3>1. ~ReleaseChannel(t) /\ UNCHANGED <<bootVars, asked, panicked>>
        BY <1>4, <2>2 DEF ReleaseChannel, DriverStep
      <3> QED BY <1>4, <2>2, <3>1, AcquireChannelInv, WaitIdleInv, CommandInv, WaitCompletionInv,
              TransferInv DEF IdeStep, SelectDeviceWait
    <2> QED BY <1>4, <2>1, <2>2 DEF DriverStep
  <1>5. CASE ~panicked /\ (Hardware(Completion) \/ Hardware(Spurious) \/ Hardware(Controller))
    BY <1>5, InterruptInv, ControllerInv
  <1> QED BY <1>1, <1>2, <1>3, <1>4, <1>5 DEF Next

(* DiskInv is an invariant: it ties every place in ide.c to the state of   *)
(* the controller.                                                         *)
THEOREM DiskInvariant == Spec => []DiskInv
  BY DiskInitInv, DiskStep, PTL DEF Spec

(* The kernel panics only for a caller's mistake: no partition reaches     *)
(* past its disk, and wait_while_busy() never takes another command's      *)
(* state for a failure, even when an interrupt without a cause has ended a *)
(* write's wait early.                                                     *)
THEOREM OnlyDeservedPanics == Spec => []PanicsAreDeserved
  <1>1. DiskInv => PanicsAreDeserved
    <2> SUFFICES ASSUME DiskInv PROVE PanicsAreDeserved
      OBVIOUS
    <2>1. ASSUME NEW t \in Thread PROVE ~TransferFails(t)
      BY DEF DiskInv, HardwareKnown, Found, Working, TransferFails, At
    <2> QED BY <2>1 DEF PanicsAreDeserved, DiskInv, MistakesOnly
  <1> QED BY <1>1, DiskInvariant, PTL

-----------------------------------------------------------------------------
(* Writes are acknowledged.                                                *)

LEMMA OneInside ==
  ASSUME DiskInv, NEW t \in Thread, NEW u \in Thread, Inside(t), Inside(u) PROVE t = u
  BY DiskConstants DEF DiskInv, OneUser

(* A step that leaves the controller, the semaphore and the threads that   *)
(* wait or transfer alone.                                                 *)
LEMMA CountKept ==
  ASSUME Counted, UNCHANGED <<hw, completion_wait, spurious>>,
         \A t \in Thread : \/ pc'[t] = pc[t] /\ req'[t] = req[t]
                           \/ pc[t] \notin {"down", "busy"} /\ pc'[t] \notin {"down", "busy"}
  PROVE  Counted'
  BY DEF Counted, Awaited

(* A thread that uses the channel and does not wait: nothing is awaited.   *)
LEMMA NothingAwaited ==
  ASSUME DiskInv, Counted, spurious = 0, NEW t \in Thread, Inside(t), pc[t] # "down"
  PROVE  completion_wait = 0 /\ ~hw.intrq /\ hw.cmd # "store"
  <1>1. \A u \in Thread : pc[u] # "down"
    BY OneInside DEF Inside
  <1> QED BY <1>1 DEF Counted, Awaited

(* The driver's steps.                                                     *)
LEMMA DriverCounted ==
  ASSUME DiskInv, DiskInv', Counted, NEW t \in Thread, IdeStep(t)
  PROVE  Counted'
  <1>0. /\ pc \in [Thread -> Label] /\ hw \in HwType /\ req \in [Thread -> ReqType]
        /\ completion_wait \in Nat
    BY DEF DiskInv, DiskTypeOK
  <1>1. CASE AcquireChannel(t) \/ ReleaseChannel(t)
    <2>1. UNCHANGED <<hw, completion_wait, spurious>>
      BY <1>1 DEF AcquireChannel, ReleaseChannel
    <2>2. \A u \in Thread : \/ pc'[u] = pc[u] /\ req'[u] = req[u]
                            \/ pc[u] \notin {"down", "busy"} /\ pc'[u] \notin {"down", "busy"}
      BY <1>0, <1>1 DEF AcquireChannel, ReleaseChannel, At, Goto
    <2> QED BY <2>1, <2>2, CountKept
  <1>2. CASE SelectDeviceWait(t) \/ select_sector(t) \/ issue_pio_command(t) \/ WaitCompletion(t) \/ Transfer(t)
    <2>0. spurious' = spurious /\ Inside(t) /\ Found(t) /\ Served(t)
      BY <1>2 DEF SelectDeviceWait, wait_until_idle, select_device, select_sector, issue_pio_command,
        WaitCompletion, Transfer, At, Inside, DiskInv, HardwareKnown, Requested
    <2>1. \A u \in Thread : u # t => ~Inside(u) /\ pc'[u] = pc[u]
      BY <1>0, <1>2, <2>0, OneInside DEF SelectDeviceWait, wait_until_idle, select_device, select_sector,
        issue_pio_command, WaitCompletion, Transfer, Goto
    <2>2. \A u \in Thread : u # t => pc'[u] \notin {"down", "busy"}
      BY <2>1 DEF Inside
    <2> SUFFICES ASSUME spurious = 0 PROVE Counted'
      BY <2>0 DEF Counted
    <2>3. CASE SelectDeviceWait(t) \/ select_sector(t)
      <3>1. completion_wait' = completion_wait /\ (hw'.intrq = hw.intrq \/ ~hw'.intrq) /\ hw'.cmd = hw.cmd
        BY <1>0, <2>3 DEF SelectDeviceWait, wait_until_idle, select_device, select_sector, HwType
      <3>2. pc[t] # "down" /\ pc'[t] \notin {"down", "busy"}
        BY <1>0, <2>3 DEF SelectDeviceWait, wait_until_idle, select_device, select_sector, Goto, At
      <3>3. completion_wait = 0 /\ ~hw.intrq /\ hw.cmd # "store"
        BY <2>0, <3>2, NothingAwaited
      <3>4. \A u \in Thread : pc'[u] \notin {"down", "busy"}
        BY <2>2, <3>2
      <3> QED BY <3>1, <3>3, <3>4 DEF Counted, Awaited
    <2>4. CASE issue_pio_command(t)
      <3>1. /\ completion_wait' = completion_wait /\ hw'.intrq = hw.intrq /\ hw'.cmd = req[t].op
            /\ hw'.drq = hw.drq /\ req' = req /\ pc[t] = "command"
            /\ pc'[t] = IF req[t].op = "write" THEN "busy" ELSE "down"
        BY <1>0, <2>4 DEF issue_pio_command, HwType, At, Goto
      <3>2. completion_wait = 0 /\ ~hw.intrq /\ ~hw.drq
        BY <2>0, <3>1, NothingAwaited DEF Found, Quiet
      <3>3. req[t].op \in {"read", "write", "identify"}
        BY <2>0 DEF Served
      <3>4. ~Awaited'
        BY <2>2, <3>1, <3>2, <3>3 DEF Awaited
      <3> QED BY <2>2, <3>1, <3>2, <3>3, <3>4 DEF Counted
    <2>5. CASE WaitCompletion(t)
      <3>1. /\ completion_wait > 0 /\ completion_wait' = completion_wait - 1 /\ hw' = hw /\ req' = req
            /\ pc[t] = "down" /\ pc'[t] = IF req[t].op = "write" THEN "unlock" ELSE "busy"
        BY <1>0, <2>5 DEF WaitCompletion, At, Goto
      <3>2. Awaited
        BY <1>0, <3>1 DEF Counted
      <3>3. completion_wait' = 0 /\ ~hw'.intrq
        BY <1>0, <3>1, <3>2 DEF Counted
      <3>4. hw.cmd = "none" \/ (hw.cmd = req[t].op /\ hw.drq)
        BY <2>1, <3>2 DEF Awaited, Inside
      <3>5. hw.cmd # "store" /\ (req[t].op # "write" => hw.drq)
        BY <2>0, <3>1, <3>4 DEF Served, Found, Working
      <3>6. \A u \in Thread : pc'[u] # "down"
        BY <2>2, <3>1
      <3> QED BY <2>2, <3>1, <3>3, <3>5, <3>6 DEF Counted, Awaited
    <2>6. CASE Transfer(t)
      <3>1. pc[t] = "busy" /\ completion_wait' = completion_wait /\ hw'.intrq = hw.intrq
        BY <1>0, <2>6 DEF Transfer, At, HwType
      <3>2. completion_wait = 0 /\ ~hw.intrq
        BY <2>0, <3>1, NothingAwaited
      <3>3. CASE req[t].op = "write"
        <4>1. hw'.cmd = "store" /\ pc'[t] = "down" /\ req' = req
          BY <1>0, <2>6, <3>3 DEF Transfer, Goto, HwType
        <4>2. ~Awaited'
          BY <2>2, <3>3, <4>1 DEF Awaited
        <4> QED BY <2>2, <3>1, <3>2, <4>1, <4>2 DEF Counted
      <3>4. CASE req[t].op # "write"
        <4>1. hw'.cmd = "none" /\ pc'[t] \in {"identified", "unlock"}
          BY <1>0, <2>6, <3>4 DEF Transfer, Goto, HwType
        <4>2. \A u \in Thread : pc'[u] \notin {"down", "busy"}
          BY <2>2, <4>1
        <4> QED BY <3>1, <3>2, <4>1, <4>2 DEF Counted, Awaited
      <3> QED BY <3>3, <3>4
    <2> QED BY <1>2, <2>3, <2>4, <2>5, <2>6
  <1> QED BY <1>1, <1>2 DEF IdeStep

(* The controller's steps: a completion is raised as it is awaited.        *)
LEMMA ControllerCounted ==
  ASSUME DiskInv, DiskInv', Counted, Controller
  PROVE  Counted'
  <1>0. UNCHANGED <<completion_wait, pc, req, spurious>> /\ hw \in HwType /\ completion_wait \in Nat /\ hw.bsy
    BY DEF Controller, Fetch, AskData, Store, DiskInv, DiskTypeOK
  <1> SUFFICES ASSUME spurious = 0 PROVE Counted'
    BY <1>0 DEF Counted
  <1>1. CASE Store
    <2>1. hw.cmd = "store" /\ hw'.cmd = "none" /\ hw'.intrq
      BY <1>0, <1>1 DEF Store, HwType
    <2>2. PICK t \in Thread : pc[t] = "down"
      BY <2>1 DEF Counted
    <2>3. Inside(t) /\ Found(t) /\ Served(t)
      BY <2>2 DEF Inside, DiskInv, HardwareKnown, Requested
    <2>4. \A u \in Thread : pc[u] \in {"down", "busy"} => u = t
      BY <2>3, OneInside DEF Inside
    <2>5. req[t].op = "write"
      BY <2>1, <2>2, <2>3 DEF Found, Working, Served
    <2>6. ~Awaited
      BY <2>1, <2>4, <2>5 DEF Awaited
    <2>7. Awaited'
      BY <1>0, <2>1, <2>2 DEF Awaited
    <2> QED BY <1>0, <2>1, <2>2, <2>4, <2>6, <2>7 DEF Counted
  <1>2. CASE Fetch \/ AskData
    <2>1. hw.cmd \in {"read", "write", "identify"} /\ hw'.drq /\ hw'.cmd = hw.cmd
      BY <1>0, <1>2 DEF Fetch, AskData, HwType
    <2>2. PICK t \in Thread : Inside(t) /\ Working(t) /\ Served(t)
                              /\ (pc[t] = "busy" \/ (pc[t] = "down" /\ req[t].op # "write"))
      BY <1>0, <2>1 DEF DiskInv, HardwareKnown, Found, Inside, Quiet, Storing, Requested,
        DiskTypeOK, Label
    <2>3. \A u \in Thread : pc[u] \in {"down", "busy"} => u = t
      BY <2>2, OneInside DEF Inside
    <2>4. ~hw.drq /\ hw.cmd = req[t].op
      BY <1>0, <2>2 DEF Working
    <2>5. CASE req[t].op = "write"
      <3>1. AskData /\ hw'.intrq = hw.intrq /\ pc[t] = "busy"
        BY <1>0, <1>2, <2>2, <2>4, <2>5 DEF Fetch, AskData, HwType
      <3>2. \A u \in Thread : pc'[u] # "down"
        BY <1>0, <2>3, <3>1
      <3>3. completion_wait = 0 /\ ~hw.intrq
        BY <2>2, <3>1, NothingAwaited
      <3> QED BY <1>0, <2>1, <3>1, <3>2, <3>3 DEF Counted, Awaited
    <2>6. CASE req[t].op # "write"
      <3>1. hw'.intrq
        BY <1>0, <1>2, <2>4, <2>6 DEF Fetch, AskData, HwType
      <3>2. pc[t] = "down"
        BY <2>2, <2>4, <2>6 DEF Counted
      <3>3. ~Awaited
        BY <2>1, <2>3, <2>4 DEF Awaited
      <3>4. Awaited'
        BY <1>0, <2>1, <2>4, <3>2 DEF Awaited
      <3> QED BY <1>0, <2>1, <3>1, <3>3, <3>4 DEF Counted
    <2> QED BY <2>5, <2>6
  <1> QED BY <1>1, <1>2 DEF Controller

LEMMA StepCounted == DiskInv /\ DiskInv' /\ Counted /\ [Next]_vars => Counted'
  <1> SUFFICES ASSUME DiskInv, DiskInv', Counted, [Next]_vars PROVE Counted'
    OBVIOUS
  <1>0. /\ pc \in [Thread -> Label] /\ hw \in HwType /\ req \in [Thread -> ReqType]
        /\ completion_wait \in Nat /\ spurious \in Nat /\ Main \in Thread
    BY DiskConstants DEF DiskInv, DiskTypeOK
  <1>1. ASSUME NEW t \in Thread, NEW op, NEW d, NEW s, NEW v, Begin(t, op, d, s, v) PROVE Counted'
    <2>1. UNCHANGED <<hw, completion_wait, spurious>>
      BY <1>1 DEF Begin
    <2>2. \A u \in Thread : \/ pc'[u] = pc[u] /\ req'[u] = req[u]
                            \/ pc[u] \notin {"down", "busy"} /\ pc'[u] \notin {"down", "busy"}
      BY <1>0, <1>1 DEF Begin, At, Goto
    <2> QED BY <2>1, <2>2, CountKept
  <1>2. UNCHANGED ideVars => Counted'
    BY CountKept DEF ideVars
  <1>3. CASE Identified
    <2>1. UNCHANGED <<hw, completion_wait, spurious>>
      BY <1>3 DEF Identified
    <2>2. \A u \in Thread : \/ pc'[u] = pc[u] /\ req'[u] = req[u]
                            \/ pc[u] \notin {"down", "busy"} /\ pc'[u] \notin {"down", "busy"}
      BY <1>0, <1>3 DEF Identified, At, Goto
    <2> QED BY <2>1, <2>2, CountKept
  <1>4. CASE Identify \/ ReadTable \/ TableRead \/ ParseEntry \/ ScanDone
    BY <1>0, <1>1, <1>2, <1>4 DEF Identify, ReadTable, TableRead, ParseEntry, ScanDone, BlockCall
  <1>5. ASSUME NEW t \in Thread, Request(t) \/ DriverStep(t) PROVE Counted'
    BY <1>1, <1>2, <1>5, DriverCounted DEF Request, DriverStep, BlockCall, BlockReturn, IdeStep
  <1>6. CASE Hardware(Completion)
    <2>1. /\ hw.intrq /\ ~hw'.intrq /\ completion_wait' = completion_wait + 1
          /\ hw'.cmd = hw.cmd /\ hw'.drq = hw.drq /\ UNCHANGED <<pc, req, spurious>>
      BY <1>0, <1>6 DEF Hardware, Completion, interrupt_handler, HwType
    <2>2. Awaited' <=> Awaited
      BY <2>1 DEF Awaited
    <2> QED BY <1>0, <2>1, <2>2 DEF Counted
  <1>7. CASE Hardware(Spurious)
    BY <1>0, <1>7 DEF Hardware, Spurious, Counted
  <1>8. CASE Hardware(Controller)
    BY <1>8, ControllerCounted DEF Hardware
  <1>9. CASE UNCHANGED vars
    BY <1>2, <1>9 DEF vars
  <1> QED BY <1>3, <1>4, <1>5, <1>6, <1>7, <1>8, <1>9 DEF Next, Boot

(* block_write() returns after the device has stored the data, as long as  *)
(* every interrupt has a cause: a completion never counts for another      *)
(* command than its own.                                                   *)
THEOREM WritesAreAcknowledged == Spec => WritesAcknowledged
  <1>1. Init => Counted
    BY DEF Init, IdeInit, Counted, Awaited
  <1>2. DiskInv /\ Counted /\ [Next]_vars =>
          [\A t \in Thread : At(t, "unlock") /\ req[t].op = "write" /\ pc'[t] = "out"
                             => hw.cmd # "store" \/ spurious > 0]_vars
    <2> SUFFICES ASSUME DiskInv, Counted, NEW t \in Thread, At(t, "unlock")
                 PROVE  hw.cmd # "store" \/ spurious > 0
      OBVIOUS
    <2>1. spurious = 0 => hw.cmd # "store"
      BY NothingAwaited DEF At, Inside
    <2> QED BY <2>1 DEF DiskInv, DiskTypeOK
  <1> QED BY <1>1, <1>2, StepCounted, DiskInvariant, PTL DEF Spec, WritesAcknowledged

-----------------------------------------------------------------------------
(* Reads and writes of sectors are atomic.                                 *)

\* The call a thread is in, in terms of its request.
Done(t) == pc[t] = "unlock" \/ (req[t].op = "write" /\ pc[t] = "down")
InCall(t) == pc[t] # "out" /\ req[t].op # "identify"
Record(t) == [op |-> req[t].op, at |-> <<req[t].dev, req[t].sec>>,
              data |-> IF req[t].data = NULL THEN Blank ELSE req[t].data, done |-> Done(t)]

(* The refinement mapping, in these terms.                                 *)
LEMMA CallIs ==
  DiskInv => \A u \in Thread : CallOf(u) = IF InCall(u) THEN Record(u) ELSE NULL
  <1> SUFFICES ASSUME DiskInv, NEW t \in Thread
               PROVE  CallOf(t) = IF InCall(t) THEN Record(t) ELSE NULL
    OBVIOUS
  <1>1. CASE InCall(t)
    <2>1. Served(t) /\ req[t].op # "identify" /\ pc[t] # "out"
      BY <1>1 DEF DiskInv, Requested, InCall
    <2>2. /\ asked[t][1] \in DOMAIN blocks /\ req[t].dev = blocks[asked[t][1]].dev
          /\ req[t].sec = blocks[asked[t][1]].start + asked[t][2]
      BY <2>1 DEF Served
    <2>3. asked[t] # Nowhere
      BY <2>2 DEF Nowhere, DiskInv, DiskTypeOK
    <2> QED BY <1>1, <2>1, <2>2, <2>3 DEF CallOf, Record, Done, At
  <1>2. CASE ~InCall(t)
    <2>1. asked[t] = Nowhere \/ pc[t] = "out"
      BY <1>2 DEF InCall, DiskInv, Requested, Served
    <2> QED BY <1>2, <2>1 DEF CallOf, At
  <1> QED BY <1>1, <1>2

\* The same after a step.
LEMMA CallIsNext ==
  (DiskInv => \A u \in Thread : CallOf(u) = IF InCall(u) THEN Record(u) ELSE NULL)'
  BY CallIs, PTL

(* A thread that is in a call is not in NULL, the absence of one.          *)
LEMMA RecordIsCall ==
  ASSUME DiskInv, NEW t \in Thread, InCall(t)
  PROVE  Record(t) \in S!Calls /\ Record(t) # NULL
  <1>1. Served(t) /\ req[t].op \in {"read", "write"} /\ req[t] \in ReqType
    BY DEF InCall, DiskInv, DiskTypeOK, Requested, Served
  <1>2. (IF req[t].data = NULL THEN Blank ELSE req[t].data) \in Data
    BY <1>1, DiskConstants DEF ReqType
  <1>3. Done(t) \in BOOLEAN
    BY DEF Done
  <1>4. Record(t) \in S!Calls
    BY <1>1, <1>2, <1>3 DEF Record, S!Calls, Served
  <1>5. NULL \notin S!Calls
    BY DiskAssumption DEF S!Calls
  <1> QED BY <1>4, <1>5

(* A step that leaves the medium and what is on its way to it alone.       *)
LEMMA StoreKept ==
  ASSUME UNCHANGED media, hw'.cmd = "store" <=> hw.cmd = "store",
         hw.cmd = "store" => hw'.dev = hw.dev /\ hw'.sec = hw.sec /\ hw'.buf = hw.buf
  PROVE  StoreNow' = StoreNow
  BY DEF StoreNow

\* The abstract step of a concrete one.
StoreStep == [S!StoreNext]_<<StoreNow, [t \in Thread |-> CallOf(t)]>>

(* A step in which no thread's call begins, takes effect or returns.       *)
LEMMA NothingHappens ==
  ASSUME DiskInv, DiskInv', StoreNow' = StoreNow,
         \A t \in Thread : \/ ~InCall(t) /\ ~InCall(t)'
                           \/ /\ InCall(t) /\ InCall(t)' /\ req'[t] = req[t]
                              /\ Done(t)' <=> Done(t)
  PROVE  StoreStep
  <1>1. \A t \in Thread : CallOf(t) = IF InCall(t) THEN Record(t) ELSE NULL
    BY CallIs
  <1>2. \A t \in Thread : CallOf(t)' = IF InCall(t)' THEN Record(t)' ELSE NULL
    BY CallIsNext
  <1>3. \A t \in Thread : CallOf(t)' = CallOf(t)
    <2> SUFFICES ASSUME NEW t \in Thread PROVE CallOf(t)' = CallOf(t)
      OBVIOUS
    <2>1. CASE ~InCall(t) /\ ~InCall(t)'
      BY <1>1, <1>2, <2>1
    <2>2. CASE InCall(t) /\ InCall(t)' /\ req'[t] = req[t] /\ (Done(t)' <=> Done(t))
      <3>1. Done(t)' = Done(t)
        BY <2>2 DEF Done
      <3>2. Record(t)' = Record(t)
        BY <2>2, <3>1 DEF Record
      <3> QED BY <1>1, <1>2, <2>2, <3>2
    <2> QED BY <2>1, <2>2
  <1>4. [t \in Thread |-> CallOf(t)]' = [t \in Thread |-> CallOf(t)]
    BY <1>3
  <1> QED BY <1>4 DEF StoreStep

(* A step in which one thread's call changes.                              *)
LEMMA OneCall ==
  ASSUME DiskInv, DiskInv', NEW t \in Thread,
         \A u \in Thread : u # t => pc'[u] = pc[u] /\ req'[u] = req[u]
  PROVE  /\ [u \in Thread |-> CallOf(u)]' =
              [[u \in Thread |-> CallOf(u)] EXCEPT ![t] = IF InCall(t)' THEN Record(t)' ELSE NULL]
         /\ CallOf(t) = IF InCall(t) THEN Record(t) ELSE NULL
  <1>1. \A u \in Thread : CallOf(u) = IF InCall(u) THEN Record(u) ELSE NULL
    BY CallIs
  <1>2. \A u \in Thread : CallOf(u)' = IF InCall(u)' THEN Record(u)' ELSE NULL
    BY CallIsNext
  <1>3. \A u \in Thread : u # t => CallOf(u)' = CallOf(u)
    <2> SUFFICES ASSUME NEW u \in Thread, u # t PROVE CallOf(u)' = CallOf(u)
      OBVIOUS
    <2>1. (InCall(u)' <=> InCall(u)) /\ Record(u)' = Record(u)
      BY DEF InCall, Record, Done
    <2> QED BY <1>1, <1>2, <2>1
  <1> QED BY <1>1, <1>2, <1>3

(* block_read() and block_write() begin.                                   *)
LEMMA BeginRefines ==
  ASSUME DiskInv, DiskInv', NEW t \in Thread, NEW op \in {"read", "write"},
         NEW d, NEW s, NEW v, Begin(t, op, d, s, v)
  PROVE  StoreStep
  <1>1. /\ pc[t] = "out" /\ UNCHANGED <<hw, media>>
        /\ req' = [req EXCEPT ![t] = [op |-> op, dev |-> d, sec |-> s, data |-> v]]
        /\ pc' = [pc EXCEPT ![t] = "lock"]
    BY DEF Begin, At, Goto
  <1>2. pc \in [Thread -> Label] /\ req \in [Thread -> ReqType]
    BY DEF DiskInv, DiskTypeOK
  <1>3. /\ req'[t] = [op |-> op, dev |-> d, sec |-> s, data |-> v] /\ pc'[t] = "lock"
        /\ \A u \in Thread : u # t => pc'[u] = pc[u] /\ req'[u] = req[u]
    BY <1>1, <1>2
  <1>4. ~InCall(t) /\ InCall(t)' /\ ~Done(t)'
    BY <1>1, <1>3 DEF InCall, Done
  <1>5. StoreNow' = StoreNow
    BY <1>1, StoreKept
  <1>6. Record(t)' \in S!Calls /\ ~Record(t)'.done
    <2>1. /\ Served(t)' /\ pc'[t] # "out"
      BY <1>3 DEF DiskInv, Requested
    <2>2. /\ <<req'[t].dev, req'[t].sec>> \in Address /\ req'[t].op \in {"read", "write"}
          /\ (IF req'[t].data = NULL THEN Blank ELSE req'[t].data) \in Data
      BY <1>3, <2>1, DiskConstants DEF Served
    <2>3. Done(t)' = FALSE
      BY <1>4
    <2> QED BY <2>2, <2>3 DEF Record, S!Calls
  <1>7. /\ [u \in Thread |-> CallOf(u)]' = [[u \in Thread |-> CallOf(u)] EXCEPT ![t] = Record(t)']
        /\ CallOf(t) = NULL
    BY <1>3, <1>4, OneCall
  <1>8. S!Call(t)
    BY <1>5, <1>6, <1>7 DEF S!Call
  <1> QED BY <1>8 DEF StoreStep, S!StoreNext

\* A call that takes effect: with its data, or with new data.
LEMMA TakesEffect ==
  ASSUME NEW r \in S!Calls, NEW q \in S!Calls, q.op = r.op, q.at = r.at, q.done = TRUE
  PROVE  /\ q.data = r.data => [r EXCEPT !.done = TRUE] = q
         /\ [r EXCEPT !.done = TRUE, !.data = q.data] = q
  <1>1. ASSUME q.data = r.data PROVE [r EXCEPT !.done = TRUE] = q
    BY <1>1 DEF S!Calls
  <1>2. [r EXCEPT !.done = TRUE, !.data = q.data] = q
    BY DEF S!Calls
  <1> QED BY <1>1, <1>2

LEMMA RecordsAreCalls == DiskInv => \A u \in Thread : InCall(u) => Record(u) \in S!Calls
  BY RecordIsCall

LEMMA RecordsAreCallsNext ==
  (DiskInv => \A u \in Thread : InCall(u) => Record(u) \in S!Calls)'
  BY RecordsAreCalls, PTL

LEMMA RecordIsCallNext ==
  ASSUME DiskInv', NEW t \in Thread, InCall(t)'
  PROVE  Record(t)' \in S!Calls
  BY RecordsAreCallsNext DEF S!Calls, Address

(* The driver's steps: a write takes effect when its data are handed to    *)
(* the controller, a read when it fetches what the controller has read.    *)
LEMMA DriverRefines ==
  ASSUME DiskInv, DiskInv', NEW t \in Thread, IdeStep(t)
  PROVE  StoreStep
  <1>0. /\ pc \in [Thread -> Label] /\ hw \in HwType /\ req \in [Thread -> ReqType]
        /\ media \in [Address -> Data]
    BY DEF DiskInv, DiskTypeOK
  <1>1. /\ \A u \in Thread : u # t => pc'[u] = pc[u] /\ req'[u] = req[u]
        /\ pc[t] # "out" /\ Served(t) /\ Found(t)
    BY <1>0 DEF IdeStep, AcquireChannel, SelectDeviceWait, wait_until_idle, select_device,
      select_sector, issue_pio_command, WaitCompletion, Transfer, ReleaseChannel, Goto, At,
      DiskInv, Requested, HardwareKnown
  <1>2. CASE AcquireChannel(t) \/ SelectDeviceWait(t) \/ select_sector(t) \/ issue_pio_command(t)
             \/ WaitCompletion(t)
    <2>1. UNCHANGED <<req, media>> /\ pc'[t] # "out"
      BY <1>0, <1>2 DEF AcquireChannel, SelectDeviceWait, wait_until_idle, select_device,
        select_sector, issue_pio_command, WaitCompletion, Goto
    <2>2. Done(t)' <=> Done(t)
      BY <1>0, <1>2, <2>1 DEF AcquireChannel, SelectDeviceWait, wait_until_idle, select_device,
        select_sector, issue_pio_command, WaitCompletion, Goto, At, Done
    <2>3. StoreNow' = StoreNow
      <3>1. CASE AcquireChannel(t) \/ WaitCompletion(t)
        BY <2>1, <3>1, StoreKept DEF AcquireChannel, WaitCompletion
      <3>2. CASE wait_until_idle(t, "idle_before", "select") \/ wait_until_idle(t, "idle_after", "program")
        <4>1. hw'.cmd = hw.cmd /\ hw'.dev = hw.dev /\ hw'.sec = hw.sec /\ hw'.buf = hw.buf
          BY <1>0, <3>2 DEF wait_until_idle, HwType
        <4> QED BY <2>1, <4>1, StoreKept
      <3>3. CASE select_device(t) \/ select_sector(t)
        <4>1. hw.cmd = "none" /\ hw'.cmd = "none"
          BY <1>0, <1>1, <3>3 DEF select_device, select_sector, HwType, Found, Quiet, At
        <4> QED BY <2>1, <4>1, StoreKept
      <3>4. CASE issue_pio_command(t)
        <4>1. hw.cmd = "none" /\ hw'.cmd = req[t].op /\ req[t].op # "store"
          BY <1>0, <1>1, <3>4 DEF issue_pio_command, HwType, Found, Quiet, At, Served
        <4> QED BY <2>1, <4>1, StoreKept
      <3> QED BY <1>2, <3>1, <3>2, <3>3, <3>4 DEF SelectDeviceWait
    <2>4. \A u \in Thread : \/ ~InCall(u) /\ ~InCall(u)'
                            \/ /\ InCall(u) /\ InCall(u)' /\ req'[u] = req[u]
                               /\ Done(u)' <=> Done(u)
      <3> SUFFICES ASSUME NEW u \in Thread
                   PROVE  \/ ~InCall(u) /\ ~InCall(u)'
                          \/ /\ InCall(u) /\ InCall(u)' /\ req'[u] = req[u]
                             /\ Done(u)' <=> Done(u)
        OBVIOUS
      <3>1. CASE u = t
        BY <1>1, <2>1, <2>2, <3>1 DEF InCall
      <3>2. CASE u # t
        BY <1>1, <2>1, <3>2 DEF InCall, Done
      <3> QED BY <3>1, <3>2
    <2> QED BY <2>3, <2>4, NothingHappens
  <1>3. CASE Transfer(t)
    <2>0. /\ pc[t] = "busy" /\ ~hw.bsy /\ hw.drq /\ UNCHANGED media /\ Working(t) /\ ~Done(t)
      BY <1>1, <1>3 DEF Transfer, At, Found, Done
    <2>1. <<hw.dev, hw.sec>> = <<req[t].dev, req[t].sec>> /\ <<hw.dev, hw.sec>> \in Address
      BY <1>1, <2>0 DEF Working, Served
    <2>2. hw.cmd # "store" /\ StoreNow = media
      BY <1>1, <2>0 DEF Working, Served, StoreNow
    <2>3. CASE req[t].op = "write"
      <3>1. /\ hw'.cmd = "store" /\ hw'.buf = req[t].data /\ hw'.dev = hw.dev /\ hw'.sec = hw.sec
            /\ req' = req /\ pc'[t] = "down"
        BY <1>0, <1>3, <2>3, ZenonT(60) DEF Transfer, Goto, HwType
      <3>2. StoreNow' = [media EXCEPT ![<<hw.dev, hw.sec>>] = req[t].data]
        BY <2>0, <3>1 DEF StoreNow
      <3>3. /\ InCall(t) /\ InCall(t)' /\ Done(t)' /\ req[t].data \in Data
        BY <1>1, <2>0, <2>3, <3>1 DEF InCall, Done, Served
      <3>4. Record(t) = [op |-> "write", at |-> <<hw.dev, hw.sec>>, data |-> req[t].data, done |-> FALSE]
        <4>1. Done(t) = FALSE
          BY <2>0 DEF Done
        <4> QED BY <2>1, <2>3, <3>3, <4>1, DiskConstants DEF Record
      <3>5. Record(t)' = [op |-> "write", at |-> <<hw.dev, hw.sec>>, data |-> req[t].data, done |-> TRUE]
        <4>1. Done(t)' = TRUE
          BY <3>3 DEF Done
        <4> QED BY <2>1, <2>3, <3>1, <3>3, <4>1, DiskConstants DEF Record
      <3>6. /\ [u \in Thread |-> CallOf(u)]' = [[u \in Thread |-> CallOf(u)] EXCEPT ![t] = Record(t)']
            /\ CallOf(t) = Record(t)
        BY <1>1, <3>3, OneCall
      <3>7. Record(t) # NULL
        BY <3>3, RecordIsCall
      <3>8. S!Write(t)
        <4> DEFINE c == [u \in Thread |-> CallOf(u)]
        <4>1. c[t] = Record(t)
          BY <3>6
        <4>2. c[t] # NULL /\ ~c[t].done /\ c[t].op = "write" /\ c[t].at = <<hw.dev, hw.sec>>
              /\ c[t].data = req[t].data
          BY <3>4, <3>7, <4>1
        <4>3. [c[t] EXCEPT !.done = TRUE] = Record(t)'
          <5>1. Record(t) \in S!Calls /\ Record(t)' \in S!Calls
            BY <3>3, RecordIsCall, RecordIsCallNext
          <5>2. /\ Record(t)'.op = Record(t).op /\ Record(t)'.at = Record(t).at
                /\ Record(t)'.data = Record(t).data /\ Record(t)'.done = TRUE
            BY <3>4, <3>5
          <5>3. [Record(t) EXCEPT !.done = TRUE] = Record(t)'
            BY <5>1, <5>2, TakesEffect
          <5> QED BY <4>1, <5>3
        <4>4. c' = [c EXCEPT ![t].done = TRUE]
          BY <3>6, <4>3
        <4>5. StoreNow' = [StoreNow EXCEPT ![c[t].at] = c[t].data]
          BY <2>2, <3>2, <4>2
        <4> QED BY <4>2, <4>4, <4>5 DEF S!Write
      <3> QED BY <3>8 DEF StoreStep, S!StoreNext
    <2>4. CASE req[t].op = "read"
      <3>1. /\ hw'.cmd = "none" /\ pc'[t] = "unlock"
            /\ req'[t] = [req[t] EXCEPT !.data = media[<<hw.dev, hw.sec>>]]
        <4>1. hw.buf = media[<<hw.dev, hw.sec>>]
          BY <2>0, <2>4 DEF Working
        <4> QED BY <1>0, <1>3, <2>4, <4>1 DEF Transfer, Goto, HwType
      <3>2. StoreNow' = StoreNow
        BY <2>0, <2>2, <3>1, StoreKept
      <3>3. req'[t].op = "read" /\ <<req'[t].dev, req'[t].sec>> = <<hw.dev, hw.sec>>
            /\ req'[t].data = media[<<hw.dev, hw.sec>>] /\ media[<<hw.dev, hw.sec>>] \in Data
        BY <1>0, <2>1, <2>4, <3>1 DEF ReqType
      <3>4. InCall(t) /\ InCall(t)' /\ Done(t)'
        BY <1>1, <2>4, <3>1, <3>3 DEF InCall, Done
      <3>5. Record(t) = [op |-> "read", at |-> <<hw.dev, hw.sec>>, data |-> Blank, done |-> FALSE]
        <4>1. Done(t) = FALSE
          BY <2>0 DEF Done
        <4>2. req[t].data = NULL
          BY <1>1, <2>0, <2>4 DEF Served
        <4> QED BY <2>1, <2>4, <4>1, <4>2 DEF Record
      <3>6. Record(t)' = [op |-> "read", at |-> <<hw.dev, hw.sec>>,
                          data |-> media[<<hw.dev, hw.sec>>], done |-> TRUE]
        <4>1. Done(t)' = TRUE
          BY <3>4 DEF Done
        <4>2. media[<<hw.dev, hw.sec>>] # NULL
          BY <3>3, DiskConstants
        <4> QED BY <3>3, <4>1, <4>2 DEF Record
      <3>7. /\ [u \in Thread |-> CallOf(u)]' = [[u \in Thread |-> CallOf(u)] EXCEPT ![t] = Record(t)']
            /\ CallOf(t) = Record(t) /\ Record(t) # NULL
        BY <1>1, <3>4, OneCall, RecordIsCall
      <3>8. S!Read(t)
        <4> DEFINE c == [u \in Thread |-> CallOf(u)]
        <4>1. c[t] = Record(t)
          BY <3>7
        <4>2. c[t] # NULL /\ ~c[t].done /\ c[t].op = "read" /\ c[t].at = <<hw.dev, hw.sec>>
          BY <3>5, <3>7, <4>1
        <4>3. [c[t] EXCEPT !.done = TRUE, !.data = StoreNow[c[t].at]] = Record(t)'
          <5>1. StoreNow[c[t].at] = media[<<hw.dev, hw.sec>>]
            BY <2>2, <4>2
          <5> HIDE DEF c
          <5>2. Record(t) \in S!Calls /\ Record(t)' \in S!Calls
            BY <3>4, RecordIsCall, RecordIsCallNext
          <5>3. [Record(t) EXCEPT !.done = TRUE, !.data = Record(t)'.data] = Record(t)'
            <6>1. /\ Record(t)'.op = Record(t).op /\ Record(t)'.at = Record(t).at
                  /\ Record(t)'.done = TRUE
              BY <3>5, <3>6
            <6> QED BY <5>2, <6>1, TakesEffect
          <5>4. Record(t)'.data = media[<<hw.dev, hw.sec>>]
            BY <3>6
          <5> HIDE DEF c
          <5> QED BY <4>1, <5>1, <5>3, <5>4
        <4>4. c' = [c EXCEPT ![t].done = TRUE, ![t].data = StoreNow[c[t].at]]
          <5>1. c' = [c EXCEPT ![t] = [c[t] EXCEPT !.done = TRUE, !.data = StoreNow[c[t].at]]]
            BY <3>7, <4>3
          <5> HIDE DEF c
          <5> QED BY <5>1
        <4> QED BY <3>2, <4>2, <4>4 DEF S!Read
      <3> QED BY <3>8 DEF StoreStep, S!StoreNext
    <2>5. CASE req[t].op = "identify"
      <3>1. /\ hw'.cmd = "none" /\ req'[t].op = "identify"
        <4>1. /\ hw' = [hw EXCEPT !.drq = FALSE, !.cmd = "none"]
              /\ req' = [req EXCEPT ![t].data = hw.buf]
          BY <1>3, <2>5 DEF Transfer
        <4>2. hw'.cmd = "none"
          BY <1>0, <4>1 DEF HwType
        <4>3. req'[t] = [req[t] EXCEPT !.data = hw.buf]
          BY <1>0, <4>1
        <4> QED BY <1>0, <2>5, <4>2, <4>3 DEF ReqType
      <3>2. StoreNow' = StoreNow
        BY <2>0, <2>2, <3>1, StoreKept
      <3>3. \A u \in Thread : \/ ~InCall(u) /\ ~InCall(u)'
                              \/ /\ InCall(u) /\ InCall(u)' /\ req'[u] = req[u]
                                 /\ Done(u)' <=> Done(u)
        BY <1>1, <2>5, <3>1 DEF InCall, Done
      <3> QED BY <3>2, <3>3, NothingHappens
    <2> QED BY <1>1, <2>3, <2>4, <2>5 DEF Served
  <1>4. CASE ReleaseChannel(t)
    <2>1. pc[t] = "unlock" /\ pc'[t] = "out" /\ UNCHANGED <<hw, media>>
      BY <1>0, <1>4 DEF ReleaseChannel, At, Goto
    <2>2. InCall(t) /\ ~InCall(t)' /\ Done(t)
      BY <1>1, <2>1 DEF InCall, Served, Done
    <2>3. StoreNow' = StoreNow
      BY <2>1, StoreKept
    <2>4. /\ [u \in Thread |-> CallOf(u)]' = [[u \in Thread |-> CallOf(u)] EXCEPT ![t] = NULL]
          /\ CallOf(t) = Record(t) /\ Record(t) # NULL
      BY <1>1, <2>2, OneCall, RecordIsCall
    <2>5. Record(t).done
      BY <2>2 DEF Record
    <2>6. S!Return(t)
      BY <2>3, <2>4, <2>5 DEF S!Return
    <2> QED BY <2>6 DEF StoreStep, S!StoreNext
  <1> QED BY <1>2, <1>3, <1>4 DEF IdeStep

(* The hardware: what the controller stores was already written.           *)
LEMMA HardwareRefines ==
  ASSUME DiskInv, DiskInv', Hardware(Completion) \/ Hardware(Spurious) \/ Hardware(Controller)
  PROVE  StoreStep
  <1>0. hw \in HwType
    BY DEF DiskInv, DiskTypeOK
  <1>1. UNCHANGED <<pc, req>>
    BY DEF Hardware, Completion, Spurious, Controller, interrupt_handler
  <1>2. StoreNow' = StoreNow
    <2>1. CASE Hardware(Completion) \/ Hardware(Spurious)
      <3>1. UNCHANGED media
        BY <2>1 DEF Hardware, Completion, Spurious, interrupt_handler
      <3>2. hw'.cmd = hw.cmd /\ hw'.dev = hw.dev /\ hw'.sec = hw.sec /\ hw'.buf = hw.buf
        BY <1>0, <2>1 DEF Hardware, Completion, Spurious, interrupt_handler, HwType
      <3> QED BY <3>1, <3>2, StoreKept
    <2>2. CASE Fetch \/ AskData
      <3>1. UNCHANGED media /\ hw.cmd # "store" /\ hw'.cmd # "store"
        BY <1>0, <2>2 DEF Fetch, AskData, HwType
      <3> QED BY <3>1, StoreKept
    <2>3. CASE Store
      <3>1. hw.cmd = "store" /\ hw'.cmd = "none" /\ media' = [media EXCEPT ![<<hw.dev, hw.sec>>] = hw.buf]
        BY <1>0, <2>3 DEF Store, HwType
      <3> QED BY <3>1 DEF StoreNow
    <2> QED BY <2>1, <2>2, <2>3 DEF Hardware, Controller
  <1>3. \A t \in Thread : \/ ~InCall(t) /\ ~InCall(t)'
                          \/ /\ InCall(t) /\ InCall(t)' /\ req'[t] = req[t]
                             /\ Done(t)' <=> Done(t)
    BY <1>1 DEF InCall, Done
  <1> QED BY <1>2, <1>3, NothingHappens

(* Every step of the system is a step of the sector store, or none.        *)
LEMMA StepRefines == DiskInv /\ DiskInv' /\ [Next]_vars => StoreStep
  <1> SUFFICES ASSUME DiskInv, DiskInv', [Next]_vars PROVE StoreStep
    OBVIOUS
  <1>0. pc \in [Thread -> Label] /\ req \in [Thread -> ReqType] /\ Main \in Thread
    BY DiskConstants DEF DiskInv, DiskTypeOK
  <1>1. ASSUME UNCHANGED ideVars PROVE StoreStep
    <2>1. UNCHANGED <<hw, media, pc, req>>
      BY <1>1 DEF ideVars
    <2>2. StoreNow' = StoreNow
      BY <2>1, StoreKept
    <2> QED BY <2>1, <2>2, NothingHappens DEF InCall, Done
  <1>2. ASSUME UNCHANGED <<hw, media>>, pc' = [pc EXCEPT ![Main] = pc'[Main]],
               req' = [req EXCEPT ![Main] = req'[Main]], ~InCall(Main), ~InCall(Main)'
        PROVE  StoreStep
    <2>1. StoreNow' = StoreNow
      BY <1>2, StoreKept
    <2>2. \A t \in Thread : \/ ~InCall(t) /\ ~InCall(t)'
                            \/ /\ InCall(t) /\ InCall(t)' /\ req'[t] = req[t]
                               /\ Done(t)' <=> Done(t)
      <3> SUFFICES ASSUME NEW t \in Thread, t # Main
                   PROVE  pc'[t] = pc[t] /\ req'[t] = req[t]
        BY <1>2 DEF InCall, Done
      <3> QED BY <1>0, <1>2
    <2> QED BY <2>1, <2>2, NothingHappens
  <1>3. CASE Identify
    <2>1. CASE UNCHANGED ideVars
      BY <1>1, <2>1
    <2>2. CASE Begin(Main, "identify", disk, 0, NULL)
      BY <1>0, <1>2, <2>2 DEF Begin, At, Goto, InCall
    <2> QED BY <1>3, <2>1, <2>2 DEF Identify
  <1>4. CASE Identified
    <2>1. req[Main].op = "identify"
      BY <1>0, <1>4 DEF Identified, At, DiskInv, Requested, Served
    <2> QED BY <1>0, <1>2, <1>4, <2>1 DEF Identified, At, Goto, InCall
  <1>5. CASE ReadTable
    <2>1. CASE UNCHANGED ideVars
      BY <1>1, <2>1
    <2>2. CASE BlockCall(Main, "read", RawBlock, 0, NULL)
      BY <1>0, <1>1, <2>2, BeginRefines DEF BlockCall
    <2> QED BY <1>5, <2>1, <2>2 DEF ReadTable
  <1>6. CASE TableRead \/ ParseEntry \/ ScanDone
    BY <1>1, <1>6 DEF TableRead, ParseEntry, ScanDone
  <1>7. ASSUME NEW t \in Thread, Request(t) PROVE StoreStep
    <2>1. PICK op, b, s, v : op \in {"read", "write"} /\ BlockCall(t, op, b, s, v)
      BY <1>7 DEF Request
    <2> QED BY <1>1, <2>1, BeginRefines DEF BlockCall
  <1>8. ASSUME NEW t \in Thread, DriverStep(t) PROVE StoreStep
    BY <1>8, DriverRefines DEF DriverStep, BlockReturn, IdeStep
  <1>9. CASE Hardware(Completion) \/ Hardware(Spurious) \/ Hardware(Controller)
    BY <1>9, HardwareRefines
  <1>10. CASE UNCHANGED vars
    BY <1>1, <1>10 DEF vars
  <1> QED BY <1>3, <1>4, <1>5, <1>6, <1>7, <1>8, <1>9, <1>10 DEF Next, Boot

(* Every block_read() and block_write(), of either disk, by any thread and *)
(* through any partition, takes effect at one moment between its call and  *)
(* its return.                                                             *)
THEOREM SectorsAreAtomic == Spec => ImplementsSectorStore
  <1>1. Init => S!StoreInit
    <2> SUFFICES ASSUME Init PROVE S!StoreInit
      OBVIOUS
    <2>1. StoreNow \in [Address -> Data]
      BY DiskConstants DEF Init, IdeInit, StoreNow
    <2>2. \A t \in Thread : CallOf(t) = NULL
      BY DEF Init, CallOf
    <2> QED BY <2>1, <2>2 DEF S!StoreInit
  <1>2. DiskInv /\ DiskInv' /\ [Next]_vars => [S!StoreNext]_(S!vars)
    BY StepRefines DEF StoreStep, S!vars
  <1> QED BY <1>1, <1>2, DiskInvariant, PTL DEF Spec, ImplementsSectorStore, S!StoreSpec
==============================================================================
