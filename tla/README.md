# TLA+ models of the CS 162 Pintos kernel

The repository is a self-study of UC Berkeley's CS 162. Its core is a Pintos
kernel, `code/group/src`; two more copies of the same kernel
(`code/personal/proj-pregame`, `code/personal/hw-memory/pintos`) and a set of
small homeworks come with it. These modules model the group kernel: the parts
whose correctness depends on the order in which threads and interrupts run.

Paths below are relative to `src/code/group/src` unless they say otherwise.

## 1. Inventory

| Component | State it keeps | Operations | Interacts with | What is hard | What makes it correct |
|---|---|---|---|---|---|
| Scheduler `threads/thread.c` | `fifo_ready_list`, `all_list`, each thread's `status`, `idle_thread`, `thread_ticks`, `next_tid` | create, block, unblock, yield, exit, tick, schedule, the idle loop | everybody; palloc for thread pages | a thread's list node is shared by two kinds of list; pages of dead threads are reused; boot without an idle thread | one running thread, exact lists, unique tids, FIFO order, no starvation |
| Semaphores, locks `threads/synch.c` | `value`, `waiters`, `holder` | down, up, try_down, acquire, try_acquire, release | scheduler; interrupt handlers call `sema_up()` | a woken thread races with newcomers; `holder` is written with interrupts on | mutual exclusion, no lost wakeup, no forgotten sleeper |
| Monitors, RW lock `threads/synch.c` | waiter lists, `AR WR AW WW` | wait, signal, broadcast, rw acquire/release | locks | Mesa semantics: conditions go stale between signal and wakeup | exclusion, exact counts, writer preference, nobody stranded |
| Interrupts `threads/interrupt.c` | interrupt level, `yield_on_return` | enable, disable, dispatch | scheduler, devices | come between any two instructions | (part of the above) |
| Interrupt queues `devices/intq.c`, `input.c`, `kbd.c` | ring, lock, one waiter per condition | getc, putc | threads and interrupt handlers | test, sleep for the lock, act on the stale test | FIFO, no missed signal, its ASSERTs |
| Page allocator `threads/palloc.c`, `lib/kernel/bitmap.c` | bitmap, lock per pool | get, free | scheduler frees pages where it cannot sleep | free takes no lock | no page twice, no leak |
| Malloc `threads/malloc.c` | arenas, free lists | malloc, calloc, realloc, free | palloc | size arithmetic, arena given back while threads race | no overlap, counts exact |
| File system `filesys/*.c` | open inodes, free map, directories, sectors | create, open, read, write, remove | block layer | crash between writes; removal while open; no locking | no sector used twice, names resolve |
| Processes `userprog/*.c` | page directory, the semaphore `temporary` | execute, wait, exit, exceptions | scheduler, file system, palloc | one semaphore for every child; failure half way through load | wait returns after its child |
| Disks `devices/ide.c`, `block.c`, `partition.c` | channel lock, `completion_wait`, `expecting_interrupt` | read, write, interrupt | locks, interrupts | spurious interrupts, two disks on one set of registers, partition tables that wrap | sector reads and writes are atomic, a completion belongs to its command, a partition lies on its disk |
| Serial, console `devices/serial.c`, `lib/kernel/console.c` | `txq`, mode, IER; lock depth | putc, flush, interrupt | intq, locks, input | polling and interrupts mixed, printing within printing, a panic half way | byte order, transmitter interrupt on while bytes wait, whole lines |
| Timer `devices/timer.c` | `ticks` | sleep, interrupt | scheduler | reading a 64-bit counter, busy waiting | no early wakeup |
| Lists, hash, C library | none | pure routines | everybody | boundary cases | agree with their definitions |
| Homeworks `code/personal` | word lists, a work queue | | pthreads | hw-list and hw-http's `wq.c` only; the others are skeletons or sequential | counts exact, no item lost |

`PROJECT.json` lists the components with their status, and under `hazards`
each thing in this code that a test would hardly reach, at its line.

## 2. Plan

Done, in this order:

1. **Thread** (scheduler contract), **Synch** over it (semaphores, locks, boot,
   interrupts), shown to implement it. Both are proved, and the refinements.
2. **Mutex** (what a lock promises), **Monitor** and **RWLock** over it, against
   the abstract **ReadersWriter**. RWLock and its refinement are proved.
3. **Ring** and **Intq**; **Console** composes two interrupt queues with
   `serial.c`, `console.c` and `input.c`, against **Fifo**. Proved, refinement
   included.
4. **Palloc**, and **Malloc** over it. Both are proved.
5. **FileSys** (inodes, directories, free map, with crashes between sector
   writes), proved; **InodeIO** (the chunk loops) against **ByteFile**, proved.
6. **Process** (loading, page directories, exit, wait), proved.
7. **Ide** (one channel), **Disk** over it (block layer, partitions, boot),
   against **SectorStore**. Proved, refinement included.

Left:

8. Outside the core: the list algorithms (`list_sort()`,
   `list_insert_ordered()`, `list_unique()`, which nothing here calls),
   hw-list's counters, hw-http's `wq.c`.

The runs are kept few, one per question: where a component is composed with
another, the composition is what is run. `Thread` is run as part of `Synch`,
`Palloc` as part of `Malloc`, `Intq` as part of `Console`, `Ide` as part of
`Disk`.

## 3. Modules and code

`Thread` models `threads/thread.c` for *any* client. One processor, and the
scheduler runs with interrupts off, so each operation is atomic: `Schedule` is
`schedule()` together with `thread_switch_tail()`, including the freeing of a
dying thread's page and the reset of `thread_ticks`. `status[t] = "FREE"` means
that the page is not allocated, so page reuse is in the model. Guards in
`Create` ... `StartIdle` are the callers' contracts (what the ASSERTs and
comments demand). The other scheduling policies only panic in this code.

`Synch` EXTENDS `Thread` and supplies the callers. Only `running` takes steps;
`pc` marks the points inside a call where interrupts are on, and a
`TimerInterrupt` (with the deferred `thread_yield()`) or `DeviceInterrupt` (a
handler that ups a semaphore) may come at each of them. A thread resumed inside
`sema_down()` has interrupts off (`IntrOn`). `next_tid++` is a read and a write
(`TidRead`, `TidWrite`). The boot runs `thread_start()` and `idle()` step by
step, starting with no idle thread.

`Mutex` is the abstract lock: `LocksAreMutexes` shows that `Synch`'s locks
implement it (owner: the thread between the return of `sema_down()` and the
call of `sema_up()`), which is what entitles `Monitor`, `RWLock`, `Intq` and
`Palloc` to use a lock as an atomic `owner`.

`Monitor` holds the condition variables; `cond_wait()`'s release, sleep and
reacquisition are separate steps of its user. `RWLock` separates the test of
the counters from their update. Its clients keep the one obligation the code
leaves to them: to release with the role they acquired with.

`Intq` models `intq_getc()`/`intq_putc()` between the places where they sleep,
with interrupt handlers putting or getting (`input_putc()`, `serial_interrupt()`).
A failed ASSERT sets `panicked` and stops the kernel.

`Console` is `console.c` over `serial.c` and `input.c`, with one instance of
`Intq` for `txq` and one for `buffer`. There is one processor: `cpu` names who
runs with interrupts off (a thread, the serial interrupt handler, a handler
that prints, the final flush), and while it is set only that one and the UART
go on. `spin` is a `putc_poll()` in its polling loop. The UART is external,
modelled from what `serial.c` relies on: one byte each way (`thr`, `rbr`), and
a transmit interrupt that is latched (`pend`) when the THR becomes empty, or
when it is enabled while the THR is empty, and cleared by reading the IIR or
writing the THR. The boot goes from `UNINIT` through `POLL` to `QUEUE`, with and
without output before `serial_init_queue()`. `debug_panic()` may come wherever a
thread runs; `shutdown_power_off()` is the flush that ends in `halt`.
`PrintWithin` is the case `console.c` has its depth counter for.

`Palloc` makes every bit operation a step: the lock is held while scanning and
flipping, but `palloc_free_multiple()` clears without it. By itself it makes
calls with `PAL_ZERO`, the variant that also writes the pages. The two pools
share nothing, so one is modelled.

`Malloc` EXTENDS `Palloc`: a call of `malloc()` that needs pages takes
`Palloc`'s steps one by one, under its descriptor's lock if it is for an arena
and under none if it is for a big block; so does a `free()` that gives pages
back. `live` is what the callers own, each block with the size it was asked
for. Other callers of the page allocator (`PageGet`, `PageFree`, as
`thread_create()` and `thread_switch_tail()`) compete for the same pages. Sizes
wrap at `Word`, in `calloc()`'s product and in `DIV_ROUND_UP(size + sizeof *a,
PGSIZE)`. `realloc()` is its `malloc()` followed by its `free()`. A `free()` that
finds its arena unused (`Recount`) takes the arena's blocks off the list with
one `list_remove()` a step (`Unlink`) and then gives the page back.

`FileSys` models `filesys.c`, `inode.c`, `directory.c`, `free-map.c` and the
`file.c` calls that touch an inode's counters. The code takes no lock, so one
call is in progress at a time; it goes from one write of a sector to the next
(`AllocInode`, `AllocData`, `WriteInode`, `ZeroSector`, `DirAdd`, ...), and
`Crash` may come between any two, losing everything in memory. Every `malloc()`
on the way may fail. `content` tells zeros, a file's own data and what an older
file left behind. With `ShortReads` memory may also run out while a directory
is searched; the passing run leaves that out because of the finding
below. `lost` is history: the sectors that stay marked though no file has them.
It grows in two actions only: by the data sectors `filesys_create()` forgets when
`DirAdd` fails, and at the next `Boot`, whether after a `Crash` or a clean
`Shutdown`, by what `OpenRemoved`, `NotWritten` and `InHand` name.

`InodeIO` models the loops of `inode_read_at()` and `inode_write_at()`, one
round a step, with sectors of a few bytes, the bounce buffer and `file.c`'s
positions. `ByteFile` is what they promise: a call transfers some prefix of
what was asked, inside the file, and the position moves by that much.

`Process` models `run_task()` in the main thread, `start_process()`, the ELF
loader, `process_exit()` and `process_wait()` in the process's thread. `Switch`
is a timer interrupt (or the switch away from a sleeping or dead thread) with
the `process_activate()` of `thread_switch_tail()`; it may come between any two
steps. `pagedir[t]` is `GARBAGE` while the PCB's memory is uninitialized or
freed. A page directory is two maps, its page tables and its frames. Addresses
are numbers that wrap at `Word`. Main starts one process after another, so two
threads exist at once only while one of them is on its way out. Both pools are
one, and an allocation may fail whether or not a page is free. What the user
program does is its exit or its fault; a kernel panic ends the system and is
not modelled.

`Ide` models one channel of `devices/ide.c`: the lock, `expecting_interrupt`,
the value of `completion_wait` and every access to the controller's registers
as a step of its own; reading the status register clears a pending interrupt,
reading the alternate status register does not. The controller's own steps
(`Fetch`, `AskData`, `Store`, their interrupt) are external, and so is
`Spurious`, an interrupt no command caused. A disk answers in time: the
time-outs of the polling loops are not modelled.

`Disk` EXTENDS `Ide` with the boot (`identify_ata_device()` and the recursion of
`read_partition_table()`, whose activations are `stack`) and with `block_read()`
and `block_write()` of any registered block. The table that is parsed is always
that of sector 0, as in the code. `SectorStore` is what the block layer
promises: each read and write takes effect at one moment between call and
return. The mapping counts data the controller has taken but not yet stored as
stored (`StoreNow`), because the next command waits for them.

Definitions whose names have a suffix after `_` and a comment "Mutant" (or "mutant") are
plausible bugs of the definition that follows; no specification uses them.
They serve to check that each property can fail.

## 4. Runs

| Run | Bounds | Shows |
|---|---|---|
| `synch` | 3 pages, slice 1, 1 semaphore up to 2, 1 lock + `tid_lock`, tids to 4 | mutual exclusion, sleepers, wakeups, exact run queue, FIFO, `LocksAreMutexes`, `ImplementsThread`. With main that is three clients of one lock: an owner, a sleeper and a barger. Three pages give an idle thread, two others, and reuse of a page. |
| `synch_live` | as above, slice 2, no plain semaphore | every ready thread runs, a free lock is taken, the boot completes. Slice 2 tells a tick from a preemption. |
| `rwlock` | 4 threads, each a reader or a writer at each turn | refinement of `ReadersWriter`, writer preference, nobody stranded, somebody gets in. Four: one inside, two of either kind asleep and a newcomer. No symmetry, because of the liveness property. |
| `console` | 2 printing threads, 1 reader, 2 byte values, lines of up to 2 characters, `txq` of 3 cells, `buffer` of 2 | both queues wake their sleepers, an interrupt is armed for every waiting byte, whole lines, byte order, the line never stalls. Two bytes fill `txq`, so a line of two finds it full; one key fills `buffer`. Deadlock is not checked: the machine halts in the end. |
| `intq_two_readers` | 3 cells, 2 readers | **violation**, see below |
| `malloc` | 2 threads (symmetric), 2 pages of 14 bytes, header of 6, blocks of 3 and 6 bytes, `Word` 64, sizes 0, 3, 11, 30, 48, 61, `calloc(2, 3)` and `calloc(5, 16)` | no page or block twice, exact bitmap and arenas, blocks large enough for every request that does not wrap. An arena has two blocks of 3 or one of 6, so arenas empty and fill; 11 takes two pages and competes with everybody; 30 asks for three pages and the pool has two; 48 plus the header fits, but `DIV_ROUND_UP` wraps and asks for no pages, so the call fails; 61 plus the header wraps, and so does 5 * 16. |
| `filesys` | 7 sectors (3 beyond the reserved ones), 2 directory slots, 2 names, 2 open files, files up to 2 sectors | a consistent disk after any crash, open files keep their sectors, a sound free map, no old data, each marked sector reserved, a file's or lost, with `lost` as stated in section 3. The disk and the directory both fill up, and a name is removed while open and created again. |
| `filesys_short_reads` | as above with `ShortReads` | **violation**, see below |
| `inode_io` | 2-byte sectors, a file of 5 bytes, sizes 0 to 6, offsets inside, at and past the end | no byte outside the file changes; refinement of `ByteFile` |
| `process` | 2 process threads (symmetric), 9 pages, 8 virtual pages of 4 bytes, 3 pages per page table, 7 executables | the active page directory is live, user mappings, one owner per page, `process_wait()`. The executables cross a page-table boundary, map a page twice, collide with the stack, wrap around, and touch page 0; leaks use up the pool. Deadlock is not checked: `process_wait()` after a failed `process_execute()` never returns. |
| `disk` | 2 threads, disks of 2 and 1 sectors, 2 data values, `Word` 4, 1 spurious interrupt, two tables: one with a good partition, an empty entry, an extended partition past the end and partitions that start past the end, end past it and wrap; one with another system's partition | atomic sectors, acknowledged writes, panics only for callers' mistakes, the channel comes back. Two disks switch the selection; two threads, an owner and a waiter. Deadlock is not checked: a panic stops the machine. |
| `disk_partitions` | 1 thread, a disk of 4 sectors with an extended partition | **violation**, see below |

`MaxTid`, `MaxValue`, `MaxRequest`, `MaxSectors`, `MaxLive`, `MaxLine`,
`MaxSpurious` and `MaxDepth` bound the counters; they stop only further calls
of `thread_create()` and `sema_up()`, larger requests and larger files, more
blocks in use at once (4), longer lines, more spurious interrupts and deeper
recursion. `TXQ_SIZE` and `INPUT_SIZE` stand for `INTQ_BUFSIZE`.

### Findings

`intq_two_readers`. `intq_getc()` tests the queue, may then sleep
in `lock_acquire(&q->lock)` (`devices/intq.c:37`) and calls `wait()` without
testing again. With two reading threads and two bytes arriving meanwhile,
`wait()`'s ASSERT (`intq.c:73`) stops the kernel, although the lock is there
for that case (`intq.h:26`, "Only one thread may wait at once.").

`disk_partitions`. `read_partition_table()` "Reads the partition table in the
given SECTOR of BLOCK" (`devices/partition.c:31`), but its `block_read()` (line
78) always reads sector 0. With an extended partition the first table is parsed
again: its partitions are registered a second time at sectors where there is
none or another one, the logical partitions are never found, and the recursion
ends only if twice the extended partition's sector is past the end of the disk.

`filesys_short_reads`. `dir_add()` relies on "inode_read_at() will only return
a short read at end of file" (`filesys/directory.c:135`), but `inode_read_at()`
also stops short when it gets no memory for its bounce buffer. The scan then
ends at a slot in use, and its entry is overwritten.

Not refuted by a run, but visible in the models:

* Sectors leak in three ways, and by `NoOtherLeak` in no other.
  `filesys_create()` forgets the data sectors when `dir_add()` fails. A crash
  leaves marked what the call in progress had allocated or had still to free.
  And sectors leak over any reboot, a clean `filesys_done()` included, although
  that is said to be "writing any unwritten data to disk"
  (`filesys/filesys.c:31`): those of a file that was removed and is still open,
  and those that `free_map_release()` freed in memory when its write of the map
  failed (`filesys/free-map.c:40`), if no later write of the map made up for it.
  `free_map_close()` writes nothing (line 53), though its comment (line 52) says
  that it writes the map.
* `start_process()` forgets the page directory, its page tables and frames when
  `load()` fails; `WaitedIsGone` says that it forgets nothing else.
* `expecting_interrupt` is never set back. After a spurious interrupt
  `completion_wait` is one too high for good, and a write may return before the
  disk has acknowledged it (hence the exception in `WritesAcknowledged`); data
  are never mixed up, because every command waits for an idle channel first.
* `wait_until_idle()`'s comment (`devices/ide.c:387`) says 10 seconds; 1000
  rounds of 10 microseconds are 10 milliseconds.
* `malloc()` "returns a new block of at least SIZE bytes"
  (`threads/malloc.c:81`). It does not when `size + sizeof *a` wraps: too few
  pages are asked for, and the block is smaller than SIZE. `calloc()` means to
  "make sure it fits in size_t" (line 150), but its test, `size < a || size < b`,
  passes any product that wraps to a value no smaller than both factors. In the `malloc`
  run's instance `malloc(61)` returns a block of 8 bytes, on one page, and
  `calloc(5, 16)` one of 22 for 80. `BigEnough` promises a large enough block
  only where the request and a header do not wrap; stated without that
  condition it is false.
* The comment at `threads/malloc.c:31` puts the largest small block at 2 kB; it
  is 1 kB.

### Fairness

`Synch!Fairness` assumes strong fairness of each thread's kernel steps: a
thread is dispatched again and again if it is ready again and again, each time
with a whole time slice, many times what a step takes. The timer is strongly
fair: the PIC latches a tick that comes while interrupts are off and delivers
it when they are on. Client code may loop, stop or never release a lock.
`RWLock!Fairness` is weak fairness of the steps of a call that has begun, which
is what `ReadyEventuallyRuns` gives, and that a client inside leaves again. No
fairness is assumed of lock hand-over: these locks let newcomers barge in, and
a particular waiter may starve, so only "somebody gets in" is claimed.

`Disk!Fairness`: a thread that can take a step in the driver takes it, the
controller finishes its commands and its interrupt is delivered. `Console!Spec`
assumes weak fairness of what runs with interrupts off and of the UART, and
strong fairness of entering the interrupt handler: a latched interrupt is taken
as soon as interrupts are on again. Nothing is assumed of threads that print
with interrupts on.

## 5. Proofs

Every theorem is for arbitrary constants under the named ASSUMEs of the modules
it is about. TLC evaluates them in the runs. Most say only that sizes are
natural numbers and that `NULL` is none of the things it is compared with. The
others, and what in the code they stand for:

* `SynchAssumption`, `RWLockAssumption`, `FileSysAssumption`: pages, clients and
  open files are finitely many.
* `IdeAssumption`: two disks on a channel, and there is some content a sector
  can have. `DiskAssumption`: a capacity and the fields of a partition table
  fit in a word, which the reader of the table has from 32-bit fields.
* `ConsoleAssumption`: a ring has at least two cells (`INTQ_BUFSIZE` is 64).
* `ProcessAssumption`: `PHYS_BASE` is the first address of a page and of a page
  table and is below the end of the address space; headers have the fields
  `load()` looks at, with values that fit in a word.
* `InodeIOAssumption`: the device has the sectors the inode says the file has,
  and an offset is not negative (`file_seek()`'s ASSERT).
* `PallocAssumption`: there is a page, and requests are for one page or more.
* `MallocAssumption`: a header takes at most half a page and a page is smaller
  than `Word` (12 bytes, 4 kB and 4 GB in the code); the arguments of a call fit
  in a word; `MaxRequest` covers every number of pages that
  `DIV_ROUND_UP(size + sizeof *a, PGSIZE)` can come to; `NULL` is no block.

Each module has one inductive invariant. The properties of the runs follow from
it; they are seldom inductive by themselves, and what had to be added is said
below.

* `SynchProofs`, first part: `SchedulerInvariant` of `Thread`. Types,
  `OneRunning`, `ReadyListExact`, `AllListExact` and `TidsUnique` need each
  other and the fact that the idle thread is alive: that a switch leaves one
  running thread needs the head of the run queue to be READY; that the queue has
  no duplicates needs a BLOCKED or RUNNING thread to be off it. `FifoOrder`
  proves the action property `NoOvertaking`.
* `SynchProofs`, second part: `SynchInv` ties a thread's place inside a call to
  what it is responsible for there. A lock's semaphore is 0 exactly while one
  thread owns it, and `holder` is `NULL` in the windows after `sema_down()` and
  before `sema_up()`, where interrupts are on; a thread that is being created
  has one creator; `tid_lock` covers the read and the write of `next_tid`; the
  boot and the idle thread go in order. From it follow `MutualExclusion`,
  `SleepersAccounted`, that the callers keep the scheduler's contracts
  (`ImplementsThread`, from which `Thread`'s theorems carry over) and that each
  lock is a `Mutex` (`LocksAreMutexes`). `NoLostWakeup` is a count (woken
  threads against the semaphore's value) and has an invariant of its own on top.
* `RWLockProofs`. The guard lock is owned exactly between its acquisition and
  release, and at `grant` the tested condition still holds, since the counters
  change only under the guard. `RWLockRefines` maps every step to one of
  `ReadersWriter` or a stutter. `NobodyStranded` needs that a signalled thread
  is on its way until it has tested again.
* `MallocProofs`, first part, about `Palloc`. The lock is held while scanning and
  flipping; the bits passed by the scan are clear (only the lock's holder sets
  bits); and each set bit belongs to exactly one group or one thread, which is
  why a free needs no lock.
* `MallocProofs`, second part: `MallocInv` of `Malloc`, which has `Palloc`'s
  invariant for the page operations in progress, and who owns what above them.
  The central fact is that every block of every arena has exactly one owner: a
  caller, its descriptor's free list, the thread that has popped it and not yet
  counted it, the thread that is about to free it, or the thread that has
  unlinked it on the way to giving the arena back. With it go the locks (a
  descriptor's lock is held wherever its list or a count of its arenas changes),
  the headers (each arena and each big block is the first page of one allocated
  group), and the counts: `free_cnt` is the number of listed blocks, less one
  that is pushed and not yet counted, plus one that is popped and not yet
  counted, plus those already unlinked; an arena with no block in use is always
  in some thread's hands. A step of `Malloc` moves one block from one owner to
  another, changes one count, or brings or ends one page, and there is a lemma
  for each of the three. `BlocksNeverOverlap`, `ListsAndArenasAgree` and
  `BlocksBigEnough` are read off it (`Good`, in the invariant, says of every
  request, wrapped or not, whether the block has room for it); the first and the last also need the
  arithmetic of quotients, for where a block of an arena ends and for what
  `DIV_ROUND_UP` gives when the sum wraps. `PagesGivenOnceToMalloc` and
  `BitmapExactOverMalloc` are `Palloc`'s two properties with `malloc()` and
  `free()` as callers.
* `ConsoleProofs`. `ConsoleInv` adds what holds while the machine boots, after a
  panic and while a byte is polled out, that what runs with interrupts off is
  alone, and that a thread which sleeps in `txq` holds the queue's lock and the
  console. `BytesLeaveInOrder` needs what the ring's arithmetic computes
  (`Contents` after a put and a get, around the end of the array).
  `QueuesAlwaysWake` has the hypothesis `OneReader`: with two readers it is
  false, which is the finding `intq_two_readers`.
* `DiskProofs`. `DiskInv` says who is between the acquisition and the release of
  the channel and, for each place that thread can be in, what the controller is
  doing for it; and that every registered block lies on its disk, for which the
  wrapping of `start + size` is taken apart. Nothing is assumed about
  interrupts: a spurious one at any moment keeps the invariant, since every
  command waits for an idle channel.
* `ProcessProofs`. `ProcessInv` says what a process has at each place of its
  life (a PCB, a page directory, the name of its file, a page being loaded), that one
  process at most is busy, and that the allocated pages are exactly the leaked
  ones and those of the one that is busy. That a page directory maps no kernel
  page comes from `validate_segment()`'s tests, the wrapping one included.
* `FileSysProofs`. `FileSysInv` adds what the call in progress has allocated or
  has yet to free (`InHand`), that an open inode is a copy of the one on the disk,
  that its counters count its files, and that the marked sectors of nobody are
  those in `lost`. The last is kept over a reboot because what `Boot` adds is what
  nobody will name afterwards, no more and no less. `DiskAlwaysConsistent` and
  `NothingElseLeaks` have the hypothesis `~ShortReads`: where a search may be cut
  short, an entry may be overwritten, which is the finding
  `filesys_short_reads`. The other three hold regardless.
* `InodeIOProofs`. `IOInv` adds that once a chunk is transferred, what is left of
  the request and of the file is not negative. `LoopsImplementByteFile` is the
  refinement of `ByteFile`; it rests on the uniqueness of quotient and
  remainder, by which the place a round computes for its bytes is the one
  `byte_to_sector()` gives each of them.

Proved and not run separately: the type invariants, `OneRunning`,
`AllListExact`, `TidsUnique`, `Exclusion`, `CountsExact` and `ZeroedPagesStay`.
The runs `synch` and `rwlock` check the refinements that carry those of the
scheduler and of the readers-writers lock over (`ImplementsThread`,
`ImplementsReadersWriter`). `NoDoubleAllocation` and `UsedMapExact` are proved
of `Palloc` with its own callers and of `Malloc`.

Only model-checked: liveness, which this prover cannot do
(`ReadyEventuallyRuns`, `FreeLockIsTaken` and `BootCompletes` of `Synch`,
`SomebodyGetsIn` of `RWLock`, `WireKeepsGoing` of `Console` and
`ChannelComesBack` of `Disk`). Every other property that a passing run checks is
stated by a theorem.

## 6. Not modelled

Boot and descriptor-table code, other port I/O (VGA, RTC, PIT, speaker),
formatting and string routines, tests and host scripts; the skeleton homeworks;
the second and third copies of the kernel. In the
modelled components: concurrent calls into the file system (it has no locks and
its callers must serialise), page contents and write protection, `timer_sleep()` (a loop
that compares tick counts and yields), the reset and time-outs of the IDE
driver, the keyboard's scan codes, `block_set_role()` and the lookup of blocks,
and what a failed ASSERT elsewhere than in `intq.c` and the block layer does.
