------------------------------ MODULE Process ------------------------------
(***************************************************************************)
(* User processes: userprog/process.c with pagedir.c, exception.c and      *)
(* syscall.c, as run_task() of threads/init.c uses them.  A timer          *)
(* interrupt may switch threads between any two steps, and every switch    *)
(* calls process_activate(), which follows t->pcb->pagedir wherever it     *)
(* points at that moment.                                                  *)
(*                                                                         *)
(* The kernel's and the user's page pool are one pool here, and any        *)
(* allocation may fail, since others use the pools too.  Addresses are     *)
(* numbers below Word, the size of the address space, and wrap.            *)
(***************************************************************************)
EXTENDS Integers, Sequences, FiniteSets

CONSTANTS Proc,                    \* threads that run user programs
          Main, Idle,              \* the thread of run_task(); the idle thread
          PageCnt,                 \* pages in the pool
          Word, PGSIZE, PHYS_BASE, \* the address space, a page, the kernel's start
          TableSpan,               \* pages that one page table maps
          Program,                 \* executables: sequences of program headers
          FileLength,              \* length of the executable, in bytes
          KERNEL, GARBAGE, NULL    \* init_page_dir; an uninitialized pointer

\* struct Elf32_Phdr; the numbers are 32 bits wide.
Address == 0..(Word - 1)
Phdr == [type : STRING, offset : Address, vaddr : Address, filesz : Address, memsz : Address]

ASSUME ProcessAssumption ==
  /\ {PageCnt, Word, PGSIZE, PHYS_BASE, TableSpan} \subseteq Nat \ {0}
  /\ PHYS_BASE % PGSIZE = 0 /\ (PHYS_BASE \div PGSIZE) % TableSpan = 0
  /\ Word % PGSIZE = 0 /\ PHYS_BASE < Word /\ PGSIZE < PHYS_BASE
  /\ Main # Idle /\ {Main, Idle} \cap Proc = {}
  /\ NULL \notin Proc \cup {Main, Idle, GARBAGE}
  /\ {KERNEL, GARBAGE, NULL} \cap 0..(PageCnt - 1) = {}
  /\ Program \subseteq Seq(Phdr)

Thread == Proc \cup {Main, Idle}
Page   == 0..(PageCnt - 1)
VPage  == 0..(Word \div PGSIZE - 1)
Table  == 0..((Word \div PGSIZE) \div TableSpan)

VARIABLES running,   \* the thread on the processor
          cr3,       \* the active page directory
          used,      \* allocated pages
          dirs,      \* page -> the page directory in it: its page tables and frames
          has_pcb,   \* thread -> t->pcb # NULL
          pagedir,   \* thread -> the pagedir member of its PCB, GARBAGE while it has none
          pc, fn,    \* thread -> where it is; the page of its copy of the file name
          local,     \* thread -> pd or kpage, the page in a local variable
          phdrs,     \* process -> program headers still to be loaded
          loading,   \* process -> pages of the current segment still to be loaded
          temporary, \* the semaphore's value
          child,     \* what process_execute() returned, NULL for TID_ERROR
          leaked     \* history: pages that nobody can free any more

memory == <<used, dirs, leaked>>
vars   == <<running, cr3, memory, has_pcb, pagedir, pc, fn, local, phdrs, loading, temporary, child>>

Blank == [tables |-> [i \in Table |-> NULL], frames |-> [v \in VPage |-> NULL]]

Init == /\ running = Main
        /\ cr3 = KERNEL
        /\ used = {} /\ leaked = {}
        /\ dirs = [p \in Page |-> Blank]
        /\ has_pcb = [t \in Thread |-> t = Main]       \* userprog_init()
        /\ pagedir = [t \in Thread |-> IF t = Main THEN NULL ELSE GARBAGE]
        /\ pc = [t \in Thread |-> IF t = Main THEN "execute" ELSE IF t = Idle THEN "idle" ELSE "dead"]
        /\ fn = [t \in Thread |-> NULL]
        /\ local = [t \in Thread |-> NULL]
        /\ phdrs = [t \in Proc |-> <<>>]
        /\ loading = [t \in Proc |-> {}]
        /\ temporary = 0 /\ child = NULL

At(t, label) == running = t /\ pc[t] = label
Goto(t, label) == pc' = [pc EXCEPT ![t] = label]

\* palloc_get_page(): the first free page.
Free == Page \ used
FirstFree == CHOOSE p \in Free : \A q \in Free : p <= q

-----------------------------------------------------------------------------
\* process_activate(), on every switch to a thread t: where it sets CR3.
Directory(t) == IF has_pcb[t] /\ pagedir[t] # NULL THEN pagedir[t] ELSE KERNEL

Ready(t) == pc[t] \notin {"dead", "asleep"}

\* A timer interrupt, or a switch away from a thread that sleeps or is dead.
Switch(t) == /\ Ready(t) /\ t # running
             /\ running' = t
             /\ cr3' = Directory(t)
             /\ UNCHANGED <<memory, has_pcb, pagedir, pc, fn, local, phdrs, loading, temporary, child>>

-----------------------------------------------------------------------------
\* run_task(): process_wait(process_execute(task)).
ProcessExecute ==
  /\ At(Main, "execute")
  /\ temporary' = 0 /\ child' = NULL
  /\ \/ /\ Free # {}
        /\ used' = used \cup {FirstFree}
        /\ fn' = [fn EXCEPT ![Main] = FirstFree]
        /\ Goto(Main, "create")
     \/ /\ Goto(Main, "wait")
        /\ UNCHANGED <<used, fn>>
  /\ UNCHANGED <<running, cr3, dirs, leaked, has_pcb, pagedir, local, phdrs, loading>>

ThreadCreate ==
  /\ At(Main, "create")
  /\ \/ \E p \in Proc : /\ pc[p] = "dead"
                        /\ pc' = [pc EXCEPT ![Main] = "wait", ![p] = "malloc"]
                        /\ fn' = [fn EXCEPT ![Main] = NULL, ![p] = fn[Main]]
                        /\ child' = p
                        /\ UNCHANGED used
     \/ /\ used' = used \ {fn[Main]}
        /\ fn' = [fn EXCEPT ![Main] = NULL]
        /\ Goto(Main, "wait")
        /\ UNCHANGED child
  /\ UNCHANGED <<running, cr3, dirs, leaked, has_pcb, pagedir, local, phdrs, loading, temporary>>

\* process_wait(): sema_down(&temporary).
ProcessWait_Reinit == \* mutant: sema_init() here, not before thread_create()
  /\ At(Main, "wait")
  /\ temporary' = 0
  /\ Goto(Main, "asleep")
  /\ UNCHANGED <<running, cr3, memory, has_pcb, pagedir, fn, local, phdrs, loading, child>>
ProcessWait == /\ At(Main, "wait")
               /\ IF temporary > 0 THEN temporary' = temporary - 1 /\ Goto(Main, "execute")
                  ELSE Goto(Main, "asleep") /\ UNCHANGED temporary
               /\ UNCHANGED <<running, cr3, memory, has_pcb, pagedir, fn, local, phdrs, loading, child>>

\* sema_up(&temporary) by t, which goes on to thread_exit().
SemaUp(t) == /\ At(t, "up")
             /\ temporary' = temporary + 1
             /\ pc' = [pc EXCEPT ![t] = "exit", ![Main] = IF @ = "asleep" THEN "wait" ELSE @]
             /\ UNCHANGED <<running, cr3, memory, has_pcb, pagedir, fn, local, phdrs, loading, child>>

ThreadExit(t) == /\ At(t, "exit")
                 /\ Goto(t, "dead")
                 /\ UNCHANGED <<running, cr3, memory, has_pcb, pagedir, fn, local, phdrs, loading, temporary, child>>

-----------------------------------------------------------------------------
\* start_process(): the PCB is allocated, its members are garbage.
MallocPcb(t) == /\ At(t, "malloc")
                /\ Goto(t, "clear_pagedir") \/ Goto(t, "failed")
                /\ UNCHANGED <<running, cr3, memory, has_pcb, pagedir, fn, local, phdrs, loading, temporary, child>>

ClearPagedir(t) == /\ At(t, "clear_pagedir")
                   /\ pagedir' = [pagedir EXCEPT ![t] = NULL]
                   /\ Goto(t, "set_pcb")
                   /\ UNCHANGED <<running, cr3, memory, has_pcb, fn, local, phdrs, loading, temporary, child>>

SetPcb(t) == /\ At(t, "set_pcb")
             /\ has_pcb' = [has_pcb EXCEPT ![t] = TRUE]
             /\ Goto(t, "load")
             /\ UNCHANGED <<running, cr3, memory, pagedir, fn, local, phdrs, loading, temporary, child>>

\* load(): pagedir_create(), then process_activate().
PagedirCreate(t) ==
  /\ At(t, "load")
  /\ \/ /\ Free # {}
        /\ used' = used \cup {FirstFree}
        /\ dirs' = [dirs EXCEPT ![FirstFree] = Blank]
        /\ pagedir' = [pagedir EXCEPT ![t] = FirstFree]
        /\ Goto(t, "activate")
     \/ Goto(t, "drop_pcb") /\ UNCHANGED <<used, dirs, pagedir>>
  /\ UNCHANGED <<running, cr3, leaked, has_pcb, fn, local, phdrs, loading, temporary, child>>

ProcessActivate(t) == /\ At(t, "activate")
                      /\ cr3' = Directory(t)
                      /\ Goto(t, "open")
                      /\ UNCHANGED <<running, memory, has_pcb, pagedir, fn, local, phdrs, loading, temporary, child>>

\* The file is opened and its header read and found good, or not.
OpenExecutable(t) ==
  /\ At(t, "open")
  /\ \/ \E program \in Program : phdrs' = [phdrs EXCEPT ![t] = program] /\ Goto(t, "headers")
     \/ Goto(t, "drop_pcb") /\ UNCHANGED phdrs
  /\ UNCHANGED <<running, cr3, memory, has_pcb, pagedir, fn, local, loading, temporary, child>>

-----------------------------------------------------------------------------
IsUser(addr) == addr < PHYS_BASE

ValidateSegment_NoWrap(h) == \* mutant: the region may wrap around
  /\ h.offset % PGSIZE = h.vaddr % PGSIZE
  /\ h.offset <= FileLength
  /\ h.memsz >= h.filesz /\ h.memsz # 0
  /\ IsUser(h.vaddr) /\ IsUser((h.vaddr + h.memsz) % Word)
  /\ h.vaddr >= PGSIZE
ValidateSegment(h) ==
  /\ h.offset % PGSIZE = h.vaddr % PGSIZE
  /\ h.offset <= FileLength
  /\ h.memsz >= h.filesz
  /\ h.memsz # 0
  /\ IsUser(h.vaddr)
  /\ IsUser((h.vaddr + h.memsz) % Word)
  /\ (h.vaddr + h.memsz) % Word >= h.vaddr
  /\ h.vaddr >= PGSIZE

\* read_bytes + zero_bytes, and the pages they fill from mem_page on.
RoundUp(n) == ((n + PGSIZE - 1) \div PGSIZE) * PGSIZE
SegmentPages(h) ==
  LET bytes == RoundUp(((h.vaddr % PGSIZE) + h.memsz) % Word) % Word
      first == h.vaddr \div PGSIZE
  IN  {v % (Word \div PGSIZE) : v \in first..(first + bytes \div PGSIZE - 1)}

(* One round of load()'s loop over the program headers, and what follows   *)
(* the last one.                                                           *)
StackPage == PHYS_BASE \div PGSIZE - 1
NextHeader(t) ==
  /\ At(t, "headers") /\ loading[t] = {}
  /\ IF phdrs[t] = <<>> THEN Goto(t, "stack") /\ UNCHANGED <<phdrs, loading>>
     ELSE LET h == Head(phdrs[t])
          IN  \/ /\ h.type = "other"
                 /\ phdrs' = [phdrs EXCEPT ![t] = Tail(@)]
                 /\ UNCHANGED <<pc, loading>>
              \/ /\ h.type = "load" /\ ValidateSegment(h)
                 /\ loading' = [loading EXCEPT ![t] = SegmentPages(h)]
                 /\ phdrs' = [phdrs EXCEPT ![t] = Tail(@)]
                 /\ UNCHANGED pc
              \/ /\ \/ h.type = "dynamic"
                    \/ h.type = "load" /\ ~ValidateSegment(h)
                    \/ TRUE                        \* the header cannot be read
                 /\ Goto(t, "drop_pcb")
                 /\ UNCHANGED <<phdrs, loading>>
  /\ UNCHANGED <<running, cr3, memory, has_pcb, pagedir, fn, local, temporary, child>>

\* load_segment() and setup_stack(): a page for the next virtual page.
NextVPage(t) == IF pc[t] = "stack" THEN StackPage
                ELSE CHOOSE v \in loading[t] : \A w \in loading[t] : v <= w
GetPage(t) ==
  /\ (At(t, "headers") /\ loading[t] # {}) \/ At(t, "stack")
  /\ local[t] = NULL
  /\ \/ /\ Free # {}
        /\ used' = used \cup {FirstFree}
        /\ local' = [local EXCEPT ![t] = FirstFree]
        /\ UNCHANGED pc
     \/ Goto(t, "drop_pcb") /\ UNCHANGED <<used, local>>
  /\ UNCHANGED <<running, cr3, dirs, leaked, has_pcb, pagedir, fn, phdrs, loading, temporary, child>>

\* pagedir_get_page()
PagedirGetPage_Null(d, v) == NULL \* mutant: an existing mapping is not noticed
PagedirGetPage(d, v) == dirs[d].frames[v]

(* The page is read from the file and install_page() maps it, with a new   *)
(* page table if there is none; or one of these fails and it is freed.     *)
InstallPage(t) ==
  /\ pc[t] \in {"headers", "stack"} /\ running = t
  /\ local[t] # NULL
  /\ LET d == pagedir[t]
         v == NextVPage(t)
         i == v \div TableSpan
     IN  \/ /\ PagedirGetPage(d, v) = NULL
            /\ \/ /\ dirs[d].tables[i] # NULL
                  /\ dirs' = [dirs EXCEPT ![d].frames[v] = local[t]]
                  /\ UNCHANGED used
               \/ /\ dirs[d].tables[i] = NULL /\ Free # {}
                  /\ dirs' = [dirs EXCEPT ![d].frames[v] = local[t], ![d].tables[i] = FirstFree]
                  /\ used' = used \cup {FirstFree}
            /\ IF pc[t] = "stack" THEN Goto(t, "free_name") /\ UNCHANGED loading
               ELSE loading' = [loading EXCEPT ![t] = @ \ {v}] /\ UNCHANGED pc
         \/ /\ pc[t] = "headers" \/ PagedirGetPage(d, v) # NULL \/ dirs[d].tables[i] = NULL
            /\ used' = used \ {local[t]}
            /\ Goto(t, "drop_pcb")
            /\ UNCHANGED <<dirs, loading>>
  /\ local' = [local EXCEPT ![t] = NULL]
  /\ UNCHANGED <<running, cr3, leaked, has_pcb, pagedir, fn, phdrs, temporary, child>>

-----------------------------------------------------------------------------
\* The end of start_process(): to user mode ...
StartUser(t) == /\ At(t, "free_name")
                /\ used' = used \ {fn[t]}
                /\ fn' = [fn EXCEPT ![t] = NULL]
                /\ Goto(t, "user")
                /\ UNCHANGED <<running, cr3, dirs, leaked, has_pcb, pagedir, local, phdrs, loading, temporary, child>>

\* The pages that pagedir_destroy() frees: what is mapped below PHYS_BASE.
DirPages(d) ==
  LET user == {v \in VPage : v < PHYS_BASE \div PGSIZE}
  IN  ({d} \cup {dirs[d].tables[v \div TableSpan] : v \in user} \cup {dirs[d].frames[v] : v \in user}) \ {NULL}

\* ... or t->pcb = NULL and free() of the PCB; its page directory is forgotten ...
DropPcb(t) == /\ At(t, "drop_pcb")
              /\ has_pcb' = [has_pcb EXCEPT ![t] = FALSE]
              /\ phdrs' = [phdrs EXCEPT ![t] = <<>>]
              /\ loading' = [loading EXCEPT ![t] = {}]
              /\ Goto(t, "free_pcb")
              /\ UNCHANGED <<running, cr3, memory, pagedir, fn, local, temporary, child>>
FreePcb(t) == /\ At(t, "free_pcb")
              /\ leaked' = leaked \cup (IF pagedir[t] = NULL THEN {} ELSE DirPages(pagedir[t]))
              /\ pagedir' = [pagedir EXCEPT ![t] = GARBAGE]
              /\ Goto(t, "failed")
              /\ UNCHANGED <<running, cr3, used, dirs, has_pcb, fn, local, phdrs, loading, temporary, child>>

\* ... and sema_up() and thread_exit().
StartFailed(t) == /\ At(t, "failed")
                  /\ used' = used \ {fn[t]}
                  /\ fn' = [fn EXCEPT ![t] = NULL]
                  /\ Goto(t, "up")
                  /\ UNCHANGED <<running, cr3, dirs, leaked, has_pcb, pagedir, local, phdrs, loading, temporary, child>>

-----------------------------------------------------------------------------
(* process_exit(), called by the exit system call and by kill() after an   *)
(* exception in user mode.                                                 *)
ProcessExit_KeepsPagedir(t) == \* mutant: the PCB still points to the page directory
  /\ At(t, "user")
  /\ local' = [local EXCEPT ![t] = pagedir[t]]
  /\ Goto(t, "activate_kernel")
  /\ UNCHANGED <<running, cr3, memory, has_pcb, pagedir, fn, phdrs, loading, temporary, child>>
ProcessExit(t) == /\ At(t, "user")
                  /\ local' = [local EXCEPT ![t] = pagedir[t]]
                  /\ pagedir' = [pagedir EXCEPT ![t] = NULL]
                  /\ Goto(t, "activate_kernel")
                  /\ UNCHANGED <<running, cr3, memory, has_pcb, fn, phdrs, loading, temporary, child>>
ActivateKernel(t) == /\ At(t, "activate_kernel")
                     /\ cr3' = KERNEL
                     /\ Goto(t, "destroy")
                     /\ UNCHANGED <<running, memory, has_pcb, pagedir, fn, local, phdrs, loading, temporary, child>>
PagedirDestroy_KeepsTables(t) == \* mutant: page tables are not freed
  /\ At(t, "destroy")
  /\ used' = used \ (DirPages(local[t]) \ {dirs[local[t]].tables[i] : i \in Table})
  /\ dirs' = [dirs EXCEPT ![local[t]] = Blank]
  /\ local' = [local EXCEPT ![t] = NULL]
  /\ Goto(t, "exit_drop")
  /\ UNCHANGED <<running, cr3, leaked, has_pcb, pagedir, fn, phdrs, loading, temporary, child>>
PagedirDestroy(t) == /\ At(t, "destroy")
                     /\ used' = used \ DirPages(local[t])
                     /\ dirs' = [dirs EXCEPT ![local[t]] = Blank]
                     /\ local' = [local EXCEPT ![t] = NULL]
                     /\ Goto(t, "exit_drop")
                     /\ UNCHANGED <<running, cr3, leaked, has_pcb, pagedir, fn, phdrs, loading, temporary, child>>
ExitDropPcb(t) == /\ At(t, "exit_drop")
                  /\ has_pcb' = [has_pcb EXCEPT ![t] = FALSE]
                  /\ Goto(t, "exit_free")
                  /\ UNCHANGED <<running, cr3, memory, pagedir, fn, local, phdrs, loading, temporary, child>>
ExitFreePcb(t) == /\ At(t, "exit_free")
                  /\ pagedir' = [pagedir EXCEPT ![t] = GARBAGE]
                  /\ Goto(t, "up")
                  /\ UNCHANGED <<running, cr3, memory, has_pcb, fn, local, phdrs, loading, temporary, child>>

Next == \/ \E t \in Thread : Switch(t)
        \/ ProcessExecute \/ ThreadCreate \/ ProcessWait
        \/ \E t \in Proc :
             \/ MallocPcb(t) \/ ClearPagedir(t) \/ SetPcb(t)
             \/ PagedirCreate(t) \/ ProcessActivate(t) \/ OpenExecutable(t)
             \/ NextHeader(t) \/ GetPage(t) \/ InstallPage(t)
             \/ StartUser(t) \/ DropPcb(t) \/ FreePcb(t) \/ StartFailed(t)
             \/ ProcessExit(t) \/ ActivateKernel(t) \/ PagedirDestroy(t)
             \/ ExitDropPcb(t) \/ ExitFreePcb(t)
             \/ SemaUp(t) \/ ThreadExit(t)

Spec == Init /\ [][Next]_vars

-----------------------------------------------------------------------------
(* Page directories that are reachable: from a PCB, from process_exit()'s  *)
(* local variable, or forgotten but never freed.                           *)
Exiting == {t \in Proc : pc[t] \in {"activate_kernel", "destroy"}}
Owned == ({pagedir[t] : t \in Thread} \cup {local[t] : t \in Exiting}) \ {NULL, GARBAGE}

(* Whenever the timer strikes, the active page directory is the kernel's   *)
(* or an initialized one in a page that has not been freed; above all      *)
(* while a PCB is being made, and while it is being taken down.            *)
ActiveDirectoryLive == cr3 = KERNEL \/ cr3 \in (Owned \cup leaked) \cap used

(* No page directory, at any moment of its loading, maps page 0 or         *)
(* anything at or above PHYS_BASE, and a process in user mode runs in its  *)
(* own, with its stack mapped.                                             *)
UserInOwnSpace ==
  \A t \in Proc : pagedir[t] \in Page =>
    LET frames == dirs[pagedir[t]].frames
    IN  /\ \A v \in VPage : frames[v] # NULL => 0 < v /\ v <= StackPage
        /\ pc[t] = "user" => frames[StackPage] # NULL /\ (running = t => cr3 = pagedir[t])

(* Every allocated page has exactly one owner, and no owner has a page     *)
(* that is free: a file name, a page on its way into a page directory, or  *)
(* a page directory with its tables and frames.  Only what a failed load() *)
(* had already put into its page directory is owned by nobody.             *)
NameHoldings == {<<"fn", t, fn[t]>> : t \in Thread}
KpageHoldings == {<<"kpage", t, local[t]>> : t \in Proc \ Exiting}
DirHoldings == UNION {{<<"dir", d, p>> : p \in DirPages(d)} : d \in Owned}
LeakedHoldings == {<<"leaked", NULL, p>> : p \in leaked}
Holdings == NameHoldings \cup KpageHoldings \cup DirHoldings \cup LeakedHoldings
PagesOwnedOnce ==
  LET held == {h \in Holdings : h[3] # NULL}
  IN  /\ used = {h[3] : h \in held}
      /\ \A g, h \in held : g[3] = h[3] => g = h

(* When process_wait() returns, the process it waited for has given back   *)
(* its PCB and all its pages but the leaked ones.                          *)
WaitedIsGone ==
  pc[Main] = "execute" => used = leaked /\ \A t \in Proc : pc[t] \in {"exit", "dead"} /\ ~has_pcb[t]

(* process_wait() never misses the sema_up() of the process that           *)
(* process_execute() started, which may run and exit before                *)
(* process_execute() returns: while it waits for one, that one is still to *)
(* do its sema_up(), or has done it and the count is there.                *)
WaitHasWaker ==
  child # NULL /\ pc[Main] \in {"wait", "asleep"} =>
    /\ pc[child] \in {"exit", "dead"} => temporary > 0 /\ pc[Main] = "wait"
    /\ temporary <= 1
=============================================================================
