--------------------------- MODULE ProcessProofs ---------------------------
(***************************************************************************)
(* Proofs about user processes: the active page directory is always a live *)
(* one (ActiveDirectoryLive), no page directory maps page 0 or the         *)
(* kernel's space (UserInOwnSpace), every allocated page has exactly one   *)
(* owner (PagesOwnedOnce), and process_wait() neither misses the end of    *)
(* the process it waits for (WaitHasWaker) nor returns before it           *)
(* (WaitedIsGone), for any number of processes and pages, any sizes of     *)
(* pages and page tables, and any executables.                             *)
(*                                                                         *)
(* The inductive invariant ProcessInv says what a process has at each      *)
(* place of its life and that all allocated pages are leaked ones or those *)
(* of the one process, or of run_task(), that is busy.                     *)
(***************************************************************************)
EXTENDS Process, WellFoundedInduction, TLAPS

(* Places in the life of a process: with the name of its executable; over; *)
(* with a page directory; with a PCB; without a member pagedir; with the   *)
(* page directory in process_exit()'s local variable.                      *)
Starting  == {"malloc", "clear_pagedir", "set_pcb", "load", "activate", "open", "headers", "stack",
              "free_name", "drop_pcb", "free_pcb", "failed"}
Over      == {"exit", "dead"}
HasSpace  == {"activate", "open", "headers", "stack", "free_name", "user"}
HasPcb    == HasSpace \cup {"load", "drop_pcb", "activate_kernel", "destroy", "exit_drop"}
NoPagedir == {"dead", "malloc", "clear_pagedir", "failed", "up", "exit"}
Leaving   == {"activate_kernel", "destroy"}
ProcLabel == Starting \cup Over \cup Leaving \cup {"user", "exit_drop", "exit_free", "up"}

\* The virtual pages a user program may use.
UserPage == 1..StackPage

DirType == [tables : [Table -> Page \cup {NULL}], frames : [VPage -> Page \cup {NULL}]]

ProcessTypeOK ==
  /\ running \in Thread
  /\ cr3 \in Page \cup {KERNEL}
  /\ used \subseteq Page /\ leaked \subseteq Page
  /\ dirs \in [Page -> DirType]
  /\ has_pcb \in [Thread -> BOOLEAN]
  /\ pagedir \in [Thread -> Page \cup {NULL, GARBAGE}]
  /\ pc \in [Thread -> ProcLabel \cup {"execute", "create", "wait", "asleep", "idle"}]
  /\ fn \in [Thread -> Page \cup {NULL}]
  /\ local \in [Thread -> Page \cup {NULL}]
  /\ phdrs \in [Proc -> Seq(Phdr)]
  /\ loading \in [Proc -> SUBSET UserPage]
  /\ temporary \in Nat
  /\ child \in Proc \cup {NULL}

\* The threads that run no user program.
Others ==
  /\ has_pcb[Main] /\ pagedir[Main] = NULL /\ local[Main] = NULL
  /\ pc[Main] \in {"execute", "create", "wait", "asleep"}
  /\ fn[Main] # NULL <=> pc[Main] = "create"
  /\ ~has_pcb[Idle] /\ pagedir[Idle] = GARBAGE /\ local[Idle] = NULL /\ fn[Idle] = NULL
  /\ pc[Idle] = "idle"

(* What a process has, by where it is.                                     *)
Shape(t) ==
  /\ pc[t] \in ProcLabel
  /\ has_pcb[t] <=> pc[t] \in HasPcb
  /\ fn[t] # NULL <=> pc[t] \in Starting
  /\ pc[t] \in NoPagedir => pagedir[t] = GARBAGE
  /\ pc[t] \in HasSpace => pagedir[t] \in Page
  /\ pc[t] \in {"drop_pcb", "free_pcb"} => pagedir[t] \in Page \cup {NULL}
  /\ pc[t] \in Leaving \cup {"set_pcb", "load", "exit_drop", "exit_free"} => pagedir[t] = NULL
  /\ pc[t] \in Leaving => local[t] \in Page
  /\ pc[t] \notin Leaving \cup {"headers", "stack"} => local[t] = NULL
  /\ pc[t] = "headers" /\ loading[t] = {} => local[t] = NULL
Shapes == \A t \in Proc : Shape(t)

(* run_task() starts one process and waits for it before the next one.     *)
Handshake ==
  /\ \A t \in Proc : pc[t] \notin Over => child = t /\ pc[Main] \in {"wait", "asleep"} /\ temporary = 0
  /\ child # NULL /\ pc[Main] \in {"wait", "asleep"} /\ pc[child] \in Over
       => temporary = 1 /\ pc[Main] = "wait"
  /\ pc[Main] = "create" => temporary = 0 /\ child = NULL

(* The page directory in CR3, while thread t runs: the kernel's, a leaked  *)
(* one, or the one t still has.                                            *)
ActiveFor(t) ==
  /\ pc[t] \in HasSpace \ {"activate"} => cr3 = pagedir[t]
  /\ pc[t] = "destroy" => cr3 = KERNEL
  /\ \/ cr3 \in {KERNEL} \cup leaked
     \/ pc[t] \in HasSpace \cup {"drop_pcb", "free_pcb"} /\ cr3 = pagedir[t]
     \/ pc[t] = "activate_kernel" /\ cr3 = local[t]
Active == IF running \in Proc THEN ActiveFor(running) ELSE cr3 = KERNEL

(* What a process's page directory maps.                                   *)
SpaceOf(t) ==
  pagedir[t] \in Page =>
    /\ \A v \in VPage : dirs[pagedir[t]].frames[v] # NULL => v \in UserPage
    /\ pc[t] \in {"free_name", "user"} => dirs[pagedir[t]].frames[StackPage] # NULL
Space == \A t \in Proc : SpaceOf(t)

(* The pages of a thread: of its file name, on the way into its page       *)
(* directory, and in the page directory; with the leaked pages, the busy   *)
(* thread's are all that is allocated, each once.                          *)
Dir(t) == IF pc[t] \in Leaving THEN local[t]
          ELSE IF pagedir[t] \in Page THEN pagedir[t] ELSE NULL
Name(t) == {fn[t]} \ {NULL}
Kpage(t) == IF pc[t] \in Leaving THEN {} ELSE {local[t]} \ {NULL}
Tree(t) == IF Dir(t) = NULL THEN {} ELSE DirPages(Dir(t))

Exact(t) == /\ used = leaked \cup Name(t) \cup Kpage(t) \cup Tree(t)
            /\ leaked \cap (Name(t) \cup Kpage(t) \cup Tree(t)) = {}
            /\ Name(t) \cap (Kpage(t) \cup Tree(t)) = {}
            /\ Kpage(t) \cap Tree(t) = {}
Busy(t) == IF t = Main THEN pc[Main] = "create" ELSE t \in Proc /\ pc[t] \notin Over
PagesExact == /\ \A t \in Thread : Busy(t) => Exact(t)
              /\ (\A t \in Thread : ~Busy(t)) => used = leaked
ProcessInv == ProcessTypeOK /\ Others /\ Shapes /\ Handshake /\ Active /\ Space /\ PagesExact

-----------------------------------------------------------------------------
(* Constants and arithmetic.                                               *)

LEMMA ProcessConstants ==
  /\ Proc \subseteq Thread /\ Main \in Thread /\ Idle \in Thread /\ Main # Idle
  /\ Main \notin Proc /\ Idle \notin Proc /\ NULL \notin Thread
  /\ \A t \in Thread : t \in Proc \/ t = Main \/ t = Idle
  /\ NULL \notin Page /\ GARBAGE \notin Page /\ KERNEL \notin Page /\ GARBAGE # NULL
  BY ProcessAssumption DEF Thread, Page

\* A nonempty set of natural numbers has a least element.
LEMMA LeastNatural ==
  ASSUME NEW T, T \subseteq Nat, T # {}
  PROVE  \E x \in T : \A y \in T : x <= y
  <1> DEFINE R == OpToRel(<, Nat)
  <1>1. IsWellFoundedOn(R, Nat)
    BY NatLessThanWellFounded
  <1>2. \A x, y \in Nat : y < x => <<y, x>> \in R
    BY DEF OpToRel
  <1> HIDE DEF R
  <1>3. PICK x \in T : \A y \in T : ~ (<<y, x>> \in R)
    BY <1>1, WFMin
  <1>4. x \in Nat /\ \A y \in T : y \in Nat /\ ~(y < x)
    BY <1>2, <1>3, Zenon
  <1> QED BY <1>4

LEMMA FirstFreeIsFree ==
  ASSUME Free # {} PROVE FirstFree \in Page /\ FirstFree \notin used
  <1>1. Free \subseteq Nat
    BY DEF Free, Page
  <1>2. \E p \in Free : \A q \in Free : p <= q
    BY <1>1, LeastNatural
  <1> QED BY <1>2 DEF FirstFree, Free

\* Division by a positive number.
LEMMA Division ==
  ASSUME NEW n \in Nat, NEW d \in Nat \ {0}
  PROVE  /\ n \div d \in Nat /\ n % d \in Nat /\ n % d < d
         /\ n = ((n \div d) * d) + (n % d)
         /\ \A q \in Nat : n < q * d => n \div d < q
         /\ \A q \in Nat : q * d <= n => q <= n \div d
  <1>1. n \div d \in Nat /\ n % d \in Nat /\ n % d < d /\ n = ((n \div d) * d) + (n % d)
    OBVIOUS
  <1>2. \A q \in Nat : n < q * d => n \div d < q
    OBVIOUS
  <1>3. \A q \in Nat : q * d <= n => q <= n \div d
    OBVIOUS
  <1> QED BY <1>1, <1>2, <1>3

\* The user's pages: the stack is the last of them.
LEMMA Layout ==
  /\ StackPage \in UserPage
  /\ UserPage \subseteq VPage
  /\ \A v \in UserPage : v < PHYS_BASE \div PGSIZE
  <1>1. /\ Word \in Nat /\ PHYS_BASE \in Nat /\ PGSIZE \in Nat \ {0}
        /\ PHYS_BASE % PGSIZE = 0 /\ Word % PGSIZE = 0 /\ PHYS_BASE < Word /\ PGSIZE < PHYS_BASE
    BY ProcessAssumption
  <1> DEFINE top == PHYS_BASE \div PGSIZE
             all == Word \div PGSIZE
  <1>2. top \in Nat /\ all \in Nat /\ PHYS_BASE = top * PGSIZE /\ Word = all * PGSIZE
    BY <1>1, Division
  <1>3. 1 < top /\ top < all
    <2> HIDE DEF top, all
    <2> QED BY <1>1, <1>2
  <1>4. UserPage = 1..(top - 1) /\ VPage = 0..(all - 1)
    BY DEF UserPage, StackPage, VPage
  <1>5. StackPage = top - 1
    BY DEF StackPage
  <1> HIDE DEF top, all
  <1>6. StackPage \in UserPage /\ UserPage \subseteq VPage
    BY <1>2, <1>3, <1>4, <1>5
  <1>7. \A v \in UserPage : v < top
    BY <1>2, <1>4
  <1> QED BY <1>6, <1>7 DEF top

(* validate_segment() lets only segments pass whose pages are the user's:  *)
(* not page 0, nothing at or above PHYS_BASE, nothing that wraps around.   *)
LEMMA SegmentFits ==
  ASSUME NEW h \in Phdr, ValidateSegment(h)
  PROVE  SegmentPages(h) \subseteq UserPage
  <1>1. /\ Word \in Nat /\ PHYS_BASE \in Nat /\ PGSIZE \in Nat \ {0}
        /\ PHYS_BASE % PGSIZE = 0 /\ Word % PGSIZE = 0 /\ PHYS_BASE < Word
    BY ProcessAssumption
  <1> DEFINE a == h.vaddr
             m == h.memsz
  <1>2. /\ a \in Nat /\ m \in Nat /\ a < Word /\ m < Word
        /\ a < PHYS_BASE /\ (a + m) % Word < PHYS_BASE /\ a <= (a + m) % Word /\ PGSIZE <= a /\ m # 0
    BY <1>1 DEF Phdr, Address, ValidateSegment, IsUser
  <1> DEFINE off == a % PGSIZE
             x == off + m
             k == (x + PGSIZE - 1) \div PGSIZE
             first == a \div PGSIZE
             top == PHYS_BASE \div PGSIZE
             all == Word \div PGSIZE
  <1>3. SegmentPages(h) =
          LET bytes == ((((x % Word) + PGSIZE - 1) \div PGSIZE) * PGSIZE) % Word
          IN  {v % all : v \in first..(first + (bytes \div PGSIZE) - 1)}
    BY DEF SegmentPages, RoundUp
  <1> HIDE DEF a, m
  <1>4. a + m < PHYS_BASE
    BY <1>1, <1>2
  <1>5. off \in Nat /\ first \in Nat /\ a = (first * PGSIZE) + off /\ 1 <= first
    BY <1>1, <1>2, Division
  <1>6. top \in Nat /\ all \in Nat /\ PHYS_BASE = top * PGSIZE /\ Word = all * PGSIZE
    BY <1>1, Division
  <1> HIDE DEF off, first, top, all
  <1>7. x \in Nat /\ x % Word = x /\ x <= a + m
    <2>1. off <= a
      BY <1>1, <1>2, Division DEF off
    <2> QED BY <1>1, <1>2, <1>4, <1>5, <2>1
  <1> HIDE DEF x
  <1>8. k \in Nat /\ k * PGSIZE <= x + PGSIZE - 1
    <2> DEFINE n == x + PGSIZE - 1
    <2>1. n \in Nat
      BY <1>1, <1>7
    <2> HIDE DEF n
    <2>2. n \div PGSIZE \in Nat /\ n = ((n \div PGSIZE) * PGSIZE) + (n % PGSIZE) /\ n % PGSIZE \in Nat
      BY <1>1, <2>1, Division
    <2>3. (n \div PGSIZE) * PGSIZE <= n
      BY <1>1, <2>1, <2>2
    <2> QED BY <2>2, <2>3 DEF n
  <1> HIDE DEF k
  <1>9. (first + k - 1) * PGSIZE < a + m
    BY <1>1, <1>2, <1>5, <1>7, <1>8 DEF x
  <1>10. first + k - 1 < top
    BY <1>1, <1>2, <1>4, <1>5, <1>6, <1>8, <1>9
  <1>11. k * PGSIZE < Word
    BY <1>1, <1>2, <1>5, <1>6, <1>8, <1>10
  <1>12. (k * PGSIZE) % Word = k * PGSIZE /\ (k * PGSIZE) \div PGSIZE = k
    BY <1>1, <1>8, <1>11
  <1>13. SegmentPages(h) = {v % all : v \in first..(first + k - 1)}
    BY <1>3, <1>7, <1>12 DEF k
  <1>14. top < all
    BY <1>1, <1>6
  <1>15. ASSUME NEW v \in first..(first + k - 1) PROVE v % all \in 1..(top - 1)
    <2>1. v \in Nat /\ 1 <= v /\ v < top /\ v < all
      BY <1>5, <1>6, <1>8, <1>10, <1>14, <1>15
    <2>2. v % all = v
      BY <1>6, <2>1
    <2> QED BY <1>6, <2>1, <2>2
  <1>16. UserPage = 1..(top - 1)
    BY DEF UserPage, StackPage, top
  <1> QED BY <1>13, <1>15, <1>16

-----------------------------------------------------------------------------
(* Page directories.                                                       *)

\* Every virtual page has its place in some page table.
LEMMA TableOfPage == \A v \in VPage : v \div TableSpan \in Table
  <1> DEFINE all == Word \div PGSIZE
  <1>1. all \in Nat /\ TableSpan \in Nat \ {0}
    BY ProcessAssumption, Division
  <1> SUFFICES ASSUME NEW v \in 0..(all - 1) PROVE v \div TableSpan \in 0..(all \div TableSpan)
    BY DEF VPage, Table
  <1> HIDE DEF all
  <1>2. v \div TableSpan \in Nat /\ all \div TableSpan \in Nat
    BY <1>1, Division
  <1>3. v \div TableSpan <= all \div TableSpan
    BY <1>1
  <1> QED BY <1>2, <1>3

\* A page directory holds its own page, and pages of the pool.
LEMMA TreePages ==
  ASSUME NEW d \in Page, dirs \in [Page -> DirType]
  PROVE  d \in DirPages(d) /\ DirPages(d) \subseteq Page /\ NULL \notin DirPages(d)
  <1>1. NULL \notin Page
    BY ProcessConstants
  <1>2. ASSUME NEW v \in VPage, v < PHYS_BASE \div PGSIZE
        PROVE  /\ dirs[d].frames[v] \in Page \cup {NULL}
               /\ dirs[d].tables[v \div TableSpan] \in Page \cup {NULL}
    BY TableOfPage DEF DirType
  <1> QED BY <1>1, <1>2 DEF DirPages

\* A page directory that does not change.
LEMMA TreeKept ==
  ASSUME NEW d \in Page, dirs'[d] = dirs[d] PROVE DirPages(d)' = DirPages(d)
  BY DEF DirPages

\* A new page directory is all it holds.
LEMMA TreeBlank ==
  ASSUME NEW d \in Page, dirs'[d] = Blank PROVE DirPages(d)' = {d}
  <1>1. ASSUME NEW v \in VPage
        PROVE  dirs'[d].frames[v] = NULL /\ dirs'[d].tables[v \div TableSpan] = NULL
    BY TableOfPage DEF Blank
  <1> QED BY <1>1, ProcessConstants DEF DirPages

\* install_page(): the tree grows by the page, and by a page table if there was none.
LEMMA TreeGrows ==
  ASSUME NEW d \in Page, dirs \in [Page -> DirType], NEW v \in UserPage, NEW k \in Page,
         dirs[d].frames[v] = NULL,
         dirs'[d].frames = [dirs[d].frames EXCEPT ![v] = k],
         NEW f \in Page \cup {NULL},
         \/ f = NULL /\ dirs'[d].tables = dirs[d].tables
         \/ /\ f \in Page /\ dirs[d].tables[v \div TableSpan] = NULL
            /\ dirs'[d].tables = [dirs[d].tables EXCEPT ![v \div TableSpan] = f]
  PROVE  DirPages(d)' = DirPages(d) \cup {k} \cup ({f} \ {NULL})
  <1> DEFINE user == {w \in VPage : w < PHYS_BASE \div PGSIZE}
             i == v \div TableSpan
  <1>1. v \in user /\ i \in Table /\ v \in VPage
    BY Layout, TableOfPage
  <1>2. NULL \notin Page
    BY ProcessConstants
  <1>3. dirs[d].frames \in [VPage -> Page \cup {NULL}] /\ dirs[d].tables \in [Table -> Page \cup {NULL}]
    BY DEF DirType
  <1>4. {dirs'[d].frames[w] : w \in user} \ {NULL} = ({dirs[d].frames[w] : w \in user} \ {NULL}) \cup {k}
    BY <1>1, <1>2, <1>3
  <1>5. {dirs'[d].tables[w \div TableSpan] : w \in user} \ {NULL}
          = ({dirs[d].tables[w \div TableSpan] : w \in user} \ {NULL}) \cup ({f} \ {NULL})
    <2>1. CASE f = NULL
      BY <1>2, <2>1
    <2>2. CASE f # NULL
      <3>1. /\ f \in Page /\ dirs[d].tables[i] = NULL
            /\ dirs'[d].tables = [dirs[d].tables EXCEPT ![i] = f]
        BY <2>2
      <3>2. \A w \in user : /\ w \div TableSpan \in Table
                            /\ dirs'[d].tables[w \div TableSpan] =
                                 IF w \div TableSpan = i THEN f ELSE dirs[d].tables[w \div TableSpan]
        BY <1>3, <3>1, TableOfPage
      <3> HIDE DEF user
      <3> QED BY <1>1, <1>2, <2>2, <3>1, <3>2
    <2> QED BY <2>1, <2>2
  <1>6. DirPages(d) = ({d} \cup {dirs[d].tables[w \div TableSpan] : w \in user}
                           \cup {dirs[d].frames[w] : w \in user}) \ {NULL}
    BY DEF DirPages
  <1>7. DirPages(d)' = ({d} \cup {dirs'[d].tables[w \div TableSpan] : w \in user}
                           \cup {dirs'[d].frames[w] : w \in user}) \ {NULL}
    BY DEF DirPages
  <1> HIDE DEF user
  <1> QED BY <1>2, <1>4, <1>5, <1>6, <1>7

-----------------------------------------------------------------------------
(* The steps of a process.                                                 *)

\* Only one thread is busy: run_task() before thread_create(), or one process.
LEMMA OneBusy ==
  ASSUME ProcessInv, NEW t \in Proc, pc[t] \notin Over
  PROVE  /\ Busy(t) /\ Exact(t) /\ Shape(t) /\ SpaceOf(t) /\ child = t /\ temporary = 0
         /\ pc[Main] \in {"wait", "asleep"} /\ fn[Main] = NULL
         /\ \A u \in Thread : u # t => ~Busy(u)
         /\ \A u \in Proc : u # t => pc[u] \in Over
         /\ running = t => ActiveFor(t)
  BY ProcessConstants DEF ProcessInv, Busy, PagesExact, Shapes, Space, Handshake, Others, Active

(* A step of the running process that concerns itself and memory.          *)
LEMMA ProcessStep ==
  ASSUME ProcessInv, NEW t \in Proc, running = t, pc[t] \notin Over,
         UNCHANGED <<running, temporary, child>>, leaked \subseteq leaked', ProcessTypeOK',
         \A u \in Thread : u # t => /\ pc'[u] = pc[u] /\ has_pcb'[u] = has_pcb[u]
                                    /\ pagedir'[u] = pagedir[u] /\ fn'[u] = fn[u]
                                    /\ local'[u] = local[u],
         \A u \in Proc : u # t => loading'[u] = loading[u],
         pc'[t] \notin Over, Shape(t)', ActiveFor(t)', SpaceOf(t)', Exact(t)'
  PROVE  ProcessInv'
  <1>0. /\ \A u \in Proc : u # t => pc[u] \in Over
        /\ \A u \in Thread : u # t => ~Busy(u)
        /\ Main \in Thread /\ Idle \in Thread /\ Main # t /\ Idle # t /\ t \in Thread
        /\ Proc \subseteq Thread /\ Main \notin Proc /\ GARBAGE \notin Page
    BY OneBusy, ProcessConstants
  <1>1. Others'
    BY <1>0 DEF ProcessInv, Others
  <1>2. Shapes'
    <2>1. ASSUME NEW u \in Proc, u # t PROVE Shape(u)'
      BY <1>0, <2>1 DEF ProcessInv, Shapes, Shape
    <2> QED BY <2>1 DEF Shapes
  <1>3. Handshake'
    BY <1>0 DEF ProcessInv, Handshake
  <1>4. Active'
    BY DEF Active
  <1>5. Space'
    <2>1. ASSUME NEW u \in Proc, u # t PROVE SpaceOf(u)'
      <3>1. pagedir'[u] = GARBAGE
        BY <1>0, <2>1 DEF ProcessInv, Shapes, Shape, Over, NoPagedir
      <3> QED BY <1>0, <3>1 DEF SpaceOf, Page
    <2> QED BY <2>1 DEF Space
  <1>6. PagesExact'
    <2>1. Busy(t)' /\ \A u \in Thread : u # t => ~Busy(u)'
      BY <1>0 DEF Busy
    <2> QED BY <1>0, <2>1 DEF PagesExact
  <1> QED BY <1>1, <1>2, <1>3, <1>4, <1>5, <1>6 DEF ProcessInv

\* The process keeps the pages it has.
LEMMA PagesKept ==
  ASSUME NEW t \in Proc, Exact(t), UNCHANGED memory,
         fn'[t] = fn[t], Kpage(t)' = Kpage(t), Dir(t)' = Dir(t)
  PROVE  Exact(t)'
  BY DEF Exact, Name, Tree, memory, DirPages

(* A step of a process that allocates, maps and frees nothing.             *)
LEMMA QuietStep ==
  ASSUME ProcessInv, NEW t \in Proc, running = t, pc[t] \notin Over,
         UNCHANGED <<running, temporary, child, memory, fn>>, ProcessTypeOK',
         \A u \in Thread : u # t => /\ pc'[u] = pc[u] /\ has_pcb'[u] = has_pcb[u]
                                    /\ pagedir'[u] = pagedir[u] /\ local'[u] = local[u],
         \A u \in Proc : u # t => loading'[u] = loading[u],
         pc'[t] \notin Over \cup {"free_name", "user"}, Shape(t)', ActiveFor(t)',
         pagedir'[t] \in {pagedir[t], NULL, GARBAGE},
         Kpage(t)' = Kpage(t), Dir(t)' = Dir(t)
  PROVE  ProcessInv'
  <1>1. Exact(t)'
    BY OneBusy, PagesKept
  <1>2. SpaceOf(t)'
    BY OneBusy, ProcessConstants DEF SpaceOf, memory
  <1> QED BY <1>1, <1>2, ProcessStep DEF memory

\* start_process() up to load(): no directory yet.
LEMMA StartInv ==
  ASSUME ProcessInv, NEW t \in Proc, MallocPcb(t) \/ ClearPagedir(t) \/ SetPcb(t)
  PROVE  ProcessInv'
  <1>0. /\ ProcessTypeOK /\ t \in Thread /\ NULL \notin Page /\ GARBAGE \notin Page
    BY ProcessConstants DEF ProcessInv
  <1>1. CASE MallocPcb(t)
    <2>1. /\ running = t /\ pc[t] = "malloc" /\ pc'[t] \in {"clear_pagedir", "failed"}
          /\ UNCHANGED <<running, cr3, memory, has_pcb, pagedir, fn, local, phdrs, loading, temporary, child>>
          /\ \A u \in Thread : u # t => pc'[u] = pc[u]
      BY <1>0, <1>1 DEF MallocPcb, At, Goto, ProcessTypeOK
    <2>2. ProcessTypeOK'
      BY <1>0, <1>1 DEF MallocPcb, At, Goto, ProcessTypeOK, ProcLabel, Starting, memory
    <2>3. Shape(t) /\ ActiveFor(t)
      BY <2>1, OneBusy DEF Over
    <2>4. Shape(t)' /\ ActiveFor(t)' /\ Kpage(t)' = Kpage(t) /\ Dir(t)' = Dir(t)
      BY <1>0, <2>1, <2>3 DEF Shape, ActiveFor, Kpage, Dir, ProcLabel, HasPcb, HasSpace, Starting,
        NoPagedir, Leaving, memory, Page
    <2> QED BY <1>0, <2>1, <2>2, <2>4, QuietStep DEF Over
  <1>2. CASE ClearPagedir(t)
    <2>1. /\ running = t /\ pc[t] = "clear_pagedir" /\ pc'[t] = "set_pcb" /\ pagedir'[t] = NULL
          /\ UNCHANGED <<running, cr3, memory, has_pcb, fn, local, phdrs, loading, temporary, child>>
          /\ \A u \in Thread : u # t => pc'[u] = pc[u] /\ pagedir'[u] = pagedir[u]
      BY <1>0, <1>2 DEF ClearPagedir, At, Goto, ProcessTypeOK
    <2>2. ProcessTypeOK'
      BY <1>0, <1>2 DEF ClearPagedir, At, Goto, ProcessTypeOK, ProcLabel, Starting, memory
    <2>3. Shape(t) /\ ActiveFor(t)
      BY <2>1, OneBusy DEF Over
    <2>4. Shape(t)' /\ ActiveFor(t)' /\ Kpage(t)' = Kpage(t) /\ Dir(t)' = Dir(t)
      BY <1>0, <2>1, <2>3 DEF Shape, ActiveFor, Kpage, Dir, ProcLabel, HasPcb, HasSpace, Starting,
        NoPagedir, Leaving, memory, Page
    <2> QED BY <1>0, <2>1, <2>2, <2>4, QuietStep DEF Over
  <1>3. CASE SetPcb(t)
    <2>1. /\ running = t /\ pc[t] = "set_pcb" /\ pc'[t] = "load" /\ has_pcb'[t] = TRUE
          /\ UNCHANGED <<running, cr3, memory, pagedir, fn, local, phdrs, loading, temporary, child>>
          /\ \A u \in Thread : u # t => pc'[u] = pc[u] /\ has_pcb'[u] = has_pcb[u]
      BY <1>0, <1>3 DEF SetPcb, At, Goto, ProcessTypeOK
    <2>2. ProcessTypeOK'
      BY <1>0, <1>3 DEF SetPcb, At, Goto, ProcessTypeOK, ProcLabel, Starting, memory
    <2>3. Shape(t) /\ ActiveFor(t)
      BY <2>1, OneBusy DEF Over
    <2>4. Shape(t)' /\ ActiveFor(t)' /\ Kpage(t)' = Kpage(t) /\ Dir(t)' = Dir(t)
      BY <1>0, <2>1, <2>3 DEF Shape, ActiveFor, Kpage, Dir, ProcLabel, HasPcb, HasSpace, Starting,
        NoPagedir, Leaving, memory, Page
    <2> QED BY <1>0, <2>1, <2>2, <2>4, QuietStep DEF Over
  <1> QED BY <1>1, <1>2, <1>3

\* load(): the directory is activated, the executable opened.
LEMMA LoadInv ==
  ASSUME ProcessInv, NEW t \in Proc, ProcessActivate(t) \/ OpenExecutable(t)
  PROVE  ProcessInv'
  <1>0. /\ ProcessTypeOK /\ t \in Thread /\ NULL \notin Page /\ GARBAGE \notin Page
    BY ProcessConstants DEF ProcessInv
  <1>1. CASE ProcessActivate(t)
    <2>1. /\ running = t /\ pc[t] = "activate"
          /\ pc'[t] = "open" /\ cr3' = Directory(t)
          /\ UNCHANGED <<running, memory, has_pcb, pagedir, fn, local, phdrs, loading, temporary, child>>
          /\ \A u \in Thread : u # t => pc'[u] = pc[u]
      BY <1>0, <1>1 DEF ProcessActivate, At, Goto, ProcessTypeOK, Directory
    <2>2. Shape(t) /\ ActiveFor(t)
      BY <2>1, OneBusy DEF Over
    <2>3. ProcessTypeOK'
      <3>1. cr3' \in Page
        BY <1>0, <2>1, <2>2 DEF Shape, HasSpace, HasPcb, Directory
      <3> QED BY <1>0, <1>1, <3>1 DEF ProcessActivate, At, Goto, ProcessTypeOK, ProcLabel, Starting, memory
    <2>4. Shape(t)' /\ ActiveFor(t)' /\ Kpage(t)' = Kpage(t) /\ Dir(t)' = Dir(t)
      BY <1>0, <2>1, <2>2 DEF Shape, ActiveFor, Kpage, Dir, ProcLabel, HasPcb, HasSpace, Starting,
        NoPagedir, Leaving, memory, Page, Directory
    <2> QED BY <1>0, <2>1, <2>3, <2>4, QuietStep DEF Over
  <1>2. CASE OpenExecutable(t)
    <2>1. /\ running = t /\ pc[t] = "open"
          /\ pc'[t] \in {"headers", "drop_pcb"}
          /\ UNCHANGED <<running, cr3, memory, has_pcb, pagedir, fn, local, loading, temporary, child>>
          /\ \A u \in Thread : u # t => pc'[u] = pc[u]
      BY <1>0, <1>2 DEF OpenExecutable, At, Goto, ProcessTypeOK
    <2>2. Shape(t) /\ ActiveFor(t)
      BY <2>1, OneBusy DEF Over
    <2>3. ProcessTypeOK'
      <3>1. phdrs' \in [Proc -> Seq(Phdr)]
        BY <1>0, <1>2, ProcessAssumption DEF OpenExecutable, ProcessTypeOK
      <3> QED BY <1>0, <1>2, <3>1 DEF OpenExecutable, At, Goto, ProcessTypeOK, ProcLabel, Starting, memory
    <2>4. Shape(t)' /\ ActiveFor(t)' /\ Kpage(t)' = Kpage(t) /\ Dir(t)' = Dir(t)
      BY <1>0, <2>1, <2>2 DEF Shape, ActiveFor, Kpage, Dir, ProcLabel, HasPcb, HasSpace, Starting,
        NoPagedir, Leaving, memory, Page
    <2> QED BY <1>0, <2>1, <2>3, <2>4, QuietStep DEF Over
  <1> QED BY <1>1, <1>2

\* A failed start_process() and process_exit() take the PCB down.
LEMMA TakeDownInv ==
  ASSUME ProcessInv, NEW t \in Proc, DropPcb(t) \/ ProcessExit(t) \/ ActivateKernel(t) \/ ExitDropPcb(t) \/ ExitFreePcb(t)
  PROVE  ProcessInv'
  <1>0. /\ ProcessTypeOK /\ t \in Thread /\ NULL \notin Page /\ GARBAGE \notin Page
    BY ProcessConstants DEF ProcessInv
  <1>1. CASE DropPcb(t)
    <2>1. /\ running = t /\ pc[t] = "drop_pcb"
          /\ pc'[t] = "free_pcb" /\ has_pcb'[t] = FALSE
          /\ UNCHANGED <<running, cr3, memory, pagedir, fn, local, temporary, child>>
          /\ \A u \in Thread : u # t => pc'[u] = pc[u] /\ has_pcb'[u] = has_pcb[u]
          /\ \A u \in Proc : u # t => loading'[u] = loading[u]
      BY <1>0, <1>1 DEF DropPcb, At, Goto, ProcessTypeOK
    <2>2. ProcessTypeOK'
      BY <1>0, <1>1 DEF DropPcb, At, Goto, ProcessTypeOK, ProcLabel, Starting, Leaving, memory
    <2>3. Shape(t) /\ ActiveFor(t)
      BY <2>1, OneBusy DEF Over
    <2>4. Shape(t)' /\ ActiveFor(t)' /\ Kpage(t)' = Kpage(t) /\ Dir(t)' = Dir(t)
      BY <1>0, <2>1, <2>3 DEF Shape, ActiveFor, Kpage, Dir, ProcLabel, HasPcb, HasSpace, Starting,
        NoPagedir, Leaving, memory, Page
    <2> QED BY <1>0, <2>1, <2>2, <2>4, QuietStep DEF Over
  <1>2. CASE ProcessExit(t)
    <2>1. /\ running = t /\ pc[t] = "user"
          /\ pc'[t] = "activate_kernel" /\ local'[t] = pagedir[t] /\ pagedir'[t] = NULL
          /\ UNCHANGED <<running, cr3, memory, has_pcb, fn, phdrs, loading, temporary, child>>
          /\ \A u \in Thread : u # t => pc'[u] = pc[u] /\ pagedir'[u] = pagedir[u] /\ local'[u] = local[u]
      BY <1>0, <1>2 DEF ProcessExit, At, Goto, ProcessTypeOK
    <2>2. Shape(t) /\ ActiveFor(t)
      BY <2>1, OneBusy DEF Over
    <2>3. ProcessTypeOK'
      <3>1. pagedir[t] \in Page
        BY <2>1, <2>2 DEF Shape, HasSpace
      <3> QED BY <1>0, <1>2, <3>1 DEF ProcessExit, At, Goto, ProcessTypeOK, ProcLabel, Leaving, memory
    <2>4. Shape(t)' /\ ActiveFor(t)' /\ Kpage(t)' = Kpage(t) /\ Dir(t)' = Dir(t)
      BY <1>0, <2>1, <2>2 DEF Shape, ActiveFor, Kpage, Dir, ProcLabel, HasPcb, HasSpace, Starting,
        NoPagedir, Leaving, memory, Page
    <2> QED BY <1>0, <2>1, <2>3, <2>4, QuietStep DEF Over
  <1>3. CASE ActivateKernel(t)
    <2>1. /\ running = t /\ pc[t] = "activate_kernel"
          /\ pc'[t] = "destroy" /\ cr3' = KERNEL
          /\ UNCHANGED <<running, memory, has_pcb, pagedir, fn, local, phdrs, loading, temporary, child>>
          /\ \A u \in Thread : u # t => pc'[u] = pc[u]
      BY <1>0, <1>3 DEF ActivateKernel, At, Goto, ProcessTypeOK
    <2>2. ProcessTypeOK'
      BY <1>0, <1>3 DEF ActivateKernel, At, Goto, ProcessTypeOK, ProcLabel, Starting, Leaving, memory
    <2>3. Shape(t) /\ ActiveFor(t)
      BY <2>1, OneBusy DEF Over
    <2>4. Shape(t)' /\ ActiveFor(t)' /\ Kpage(t)' = Kpage(t) /\ Dir(t)' = Dir(t)
      BY <1>0, <2>1, <2>3 DEF Shape, ActiveFor, Kpage, Dir, ProcLabel, HasPcb, HasSpace, Starting,
        NoPagedir, Leaving, memory, Page
    <2> QED BY <1>0, <2>1, <2>2, <2>4, QuietStep DEF Over
  <1>4. CASE ExitDropPcb(t)
    <2>1. /\ running = t /\ pc[t] = "exit_drop"
          /\ pc'[t] = "exit_free" /\ has_pcb'[t] = FALSE
          /\ UNCHANGED <<running, cr3, memory, pagedir, fn, local, phdrs, loading, temporary, child>>
          /\ \A u \in Thread : u # t => pc'[u] = pc[u] /\ has_pcb'[u] = has_pcb[u]
      BY <1>0, <1>4 DEF ExitDropPcb, At, Goto, ProcessTypeOK
    <2>2. ProcessTypeOK'
      BY <1>0, <1>4 DEF ExitDropPcb, At, Goto, ProcessTypeOK, ProcLabel, Starting, Leaving, memory
    <2>3. Shape(t) /\ ActiveFor(t)
      BY <2>1, OneBusy DEF Over
    <2>4. Shape(t)' /\ ActiveFor(t)' /\ Kpage(t)' = Kpage(t) /\ Dir(t)' = Dir(t)
      BY <1>0, <2>1, <2>3 DEF Shape, ActiveFor, Kpage, Dir, ProcLabel, HasPcb, HasSpace, Starting,
        NoPagedir, Leaving, memory, Page
    <2> QED BY <1>0, <2>1, <2>2, <2>4, QuietStep DEF Over
  <1>5. CASE ExitFreePcb(t)
    <2>1. /\ running = t /\ pc[t] = "exit_free"
          /\ pc'[t] = "up" /\ pagedir'[t] = GARBAGE
          /\ UNCHANGED <<running, cr3, memory, has_pcb, fn, local, phdrs, loading, temporary, child>>
          /\ \A u \in Thread : u # t => pc'[u] = pc[u] /\ pagedir'[u] = pagedir[u]
      BY <1>0, <1>5 DEF ExitFreePcb, At, Goto, ProcessTypeOK
    <2>2. ProcessTypeOK'
      BY <1>0, <1>5 DEF ExitFreePcb, At, Goto, ProcessTypeOK, ProcLabel, Starting, Leaving, memory
    <2>3. Shape(t) /\ ActiveFor(t)
      BY <2>1, OneBusy DEF Over
    <2>4. Shape(t)' /\ ActiveFor(t)' /\ Kpage(t)' = Kpage(t) /\ Dir(t)' = Dir(t)
      BY <1>0, <2>1, <2>3 DEF Shape, ActiveFor, Kpage, Dir, ProcLabel, HasPcb, HasSpace, Starting,
        NoPagedir, Leaving, memory, Page
    <2> QED BY <1>0, <2>1, <2>2, <2>4, QuietStep DEF Over
  <1> QED BY <1>1, <1>2, <1>3, <1>4, <1>5

\* One program header: what load_segment() is to load are user pages.
LEMMA NextHeaderInv ==
  ASSUME ProcessInv, NEW t \in Proc, NextHeader(t)
  PROVE  ProcessInv'
  <1>0. /\ ProcessTypeOK /\ t \in Thread /\ NULL \notin Page /\ GARBAGE \notin Page
    BY ProcessConstants DEF ProcessInv
  <1>1. /\ running = t /\ pc[t] = "headers" /\ loading[t] = {}
        /\ UNCHANGED <<running, cr3, memory, has_pcb, pagedir, fn, local, temporary, child>>
    BY DEF NextHeader, At
  <1>2. Shape(t) /\ ActiveFor(t)
    BY <1>1, OneBusy DEF Over
  <1>3. phdrs[t] \in Seq(Phdr)
    BY <1>0 DEF ProcessTypeOK
  <1>4. /\ pc'[t] \in {"headers", "stack", "drop_pcb"} /\ pc' = [pc EXCEPT ![t] = pc'[t]]
        /\ phdrs'[t] \in Seq(Phdr) /\ phdrs' = [phdrs EXCEPT ![t] = phdrs'[t]]
        /\ loading'[t] \in SUBSET UserPage /\ loading' = [loading EXCEPT ![t] = loading'[t]]
    <2>0. pc \in [Thread -> ProcLabel \cup {"execute", "create", "wait", "asleep", "idle"}]
          /\ phdrs \in [Proc -> Seq(Phdr)] /\ loading \in [Proc -> SUBSET UserPage]
      BY <1>0 DEF ProcessTypeOK
    <2>1. CASE phdrs[t] = <<>>
      BY <1>0, <1>1, <2>0, <2>1 DEF NextHeader, Goto
    <2>2. CASE phdrs[t] # <<>>
      <3> DEFINE h == Head(phdrs[t])
      <3>1. h \in Phdr /\ Tail(phdrs[t]) \in Seq(Phdr)
        BY <1>3, <2>2
      <3>2. CASE h.type = "other" /\ phdrs' = [phdrs EXCEPT ![t] = Tail(@)] /\ UNCHANGED <<pc, loading>>
        BY <1>0, <1>1, <2>0, <3>1, <3>2
      <3>3. CASE /\ ValidateSegment(h) /\ loading' = [loading EXCEPT ![t] = SegmentPages(h)]
                 /\ phdrs' = [phdrs EXCEPT ![t] = Tail(@)] /\ UNCHANGED pc
        <4>1. SegmentPages(h) \subseteq UserPage
          BY <3>1, <3>3, SegmentFits
        <4> QED BY <1>0, <1>1, <2>0, <3>1, <3>3, <4>1
      <3>4. CASE Goto(t, "drop_pcb") /\ UNCHANGED <<phdrs, loading>>
        BY <1>0, <1>1, <2>0, <3>4 DEF Goto
      <3> QED BY <2>2, <3>2, <3>3, <3>4 DEF NextHeader
    <2> QED BY <2>1, <2>2
  <1>5. /\ \A u \in Thread : u # t => pc'[u] = pc[u]
        /\ \A u \in Proc : u # t => loading'[u] = loading[u]
    BY <1>0, <1>4 DEF ProcessTypeOK
  <1>6. ProcessTypeOK'
    <2>1. /\ pc' \in [Thread -> ProcLabel \cup {"execute", "create", "wait", "asleep", "idle"}]
          /\ phdrs' \in [Proc -> Seq(Phdr)] /\ loading' \in [Proc -> SUBSET UserPage]
      BY <1>0, <1>4 DEF ProcessTypeOK, ProcLabel, Starting
    <2> QED BY <1>0, <1>1, <2>1 DEF ProcessTypeOK, memory
  <1>7. local[t] = NULL
    BY <1>1, <1>2 DEF Shape
  <1>8. Shape(t)' /\ ActiveFor(t)' /\ Kpage(t)' = Kpage(t) /\ Dir(t)' = Dir(t)
    BY <1>0, <1>1, <1>2, <1>4, <1>7 DEF Shape, ActiveFor, Kpage, Dir, ProcLabel, HasPcb, HasSpace,
      Starting, NoPagedir, Leaving, memory, Page
  <1> QED BY <1>0, <1>1, <1>4, <1>5, <1>6, <1>8, QuietStep DEF Over

\* pagedir_create(): the new directory is empty.
LEMMA PagedirCreateInv ==
  ASSUME ProcessInv, NEW t \in Proc, PagedirCreate(t)
  PROVE  ProcessInv'
  <1>0. /\ ProcessTypeOK /\ t \in Thread /\ NULL \notin Page /\ GARBAGE \notin Page
    BY ProcessConstants DEF ProcessInv
  <1>1. /\ running = t /\ pc[t] = "load"
        /\ UNCHANGED <<running, cr3, leaked, has_pcb, fn, local, phdrs, loading, temporary, child>>
    BY DEF PagedirCreate, At
  <1>2. Shape(t) /\ ActiveFor(t) /\ Exact(t)
    BY <1>1, OneBusy DEF Over
  <1>3. Kpage(t) = {} /\ Tree(t) = {}
    BY <1>0, <1>1, <1>2 DEF Kpage, Tree, Dir, Shape, Leaving, Page
  <1>4. CASE Goto(t, "drop_pcb") /\ UNCHANGED <<used, dirs, pagedir>>
    <2>1. pc'[t] = "drop_pcb" /\ \A u \in Thread : u # t => pc'[u] = pc[u]
      BY <1>0, <1>4 DEF Goto, ProcessTypeOK
    <2>2. ProcessTypeOK'
      BY <1>0, <1>1, <1>4 DEF Goto, ProcessTypeOK, ProcLabel, Starting
    <2>3. Shape(t)' /\ ActiveFor(t)' /\ Kpage(t)' = Kpage(t) /\ Dir(t)' = Dir(t)
      BY <1>0, <1>1, <1>2, <1>4, <2>1 DEF Shape, ActiveFor, Kpage, Dir, ProcLabel, HasPcb, HasSpace,
        Starting, NoPagedir, Leaving, Page
    <2> QED BY <1>0, <1>1, <1>4, <2>1, <2>2, <2>3, QuietStep DEF Over, memory
  <1>5. CASE /\ Free # {} /\ used' = used \cup {FirstFree} /\ dirs' = [dirs EXCEPT ![FirstFree] = Blank]
             /\ pagedir' = [pagedir EXCEPT ![t] = FirstFree] /\ Goto(t, "activate")
    <2> DEFINE f == FirstFree
    <2>1. f \in Page /\ f \notin used
      BY <1>5, FirstFreeIsFree
    <2> HIDE DEF f
    <2>2. /\ used' = used \cup {f} /\ dirs' = [dirs EXCEPT ![f] = Blank]
          /\ pagedir' = [pagedir EXCEPT ![t] = f]
      BY <1>5 DEF f
    <2>3. Blank \in DirType
      BY DEF Blank, DirType
    <2>4. /\ pc'[t] = "activate" /\ pagedir'[t] = f /\ dirs'[f] = Blank
          /\ \A u \in Thread : u # t => pc'[u] = pc[u] /\ pagedir'[u] = pagedir[u]
      BY <1>0, <1>5, <2>1, <2>2 DEF Goto, ProcessTypeOK
    <2>5. ProcessTypeOK'
      BY <1>0, <1>1, <1>5, <2>1, <2>2, <2>3 DEF Goto, ProcessTypeOK, ProcLabel, Starting
    <2>6. Shape(t)' /\ ActiveFor(t)' /\ Kpage(t)' = {} /\ Dir(t)' = f
      BY <1>0, <1>1, <1>2, <2>1, <2>4 DEF Shape, ActiveFor, Kpage, Dir, ProcLabel, HasPcb, HasSpace,
        Starting, NoPagedir, Leaving, Page
    <2>7. Tree(t)' = {f} /\ Name(t)' = Name(t)
      BY <1>0, <1>1, <2>1, <2>4, <2>6, TreeBlank DEF Tree, Name
    <2>8. Exact(t)'
      BY <1>1, <1>2, <1>3, <2>1, <2>2, <2>6, <2>7 DEF Exact
    <2>9. SpaceOf(t)'
      BY <2>4 DEF SpaceOf, Blank
    <2> QED BY <1>0, <1>1, <2>4, <2>5, <2>6, <2>8, <2>9, ProcessStep DEF Over
  <1> QED BY <1>4, <1>5 DEF PagedirCreate

\* A page on its way into the directory.
LEMMA GetPageInv ==
  ASSUME ProcessInv, NEW t \in Proc, GetPage(t)
  PROVE  ProcessInv'
  <1>0. /\ ProcessTypeOK /\ t \in Thread /\ NULL \notin Page /\ GARBAGE \notin Page
    BY ProcessConstants DEF ProcessInv
  <1>1. /\ running = t /\ pc[t] \in {"headers", "stack"} /\ local[t] = NULL
        /\ (pc[t] = "headers" => loading[t] # {})
        /\ UNCHANGED <<running, cr3, dirs, leaked, has_pcb, pagedir, fn, phdrs, loading, temporary, child>>
    BY DEF GetPage, At
  <1>2. Shape(t) /\ ActiveFor(t) /\ Exact(t) /\ SpaceOf(t)
    BY <1>1, OneBusy DEF Over
  <1>3. CASE Goto(t, "drop_pcb") /\ UNCHANGED <<used, local>>
    <2>1. pc'[t] = "drop_pcb" /\ \A u \in Thread : u # t => pc'[u] = pc[u]
      BY <1>0, <1>3 DEF Goto, ProcessTypeOK
    <2>2. ProcessTypeOK'
      BY <1>0, <1>1, <1>3 DEF Goto, ProcessTypeOK, ProcLabel, Starting
    <2>3. Shape(t)' /\ ActiveFor(t)' /\ Kpage(t)' = Kpage(t) /\ Dir(t)' = Dir(t)
      BY <1>0, <1>1, <1>2, <1>3, <2>1 DEF Shape, ActiveFor, Kpage, Dir, ProcLabel, HasPcb, HasSpace,
        Starting, NoPagedir, Leaving, Page
    <2> QED BY <1>0, <1>1, <1>3, <2>1, <2>2, <2>3, QuietStep DEF Over, memory
  <1>4. CASE /\ Free # {} /\ used' = used \cup {FirstFree}
             /\ local' = [local EXCEPT ![t] = FirstFree] /\ UNCHANGED pc
    <2> DEFINE f == FirstFree
    <2>1. f \in Page /\ f \notin used
      BY <1>4, FirstFreeIsFree
    <2> HIDE DEF f
    <2>2. used' = used \cup {f} /\ local' = [local EXCEPT ![t] = f]
      BY <1>4 DEF f
    <2>3. local'[t] = f /\ \A u \in Thread : u # t => local'[u] = local[u]
      BY <1>0, <2>2 DEF ProcessTypeOK
    <2>4. ProcessTypeOK'
      BY <1>0, <1>1, <1>4, <2>1, <2>2 DEF ProcessTypeOK
    <2>5. Shape(t)' /\ ActiveFor(t)' /\ Dir(t)' = Dir(t)
      BY <1>0, <1>1, <1>2, <1>4, <2>1, <2>3 DEF Shape, ActiveFor, Dir, ProcLabel, HasPcb, HasSpace,
        Starting, NoPagedir, Leaving, Page
    <2>6. Kpage(t) = {} /\ Kpage(t)' = {f} /\ Name(t)' = Name(t)
      BY <1>0, <1>1, <1>4, <2>1, <2>3 DEF Kpage, Leaving, Name
    <2>7. Tree(t)' = Tree(t)
      BY <1>1, <2>5 DEF Tree, DirPages
    <2>8. Exact(t)'
      BY <1>1, <1>2, <2>1, <2>2, <2>6, <2>7 DEF Exact
    <2>9. SpaceOf(t)'
      BY <1>1, <1>2, <1>4 DEF SpaceOf
    <2> QED BY <1>0, <1>1, <1>4, <2>3, <2>4, <2>5, <2>8, <2>9, ProcessStep DEF Over
  <1> QED BY <1>3, <1>4 DEF GetPage

\* install_page(): the page goes into the directory, or is freed.
LEMMA InstallPageInv ==
  ASSUME ProcessInv, NEW t \in Proc, InstallPage(t)
  PROVE  ProcessInv'
  <1>0. /\ ProcessTypeOK /\ t \in Thread /\ NULL \notin Page /\ GARBAGE \notin Page
    BY ProcessConstants DEF ProcessInv
  <1>1. /\ running = t /\ pc[t] \in {"headers", "stack"} /\ local[t] # NULL
        /\ local' = [local EXCEPT ![t] = NULL]
        /\ UNCHANGED <<running, cr3, leaked, has_pcb, pagedir, fn, phdrs, temporary, child>>
    BY DEF InstallPage
  <1>2. Shape(t) /\ ActiveFor(t) /\ Exact(t) /\ SpaceOf(t)
    BY <1>1, OneBusy DEF Over
  <1>3. PICK d \in Page, k \in Page : d = pagedir[t] /\ k = local[t]
    BY <1>0, <1>1, <1>2 DEF Shape, HasSpace, ProcessTypeOK
  <1>4. PICK v \in UserPage : v = NextVPage(t)
    <2>1. CASE pc[t] = "stack"
      BY <2>1, Layout DEF NextVPage
    <2>2. CASE pc[t] = "headers"
      <3>1. loading[t] # {} /\ loading[t] \subseteq UserPage
        BY <1>0, <1>1, <1>2, <2>2 DEF Shape, ProcessTypeOK
      <3>2. loading[t] \subseteq Nat
        <4>1. UserPage \subseteq Nat
          BY DEF UserPage
        <4> QED BY <3>1, <4>1
      <3>3. \E w \in loading[t] : \A x \in loading[t] : w <= x
        BY <3>1, <3>2, LeastNatural
      <3>4. NextVPage(t) \in loading[t]
        BY <2>2, <3>3 DEF NextVPage
      <3> QED BY <3>1, <3>4
    <2> QED BY <1>1, <2>1, <2>2
  <1> DEFINE i == v \div TableSpan
  <1>5. i \in Table /\ v \in VPage
    BY <1>4, Layout, TableOfPage
  <1>6. /\ local'[t] = NULL /\ \A u \in Thread : u # t => local'[u] = local[u]
        /\ local' \in [Thread -> Page \cup {NULL}]
    BY <1>0, <1>1 DEF ProcessTypeOK
  <1>7. /\ Kpage(t) = {k} /\ Dir(t) = d /\ Tree(t) = DirPages(d)
    BY <1>0, <1>1, <1>3 DEF Kpage, Leaving, Dir, Tree
  <1>8. CASE /\ pc[t] = "headers" \/ PagedirGetPage(d, v) # NULL \/ dirs[d].tables[i] = NULL
             /\ used' = used \ {k} /\ Goto(t, "drop_pcb") /\ UNCHANGED <<dirs, loading>>
    <2>1. pc'[t] = "drop_pcb" /\ \A u \in Thread : u # t => pc'[u] = pc[u]
      BY <1>0, <1>8 DEF Goto, ProcessTypeOK
    <2>2. ProcessTypeOK'
      <3>1. pc' \in [Thread -> ProcLabel \cup {"execute", "create", "wait", "asleep", "idle"}]
        BY <1>0, <1>8 DEF Goto, ProcessTypeOK, ProcLabel, Starting
      <3> QED BY <1>0, <1>1, <1>6, <1>8, <3>1 DEF ProcessTypeOK
    <2>3. Shape(t)' /\ ActiveFor(t)' /\ Kpage(t)' = {} /\ Dir(t)' = d /\ Name(t)' = Name(t)
      BY <1>0, <1>1, <1>2, <1>3, <1>6, <2>1 DEF Shape, ActiveFor, Kpage, Dir, Name, ProcLabel, HasPcb,
        HasSpace, Starting, NoPagedir, Leaving
    <2>4. Tree(t)' = Tree(t)
      BY <1>0, <1>3, <1>7, <1>8, <2>3 DEF Tree, DirPages
    <2>5. Exact(t)'
      BY <1>1, <1>2, <1>7, <1>8, <2>3, <2>4 DEF Exact
    <2>6. SpaceOf(t)'
      BY <1>1, <1>2, <1>8, <2>1 DEF SpaceOf
    <2> QED BY <1>0, <1>1, <1>6, <1>8, <2>1, <2>2, <2>3, <2>5, <2>6, ProcessStep DEF Over
  <1>9. ASSUME NEW f \in Page \cup {NULL}, PagedirGetPage(d, v) = NULL,
               \/ /\ f = NULL /\ UNCHANGED used
                  /\ dirs' = [dirs EXCEPT ![d].frames[v] = k]
               \/ /\ f \in Page /\ f \notin used /\ used' = used \cup {f}
                  /\ dirs[d].tables[i] = NULL
                  /\ dirs' = [dirs EXCEPT ![d].frames[v] = k, ![d].tables[i] = f],
               IF pc[t] = "stack" THEN Goto(t, "free_name") /\ UNCHANGED loading
               ELSE loading' = [loading EXCEPT ![t] = @ \ {v}] /\ UNCHANGED pc
        PROVE  ProcessInv'
    <2>1. /\ dirs \in [Page -> DirType]
          /\ dirs[d].frames \in [VPage -> Page \cup {NULL}] /\ dirs[d].tables \in [Table -> Page \cup {NULL}]
      BY <1>0, <1>3 DEF ProcessTypeOK, DirType
    <2>2. /\ dirs'[d].frames = [dirs[d].frames EXCEPT ![v] = k]
          /\ \/ f = NULL /\ dirs'[d].tables = dirs[d].tables
             \/ /\ f \in Page /\ dirs[d].tables[i] = NULL
                /\ dirs'[d].tables = [dirs[d].tables EXCEPT ![i] = f]
          /\ dirs' \in [Page -> DirType]
      <3>1. CASE f = NULL
        <4>1. dirs' = [dirs EXCEPT ![d].frames[v] = k]
          BY <1>0, <1>9, <3>1
        <4>2. dirs'[d] = [dirs[d] EXCEPT !.frames[v] = k]
          BY <2>1, <4>1
        <4>3. dirs'[d] \in DirType /\ dirs'[d].frames = [dirs[d].frames EXCEPT ![v] = k]
              /\ dirs'[d].tables = dirs[d].tables
          BY <1>3, <1>5, <2>1, <4>2 DEF DirType
        <4>4. dirs' \in [Page -> DirType]
          BY <2>1, <4>1, <4>3
        <4> QED BY <3>1, <4>3, <4>4
      <3>2. CASE f # NULL
        <4>1. /\ dirs' = [dirs EXCEPT ![d].frames[v] = k, ![d].tables[i] = f]
              /\ f \in Page /\ dirs[d].tables[i] = NULL
          BY <1>9, <3>2
        <4>2. dirs'[d] = [[dirs[d] EXCEPT !.frames[v] = k] EXCEPT !.tables[i] = f]
          BY <2>1, <4>1
        <4>3. dirs'[d] \in DirType /\ dirs'[d].frames = [dirs[d].frames EXCEPT ![v] = k]
              /\ dirs'[d].tables = [dirs[d].tables EXCEPT ![i] = f]
          <5>1. PICK r : r = [dirs[d] EXCEPT !.frames[v] = k]
            OBVIOUS
          <5>2. /\ r \in DirType /\ r.frames = [dirs[d].frames EXCEPT ![v] = k]
                /\ r.tables = dirs[d].tables
            BY <1>3, <1>5, <2>1, <5>1 DEF DirType
          <5>3. dirs'[d] = [r EXCEPT !.tables[i] = f]
            BY <4>2, <5>1
          <5>4. dirs'[d] \in DirType /\ dirs'[d].frames = r.frames
                /\ dirs'[d].tables = [r.tables EXCEPT ![i] = f]
            <6> HIDE DEF i
            <6>1. r \in [tables : [Table -> Page \cup {NULL}], frames : [VPage -> Page \cup {NULL}]]
              BY <5>2 DEF DirType
            <6>2. dirs'[d].tables = [r.tables EXCEPT ![i] = f] /\ dirs'[d].frames = r.frames
              BY <5>3, <6>1
            <6>3. dirs'[d] \in [tables : [Table -> Page \cup {NULL}], frames : [VPage -> Page \cup {NULL}]]
              <7>1. PICK tb : tb = [r.tables EXCEPT ![i] = f]
                OBVIOUS
              <7>2. tb \in [Table -> Page \cup {NULL}]
                BY <1>5, <4>1, <6>1, <7>1
              <7>3. dirs'[d] = [r EXCEPT !.tables = tb]
                BY <5>3, <7>1
              <7> QED BY <6>1, <7>2, <7>3
            <6> QED BY <6>2, <6>3 DEF DirType
          <5> QED BY <5>2, <5>4
        <4>4. dirs' \in [Page -> DirType]
          <5>1. \A e \in Page : e # d => dirs'[e] = dirs[e]
            BY <2>1, <4>1
          <5>2. dirs' = [e \in Page |-> dirs'[e]]
            BY <2>1, <4>1
          <5> QED BY <2>1, <4>3, <5>1, <5>2
        <4> QED BY <4>1, <4>3, <4>4
      <3> QED BY <3>1, <3>2
    <2>3. DirPages(d)' = DirPages(d) \cup {k} \cup ({f} \ {NULL})
      <3>1. dirs[d].frames[v] = NULL
        BY <1>9 DEF PagedirGetPage
      <3> QED BY <2>1, <2>2, <3>1, TreeGrows
    <2>4. /\ pc'[t] = (IF pc[t] = "stack" THEN "free_name" ELSE "headers")
          /\ \A u \in Thread : u # t => pc'[u] = pc[u]
          /\ \A u \in Proc : u # t => loading'[u] = loading[u]
      BY <1>0, <1>1, <1>9 DEF Goto, ProcessTypeOK
    <2>5. ProcessTypeOK'
      <3>0. /\ pc \in [Thread -> ProcLabel \cup {"execute", "create", "wait", "asleep", "idle"}]
            /\ loading \in [Proc -> SUBSET UserPage]
        BY <1>0 DEF ProcessTypeOK
      <3>1. pc' \in [Thread -> ProcLabel \cup {"execute", "create", "wait", "asleep", "idle"}]
        BY <1>0, <1>9, <3>0 DEF Goto, ProcLabel, Starting
      <3>2. loading' \in [Proc -> SUBSET UserPage]
        BY <1>9, <3>0
      <3>3. used' \subseteq Page
        BY <1>0, <1>9 DEF ProcessTypeOK
      <3> QED BY <1>0, <1>1, <1>6, <2>2, <3>1, <3>2, <3>3 DEF ProcessTypeOK
    <2>6. Shape(t)' /\ ActiveFor(t)' /\ Kpage(t)' = {} /\ Dir(t)' = d /\ Name(t)' = Name(t)
      BY <1>0, <1>1, <1>2, <1>3, <1>6, <2>4 DEF Shape, ActiveFor, Kpage, Dir, Name, ProcLabel, HasPcb,
        HasSpace, Starting, NoPagedir, Leaving
    <2>7. Tree(t)' = Tree(t) \cup {k} \cup ({f} \ {NULL})
      BY <1>0, <1>3, <1>7, <2>3, <2>6 DEF Tree
    <2>8. used' = used \cup ({f} \ {NULL}) /\ f \notin used
      BY <1>0, <1>9 DEF ProcessTypeOK
    <2>9. Exact(t)'
      BY <1>1, <1>2, <1>7, <2>6, <2>7, <2>8 DEF Exact
    <2>10. SpaceOf(t)'
      <3>1. \A w \in VPage : dirs'[d].frames[w] = IF w = v THEN k ELSE dirs[d].frames[w]
        BY <1>5, <2>1, <2>2
      <3>2. pc[t] = "stack" => v = StackPage
        BY <1>4 DEF NextVPage
      <3>3. StackPage \in VPage
        BY Layout
      <3> QED BY <1>0, <1>1, <1>2, <1>3, <1>4, <2>4, <3>1, <3>2, <3>3 DEF SpaceOf
    <2> QED BY <1>0, <1>1, <1>6, <2>4, <2>5, <2>6, <2>9, <2>10, ProcessStep DEF Over
  <1>10. CASE /\ PagedirGetPage(d, v) = NULL
              /\ dirs[d].tables[i] # NULL /\ dirs' = [dirs EXCEPT ![d].frames[v] = k] /\ UNCHANGED used
              /\ IF pc[t] = "stack" THEN Goto(t, "free_name") /\ UNCHANGED loading
                 ELSE loading' = [loading EXCEPT ![t] = @ \ {v}] /\ UNCHANGED pc
    BY <1>0, <1>9, <1>10
  <1>11. CASE /\ PagedirGetPage(d, v) = NULL
              /\ dirs[d].tables[i] = NULL /\ Free # {} /\ used' = used \cup {FirstFree}
              /\ dirs' = [dirs EXCEPT ![d].frames[v] = k, ![d].tables[i] = FirstFree]
              /\ IF pc[t] = "stack" THEN Goto(t, "free_name") /\ UNCHANGED loading
                 ELSE loading' = [loading EXCEPT ![t] = @ \ {v}] /\ UNCHANGED pc
    BY <1>9, <1>11, FirstFreeIsFree
  <1> QED BY <1>3, <1>4, <1>8, <1>10, <1>11 DEF InstallPage

\* The file name is freed, by a start that succeeded or failed.
LEMMA FreeNameInv ==
  ASSUME ProcessInv, NEW t \in Proc, StartUser(t) \/ StartFailed(t)
  PROVE  ProcessInv'
  <1>0. /\ ProcessTypeOK /\ t \in Thread /\ NULL \notin Page /\ GARBAGE \notin Page
    BY ProcessConstants DEF ProcessInv
  <1>1. /\ running = t /\ used' = used \ {fn[t]} /\ fn' = [fn EXCEPT ![t] = NULL]
        /\ UNCHANGED <<running, cr3, dirs, leaked, has_pcb, pagedir, local, phdrs, loading, temporary, child>>
        /\ \/ pc[t] = "free_name" /\ pc' = [pc EXCEPT ![t] = "user"]
           \/ pc[t] = "failed" /\ pc' = [pc EXCEPT ![t] = "up"]
    BY DEF StartUser, StartFailed, At, Goto
  <1>2. Shape(t) /\ ActiveFor(t) /\ Exact(t) /\ SpaceOf(t)
    BY <1>1, OneBusy DEF Over
  <1>3. /\ fn'[t] = NULL
        /\ (pc[t] = "free_name" /\ pc'[t] = "user") \/ (pc[t] = "failed" /\ pc'[t] = "up")
        /\ \A u \in Thread : u # t => pc'[u] = pc[u] /\ fn'[u] = fn[u]
    BY <1>0, <1>1 DEF ProcessTypeOK
  <1>4. ProcessTypeOK'
    <2>1. pc' \in [Thread -> ProcLabel \cup {"execute", "create", "wait", "asleep", "idle"}]
      BY <1>0, <1>1 DEF ProcessTypeOK, ProcLabel
    <2> QED BY <1>0, <1>1, <2>1 DEF ProcessTypeOK
  <1>5. Shape(t)' /\ ActiveFor(t)'
    BY <1>0, <1>1, <1>2, <1>3 DEF Shape, ActiveFor, ProcLabel, HasPcb, HasSpace, Starting, NoPagedir, Leaving
  <1>6. Name(t) = {fn[t]} /\ Name(t)' = {} /\ Kpage(t)' = Kpage(t) /\ Dir(t)' = Dir(t)
    BY <1>0, <1>1, <1>2, <1>3 DEF Name, Kpage, Dir, Shape, Starting, Leaving, Page
  <1>7. Tree(t)' = Tree(t)
    BY <1>1, <1>6 DEF Tree, DirPages
  <1>8. Exact(t)'
    BY <1>1, <1>2, <1>6, <1>7 DEF Exact
  <1>9. SpaceOf(t)'
    BY <1>1, <1>2, <1>3 DEF SpaceOf, Shape, NoPagedir
  <1> QED BY <1>0, <1>1, <1>3, <1>4, <1>5, <1>8, <1>9, ProcessStep DEF Over

\* The PCB of a failed start is freed, its directory forgotten.
LEMMA FreePcbInv ==
  ASSUME ProcessInv, NEW t \in Proc, FreePcb(t)
  PROVE  ProcessInv'
  <1>0. /\ ProcessTypeOK /\ t \in Thread /\ NULL \notin Page /\ GARBAGE \notin Page
    BY ProcessConstants DEF ProcessInv
  <1>1. /\ running = t /\ pc[t] = "free_pcb" /\ pc' = [pc EXCEPT ![t] = "failed"]
        /\ leaked' = leaked \cup (IF pagedir[t] = NULL THEN {} ELSE DirPages(pagedir[t]))
        /\ pagedir' = [pagedir EXCEPT ![t] = GARBAGE]
        /\ UNCHANGED <<running, cr3, used, dirs, has_pcb, fn, local, phdrs, loading, temporary, child>>
    BY DEF FreePcb, At, Goto
  <1>2. Shape(t) /\ ActiveFor(t) /\ Exact(t) /\ SpaceOf(t)
    BY <1>1, OneBusy DEF Over
  <1>3. /\ pagedir'[t] = GARBAGE /\ pc'[t] = "failed"
        /\ \A u \in Thread : u # t => pc'[u] = pc[u] /\ pagedir'[u] = pagedir[u]
    BY <1>0, <1>1 DEF ProcessTypeOK
  <1>4. pagedir[t] \in Page \cup {NULL}
    BY <1>1, <1>2 DEF Shape
  <1>5. leaked' = leaked \cup Tree(t)
    BY <1>0, <1>1, <1>4 DEF Tree, Dir, Leaving
  <1>6. Name(t)' = Name(t) /\ Kpage(t)' = Kpage(t) /\ Tree(t)' = {}
    BY <1>0, <1>1, <1>3 DEF Name, Kpage, Tree, Dir, Leaving, Page
  <1>7. Exact(t)'
    BY <1>1, <1>2, <1>5, <1>6 DEF Exact
  <1>8. ProcessTypeOK'
    <2>1. pc' \in [Thread -> ProcLabel \cup {"execute", "create", "wait", "asleep", "idle"}]
      BY <1>0, <1>1 DEF ProcessTypeOK, ProcLabel, Starting
    <2>2. leaked' \subseteq Page
      BY <1>0, <1>2, <1>5 DEF Exact, ProcessTypeOK
    <2> QED BY <1>0, <1>1, <2>1, <2>2 DEF ProcessTypeOK
  <1>9. cr3 = pagedir[t] => cr3 \in {KERNEL} \cup leaked'
    <2>1. cr3 = pagedir[t] => pagedir[t] \in Page \/ cr3 = KERNEL
      BY <1>0, <1>4 DEF ProcessTypeOK
    <2>2. dirs \in [Page -> DirType]
      BY <1>0 DEF ProcessTypeOK
    <2>3. pagedir[t] \in Page => pagedir[t] \in leaked'
      BY <1>0, <1>1, <2>2, TreePages
    <2> QED BY <2>1, <2>3
  <1>10. Shape(t)' /\ ActiveFor(t)'
    BY <1>0, <1>1, <1>2, <1>3, <1>5, <1>9 DEF Shape, ActiveFor, ProcLabel, HasPcb, HasSpace, Starting,
      NoPagedir, Leaving
  <1>11. SpaceOf(t)'
    BY <1>0, <1>3 DEF SpaceOf, Page
  <1> QED BY <1>0, <1>1, <1>3, <1>5, <1>7, <1>8, <1>10, <1>11, ProcessStep DEF Over

\* pagedir_destroy(): all pages of the directory, and no other, are freed.
LEMMA PagedirDestroyInv ==
  ASSUME ProcessInv, NEW t \in Proc, PagedirDestroy(t)
  PROVE  ProcessInv'
  <1>0. /\ ProcessTypeOK /\ t \in Thread /\ NULL \notin Page /\ GARBAGE \notin Page
    BY ProcessConstants DEF ProcessInv
  <1>1. /\ running = t /\ pc[t] = "destroy" /\ pc' = [pc EXCEPT ![t] = "exit_drop"]
        /\ used' = used \ DirPages(local[t]) /\ dirs' = [dirs EXCEPT ![local[t]] = Blank]
        /\ local' = [local EXCEPT ![t] = NULL]
        /\ UNCHANGED <<running, cr3, leaked, has_pcb, pagedir, fn, phdrs, loading, temporary, child>>
    BY DEF PagedirDestroy, At, Goto
  <1>2. Shape(t) /\ ActiveFor(t) /\ Exact(t)
    BY <1>1, OneBusy DEF Over
  <1>3. /\ local'[t] = NULL /\ pc'[t] = "exit_drop"
        /\ \A u \in Thread : u # t => pc'[u] = pc[u] /\ local'[u] = local[u]
    BY <1>0, <1>1 DEF ProcessTypeOK
  <1>4. local[t] \in Page /\ pagedir[t] = NULL
    BY <1>1, <1>2 DEF Shape, Leaving
  <1>5. Tree(t) = DirPages(local[t]) /\ Kpage(t) = {}
    BY <1>0, <1>1, <1>4 DEF Tree, Dir, Leaving, Kpage
  <1>6. Name(t)' = Name(t) /\ Kpage(t)' = {} /\ Tree(t)' = {}
    BY <1>0, <1>1, <1>3, <1>4 DEF Name, Kpage, Tree, Dir, Leaving, Page
  <1>7. Exact(t)'
    BY <1>1, <1>2, <1>5, <1>6 DEF Exact
  <1>8. ProcessTypeOK'
    <2>1. pc' \in [Thread -> ProcLabel \cup {"execute", "create", "wait", "asleep", "idle"}]
      BY <1>0, <1>1 DEF ProcessTypeOK, ProcLabel
    <2>2. dirs' \in [Page -> DirType]
      <3>1. Blank \in DirType
        BY DEF Blank, DirType
      <3> QED BY <1>0, <1>1, <3>1 DEF ProcessTypeOK
    <2> QED BY <1>0, <1>1, <2>1, <2>2 DEF ProcessTypeOK
  <1>9. Shape(t)' /\ ActiveFor(t)'
    BY <1>0, <1>1, <1>2, <1>3, <1>4 DEF Shape, ActiveFor, ProcLabel, HasPcb, HasSpace, Starting,
      NoPagedir, Leaving
  <1>10. SpaceOf(t)'
    BY <1>0, <1>1, <1>4 DEF SpaceOf, Page
  <1> QED BY <1>0, <1>1, <1>3, <1>7, <1>8, <1>9, <1>10, ProcessStep DEF Over

-----------------------------------------------------------------------------
(* The end of a process, run_task(), and thread switches.                  *)

\* sema_up(&temporary): the process has nothing left but its thread.
LEMMA SemaUpInv ==
  ASSUME ProcessInv, NEW t \in Proc, SemaUp(t)
  PROVE  ProcessInv'
  <1>0. /\ ProcessTypeOK /\ t \in Thread /\ Main \in Thread /\ Main # t /\ Idle \in Thread /\ Idle # t
        /\ Main # Idle /\ Proc \subseteq Thread /\ Main \notin Proc /\ NULL \notin Proc /\ GARBAGE \notin Page
    BY ProcessConstants DEF ProcessInv
  <1>1. /\ running = t /\ pc[t] = "up" /\ temporary' = temporary + 1
        /\ pc' = [pc EXCEPT ![t] = "exit", ![Main] = IF @ = "asleep" THEN "wait" ELSE @]
        /\ UNCHANGED <<running, cr3, used, dirs, leaked, has_pcb, pagedir, fn, local, phdrs, loading, child>>
    BY DEF SemaUp, At, memory
  <1>2. /\ Shape(t) /\ ActiveFor(t) /\ Exact(t) /\ child = t /\ temporary = 0
        /\ pc[Main] \in {"wait", "asleep"}
        /\ \A u \in Thread : u # t => ~Busy(u)
        /\ \A u \in Proc : u # t => pc[u] \in Over
    BY <1>1, OneBusy DEF Over
  <1>3. /\ pc'[t] = "exit" /\ pc'[Main] = "wait" /\ temporary' = 1
        /\ \A u \in Thread : u \notin {t, Main} => pc'[u] = pc[u]
    BY <1>0, <1>1, <1>2 DEF ProcessTypeOK
  <1>4. ProcessTypeOK'
    <2>1. pc' \in [Thread -> ProcLabel \cup {"execute", "create", "wait", "asleep", "idle"}]
      BY <1>0, <1>1, <1>2 DEF ProcessTypeOK, ProcLabel, Over
    <2>2. UNCHANGED <<running, cr3, used, dirs, leaked, has_pcb, pagedir, fn, local, phdrs, loading, child>>
      BY <1>1
    <2>3. temporary' \in Nat
      BY <1>3
    <2> QED BY <1>0, <2>1, <2>2, <2>3 DEF ProcessTypeOK
  <1>5. Others'
    BY <1>0, <1>1, <1>2, <1>3 DEF ProcessInv, Others
  <1>6. Shapes'
    <2>1. ASSUME NEW u \in Proc, u # t PROVE Shape(u)'
      BY <1>0, <1>1, <1>3, <2>1 DEF ProcessInv, Shapes, Shape
    <2>2. Shape(t)'
      BY <1>1, <1>2, <1>3 DEF Shape, ProcLabel, Over, HasPcb, HasSpace, Starting, NoPagedir, Leaving
    <2> QED BY <2>1, <2>2 DEF Shapes
  <1>7. Handshake'
    <2>1. \A u \in Proc : pc'[u] \in Over
      BY <1>0, <1>2, <1>3 DEF Over
    <2> QED BY <1>1, <1>3, <2>1 DEF Handshake
  <1>8. Active'
    <2>1. ActiveFor(t)'
      BY <1>1, <1>2, <1>3 DEF ActiveFor, HasSpace
    <2> QED BY <1>1, <2>1 DEF Active
  <1>9. Space'
    <2>1. ASSUME NEW u \in Proc PROVE SpaceOf(u)'
      <3>1. pagedir'[u] = GARBAGE
        BY <1>1, <1>2, <2>1 DEF ProcessInv, Shapes, Shape, Over, NoPagedir
      <3> QED BY <1>0, <3>1 DEF SpaceOf, Page
    <2> QED BY <2>1 DEF Space
  <1>10. PagesExact'
    <2>1. \A u \in Thread : ~Busy(u)'
      BY <1>0, <1>1, <1>2, <1>3 DEF Busy, Over
    <2>2. used' = leaked'
      <3>1. Name(t) = {} /\ Kpage(t) = {} /\ Tree(t) = {}
        BY <1>0, <1>1, <1>2 DEF Name, Kpage, Tree, Dir, Shape, Starting, Leaving, NoPagedir, Page
      <3> QED BY <1>1, <1>2, <3>1 DEF Exact
    <2> QED BY <2>1, <2>2 DEF PagesExact
  <1> QED BY <1>4, <1>5, <1>6, <1>7, <1>8, <1>9, <1>10 DEF ProcessInv

LEMMA ThreadExitInv ==
  ASSUME ProcessInv, NEW t \in Proc, ThreadExit(t)
  PROVE  ProcessInv'
  <1>0. /\ ProcessTypeOK /\ t \in Thread /\ Main \in Thread /\ Main # t /\ Idle \in Thread /\ Idle # t
        /\ Proc \subseteq Thread /\ Main \notin Proc /\ NULL \notin Proc /\ GARBAGE \notin Page
    BY ProcessConstants DEF ProcessInv
  <1>1. /\ running = t /\ pc[t] = "exit" /\ pc' = [pc EXCEPT ![t] = "dead"]
        /\ UNCHANGED <<running, cr3, used, dirs, leaked, has_pcb, pagedir, fn, local, phdrs, loading,
                       temporary, child>>
    BY DEF ThreadExit, At, Goto, memory
  <1>2. pc'[t] = "dead" /\ \A u \in Thread : u # t => pc'[u] = pc[u]
    BY <1>0, <1>1 DEF ProcessTypeOK
  <1>3. ProcessTypeOK'
    <2>1. pc' \in [Thread -> ProcLabel \cup {"execute", "create", "wait", "asleep", "idle"}]
      BY <1>0, <1>1 DEF ProcessTypeOK, ProcLabel, Over
    <2> QED BY <1>0, <1>1, <2>1 DEF ProcessTypeOK
  <1>4. Others'
    BY <1>0, <1>1, <1>2 DEF ProcessInv, Others
  <1>5. Shapes'
    <2>1. ASSUME NEW u \in Proc, u # t PROVE Shape(u)'
      BY <1>0, <1>1, <1>2, <2>1 DEF ProcessInv, Shapes, Shape
    <2>2. Shape(t)'
      BY <1>1, <1>2 DEF ProcessInv, Shapes, Shape, ProcLabel, Over, HasPcb, HasSpace, Starting,
        NoPagedir, Leaving
    <2> QED BY <2>1, <2>2 DEF Shapes
  <1>6. Handshake'
    BY <1>0, <1>1, <1>2 DEF ProcessInv, Handshake, Over
  <1>7. Active'
    BY <1>1, <1>2 DEF ProcessInv, Active, ActiveFor, HasSpace
  <1>8. Space'
    <2>1. ASSUME NEW u \in Proc PROVE SpaceOf(u)'
      <3>1. SpaceOf(u) /\ (pc'[u] \in {"free_name", "user"} => pc[u] \in {"free_name", "user"})
        BY <1>0, <1>1, <1>2, <2>1 DEF ProcessInv, Space
      <3> QED BY <1>1, <3>1 DEF SpaceOf
    <2> QED BY <2>1 DEF Space
  <1>9. PagesExact'
    <2>1. ASSUME NEW u \in Thread PROVE (Busy(u)' <=> Busy(u)) /\ (Busy(u) => u # t)
      BY <1>0, <1>1, <1>2, <2>1 DEF Busy, Over
    <2>2. ASSUME NEW u \in Thread, u # t, Exact(u) PROVE Exact(u)'
      <3>1. Name(u)' = Name(u) /\ Kpage(u)' = Kpage(u) /\ Dir(u)' = Dir(u)
        BY <1>1, <1>2, <2>2 DEF Name, Kpage, Dir, Page
      <3>2. Tree(u)' = Tree(u)
        BY <1>1, <3>1 DEF Tree, DirPages
      <3> QED BY <1>1, <2>2, <3>1, <3>2 DEF Exact
    <2> QED BY <1>1, <2>1, <2>2 DEF ProcessInv, PagesExact
  <1> QED BY <1>3, <1>4, <1>5, <1>6, <1>7, <1>8, <1>9 DEF ProcessInv

(* What no step of run_task() touches, while it runs.                      *)
LEMMA MainStep ==
  ASSUME ProcessInv, running = Main, ProcessTypeOK', Others', Handshake', PagesExact',
         \A u \in Proc : pc'[u] = pc[u] /\ fn'[u] = fn[u],
         UNCHANGED <<running, cr3, dirs, leaked, has_pcb, pagedir, local, phdrs, loading>>
  PROVE  ProcessInv'
  <1>1. Main \notin Proc
    BY ProcessConstants
  <1>2. Shapes'
    BY DEF ProcessInv, Shapes, Shape
  <1>3. Active'
    BY <1>1 DEF ProcessInv, Active
  <1>4. Space'
    BY DEF ProcessInv, Space, SpaceOf
  <1> QED BY <1>2, <1>3, <1>4 DEF ProcessInv

\* process_execute() up to thread_create(): nothing is left of earlier processes.
LEMMA ProcessExecuteInv ==
  ASSUME ProcessInv, ProcessExecute PROVE ProcessInv'
  <1>0. /\ ProcessTypeOK /\ Main \in Thread /\ Idle \in Thread /\ Main # Idle /\ Main \notin Proc
        /\ Proc \subseteq Thread /\ NULL \notin Page /\ GARBAGE \notin Page
    BY ProcessConstants DEF ProcessInv
  <1>1. /\ running = Main /\ pc[Main] = "execute" /\ temporary' = 0 /\ child' = NULL
        /\ UNCHANGED <<running, cr3, dirs, leaked, has_pcb, pagedir, local, phdrs, loading>>
    BY DEF ProcessExecute, At
  <1>2. \A u \in Proc : pc[u] \in Over
    BY <1>1 DEF ProcessInv, Handshake
  <1>3. \A u \in Thread : ~Busy(u)
    BY <1>1, <1>2 DEF Busy
  <1>4. used = leaked
    BY <1>3 DEF ProcessInv, PagesExact
  <1>5. CASE Goto(Main, "wait") /\ UNCHANGED <<used, fn>>
    <2>1. pc'[Main] = "wait" /\ \A u \in Thread : u # Main => pc'[u] = pc[u]
      BY <1>0, <1>5 DEF Goto, ProcessTypeOK
    <2>2. ProcessTypeOK'
      BY <1>0, <1>1, <1>5 DEF Goto, ProcessTypeOK
    <2>3. Others'
      BY <1>0, <1>1, <1>5, <2>1 DEF ProcessInv, Others
    <2>4. Handshake'
      BY <1>0, <1>1, <1>2, <2>1 DEF Handshake
    <2>5. PagesExact'
      <3>1. \A u \in Thread : ~Busy(u)'
        BY <1>0, <1>2, <2>1 DEF Busy
      <3> QED BY <1>1, <1>4, <1>5, <3>1 DEF PagesExact
    <2> QED BY <1>0, <1>1, <1>5, <2>1, <2>2, <2>3, <2>4, <2>5, MainStep
  <1>6. CASE /\ Free # {} /\ used' = used \cup {FirstFree}
             /\ fn' = [fn EXCEPT ![Main] = FirstFree] /\ Goto(Main, "create")
    <2> DEFINE f == FirstFree
    <2>0. f \in Page /\ f \notin used
      BY <1>6, FirstFreeIsFree
    <2> HIDE DEF f
    <2>1. /\ pc'[Main] = "create" /\ fn'[Main] = f /\ used' = used \cup {f}
          /\ \A u \in Thread : u # Main => pc'[u] = pc[u] /\ fn'[u] = fn[u]
      BY <1>0, <1>6 DEF Goto, ProcessTypeOK, f
    <2>2. ProcessTypeOK'
      <3>1. fn' \in [Thread -> Page \cup {NULL}]
        BY <1>0, <1>6, <2>0 DEF ProcessTypeOK, f
      <3> QED BY <1>0, <1>1, <1>6, <2>0, <2>1, <3>1 DEF Goto, ProcessTypeOK
    <2>3. Others'
      BY <1>0, <1>1, <2>0, <2>1 DEF ProcessInv, Others
    <2>4. Handshake'
      BY <1>0, <1>1, <1>2, <2>1 DEF Handshake
    <2>5. PagesExact'
      <3>1. Busy(Main)' /\ \A u \in Thread : u # Main => ~Busy(u)'
        BY <1>0, <1>2, <2>1 DEF Busy
      <3>2. Name(Main)' = {f} /\ Kpage(Main)' = {} /\ Tree(Main)' = {}
        <4>1. local'[Main] = NULL /\ pagedir'[Main] = NULL
          BY <2>3 DEF Others
        <4> QED BY <1>0, <2>0, <2>1, <4>1 DEF Name, Kpage, Tree, Dir, Leaving, Page
      <3>3. Exact(Main)'
        BY <1>1, <1>4, <2>0, <2>1, <3>2 DEF Exact
      <3> QED BY <1>0, <3>1, <3>3 DEF PagesExact
    <2> QED BY <1>0, <1>1, <2>1, <2>2, <2>3, <2>4, <2>5, MainStep
  <1> QED BY <1>5, <1>6 DEF ProcessExecute

\* process_wait().
LEMMA ProcessWaitInv ==
  ASSUME ProcessInv, ProcessWait PROVE ProcessInv'
  <1>0. /\ ProcessTypeOK /\ Main \in Thread /\ Idle \in Thread /\ Main # Idle /\ Main \notin Proc
        /\ Proc \subseteq Thread /\ NULL \notin Page /\ GARBAGE \notin Page
    BY ProcessConstants DEF ProcessInv
  <1>1. /\ running = Main /\ pc[Main] = "wait"
        /\ UNCHANGED <<running, cr3, used, dirs, leaked, has_pcb, pagedir, fn, local, phdrs, loading, child>>
        /\ \/ temporary > 0 /\ temporary' = temporary - 1 /\ pc' = [pc EXCEPT ![Main] = "execute"]
           \/ ~(temporary > 0) /\ temporary' = temporary /\ pc' = [pc EXCEPT ![Main] = "asleep"]
    BY DEF ProcessWait, At, Goto, memory
  <1>2. /\ \/ temporary > 0 /\ temporary' = temporary - 1 /\ pc'[Main] = "execute"
           \/ temporary = 0 /\ temporary' = 0 /\ pc'[Main] = "asleep"
        /\ \A u \in Thread : u # Main => pc'[u] = pc[u]
    BY <1>0, <1>1 DEF ProcessTypeOK
  <1>3. ProcessTypeOK'
    BY <1>0, <1>1 DEF ProcessTypeOK
  <1>4. Others'
    BY <1>0, <1>1, <1>2 DEF ProcessInv, Others
  <1>5. Handshake'
    <2>1. CASE temporary > 0
      <3>1. \A u \in Proc : pc'[u] \in Over
        BY <1>0, <1>1, <1>2, <2>1 DEF ProcessInv, Handshake
      <3> QED BY <1>1, <1>2, <2>1, <3>1 DEF Handshake
    <2>2. CASE temporary = 0
      <3>1. child # NULL => child \in Proc /\ pc[child] \notin Over
        BY <1>0, <1>1, <2>2 DEF ProcessInv, Handshake, ProcessTypeOK
      <3>2. temporary' = 0 /\ child' = child /\ pc'[Main] = "asleep" /\ \A u \in Proc : pc'[u] = pc[u]
        BY <1>0, <1>1, <1>2, <2>2
      <3>3. \A u \in Proc : pc[u] \notin Over => child = u
        BY DEF ProcessInv, Handshake
      <3> QED BY <3>1, <3>2, <3>3 DEF Handshake
    <2> QED BY <1>2, <2>1, <2>2
  <1>6. PagesExact'
    <2>1. ASSUME NEW u \in Thread PROVE (Busy(u)' <=> Busy(u)) /\ (Busy(u) => u # Main)
      BY <1>0, <1>1, <1>2, <2>1 DEF Busy
    <2>2. ASSUME NEW u \in Thread, u # Main, Exact(u) PROVE Exact(u)'
      <3>1. Name(u)' = Name(u) /\ Kpage(u)' = Kpage(u) /\ Dir(u)' = Dir(u)
        BY <1>1, <1>2, <2>2 DEF Name, Kpage, Dir, Page
      <3>2. Tree(u)' = Tree(u)
        BY <1>1, <3>1 DEF Tree, DirPages
      <3> QED BY <1>1, <2>2, <3>1, <3>2 DEF Exact
    <2> QED BY <1>1, <2>1, <2>2 DEF ProcessInv, PagesExact
  <1> QED BY <1>0, <1>1, <1>2, <1>3, <1>4, <1>5, <1>6, MainStep

\* thread_create(): the file name goes to the new process, or is freed.
LEMMA ThreadCreateInv ==
  ASSUME ProcessInv, ThreadCreate PROVE ProcessInv'
  <1>0. /\ ProcessTypeOK /\ Main \in Thread /\ Idle \in Thread /\ Main # Idle /\ Main \notin Proc
        /\ Idle \notin Proc /\ Proc \subseteq Thread /\ NULL \notin Page /\ GARBAGE \notin Page
        /\ NULL \notin Proc
    BY ProcessConstants DEF ProcessInv
  <1>1. /\ running = Main /\ pc[Main] = "create"
        /\ UNCHANGED <<running, cr3, dirs, leaked, has_pcb, pagedir, local, phdrs, loading, temporary>>
    BY DEF ThreadCreate, At
  <1>2. /\ \A u \in Proc : pc[u] \in Over
        /\ temporary = 0 /\ child = NULL
    BY <1>1 DEF ProcessInv, Handshake
  <1>3. Exact(Main) /\ fn[Main] \in Page /\ local[Main] = NULL /\ pagedir[Main] = NULL
    <2>1. Busy(Main)
      BY <1>1 DEF Busy
    <2> QED BY <1>0, <1>1, <2>1 DEF ProcessInv, PagesExact, Others, ProcessTypeOK
  <1>4. used = leaked \cup {fn[Main]} /\ fn[Main] \notin leaked
    <2>1. Name(Main) = {fn[Main]} /\ Kpage(Main) = {} /\ Tree(Main) = {}
      BY <1>0, <1>1, <1>3 DEF Name, Kpage, Tree, Dir, Leaving, Page
    <2> QED BY <1>3, <2>1 DEF Exact
  <1>5. CASE /\ used' = used \ {fn[Main]} /\ fn' = [fn EXCEPT ![Main] = NULL]
             /\ Goto(Main, "wait") /\ UNCHANGED child
    <2>1. /\ pc'[Main] = "wait" /\ fn'[Main] = NULL
          /\ \A u \in Thread : u # Main => pc'[u] = pc[u] /\ fn'[u] = fn[u]
      BY <1>0, <1>5 DEF Goto, ProcessTypeOK
    <2>2. ProcessTypeOK'
      BY <1>0, <1>1, <1>5 DEF Goto, ProcessTypeOK
    <2>3. Others'
      BY <1>0, <1>1, <2>1 DEF ProcessInv, Others
    <2>4. Handshake'
      BY <1>0, <1>1, <1>2, <1>5, <2>1 DEF Handshake
    <2>5. PagesExact'
      <3>1. \A u \in Thread : ~Busy(u)'
        BY <1>0, <1>2, <2>1 DEF Busy
      <3>2. used' = leaked'
        BY <1>1, <1>4, <1>5
      <3> QED BY <3>1, <3>2 DEF PagesExact
    <2> QED BY <1>0, <1>1, <2>1, <2>2, <2>3, <2>4, <2>5, MainStep
  <1>6. ASSUME NEW p \in Proc, pc[p] = "dead",
               pc' = [pc EXCEPT ![Main] = "wait", ![p] = "malloc"],
               fn' = [fn EXCEPT ![Main] = NULL, ![p] = fn[Main]],
               child' = p, UNCHANGED used
        PROVE  ProcessInv'
    <2>0. p # Main /\ p \in Thread /\ p # Idle /\ p # NULL
      BY <1>0
    <2>1. /\ pc'[Main] = "wait" /\ pc'[p] = "malloc" /\ fn'[Main] = NULL /\ fn'[p] = fn[Main]
          /\ \A u \in Thread : u \notin {Main, p} => pc'[u] = pc[u] /\ fn'[u] = fn[u]
      BY <1>0, <1>6, <2>0 DEF ProcessTypeOK
    <2>2. ProcessTypeOK'
      <3>1. pc' \in [Thread -> ProcLabel \cup {"execute", "create", "wait", "asleep", "idle"}]
        BY <1>0, <1>6 DEF ProcessTypeOK, ProcLabel, Starting
      <3>2. fn' \in [Thread -> Page \cup {NULL}]
        BY <1>0, <1>3, <1>6 DEF ProcessTypeOK
      <3> QED BY <1>0, <1>1, <1>6, <3>1, <3>2 DEF ProcessTypeOK
    <2>3. Others'
      BY <1>0, <1>1, <2>0, <2>1 DEF ProcessInv, Others
    <2>4. Handshake'
      <3>1. \A u \in Proc : u # p => pc'[u] \in Over
        BY <1>0, <1>2, <2>1
      <3>2. pc'[p] \notin Over /\ temporary' = 0
        BY <1>1, <1>2, <2>1 DEF Over
      <3> QED BY <1>6, <2>1, <3>1, <3>2 DEF Handshake
    <2>5. Shapes'
      <3>1. ASSUME NEW u \in Proc, u # p PROVE Shape(u)'
        BY <1>0, <1>1, <2>1, <3>1 DEF ProcessInv, Shapes, Shape
      <3>2. Shape(p)'
        BY <1>0, <1>1, <1>3, <1>6, <2>1 DEF ProcessInv, Shapes, Shape, ProcLabel, HasPcb, HasSpace,
          Starting, NoPagedir, Leaving
      <3> QED BY <3>1, <3>2 DEF Shapes
    <2>6. Active'
      BY <1>0, <1>1 DEF ProcessInv, Active
    <2>7. Space'
      <3>1. ASSUME NEW u \in Proc PROVE SpaceOf(u)'
        <4>1. pagedir'[u] = GARBAGE
          BY <1>1, <1>2, <3>1 DEF ProcessInv, Shapes, Shape, Over, NoPagedir
        <4> QED BY <1>0, <4>1 DEF SpaceOf, Page
      <3> QED BY <3>1 DEF Space
    <2>8. PagesExact'
      <3>1. Busy(p)' /\ \A u \in Thread : u # p => ~Busy(u)'
        BY <1>0, <1>2, <2>0, <2>1 DEF Busy, Over
      <3>2. Name(p)' = {fn[Main]} /\ Kpage(p)' = {} /\ Tree(p)' = {}
        <4>1. local'[p] = NULL /\ pagedir'[p] = GARBAGE
          BY <2>1, <2>5 DEF Shapes, Shape, Leaving, NoPagedir
        <4> QED BY <1>0, <1>3, <2>1, <4>1 DEF Name, Kpage, Tree, Dir, Leaving, Page
      <3>3. Exact(p)'
        BY <1>1, <1>4, <1>6, <3>2 DEF Exact
      <3> QED BY <2>0, <3>1, <3>3 DEF PagesExact
    <2> QED BY <2>2, <2>3, <2>4, <2>5, <2>6, <2>7, <2>8 DEF ProcessInv
  <1> QED BY <1>5, <1>6 DEF ThreadCreate

\* process_activate() at a switch, wherever the thread was interrupted.
LEMMA SwitchInv ==
  ASSUME ProcessInv, NEW t \in Thread, Switch(t) PROVE ProcessInv'
  <1>0. /\ ProcessTypeOK /\ Main \in Thread /\ Idle \in Thread /\ Main # Idle /\ Main \notin Proc
        /\ Idle \notin Proc /\ t \in Proc \cup {Main, Idle} /\ NULL \notin Page /\ GARBAGE \notin Page
    BY ProcessConstants DEF ProcessInv
  <1>1. /\ running' = t /\ cr3' = Directory(t)
        /\ UNCHANGED <<used, dirs, leaked, has_pcb, pagedir, pc, fn, local, phdrs, loading, temporary, child>>
    BY DEF Switch, memory
  <1>2. Active'
    <2>1. CASE t \in Proc
      <3>1. Shape(t)
        BY <2>1 DEF ProcessInv, Shapes
      <3>2. ActiveFor(t)'
        BY <1>0, <1>1, <3>1 DEF ActiveFor, Shape, Directory, HasPcb, HasSpace, ProcLabel, NoPagedir, Leaving
      <3> QED BY <1>1, <2>1, <3>2 DEF Active
    <2>2. CASE t \notin Proc
      <3>1. cr3' = KERNEL
        BY <1>0, <1>1, <2>2 DEF ProcessInv, Others, Directory
      <3> QED BY <1>1, <2>2, <3>1 DEF Active
    <2> QED BY <2>1, <2>2
  <1>3. ProcessTypeOK'
    <2>1. cr3' \in Page \cup {KERNEL}
      <3>1. CASE t \in Proc
        <4>1. Shape(t) /\ pagedir[t] \in Page \cup {NULL, GARBAGE}
          BY <1>0, <3>1 DEF ProcessInv, Shapes, ProcessTypeOK
        <4> QED BY <1>1, <4>1 DEF Shape, Directory, HasPcb, HasSpace, Leaving
      <3>2. CASE t \notin Proc
        BY <1>0, <1>1, <3>2 DEF ProcessInv, Others, Directory
      <3> QED BY <3>1, <3>2
    <2> QED BY <1>0, <1>1, <2>1 DEF ProcessTypeOK
  <1>4. Others' /\ Shapes' /\ Handshake' /\ Space'
    BY <1>1 DEF ProcessInv, Others, Shapes, Shape, Handshake, Space, SpaceOf
  <1>5. PagesExact'
    <2>1. ASSUME NEW u \in Thread
          PROVE  (Busy(u)' <=> Busy(u)) /\ (Exact(u)' <=> Exact(u))
      <3>1. Name(u)' = Name(u) /\ Kpage(u)' = Kpage(u) /\ Dir(u)' = Dir(u)
        BY <1>1 DEF Name, Kpage, Dir, Page
      <3>2. Tree(u)' = Tree(u)
        BY <1>1, <3>1 DEF Tree, DirPages
      <3> QED BY <1>1, <3>1, <3>2 DEF Exact, Busy
    <2> QED BY <1>1, <2>1 DEF ProcessInv, PagesExact
  <1> QED BY <1>2, <1>3, <1>4, <1>5 DEF ProcessInv

-----------------------------------------------------------------------------
(* The invariant holds, and what follows from it.                          *)

LEMMA ProcessInitInv == Init => ProcessInv
  <1> SUFFICES ASSUME Init PROVE ProcessInv
    OBVIOUS
  <1>0. /\ Main \in Thread /\ Idle \in Thread /\ Main # Idle /\ Main \notin Proc /\ Idle \notin Proc
        /\ Proc \subseteq Thread /\ NULL \notin Page /\ GARBAGE \notin Page /\ GARBAGE # NULL
        /\ \A t \in Thread : t \in Proc \/ t = Main \/ t = Idle
    BY ProcessConstants
  <1>1. ProcessTypeOK
    <2>1. Blank \in DirType
      BY DEF Blank, DirType
    <2> QED BY <1>0, <2>1 DEF Init, ProcessTypeOK, ProcLabel, Over
  <1>2. Others
    BY <1>0 DEF Init, Others
  <1>3. \A t \in Proc : /\ pc[t] = "dead" /\ pagedir[t] = GARBAGE /\ has_pcb[t] = FALSE
                        /\ fn[t] = NULL /\ local[t] = NULL
    BY <1>0 DEF Init
  <1>4. Shapes
    BY <1>3 DEF Shapes, Shape, ProcLabel, Over, HasPcb, HasSpace, Starting, NoPagedir, Leaving
  <1>5. Handshake
    BY <1>0, <1>3 DEF Init, Handshake, Over
  <1>6. Active
    BY <1>0 DEF Init, Active
  <1>7. Space
    BY <1>0, <1>3 DEF Space, SpaceOf
  <1>8. PagesExact
    <2>1. \A t \in Thread : ~Busy(t)
      BY <1>0, <1>3 DEF Init, Busy, Over
    <2> QED BY <2>1 DEF Init, PagesExact
  <1> QED BY <1>1, <1>2, <1>4, <1>5, <1>6, <1>7, <1>8 DEF ProcessInv

LEMMA ProcessStepInv == ProcessInv /\ [Next]_vars => ProcessInv'
  <1> SUFFICES ASSUME ProcessInv, [Next]_vars PROVE ProcessInv'
    OBVIOUS
  <1>1. ASSUME NEW t \in Thread, Switch(t) PROVE ProcessInv'
    BY <1>1, SwitchInv
  <1>2. CASE ProcessExecute \/ ThreadCreate \/ ProcessWait
    BY <1>2, ProcessExecuteInv, ThreadCreateInv, ProcessWaitInv
  <1>3. ASSUME NEW t \in Proc, \/ MallocPcb(t) \/ ClearPagedir(t) \/ SetPcb(t)
                               \/ PagedirCreate(t) \/ ProcessActivate(t) \/ OpenExecutable(t)
        PROVE  ProcessInv'
    BY <1>3, StartInv, PagedirCreateInv, LoadInv
  <1>4. ASSUME NEW t \in Proc, NextHeader(t) \/ GetPage(t) \/ InstallPage(t)
        PROVE  ProcessInv'
    BY <1>4, NextHeaderInv, GetPageInv, InstallPageInv
  <1>5. ASSUME NEW t \in Proc, StartUser(t) \/ DropPcb(t) \/ FreePcb(t) \/ StartFailed(t)
        PROVE  ProcessInv'
    BY <1>5, FreeNameInv, TakeDownInv, FreePcbInv
  <1>6. ASSUME NEW t \in Proc, \/ ProcessExit(t) \/ ActivateKernel(t) \/ PagedirDestroy(t)
                               \/ ExitDropPcb(t) \/ ExitFreePcb(t)
        PROVE  ProcessInv'
    BY <1>6, TakeDownInv, PagedirDestroyInv
  <1>7. ASSUME NEW t \in Proc, SemaUp(t) \/ ThreadExit(t) PROVE ProcessInv'
    BY <1>7, SemaUpInv, ThreadExitInv
  <1>8. CASE UNCHANGED vars
    <2>1. ProcessTypeOK' /\ Others'
      BY <1>8 DEF vars, memory, ProcessInv, ProcessTypeOK, Others
    <2>2. Shapes'
      BY <1>8 DEF vars, memory, ProcessInv, Shapes, Shape
    <2>3. Handshake'
      BY <1>8 DEF vars, memory, ProcessInv, Handshake
    <2>4. Active'
      BY <1>8 DEF vars, memory, ProcessInv, Active, ActiveFor
    <2>5. Space'
      BY <1>8 DEF vars, memory, ProcessInv, Space, SpaceOf
    <2>6. PagesExact'
      <3>1. \A d : DirPages(d)' = DirPages(d)
        BY <1>8 DEF vars, memory, DirPages
      <3>2. \A t : Dir(t)' = Dir(t) /\ Name(t)' = Name(t) /\ Kpage(t)' = Kpage(t) /\ Busy(t)' = Busy(t)
        BY <1>8 DEF vars, memory, Dir, Name, Kpage, Busy
      <3>3. \A t : Tree(t)' = Tree(t)
        BY <3>1, <3>2 DEF Tree
      <3>4. \A t : Exact(t)' = Exact(t)
        BY <1>8, <3>2, <3>3 DEF vars, memory, Exact
      <3> QED BY <1>8, <3>2, <3>4 DEF vars, memory, ProcessInv, PagesExact
    <2> QED BY <2>1, <2>2, <2>3, <2>4, <2>5, <2>6 DEF ProcessInv
  <1> QED BY <1>1, <1>2, <1>3, <1>4, <1>5, <1>6, <1>7, <1>8 DEF Next

(* The life of a process, as the inductive invariant describes it.         *)
THEOREM ProcessInvariant == Spec => []ProcessInv
  BY ProcessInitInv, ProcessStepInv, PTL DEF Spec

(* process_execute() cannot lose the race with a process that ends at      *)
(* once: its sema_up() is still to come or is counted.                     *)
THEOREM WaitersAreWoken == Spec => []WaitHasWaker
  <1>1. ProcessInv => WaitHasWaker
    <2> SUFFICES ASSUME ProcessInv, child # NULL, pc[Main] \in {"wait", "asleep"}
                 PROVE  /\ pc[child] \in {"exit", "dead"} => temporary > 0 /\ pc[Main] = "wait"
                        /\ temporary <= 1
      BY DEF WaitHasWaker
    <2>1. child \in Proc
      BY DEF ProcessInv, ProcessTypeOK
    <2> QED BY <2>1 DEF ProcessInv, Handshake, Over
  <1> QED BY <1>1, ProcessInvariant, PTL

(* When process_wait() returns, nothing is left of the process but what a  *)
(* failed load() leaked.                                                   *)
THEOREM WaitedProcessesAreGone == Spec => []WaitedIsGone
  <1>1. ProcessInv => WaitedIsGone
    <2> SUFFICES ASSUME ProcessInv, pc[Main] = "execute"
                 PROVE  used = leaked /\ \A t \in Proc : pc[t] \in {"exit", "dead"} /\ ~has_pcb[t]
      BY DEF WaitedIsGone
    <2>1. \A t \in Proc : pc[t] \in Over
      BY DEF ProcessInv, Handshake
    <2>2. \A t \in Thread : ~Busy(t)
      BY <2>1 DEF Busy
    <2>3. used = leaked
      BY <2>2 DEF ProcessInv, PagesExact
    <2>4. \A t \in Proc : ~has_pcb[t]
      BY <2>1 DEF ProcessInv, Shapes, Shape, Over, HasPcb, HasSpace
    <2> QED BY <2>1, <2>3, <2>4 DEF Over
  <1> QED BY <1>1, ProcessInvariant, PTL

(* No page directory maps page 0 or anything of the kernel's, while it is  *)
(* being loaded or later, and a user program runs in its own.              *)
THEOREM UsersStayInTheirSpace == Spec => []UserInOwnSpace
  <1>1. ProcessInv => UserInOwnSpace
    <2> SUFFICES ASSUME ProcessInv, NEW t \in Proc, pagedir[t] \in Page
                 PROVE  LET frames == dirs[pagedir[t]].frames
                        IN  /\ \A v \in VPage : frames[v] # NULL => 0 < v /\ v <= StackPage
                            /\ pc[t] = "user" => frames[StackPage] # NULL /\ (running = t => cr3 = pagedir[t])
      BY DEF UserInOwnSpace
    <2>1. SpaceOf(t) /\ (running = t => ActiveFor(t))
      BY DEF ProcessInv, Space, Active
    <2>2. \A v \in UserPage : 0 < v /\ v <= StackPage
      BY DEF UserPage
    <2> QED BY <2>1, <2>2 DEF SpaceOf, ActiveFor, HasSpace
  <1> QED BY <1>1, ProcessInvariant, PTL

(* All pages that are allocated and not leaked are those of one thread.    *)
LEMMA OneHolder ==
  ASSUME ProcessInv
  PROVE  \E b \in Thread :
           /\ Exact(b)
           /\ \A u \in Thread : u # b => /\ fn[u] = NULL /\ local[u] = NULL /\ pagedir[u] \notin Page
                                         /\ pc[u] \notin Leaving
  <1>0. /\ Main \in Thread /\ Idle \in Thread /\ Main \notin Proc /\ Idle \notin Proc
        /\ Proc \subseteq Thread /\ NULL \notin Page /\ GARBAGE \notin Page
        /\ \A t \in Thread : t \in Proc \/ t = Main \/ t = Idle
    BY ProcessConstants
  <1>1. /\ fn[Main] # NULL => pc[Main] = "create"
        /\ pagedir[Main] = NULL /\ local[Main] = NULL /\ pc[Main] \notin Leaving
        /\ pagedir[Idle] = GARBAGE /\ local[Idle] = NULL /\ fn[Idle] = NULL /\ pc[Idle] \notin Leaving
    BY DEF ProcessInv, Others, Leaving
  <1>2. \A u \in Proc : pc[u] \in Over => /\ fn[u] = NULL /\ local[u] = NULL /\ pagedir[u] \notin Page
                                          /\ pc[u] \notin Leaving
    BY <1>0 DEF ProcessInv, Shapes, Shape, Over, Starting, Leaving, NoPagedir
  <1>3. CASE \E t \in Proc : pc[t] \notin Over
    <2>1. PICK t \in Proc : pc[t] \notin Over
      BY <1>3
    <2>2. Exact(t) /\ fn[Main] = NULL /\ \A u \in Proc : u # t => pc[u] \in Over
      BY <2>1, OneBusy
    <2> QED BY <1>0, <1>1, <1>2, <2>2
  <1>4. CASE \A t \in Proc : pc[t] \in Over
    <2>1. Exact(Main)
      <3>1. CASE pc[Main] = "create"
        BY <1>0, <3>1 DEF ProcessInv, PagesExact, Busy
      <3>2. CASE pc[Main] # "create"
        <4>1. used = leaked
          BY <1>4, <3>2 DEF ProcessInv, PagesExact, Busy
        <4>2. Name(Main) = {} /\ Kpage(Main) = {} /\ Tree(Main) = {}
          BY <1>0, <1>1, <3>2 DEF Name, Kpage, Tree, Dir
        <4> QED BY <4>1, <4>2 DEF Exact
      <3> QED BY <3>1, <3>2
    <2> QED BY <1>0, <1>1, <1>2, <1>4, <2>1
  <1> QED BY <1>3, <1>4

(* The page directories that are reachable are those of that thread.       *)
LEMMA OwnedIsDir ==
  ASSUME ProcessInv, NEW b \in Thread,
         \A u \in Thread : u # b => pagedir[u] \notin Page /\ pc[u] \notin Leaving
  PROVE  /\ Owned = {Dir(b)} \ {NULL}
         /\ Dir(b) \in Page \cup {NULL}
         /\ \A t \in Exiting : t = b
  <1>0. /\ Proc \subseteq Thread /\ NULL \notin Page /\ GARBAGE \notin Page
        /\ \A t \in Thread : t \in Proc \/ t = Main \/ t = Idle
        /\ Main \in Thread /\ Idle \in Thread
    BY ProcessConstants
  <1>1. pagedir \in [Thread -> Page \cup {NULL, GARBAGE}] /\ local \in [Thread -> Page \cup {NULL}]
    BY DEF ProcessInv, ProcessTypeOK
  <1>2. \A t \in Exiting : t = b /\ t \in Proc /\ pc[t] \in Leaving
    BY <1>0 DEF Exiting, Leaving
  <1>3. pc[b] \in Leaving => b \in Exiting /\ pagedir[b] = NULL /\ local[b] \in Page
    BY <1>0 DEF ProcessInv, Others, Shapes, Shape, Leaving, Exiting
  <1>4. Dir(b) \in Page \cup {NULL}
    BY <1>1, <1>3 DEF Dir
  <1>5. CASE pc[b] \in Leaving
    <2>1. Dir(b) = local[b] /\ b \in Exiting /\ local[b] \in Page
      BY <1>3, <1>5 DEF Dir
    <2>2. \A u \in Thread : pagedir[u] \in {NULL, GARBAGE}
      BY <1>1, <1>3, <1>5
    <2> QED BY <1>0, <1>2, <1>4, <2>1, <2>2 DEF Owned
  <1>6. CASE pc[b] \notin Leaving
    <2>1. Exiting = {}
      BY <1>2, <1>6
    <2>2. Dir(b) = IF pagedir[b] \in Page THEN pagedir[b] ELSE NULL
      BY <1>6 DEF Dir
    <2>3. \A u \in Thread : u # b => pagedir[u] \in {NULL, GARBAGE}
      BY <1>1
    <2> QED BY <1>0, <1>1, <1>2, <1>4, <2>1, <2>2, <2>3 DEF Owned
  <1> QED BY <1>2, <1>4, <1>5, <1>6

(* At every moment, CR3 holds the kernel's page directory or one that has  *)
(* not been freed.                                                         *)
THEOREM ActiveDirectoryAlwaysLive == Spec => []ActiveDirectoryLive
  <1>1. ProcessInv => ActiveDirectoryLive
    <2> SUFFICES ASSUME ProcessInv, cr3 # KERNEL PROVE cr3 \in (Owned \cup leaked) \cap used
      BY DEF ActiveDirectoryLive
    <2>0. /\ Proc \subseteq Thread /\ NULL \notin Page /\ cr3 \in Page /\ dirs \in [Page -> DirType]
      BY ProcessConstants DEF ProcessInv, ProcessTypeOK
    <2>1. PICK b \in Thread :
            /\ Exact(b)
            /\ \A u \in Thread : u # b => /\ fn[u] = NULL /\ local[u] = NULL /\ pagedir[u] \notin Page
                                          /\ pc[u] \notin Leaving
      BY OneHolder
    <2>2. leaked \subseteq used
      BY <2>1 DEF Exact
    <2>3. running \in Proc /\ ActiveFor(running) /\ Shape(running)
      BY DEF ProcessInv, Active, Shapes
    <2>4. CASE cr3 \in leaked
      BY <2>2, <2>4
    <2>5. CASE cr3 \notin leaked
      <3>1. \/ pc[running] \notin Leaving /\ cr3 = pagedir[running]
            \/ pc[running] \in Leaving /\ cr3 = local[running]
        BY <2>3, <2>5 DEF ActiveFor, HasSpace, Leaving
      <3>2. running = b
        BY <2>0, <2>1, <2>3, <3>1
      <3>3. Dir(b) = cr3
        BY <2>0, <3>1, <3>2 DEF Dir
      <3>4. cr3 \in Owned
        BY <2>0, <2>1, <3>3, OwnedIsDir
      <3>5. cr3 \in DirPages(cr3)
        BY <2>0, TreePages
      <3>6. cr3 \in Tree(b)
        BY <2>0, <3>3, <3>5 DEF Tree
      <3> QED BY <2>1, <3>4, <3>6 DEF Exact
    <2> QED BY <2>4, <2>5
  <1> QED BY <1>1, ProcessInvariant, PTL

(* Every allocated page has exactly one owner: nothing is freed twice,     *)
(* given to two, or lost, but what a failed load() leaks.                  *)
THEOREM PagesHaveOneOwner == Spec => []PagesOwnedOnce
  <1>1. ProcessInv => PagesOwnedOnce
    <2> SUFFICES ASSUME ProcessInv PROVE PagesOwnedOnce
      OBVIOUS
    <2>0. /\ Proc \subseteq Thread /\ NULL \notin Page /\ leaked \subseteq Page /\ dirs \in [Page -> DirType]
          /\ \A t \in Thread : t \in Proc \/ local[t] = NULL
      BY ProcessConstants DEF ProcessInv, ProcessTypeOK, Others
    <2>1. PICK b \in Thread :
            /\ Exact(b)
            /\ \A u \in Thread : u # b => /\ fn[u] = NULL /\ local[u] = NULL /\ pagedir[u] \notin Page
                                          /\ pc[u] \notin Leaving
      BY OneHolder
    <2>2. /\ Owned = {Dir(b)} \ {NULL} /\ Dir(b) \in Page \cup {NULL} /\ \A t \in Exiting : t = b
      BY <2>1, OwnedIsDir
    <2>3. b \in Exiting <=> pc[b] \in Leaving
      BY ProcessConstants DEF Exiting, Leaving, ProcessInv, Others
    <2> DEFINE held == {h \in Holdings : h[3] # NULL}
    <2>4. ASSUME NEW h \in held
          PROVE  \/ h = <<"fn", b, h[3]>> /\ h[3] \in Name(b)
                 \/ h = <<"kpage", b, h[3]>> /\ h[3] \in Kpage(b)
                 \/ h = <<"dir", Dir(b), h[3]>> /\ h[3] \in Tree(b)
                 \/ h = <<"leaked", NULL, h[3]>> /\ h[3] \in leaked
      <3>1. CASE h \in NameHoldings
        <4>1. PICK t \in Thread : h = <<"fn", t, fn[t]>>
          BY <3>1 DEF NameHoldings
        <4> QED BY <2>1, <2>4, <4>1 DEF Name
      <3>2. CASE h \in KpageHoldings
        <4>1. PICK t \in Proc \ Exiting : h = <<"kpage", t, local[t]>>
          BY <3>2 DEF KpageHoldings
        <4> QED BY <2>0, <2>1, <2>3, <2>4, <4>1 DEF Kpage
      <3>3. CASE h \in DirHoldings
        <4>1. PICK d \in Owned : h \in {<<"dir", d, p>> : p \in DirPages(d)}
          BY <3>3 DEF DirHoldings
        <4>2. PICK p \in DirPages(d) : h = <<"dir", d, p>>
          BY <4>1
        <4> QED BY <2>2, <4>2 DEF Tree
      <3>4. CASE h \in LeakedHoldings
        BY <3>4 DEF LeakedHoldings
      <3>5. h \in Holdings
        BY <2>4
      <3> QED BY <3>1, <3>2, <3>3, <3>4, <3>5 DEF Holdings
    <2>5. ASSUME NEW p \in used PROVE \E h \in held : h[3] = p
      <3>0. p # NULL
        BY <2>0 DEF ProcessInv, ProcessTypeOK
      <3>1. CASE p \in Name(b)
        <4>1. <<"fn", b, p>> \in Holdings
          BY <3>1 DEF Name, Holdings, NameHoldings
        <4> QED BY <3>0, <4>1
      <3>2. CASE p \in Kpage(b)
        <4>1. b \in Proc \ Exiting /\ p = local[b]
          BY <2>0, <2>3, <3>0, <3>2 DEF Kpage
        <4>2. <<"kpage", b, p>> \in Holdings
          BY <4>1 DEF Holdings, KpageHoldings
        <4> QED BY <3>0, <4>2
      <3>3. CASE p \in Tree(b)
        <4>1. Dir(b) \in Owned /\ p \in DirPages(Dir(b))
          BY <2>2, <3>3 DEF Tree
        <4>2. <<"dir", Dir(b), p>> \in Holdings
          <5>1. <<"dir", Dir(b), p>> \in {<<"dir", Dir(b), x>> : x \in DirPages(Dir(b))}
            BY <4>1
          <5>2. <<"dir", Dir(b), p>> \in DirHoldings
            BY <4>1, <5>1, Zenon DEF DirHoldings
          <5> QED BY <5>2 DEF Holdings
        <4> QED BY <3>0, <4>2
      <3>4. CASE p \in leaked
        <4>1. <<"leaked", NULL, p>> \in Holdings
          <5>1. <<"leaked", NULL, p>> \in LeakedHoldings
            BY <3>4 DEF LeakedHoldings
          <5> QED BY <5>1 DEF Holdings
        <4> QED BY <3>0, <4>1
      <3> QED BY <2>1, <3>1, <3>2, <3>3, <3>4 DEF Exact
    <2> HIDE DEF held
    <2>6. used = {h[3] : h \in held}
      BY <2>1, <2>4, <2>5 DEF Exact
    <2>7. ASSUME NEW g \in held, NEW h \in held, g[3] = h[3] PROVE g = h
      BY <2>1, <2>4, <2>7 DEF Exact
    <2> QED BY <2>6, <2>7 DEF PagesOwnedOnce, held
  <1> QED BY <1>1, ProcessInvariant, PTL
==============================================================================
