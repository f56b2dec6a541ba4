------------------------------- MODULE Malloc -------------------------------
(***************************************************************************)
(* The kernel's malloc() (threads/malloc.c) over the page allocator.  Each *)
(* descriptor has a lock, held while a new arena is fetched from palloc    *)
(* and while an empty one is given back; big blocks are groups of pages    *)
(* and know no lock but palloc's.  A preemption may fall between any two   *)
(* steps.  Sizes are numbers below Word and wrap around there, as size_t   *)
(* does at 2^32.                                                           *)
(***************************************************************************)
EXTENDS Palloc, Sequences, FiniteSetsExt

CONSTANTS PGSIZE,
          ARENA_SIZE,    \* sizeof(struct arena)
          MIN_BLOCK,     \* the smallest block size
          Word,          \* one more than the largest size_t
          Size,          \* sizes the threads ask malloc() and realloc() for
          CallocArg,     \* pairs <<a, b>> they give calloc()
          MaxLive        \* bound: how many blocks are in use or asked for at once

Block     == [page : Pages, idx : Nat]               \* a block of an arena
LiveBlock == [page : Pages, idx : Nat, asked : Nat]  \* with the size it was asked for

ASSUME MallocAssumption == /\ PGSIZE \in Nat \ {0} /\ MIN_BLOCK \in Nat \ {0}
                           /\ ARENA_SIZE \in Nat /\ ARENA_SIZE <= PGSIZE \div 2
                           /\ Word \in Nat /\ PGSIZE < Word
                           /\ Size \subseteq 0..(Word - 1)
                           /\ CallocArg \subseteq (0..(Word - 1)) \X (0..(Word - 1))
                           /\ Word \div PGSIZE <= MaxRequest
                           /\ NULL \notin Block \cup LiveBlock

(* malloc_init(): descriptor i is for blocks of MIN_BLOCK * 2^(i - 1).     *)
block_size[i \in 1..10] == IF i = 1 THEN MIN_BLOCK ELSE 2 * block_size[i - 1]
Desc == {i \in 1..10 : block_size[i] < PGSIZE \div 2}
blocks_per_arena(d) == (PGSIZE - ARENA_SIZE) \div block_size[d]

NoArena == [desc |-> 0, free_cnt |-> 0]      \* desc 0: a big block, if free_cnt > 0

VARIABLES arena,      \* page -> the header in it
          free_list,  \* descriptor -> its free blocks
          lock,       \* descriptor -> who holds its lock
          live,       \* blocks in use, each with the size that was asked for
          mpc, call   \* thread -> where it is in malloc.c, and its call

heapVars == <<arena, free_list, lock, live, mpc, call>>
mvars == <<vars, heapVars>>

NoCall == [asked |-> 0, size |-> 0, old |-> NULL, block |-> NULL, i |-> 0]

MallocInit == /\ Init
              /\ arena = [p \in Pages |-> NoArena]
              /\ free_list = [d \in Desc |-> << >>]
              /\ lock = [d \in Desc |-> NULL]
              /\ live = {}
              /\ mpc = [t \in Thread |-> "out"]
              /\ call = [t \in Thread |-> NoCall]

MAt(t, label)   == mpc[t] = label
MGoto(t, label) == mpc' = [mpc EXCEPT ![t] = label]

\* Mutant: a request of exactly a block size goes to the next descriptor down.
Fits(size) == {d \in Desc : block_size[d] >= size}
desc_for_Down(size) == IF Fits(size) = {} THEN 0
                       ELSE IF Min(Fits(size)) > 1 THEN Min(Fits(size)) - 1 ELSE 1

\* The smallest descriptor that fits, 0 if the block is big.
desc_for(size) == IF {d \in Desc : block_size[d] >= size} = {} THEN 0
                  ELSE Min({d \in Desc : block_size[d] >= size})

\* DIV_ROUND_UP(size + sizeof *a, PGSIZE) in size_t.
page_cnt(size) == ((((size + ARENA_SIZE) % Word) + PGSIZE - 1) % Word) \div PGSIZE

-----------------------------------------------------------------------------
(* The calls.  old is the block of a realloc().                            *)
InProgress == Cardinality({t \in Thread : ~MAt(t, "out")})

StartMalloc(t, asked, size, old) ==
  /\ MAt(t, "out") /\ At(t, "out")
  /\ size > 0
  /\ Cardinality(live) + InProgress < MaxLive
  /\ call' = [call EXCEPT ![t] = [NoCall EXCEPT !.asked = asked, !.size = size, !.old = old]]
  /\ live' = live \ {old}
  /\ IF desc_for(size) # 0
     THEN MGoto(t, "lock") /\ UNCHANGED vars
     ELSE IF page_cnt(size) = 0 THEN MGoto(t, "failed") /\ UNCHANGED vars
     ELSE MGoto(t, "pages") /\ Get(t, page_cnt(size))
  /\ UNCHANGED <<arena, free_list, lock>>

malloc(t, size) == StartMalloc(t, size, size, NULL)

\* calloc(): the product wraps; the test catches only some of the cases.
calloc(t, a, b) == LET size == (a * b) % Word
                   IN  size >= a /\ size >= b /\ StartMalloc(t, a * b, size, NULL)

StartFree(t, b) == /\ MAt(t, "out") /\ At(t, "out")
                   /\ live' = live \ {b}
                   /\ call' = [call EXCEPT ![t] = [NoCall EXCEPT !.old = b]]
                   /\ MGoto(t, "free")
                   /\ UNCHANGED <<vars, arena, free_list, lock>>
free(t)          == \E b \in live : StartFree(t, b)
realloc(t, size) == \E b \in live : IF size = 0 THEN StartFree(t, b)
                                    ELSE StartMalloc(t, size, size, b)

-----------------------------------------------------------------------------
MyDesc(t) == desc_for(call[t].size)

AcquireDesc(t, d) == lock[d] = NULL /\ lock' = [lock EXCEPT ![d] = t]

\* lock_acquire(&d->lock) and the test of the free list.
LockDesc(t) ==
  /\ MAt(t, "lock")
  /\ AcquireDesc(t, MyDesc(t))
  /\ IF free_list[MyDesc(t)] = << >>
     THEN Get(t, 1) /\ MGoto(t, "pages")
     ELSE MGoto(t, "pop") /\ UNCHANGED vars
  /\ UNCHANGED <<arena, free_list, live, call>>

(* palloc_get_multiple() of flags 0 returns pages.  They become an arena   *)
(* whose blocks are all free, or a big block, which is the result.         *)
Arena(d, p) == [i \in 1..blocks_per_arena(d) |-> [page |-> p, idx |-> i - 1]]
GotPages(t) ==
  LET p == idx[t]  d == MyDesc(t)
  IN  /\ MAt(t, "pages") /\ At(t, "zero")
      /\ groups' = groups \cup {[first |-> p, cnt |-> cnt[t]]}
      /\ Goto(t, "out")
      /\ arena' = [arena EXCEPT ![p] = [desc |-> d, free_cnt |-> IF d = 0 THEN cnt[t]
                                                                  ELSE blocks_per_arena(d)]]
      /\ IF d = 0
         THEN /\ call' = [call EXCEPT ![t].block = [page |-> p, idx |-> 0]]
              /\ MGoto(t, "done")
              /\ UNCHANGED free_list
         ELSE /\ free_list' = [free_list EXCEPT ![d] = @ \o Arena(d, p)]
              /\ MGoto(t, "pop")
              /\ UNCHANGED call
      /\ UNCHANGED <<used_map, owner, mem, cnt, idx, bit, lock, live>>

\* palloc_get_multiple() has returned a null pointer.
NoPages(t) ==
  /\ MAt(t, "pages") /\ At(t, "out")
  /\ lock' = IF MyDesc(t) = 0 THEN lock ELSE [lock EXCEPT ![MyDesc(t)] = NULL]
  /\ MGoto(t, "failed")
  /\ UNCHANGED <<vars, arena, free_list, live, call>>

\* Mutant: the lock is released before the count.
PopBlock_Unlocks(t) ==
  LET d == MyDesc(t)
  IN  /\ MAt(t, "pop")
      /\ call' = [call EXCEPT ![t].block = Head(free_list[d])]
      /\ free_list' = [free_list EXCEPT ![d] = Tail(@)]
      /\ lock' = [lock EXCEPT ![d] = NULL]
      /\ MGoto(t, "count")
      /\ UNCHANGED <<vars, arena, live>>
\* list_pop_front(), and then the count and lock_release().
PopBlock(t) ==
  LET d == MyDesc(t)
  IN  /\ MAt(t, "pop")
      /\ call' = [call EXCEPT ![t].block = Head(free_list[d])]
      /\ free_list' = [free_list EXCEPT ![d] = Tail(@)]
      /\ MGoto(t, "count")
      /\ UNCHANGED <<vars, arena, lock, live>>
CountTaken(t) ==
  /\ MAt(t, "count")
  /\ arena' = [arena EXCEPT ![call[t].block.page].free_cnt = @ - 1]
  /\ lock' = [lock EXCEPT ![MyDesc(t)] = NULL]
  /\ MGoto(t, "done")
  /\ UNCHANGED <<vars, free_list, live, call>>

(* malloc() returns its block; calloc() clears it, realloc() copies the    *)
(* old block and goes on to free it.                                       *)
Result(t) == [page |-> call[t].block.page, idx |-> call[t].block.idx, asked |-> call[t].asked]
MallocReturns(t) ==
  /\ MAt(t, "done")
  /\ live' = live \cup {Result(t)}
  /\ IF call[t].old = NULL
     THEN call' = [call EXCEPT ![t] = NoCall] /\ MGoto(t, "out")
     ELSE call' = [call EXCEPT ![t] = [NoCall EXCEPT !.old = call[t].old]] /\ MGoto(t, "free")
  /\ UNCHANGED <<vars, arena, free_list, lock>>
\* A null pointer; realloc() leaves the old block alone.
MallocFails(t) ==
  /\ MAt(t, "failed")
  /\ live' = live \cup ({call[t].old} \ {NULL})
  /\ call' = [call EXCEPT ![t] = NoCall]
  /\ MGoto(t, "out")
  /\ UNCHANGED <<vars, arena, free_list, lock>>

-----------------------------------------------------------------------------
(* free(): a small block goes to the front of its descriptor's list.       *)
Freed(t)    == [page |-> call[t].old.page, idx |-> call[t].old.idx]
FreeDesc(t) == arena[Freed(t).page].desc

FreeBlock(t) ==
  LET a == Freed(t).page  d == FreeDesc(t)
  IN  /\ MAt(t, "free")
      /\ IF d = 0
         THEN /\ Free(t, [first |-> a, cnt |-> arena[a].free_cnt])
              /\ arena' = [arena EXCEPT ![a] = NoArena]
              /\ MGoto(t, "freeing")
              /\ UNCHANGED <<free_list, lock>>
         ELSE /\ AcquireDesc(t, d)
              /\ free_list' = [free_list EXCEPT ![d] = <<Freed(t)>> \o @]
              /\ MGoto(t, "recount")
              /\ UNCHANGED <<vars, arena>>
      /\ UNCHANGED <<live, call>>

(* The count goes up.  When it says that the arena is unused, its blocks   *)
(* leave the free list one by one and palloc_free_page() begins, under the *)
(* descriptor's lock.                                                      *)
Recount(t) ==
  LET a == Freed(t).page  d == FreeDesc(t)
  IN  /\ MAt(t, "recount")
      /\ arena' = [arena EXCEPT ![a].free_cnt = @ + 1]
      /\ IF arena[a].free_cnt + 1 >= blocks_per_arena(d)
         THEN MGoto(t, "unlink") /\ UNCHANGED <<lock, call>>
         ELSE /\ lock' = [lock EXCEPT ![d] = NULL]
              /\ call' = [call EXCEPT ![t] = NoCall]
              /\ MGoto(t, "out")
      /\ UNCHANGED <<vars, free_list, live>>

\* list_remove() of the one node that is b's.
ListRemove(list, b) ==
  LET at == CHOOSE i \in DOMAIN list : list[i] = b
  IN  [i \in 1..(Len(list) - 1) |-> list[IF i < at THEN i ELSE i + 1]]

UnlinkNext(t, a, d) ==
  /\ free_list' = [free_list EXCEPT ![d] = ListRemove(@, [page |-> a, idx |-> call[t].i])]
  /\ call' = [call EXCEPT ![t].i = @ + 1]
  /\ UNCHANGED <<vars, arena, mpc>>
GiveBack(t, a) ==
  /\ Free(t, [first |-> a, cnt |-> 1])
  /\ arena' = [arena EXCEPT ![a] = NoArena]
  /\ call' = [call EXCEPT ![t] = NoCall]
  /\ MGoto(t, "freeing")
  /\ UNCHANGED free_list

\* Mutant: the loop stops one block short.
Unlink_Short(t) ==
  LET a == Freed(t).page  d == FreeDesc(t)
  IN  /\ MAt(t, "unlink")
      /\ IF call[t].i + 1 < blocks_per_arena(d) THEN UnlinkNext(t, a, d) ELSE GiveBack(t, a)
      /\ UNCHANGED <<lock, live>>
Unlink(t) ==
  LET a == Freed(t).page  d == FreeDesc(t)
  IN  /\ MAt(t, "unlink")
      /\ IF call[t].i < blocks_per_arena(d) THEN UnlinkNext(t, a, d) ELSE GiveBack(t, a)
      /\ UNCHANGED <<lock, live>>

\* palloc_free_multiple() has returned: lock_release(), if there is a lock.
Released(t) == /\ MAt(t, "freeing") /\ At(t, "out")
               /\ lock' = [d \in Desc |-> IF lock[d] = t THEN NULL ELSE lock[d]]
               /\ call' = [call EXCEPT ![t] = NoCall]
               /\ MGoto(t, "out")
               /\ UNCHANGED <<vars, arena, free_list, live>>

-----------------------------------------------------------------------------
(* Other callers of palloc, as thread_create() and thread_switch_tail():   *)
(* zeroed pages, one at a time.                                            *)
PageGet(t)  == /\ MAt(t, "out")
               /\ Get(t, 1)
               /\ MGoto(t, "page")
               /\ UNCHANGED <<arena, free_list, lock, live, call>>
PageGot(t)  == /\ MAt(t, "page")
               /\ ZeroPages(t)
               /\ UNCHANGED heapVars
PageFree(t) == /\ MAt(t, "out")
               /\ \E g \in groups : arena[g.first] = NoArena /\ Free(t, g)
               /\ MGoto(t, "page")
               /\ UNCHANGED <<arena, free_list, lock, live, call>>
PageDone(t) == /\ MAt(t, "page") /\ At(t, "out")
               /\ MGoto(t, "out")
               /\ UNCHANGED <<vars, arena, free_list, lock, live, call>>

PallocStep(t) == /\ LockPool(t) \/ ScanBit(t) \/ FlipBit(t) \/ ClearBit(t) \/ UnlockPool(t)
                 /\ UNCHANGED heapVars

MallocNext == \E t \in Thread :
  \/ \E n \in Size : malloc(t, n) \/ realloc(t, n)
  \/ \E p \in CallocArg : calloc(t, p[1], p[2])
  \/ free(t)
  \/ LockDesc(t) \/ GotPages(t) \/ NoPages(t) \/ PopBlock(t) \/ CountTaken(t)
  \/ MallocReturns(t) \/ MallocFails(t)
  \/ FreeBlock(t) \/ Recount(t) \/ Unlink(t) \/ Released(t)
  \/ PageGet(t) \/ PageGot(t) \/ PageFree(t) \/ PageDone(t)
  \/ PallocStep(t)

MallocSpec == MallocInit /\ [][MallocNext]_mvars

-----------------------------------------------------------------------------
\* block_size(): the bytes a block really has.
Usable(b) == LET a == arena[b.page]
             IN  IF a.desc # 0 THEN block_size[a.desc] ELSE (PGSIZE * a.free_cnt) - ARENA_SIZE
Extent(b) == LET from == (PGSIZE * b.page) + ARENA_SIZE + (b.idx * Usable(b))
             IN  from..(from + Usable(b) - 1)

\* Blocks a thread has off the free lists: popped, or not yet given back.
InHand(t) == {call[t].block, IF mpc[t] \in {"recount", "unlink", "freeing"} THEN NULL ELSE call[t].old}
               \ {NULL}
InUse     == live \cup UNION {InHand(t) : t \in Thread}
At0(b)    == [page |-> b.page, idx |-> b.idx]

(* A block in use overlaps no other one and no arena header, and lies in   *)
(* pages that palloc still has as allocated: an arena is never given back  *)
(* under a thread that has a block of it, whatever malloc() and free() of  *)
(* other threads do between the pop and the count.                         *)
LiveBlocksSafe ==
  /\ \A b \in InUse : /\ \E g \in groups : g.first = b.page
                      /\ \A i \in Extent(b) : \E g \in groups : (i \div PGSIZE) \in PagesOf(g)
                      /\ \A p \in Pages : arena[p] # NoArena =>
                            Extent(b) \cap (PGSIZE * p)..((PGSIZE * p) + ARENA_SIZE - 1) = {}
  /\ \A b, c \in live : b # c => Extent(b) \cap Extent(c) = {}
  /\ \A t \in Thread : \A b \in InHand(t) :
       \A c \in InUse : (c \in live \/ \E u \in Thread \ {t} : c \in InHand(u)) =>
         Extent(b) \cap Extent(c) = {}

(* While a descriptor's lock is free, its list and its arenas agree: each  *)
(* block of an arena is either on the list, once, or in use; free_cnt      *)
(* counts the first kind (free()'s ASSERT rests on it); no arena that is   *)
(* wholly free is kept.                                                    *)
ArenasExact ==
  \A d \in Desc : lock[d] = NULL =>
    LET listed   == {free_list[d][i] : i \in DOMAIN free_list[d]}
        arenas   == {p \in Pages : arena[p].desc = d}
        FreeOf(p) == {b \in listed : b.page = p}
    IN  /\ Cardinality(listed) = Len(free_list[d])
        /\ \A b \in listed : b.page \in arenas
        /\ \A p \in arenas :
             /\ FreeOf(p) \cap {At0(b) : b \in InUse} = {}
             /\ FreeOf(p) \cup {At0(b) : b \in {c \in InUse : c.page = p}}
                  = {[page |-> p, idx |-> i] : i \in 0..(blocks_per_arena(d) - 1)}
             /\ arena[p].free_cnt = Cardinality(FreeOf(p))
             /\ arena[p].free_cnt < blocks_per_arena(d)

(* "Obtains and returns a new block of at least SIZE bytes", for malloc(), *)
(* calloc() and realloc(), of every request that stays below Word together *)
(* with an arena header.  Nothing is promised here of larger ones: the     *)
(* code's own size arithmetic wraps around for them.                       *)
BigEnough == \A b \in live : b.asked + ARENA_SIZE < Word => Usable(b) >= b.asked
=============================================================================
