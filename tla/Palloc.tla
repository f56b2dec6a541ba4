------------------------------- MODULE Palloc -------------------------------
(***************************************************************************)
(* One pool of the page allocator (threads/palloc.c) and the bitmap it     *)
(* keeps (lib/kernel/bitmap.c).  palloc_get_multiple() takes the pool's    *)
(* lock; palloc_free_multiple() does not, because thread_switch_tail()     *)
(* calls it where it may not sleep.  What keeps the two apart is only that *)
(* a bit is set or cleared by one instruction, so every read and every     *)
(* write of a bit is a step here and a preemption may fall between any two.*)
(***************************************************************************)
EXTENDS Naturals, FiniteSets

CONSTANTS Thread, NULL,
          PageCnt,       \* pages in the pool: bitmap_size(pool->used_map)
          MaxRequest     \* bound: the largest page_cnt a thread asks for

ASSUME PallocAssumption == /\ NULL \notin Thread
                           /\ PageCnt \in Nat \ {0}
                           /\ MaxRequest \in Nat \ {0}

Pages == 0..(PageCnt - 1)
Group == [first : Pages, cnt : 1..MaxRequest]     \* a return value of palloc_get_multiple()
PagesOf(g) == {p \in Pages : g.first <= p /\ p < g.first + g.cnt}

VARIABLES used_map,  \* page -> its bit
          owner,     \* who holds pool->lock
          groups,    \* groups of pages that are allocated
          mem,       \* page -> what memset() left there
          pc, cnt,   \* thread -> where it is, its page_cnt
          idx, bit   \* thread -> its page_idx, and the loop counter of the bitmap call

vars == <<used_map, owner, groups, mem, pc, cnt, idx, bit>>

Label == {"out", "lock", "scan", "flip", "unlock", "fail", "zero", "clear"}

\* init_pool().
Init == /\ used_map = [p \in Pages |-> FALSE]
        /\ owner = NULL
        /\ groups = {}
        /\ mem = [p \in Pages |-> "junk"]
        /\ pc = [t \in Thread |-> "out"]
        /\ cnt = [t \in Thread |-> 1]
        /\ idx = [t \in Thread |-> 0]
        /\ bit = [t \in Thread |-> 0]

At(t, label)   == pc[t] = label
Goto(t, label) == pc' = [pc EXCEPT ![t] = label]

-----------------------------------------------------------------------------
\* palloc_get_multiple(PAL_ZERO, n), n > 0.
Get(t, n) == /\ At(t, "out")
             /\ cnt' = [cnt EXCEPT ![t] = n]
             /\ Goto(t, "lock")
             /\ UNCHANGED <<used_map, owner, groups, mem, idx, bit>>

\* Mutant: the pool's lock is not waited for.
LockPool_Free(t) == /\ At(t, "lock")
                    /\ owner' = t
                    /\ idx' = [idx EXCEPT ![t] = 0]
                    /\ bit' = [bit EXCEPT ![t] = 0]
                    /\ Goto(t, IF cnt[t] <= PageCnt THEN "scan" ELSE "fail")
                    /\ UNCHANGED <<used_map, groups, mem, cnt>>

\* lock_acquire(), and bitmap_scan()'s test that the request can fit at all.
LockPool(t) == /\ At(t, "lock")
               /\ owner = NULL
               /\ owner' = t
               /\ idx' = [idx EXCEPT ![t] = 0]
               /\ bit' = [bit EXCEPT ![t] = 0]
               /\ Goto(t, IF cnt[t] <= PageCnt THEN "scan" ELSE "fail")
               /\ UNCHANGED <<used_map, groups, mem, cnt>>

(* bitmap_scan() and bitmap_contains(): look at one bit.  A set bit moves  *)
(* the scan to the next start, if there is one.                            *)
ScanBit(t) ==
  /\ At(t, "scan")
  /\ IF used_map[idx[t] + bit[t]]
     THEN /\ bit' = [bit EXCEPT ![t] = 0]
          /\ IF idx[t] + 1 <= PageCnt - cnt[t]
             THEN idx' = [idx EXCEPT ![t] = @ + 1] /\ UNCHANGED pc
             ELSE Goto(t, "fail") /\ UNCHANGED idx
     ELSE /\ UNCHANGED idx
          /\ IF bit[t] + 1 < cnt[t]
             THEN bit' = [bit EXCEPT ![t] = @ + 1] /\ UNCHANGED pc
             ELSE bit' = [bit EXCEPT ![t] = 0] /\ Goto(t, "flip")
  /\ UNCHANGED <<used_map, owner, groups, mem, cnt>>

\* Mutant: the loop ends one bit early.
NextBit_Short(t, label) ==
  IF bit[t] + 2 < cnt[t]
  THEN bit' = [bit EXCEPT ![t] = @ + 1] /\ UNCHANGED pc
  ELSE bit' = [bit EXCEPT ![t] = 0] /\ Goto(t, label)

\* The next pass of bitmap_set_multiple()'s loop, which goes on to label when done.
NextBit(t, label) ==
  IF bit[t] + 1 < cnt[t]
  THEN bit' = [bit EXCEPT ![t] = @ + 1] /\ UNCHANGED pc
  ELSE bit' = [bit EXCEPT ![t] = 0] /\ Goto(t, label)

\* bitmap_set_multiple(), bitmap_mark(): set one bit.
FlipBit(t) == /\ At(t, "flip")
              /\ used_map' = [used_map EXCEPT ![idx[t] + bit[t]] = TRUE]
              /\ NextBit(t, "unlock")
              /\ UNCHANGED <<owner, groups, mem, cnt, idx>>

\* lock_release(), after success and after failure.
UnlockPool(t) == /\ pc[t] \in {"unlock", "fail"}
                 /\ owner' = NULL
                 /\ Goto(t, IF At(t, "unlock") THEN "zero" ELSE "out")
                 /\ UNCHANGED <<used_map, groups, mem, cnt, idx, bit>>

\* The pages thread t is working on.
Mine(t) == {p \in Pages : idx[t] <= p /\ p < idx[t] + cnt[t]}

\* memset(pages, 0, ...), and return the pages.
ZeroPages(t) == /\ At(t, "zero")
                /\ mem' = [p \in Pages |-> IF p \in Mine(t) THEN "zero" ELSE mem[p]]
                /\ groups' = groups \cup {[first |-> idx[t], cnt |-> cnt[t]]}
                /\ Goto(t, "out")
                /\ UNCHANGED <<used_map, owner, cnt, idx, bit>>

(* palloc_free_multiple() of a group some thread allocated: fill it with   *)
(* 0xcc, then clear its bits.                                              *)
Free(t, g) == /\ At(t, "out")
              /\ g \in groups
              /\ groups' = groups \ {g}
              /\ mem' = [p \in Pages |-> IF p \in PagesOf(g) THEN "0xcc" ELSE mem[p]]
              /\ idx' = [idx EXCEPT ![t] = g.first]
              /\ cnt' = [cnt EXCEPT ![t] = g.cnt]
              /\ bit' = [bit EXCEPT ![t] = 0]
              /\ Goto(t, "clear")
              /\ UNCHANGED <<used_map, owner>>

\* bitmap_set_multiple(), bitmap_reset(): clear one bit.
ClearBit(t) == /\ At(t, "clear")
               /\ used_map' = [used_map EXCEPT ![idx[t] + bit[t]] = FALSE]
               /\ NextBit(t, "out")
               /\ UNCHANGED <<owner, groups, mem, cnt, idx>>

Next == \E t \in Thread :
          \/ \E n \in 1..MaxRequest : Get(t, n)
          \/ LockPool(t) \/ ScanBit(t) \/ FlipBit(t) \/ UnlockPool(t) \/ ZeroPages(t)
          \/ \E g \in groups : Free(t, g)
          \/ ClearBit(t)

Spec == Init /\ [][Next]_vars

-----------------------------------------------------------------------------
TypeOK == /\ used_map \in [Pages -> BOOLEAN]
          /\ owner \in Thread \cup {NULL}
          /\ groups \subseteq Group
          /\ mem \in [Pages -> {"junk", "zero", "0xcc"}]
          /\ pc \in [Thread -> Label]
          /\ cnt \in [Thread -> 1..MaxRequest]
          /\ idx \in [Thread -> Pages]
          /\ bit \in [Thread -> Nat]

\* The pages whose bit thread t has set and not handed out, or not yet cleared.
Claim(t) ==
  {p \in Mine(t) : \/ At(t, "flip") /\ p < idx[t] + bit[t]
                   \/ pc[t] \in {"unlock", "zero"}
                   \/ At(t, "clear") /\ idx[t] + bit[t] <= p}

(* No page is given out twice: allocated groups do not overlap each other, *)
(* nor the pages another thread is in the middle of taking or freeing.     *)
NoDoubleAllocation ==
  /\ \A g, h \in groups : g # h => PagesOf(g) \cap PagesOf(h) = {}
  /\ \A g \in groups, t \in Thread : PagesOf(g) \cap Claim(t) = {}
  /\ \A t, u \in Thread : t # u => Claim(t) \cap Claim(u) = {}

(* The bitmap is exact: a bit is set just when its page is allocated or in *)
(* the middle of it, so no page leaks; palloc_free_multiple()'s            *)
(* ASSERT(bitmap_all(...)) always holds.                                   *)
UsedMapExact ==
  {p \in Pages : used_map[p]} =
    (UNION {PagesOf(g) : g \in groups}) \cup (UNION {Claim(t) : t \in Thread})

(* The free run bitmap_scan() found is still free when it is flipped,      *)
(* though testing bits is not atomic with setting them.                    *)
FlipsFreeBits ==
  \A t \in Thread : At(t, "flip") =>
    \A p \in Mine(t) : p >= idx[t] + bit[t] => ~used_map[p]

(* Pages come zeroed and are not scribbled on afterwards: the 0xcc fill of *)
(* a free happens while the pages still belong to the freeing thread.      *)
ZeroedPagesStay == \A g \in groups : \A p \in PagesOf(g) : mem[p] = "zero"
=============================================================================
