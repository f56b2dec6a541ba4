---------------------------- MODULE MallocProofs ----------------------------
(***************************************************************************)
(* The page allocator and malloc() over it, for any pool size, any number  *)
(* of threads and any sizes.                                               *)
(*                                                                         *)
(* Palloc gives no page out twice, though palloc_free_multiple() takes no  *)
(* lock: only the holder of pool->lock sets bits, so a bit it has seen     *)
(* clear stays clear until it sets it; and a bit is cleared only by the    *)
(* thread that owns the page.                                              *)
(*                                                                         *)
(* malloc() gives no block out twice and loses none: every place of an     *)
(* arena has one owner at a time, a step of a thread moves a place from    *)
(* one owner to another or brings or ends a whole arena, and free_cnt      *)
(* counts the places on the free list up to what the thread that holds     *)
(* the descriptor's lock has pushed, popped or unlinked.                   *)
(***************************************************************************)
EXTENDS Malloc, TLAPS, FiniteSetTheorems, SequenceTheorems

\* The lock is held from lock_acquire() to lock_release().
LockHeld == \A t \in Thread : pc[t] \in {"scan", "flip", "unlock", "fail"} => owner = t

\* The pages a thread works on lie in the pool.
InPool == /\ \A t \in Thread :
               /\ pc[t] \in {"scan", "flip", "unlock", "zero", "clear"} => idx[t] + cnt[t] <= PageCnt
               /\ pc[t] \in {"scan", "flip", "clear"} => bit[t] < cnt[t]
          /\ \A g \in groups : g.first + g.cnt <= PageCnt

\* The bits bitmap_contains() has passed are still clear.
ScannedFree == \A t \in Thread : pc[t] = "scan" =>
                 \A p \in Pages : idx[t] <= p /\ p < idx[t] + bit[t] => ~used_map[p]

\* UsedMapExact, page by page.
MapExact == \A p \in Pages : used_map[p] <=> \/ \E g \in groups : p \in PagesOf(g)
                                             \/ \E t \in Thread : p \in Claim(t)

\* Who has which page, whatever the pages hold.
PoolInv == /\ TypeOK /\ LockHeld /\ InPool /\ ScannedFree /\ FlipsFreeBits
           /\ MapExact /\ NoDoubleAllocation

PallocInv == PoolInv /\ ZeroedPagesStay

-----------------------------------------------------------------------------
\* Page numbers.
LEMMA PagesNat == /\ \A p \in Pages : p \in Nat
                  /\ \A n \in Nat : n < PageCnt <=> n \in Pages
  BY PallocAssumption DEF Pages

(* The numbers thread t counts with, and where its pages lie.              *)
LEMMA Numbers ==
  ASSUME PoolInv, NEW t \in Thread
  PROVE  /\ PageCnt \in Nat /\ idx[t] \in Nat /\ bit[t] \in Nat /\ cnt[t] \in Nat /\ cnt[t] >= 1
         /\ pc[t] \in {"scan", "flip", "unlock", "zero", "clear"} => idx[t] + cnt[t] <= PageCnt
         /\ pc[t] \in {"scan", "flip", "clear"} => bit[t] < cnt[t]
  <1>1. idx[t] \in Pages /\ bit[t] \in Nat /\ cnt[t] \in 1..MaxRequest
    BY DEF PoolInv, TypeOK
  <1>2. idx[t] \in Nat
    BY <1>1, PagesNat
  <1>3. cnt[t] \in Nat /\ cnt[t] >= 1 /\ PageCnt \in Nat
    BY <1>1, PallocAssumption
  <1> QED BY <1>1, <1>2, <1>3 DEF PoolInv, InPool

\* init_pool() establishes the invariant.
LEMMA PallocInitInv == Init => PallocInv
  <1> SUFFICES ASSUME Init PROVE PallocInv
    OBVIOUS
  <1> USE DEF Init
  <1>1. TypeOK
    BY PallocAssumption DEF TypeOK, Label, Pages
  <1>2. LockHeld /\ InPool /\ ScannedFree /\ FlipsFreeBits
    BY DEF LockHeld, InPool, ScannedFree, FlipsFreeBits, At
  <1>3. MapExact /\ NoDoubleAllocation /\ ZeroedPagesStay
    BY DEF MapExact, NoDoubleAllocation, ZeroedPagesStay, Claim, At
  <1> QED BY <1>1, <1>2, <1>3 DEF PallocInv, PoolInv

(* A step that changes neither bits, groups nor claims.                    *)
LEMMA SameClaims ==
  ASSUME PoolInv, UNCHANGED <<used_map, groups>>,
         \A t \in Thread : Claim(t)' = Claim(t)
  PROVE  MapExact' /\ NoDoubleAllocation'
  <1>1. MapExact'
    BY DEF PoolInv, MapExact
  <1>2. NoDoubleAllocation'
    BY DEF PoolInv, NoDoubleAllocation
  <1> QED BY <1>1, <1>2

(* What a step of t leaves alone: the other threads and their claims.      *)
LEMMA Others ==
  ASSUME PoolInv, NEW t \in Thread,
         \A u \in Thread : u # t => /\ pc'[u] = pc[u] /\ cnt'[u] = cnt[u]
                                    /\ idx'[u] = idx[u] /\ bit'[u] = bit[u]
  PROVE  \A u \in Thread : u # t => Claim(u)' = Claim(u) /\ Mine(u)' = Mine(u)
  BY DEF Claim, Mine, At

\* A call of palloc_get_multiple() touches no bit.
LEMMA GetInv == ASSUME PoolInv, NEW t \in Thread, NEW n \in 1..MaxRequest, Get(t, n)
                PROVE  PoolInv'
  <1> USE DEF Get, At, Goto
  <1>1. TypeOK'
    BY DEF PoolInv, TypeOK, Label
  <1>2. /\ pc[t] = "out" /\ pc'[t] = "lock"
        /\ \A u \in Thread : u # t => /\ pc'[u] = pc[u] /\ cnt'[u] = cnt[u]
                                      /\ idx'[u] = idx[u] /\ bit'[u] = bit[u]
    BY DEF PoolInv, TypeOK
  <1>3. LockHeld' /\ InPool' /\ ScannedFree'
    BY <1>2 DEF PoolInv, LockHeld, InPool, ScannedFree
  <1>4. FlipsFreeBits'
    BY <1>2, Others DEF PoolInv, FlipsFreeBits
  <1>5. \A u \in Thread : Claim(u)' = Claim(u)
    BY <1>2, Others DEF Claim
  <1> QED BY <1>1, <1>3, <1>4, <1>5, SameClaims DEF PoolInv

\* The lock is taken when nobody scans or flips.
LEMMA LockPoolInv == ASSUME PoolInv, NEW t \in Thread, LockPool(t) PROVE PoolInv'
  <1> USE DEF LockPool, At, Goto
  <1>1. TypeOK'
    BY PallocAssumption DEF PoolInv, TypeOK, Label, Pages
  <1>2. /\ pc[t] = "lock" /\ pc'[t] = IF cnt[t] <= PageCnt THEN "scan" ELSE "fail"
        /\ idx'[t] = 0 /\ bit'[t] = 0 /\ cnt'[t] = cnt[t] /\ cnt[t] \in 1..MaxRequest
        /\ \A u \in Thread : u # t => /\ pc'[u] = pc[u] /\ cnt'[u] = cnt[u]
                                      /\ idx'[u] = idx[u] /\ bit'[u] = bit[u]
    BY DEF PoolInv, TypeOK
  <1>3. \A u \in Thread : pc[u] \notin {"scan", "flip", "unlock", "fail"}
    BY PallocAssumption DEF PoolInv, LockHeld
  <1>4. LockHeld' /\ InPool' /\ ScannedFree'
    BY <1>2, <1>3, PagesNat, PallocAssumption DEF PoolInv, LockHeld, InPool, ScannedFree
  <1>5. FlipsFreeBits'
    BY <1>2, <1>3 DEF FlipsFreeBits
  <1>6. \A u \in Thread : Claim(u)' = Claim(u)
    BY <1>2, Others DEF Claim
  <1> QED BY <1>1, <1>4, <1>5, <1>6, SameClaims DEF PoolInv

\* The scan passes a clear bit, or starts again behind a set one.
LEMMA ScanBitInv == ASSUME PoolInv, NEW t \in Thread, ScanBit(t) PROVE PoolInv'
  <1> USE DEF ScanBit, At, Goto
  <1>0. /\ pc[t] = "scan" /\ cnt'[t] = cnt[t]
        /\ \A u \in Thread : u # t => /\ pc'[u] = pc[u] /\ cnt'[u] = cnt[u]
                                      /\ idx'[u] = idx[u] /\ bit'[u] = bit[u]
    BY DEF PoolInv, TypeOK
  <1>1. /\ idx[t] \in Nat /\ bit[t] \in Nat /\ cnt[t] \in Nat /\ PageCnt \in Nat
        /\ bit[t] < cnt[t] /\ idx[t] + cnt[t] <= PageCnt
    BY <1>0, Numbers
  <1>2. \A u \in Thread : u # t => pc[u] \notin {"scan", "flip", "unlock", "fail"}
    BY DEF PoolInv, LockHeld
  <1>3. CASE used_map[idx[t] + bit[t]] /\ idx[t] + 1 <= PageCnt - cnt[t]
    <2>1. pc'[t] = "scan" /\ idx'[t] = idx[t] + 1 /\ bit'[t] = 0
      BY <1>3 DEF PoolInv, TypeOK
    <2>2. TypeOK'
      BY <1>0, <1>1, <1>3, PagesNat DEF PoolInv, TypeOK
    <2>3. LockHeld' /\ InPool' /\ ScannedFree'
      BY <1>0, <1>1, <1>2, <1>3, <2>1, PagesNat DEF PoolInv, LockHeld, InPool, ScannedFree
    <2>4. FlipsFreeBits'
      BY <1>0, <1>1, <1>2, <2>1 DEF FlipsFreeBits
    <2>5. \A u \in Thread : Claim(u)' = Claim(u)
      BY <1>0, <1>1, <2>1, Others DEF Claim
    <2> QED BY <2>2, <2>3, <2>4, <2>5, SameClaims DEF PoolInv
  <1>4. CASE used_map[idx[t] + bit[t]] /\ ~(idx[t] + 1 <= PageCnt - cnt[t])
    <2>1. pc'[t] = "fail" /\ idx'[t] = idx[t] /\ bit'[t] = 0
      BY <1>4 DEF PoolInv, TypeOK
    <2>2. TypeOK'
      BY <1>0, <1>1, <1>4 DEF PoolInv, TypeOK, Label
    <2>3. LockHeld' /\ InPool' /\ ScannedFree'
      BY <1>0, <1>1, <1>2, <2>1 DEF PoolInv, LockHeld, InPool, ScannedFree
    <2>4. FlipsFreeBits'
      BY <1>0, <1>1, <1>2, <2>1 DEF FlipsFreeBits
    <2>5. \A u \in Thread : Claim(u)' = Claim(u)
      BY <1>0, <1>1, <2>1, Others DEF Claim
    <2> QED BY <2>2, <2>3, <2>4, <2>5, SameClaims DEF PoolInv
  <1>5. CASE ~used_map[idx[t] + bit[t]] /\ bit[t] + 1 < cnt[t]
    <2>1. pc'[t] = "scan" /\ idx'[t] = idx[t] /\ bit'[t] = bit[t] + 1
      BY <1>5 DEF PoolInv, TypeOK
    <2>2. TypeOK'
      BY <1>0, <1>1, <1>5 DEF PoolInv, TypeOK
    <2>3. LockHeld' /\ InPool'
      BY <1>0, <1>1, <1>2, <1>5, <2>1 DEF PoolInv, LockHeld, InPool
    <2>4. ScannedFree'
      BY <1>0, <1>1, <1>2, <1>5, <2>1, PagesNat DEF PoolInv, ScannedFree
    <2>5. FlipsFreeBits'
      BY <1>0, <1>1, <1>2, <2>1 DEF FlipsFreeBits
    <2>6. \A u \in Thread : Claim(u)' = Claim(u)
      BY <1>0, <1>1, <2>1, Others DEF Claim
    <2> QED BY <2>2, <2>3, <2>4, <2>5, <2>6, SameClaims DEF PoolInv
  <1>6. CASE ~used_map[idx[t] + bit[t]] /\ ~(bit[t] + 1 < cnt[t])
    <2>1. pc'[t] = "flip" /\ idx'[t] = idx[t] /\ bit'[t] = 0
      BY <1>6 DEF PoolInv, TypeOK
    <2>2. TypeOK'
      BY <1>0, <1>1, <1>6 DEF PoolInv, TypeOK, Label
    <2>3. LockHeld' /\ InPool' /\ ScannedFree'
      BY <1>0, <1>1, <1>2, <2>1 DEF PoolInv, LockHeld, InPool, ScannedFree
    <2>4. ASSUME NEW p \in Mine(t) PROVE ~used_map[p]
      <3>1. p \in Pages /\ p \in Nat /\ idx[t] <= p /\ p < idx[t] + cnt[t]
        BY PagesNat DEF Mine
      <3>2. p < idx[t] + bit[t] \/ p = idx[t] + bit[t]
        BY <1>1, <1>6, <3>1
      <3> QED BY <1>0, <1>6, <3>1, <3>2 DEF PoolInv, ScannedFree
    <2>5. FlipsFreeBits'
      BY <1>0, <1>1, <1>2, <2>1, <2>4 DEF FlipsFreeBits, Mine
    <2>6. Claim(t)' = {} /\ Claim(t) = {}
      <3>1. \A p \in Mine(t)' : p \in Nat /\ idx[t] <= p
        BY <2>1, PagesNat DEF Mine
      <3> QED BY <1>0, <1>1, <2>1, <3>1 DEF Claim
    <2>7. \A u \in Thread : Claim(u)' = Claim(u)
      BY <1>0, <1>1, <2>6, Others
    <2> QED BY <2>2, <2>3, <2>5, <2>7, SameClaims DEF PoolInv
  <1> QED BY <1>3, <1>4, <1>5, <1>6

(* The page a thread is about to take is free, so nobody claims it.        *)
LEMMA FlipBitInv == ASSUME PoolInv, NEW t \in Thread, FlipBit(t) PROVE PoolInv'
  <1> USE DEF FlipBit, NextBit, At, Goto
  <1> DEFINE page == idx[t] + bit[t]
  <1>0. /\ pc[t] = "flip" /\ cnt'[t] = cnt[t] /\ idx'[t] = idx[t]
        /\ \A u \in Thread : u # t => /\ pc'[u] = pc[u] /\ cnt'[u] = cnt[u]
                                      /\ idx'[u] = idx[u] /\ bit'[u] = bit[u]
    BY DEF PoolInv, TypeOK
  <1>1. /\ idx[t] \in Nat /\ bit[t] \in Nat /\ cnt[t] \in Nat /\ PageCnt \in Nat
        /\ bit[t] < cnt[t] /\ idx[t] + cnt[t] <= PageCnt
    BY <1>0, Numbers
  <1>2. \A u \in Thread : u # t => pc[u] \notin {"scan", "flip", "unlock", "fail"}
    BY DEF PoolInv, LockHeld
  <1>3. page \in Pages /\ page \in Mine(t) /\ ~used_map[page]
    BY <1>0, <1>1, PagesNat DEF PoolInv, FlipsFreeBits, Mine
  <1>4. /\ \A g \in groups : page \notin PagesOf(g)
        /\ \A u \in Thread : page \notin Claim(u)
    BY <1>3 DEF PoolInv, MapExact
  <1>5. /\ used_map' \in [Pages -> BOOLEAN]
        /\ \A p \in Pages : used_map'[p] <=> used_map[p] \/ p = page
    BY <1>3 DEF PoolInv, TypeOK
  <1>6. \/ pc'[t] = "flip" /\ bit'[t] = bit[t] + 1 /\ bit[t] + 1 < cnt[t]
        \/ pc'[t] = "unlock" /\ bit'[t] = 0 /\ bit[t] + 1 = cnt[t]
    <2>1. CASE bit[t] + 1 < cnt[t]
      BY <1>0, <1>1, <2>1 DEF PoolInv, TypeOK
    <2>2. CASE ~(bit[t] + 1 < cnt[t])
      BY <1>0, <1>1, <2>2 DEF PoolInv, TypeOK
    <2> QED BY <2>1, <2>2
  <1>7. TypeOK'
    BY <1>0, <1>1, <1>5 DEF PoolInv, TypeOK, Label
  <1>8. LockHeld' /\ InPool' /\ ScannedFree'
    BY <1>0, <1>1, <1>2, <1>6 DEF PoolInv, LockHeld, InPool, ScannedFree
  <1>9. FlipsFreeBits'
    <2> SUFFICES ASSUME pc'[t] = "flip",
                        NEW p \in Pages, idx[t] <= p, p < idx[t] + cnt[t], p >= idx[t] + bit'[t]
                 PROVE  ~used_map'[p]
      BY <1>0, <1>1, <1>2 DEF FlipsFreeBits, Mine
    <2>1. bit'[t] = bit[t] + 1 /\ p \in Nat
      BY <1>6, PagesNat
    <2>2. p # page /\ p >= idx[t] + bit[t]
      BY <1>0, <1>1, <2>1
    <2>3. ~used_map[p]
      BY <1>0, <1>1, <2>2 DEF PoolInv, FlipsFreeBits, Mine
    <2> QED BY <1>5, <2>2, <2>3
  <1>10. Claim(t)' = Claim(t) \cup {page}
    <2>1. Mine(t)' = Mine(t) /\ \A p \in Mine(t) : p \in Nat /\ idx[t] <= p /\ p < idx[t] + cnt[t]
      BY <1>0, PagesNat DEF Mine
    <2>2. ASSUME NEW p \in Mine(t)
          PROVE  p \in Claim(t)' <=> p \in Claim(t) \/ p = page
      BY <1>0, <1>1, <1>6, <2>1, <2>2 DEF Claim
    <2>3. Claim(t)' \subseteq Mine(t) /\ Claim(t) \subseteq Mine(t)
      BY <2>1 DEF Claim
    <2> QED BY <1>3, <2>2, <2>3
  <1>11. \A u \in Thread : u # t => Claim(u)' = Claim(u)
    BY <1>0, <1>1, Others
  <1>12. MapExact'
    BY <1>5, <1>10, <1>11 DEF PoolInv, MapExact
  <1>13. NoDoubleAllocation'
    BY <1>4, <1>10, <1>11 DEF PoolInv, NoDoubleAllocation
  <1> QED BY <1>7, <1>8, <1>9, <1>12, <1>13 DEF PoolInv

\* The lock is given up, and the claim kept.
LEMMA UnlockPoolInv == ASSUME PoolInv, NEW t \in Thread, UnlockPool(t) PROVE PoolInv'
  <1> USE DEF UnlockPool, At, Goto
  <1>1. /\ pc[t] \in {"unlock", "fail"} /\ pc'[t] = IF pc[t] = "unlock" THEN "zero" ELSE "out"
        /\ UNCHANGED <<cnt, idx, bit>>
        /\ \A u \in Thread : u # t => pc'[u] = pc[u]
    BY DEF PoolInv, TypeOK
  <1>2. \A u \in Thread : u # t => pc[u] \notin {"scan", "flip", "unlock", "fail"}
    BY DEF PoolInv, LockHeld
  <1>3. TypeOK'
    BY <1>1 DEF PoolInv, TypeOK, Label
  <1>4. LockHeld' /\ InPool' /\ ScannedFree'
    BY <1>1, <1>2 DEF PoolInv, LockHeld, InPool, ScannedFree
  <1>5. FlipsFreeBits'
    BY <1>1, <1>2 DEF FlipsFreeBits
  <1>6. \A u \in Thread : Claim(u)' = Claim(u)
    BY <1>1 DEF Claim, Mine
  <1> QED BY <1>3, <1>4, <1>5, <1>6, SameClaims DEF PoolInv

(* The pages go from the thread's claim to an allocated group.             *)
LEMMA HandOutInv ==
  ASSUME PoolInv, NEW t \in Thread, At(t, "zero"), Goto(t, "out"),
         groups' = groups \cup {[first |-> idx[t], cnt |-> cnt[t]]},
         UNCHANGED <<used_map, owner, cnt, idx, bit>>,
         mem' \in [Pages -> {"junk", "zero", "0xcc"}]
  PROVE  PoolInv'
  <1> USE DEF At, Goto
  <1> DEFINE new == [first |-> idx[t], cnt |-> cnt[t]]
  <1>0. /\ pc[t] = "zero" /\ pc'[t] = "out" /\ groups' = groups \cup {new}
        /\ UNCHANGED <<used_map, owner, cnt, idx, bit>>
        /\ \A u \in Thread : u # t => pc'[u] = pc[u]
        /\ new \in Group /\ new.first = idx[t] /\ new.cnt = cnt[t]
    BY DEF PoolInv, TypeOK, Group
  <1>1. /\ idx[t] \in Nat /\ cnt[t] \in Nat /\ PageCnt \in Nat /\ idx[t] + cnt[t] <= PageCnt
    BY <1>0, Numbers
  <1>2. TypeOK'
    BY <1>0 DEF PoolInv, TypeOK, Label
  <1>3. LockHeld' /\ ScannedFree'
    BY <1>0 DEF PoolInv, LockHeld, ScannedFree
  <1>4. InPool'
    BY <1>0, <1>1 DEF PoolInv, InPool
  <1>5. FlipsFreeBits'
    BY <1>0 DEF PoolInv, FlipsFreeBits, Mine
  <1>6. /\ PagesOf(new) = Mine(t) /\ Claim(t) = Mine(t) /\ Claim(t)' = {}
        /\ \A u \in Thread : u # t => Claim(u)' = Claim(u)
    BY <1>0 DEF PagesOf, Claim, Mine
  <1>7. MapExact'
    BY <1>0, <1>6 DEF PoolInv, MapExact
  <1>8. NoDoubleAllocation'
    BY <1>0, <1>6 DEF PoolInv, NoDoubleAllocation
  <1> QED BY <1>2, <1>3, <1>4, <1>5, <1>7, <1>8 DEF PoolInv

(* And back: the pages of a group become the claim of the thread freeing it. *)
LEMMA FreeInv == ASSUME PoolInv, NEW t \in Thread, NEW g \in groups, Free(t, g) PROVE PoolInv'
  <1> USE DEF Free, At, Goto
  <1>0. /\ g \in Group /\ g.first \in Pages /\ g.cnt \in 1..MaxRequest
    BY DEF PoolInv, TypeOK, Group
  <1>1. /\ pc[t] = "out" /\ pc'[t] = "clear" /\ idx'[t] = g.first /\ cnt'[t] = g.cnt /\ bit'[t] = 0
        /\ groups' = groups \ {g} /\ UNCHANGED <<used_map, owner>>
        /\ \A u \in Thread : u # t => /\ pc'[u] = pc[u] /\ cnt'[u] = cnt[u]
                                      /\ idx'[u] = idx[u] /\ bit'[u] = bit[u]
    BY DEF PoolInv, TypeOK
  <1>2. TypeOK'
    BY <1>0 DEF PoolInv, TypeOK, Label
  <1>3. LockHeld' /\ ScannedFree'
    BY <1>1 DEF PoolInv, LockHeld, ScannedFree
  <1>4. g.cnt \in Nat /\ 0 < g.cnt /\ g.first \in Nat /\ g.first + g.cnt <= PageCnt
    BY <1>0, PagesNat, PallocAssumption DEF PoolInv, InPool
  <1>5. InPool'
    BY <1>1, <1>4 DEF PoolInv, InPool
  <1>6. /\ Claim(t) = {}
        /\ \A u \in Thread : u # t => Claim(u)' = Claim(u) /\ Mine(u)' = Mine(u)
    BY <1>1, Others DEF Claim
  <1>7. FlipsFreeBits'
    BY <1>1, <1>6 DEF PoolInv, FlipsFreeBits
  <1>8. Claim(t)' = PagesOf(g)
    <2>1. Mine(t)' = PagesOf(g)
      BY <1>1 DEF Mine, PagesOf
    <2>2. \A p \in PagesOf(g) : idx'[t] + bit'[t] <= p
      BY <1>1, <1>4, PagesNat DEF PagesOf
    <2> QED BY <1>1, <2>1, <2>2 DEF Claim
  <1>9. MapExact'
    BY <1>1, <1>6, <1>8 DEF PoolInv, MapExact
  <1>10. NoDoubleAllocation'
    BY <1>1, <1>6, <1>8 DEF PoolInv, NoDoubleAllocation
  <1> QED BY <1>2, <1>3, <1>5, <1>7, <1>9, <1>10 DEF PoolInv

(* The page whose bit is cleared was claimed by this thread alone.         *)
LEMMA ClearBitInv == ASSUME PoolInv, NEW t \in Thread, ClearBit(t) PROVE PoolInv'
  <1> USE DEF ClearBit, NextBit, At, Goto
  <1> DEFINE page == idx[t] + bit[t]
  <1>0. /\ pc[t] = "clear" /\ cnt'[t] = cnt[t] /\ idx'[t] = idx[t]
        /\ \A u \in Thread : u # t => /\ pc'[u] = pc[u] /\ cnt'[u] = cnt[u]
                                      /\ idx'[u] = idx[u] /\ bit'[u] = bit[u]
    BY DEF PoolInv, TypeOK
  <1>1. /\ idx[t] \in Nat /\ bit[t] \in Nat /\ cnt[t] \in Nat /\ PageCnt \in Nat
        /\ bit[t] < cnt[t] /\ idx[t] + cnt[t] <= PageCnt
    BY <1>0, Numbers
  <1>2. page \in Pages /\ page \in Mine(t)
    BY <1>1, PagesNat DEF Mine
  <1>3. page \in Claim(t)
    BY <1>0, <1>1, <1>2 DEF Claim
  <1>4. /\ \A g \in groups : page \notin PagesOf(g)
        /\ \A u \in Thread : u # t => page \notin Claim(u)
    BY <1>3 DEF PoolInv, NoDoubleAllocation
  <1>5. /\ used_map' \in [Pages -> BOOLEAN]
        /\ \A p \in Pages : used_map'[p] <=> used_map[p] /\ p # page
    BY <1>2 DEF PoolInv, TypeOK
  <1>6. \/ pc'[t] = "clear" /\ bit'[t] = bit[t] + 1 /\ bit[t] + 1 < cnt[t]
        \/ pc'[t] = "out" /\ bit'[t] = 0 /\ bit[t] + 1 = cnt[t]
    <2>1. CASE bit[t] + 1 < cnt[t]
      BY <1>0, <2>1 DEF PoolInv, TypeOK
    <2>2. CASE ~(bit[t] + 1 < cnt[t])
      BY <1>1, <2>2 DEF PoolInv, TypeOK
    <2> QED BY <2>1, <2>2
  <1>7. TypeOK'
    BY <1>1, <1>5 DEF PoolInv, TypeOK, Label
  <1>8. LockHeld' /\ InPool'
    BY <1>0, <1>1, <1>6 DEF PoolInv, LockHeld, InPool
  <1>9. ScannedFree'
    BY <1>0, <1>5, <1>6 DEF PoolInv, ScannedFree
  <1>10. \A u \in Thread : u # t => Claim(u)' = Claim(u) /\ Mine(u)' = Mine(u)
    BY <1>0, Others
  <1>11. FlipsFreeBits'
    <2> SUFFICES ASSUME NEW u \in Thread, u # t, pc[u] = "flip",
                        NEW p \in Mine(u), p >= idx[u] + bit[u]
                 PROVE  ~used_map'[p]
      BY <1>0, <1>6, <1>10 DEF FlipsFreeBits
    <2>1. p \in Pages /\ ~used_map[p]
      BY DEF PoolInv, FlipsFreeBits, Mine
    <2> QED BY <1>5, <2>1
  <1>12. Claim(t)' = Claim(t) \ {page}
    <2>1. Mine(t)' = Mine(t) /\ \A p \in Mine(t) : p \in Nat /\ idx[t] <= p /\ p < idx[t] + cnt[t]
      BY <1>0, PagesNat DEF Mine
    <2>2. ASSUME NEW p \in Mine(t)
          PROVE  p \in Claim(t)' <=> p \in Claim(t) /\ p # page
      BY <1>0, <1>1, <1>6, <2>1, <2>2 DEF Claim
    <2>3. Claim(t)' \subseteq Mine(t) /\ Claim(t) \subseteq Mine(t)
      BY <2>1 DEF Claim
    <2> QED BY <2>2, <2>3
  <1>13. MapExact'
    BY <1>4, <1>5, <1>10, <1>12 DEF PoolInv, MapExact
  <1>14. NoDoubleAllocation'
    BY <1>10, <1>12 DEF PoolInv, NoDoubleAllocation
  <1> QED BY <1>7, <1>8, <1>9, <1>11, <1>13, <1>14 DEF PoolInv

\* palloc_get_multiple(PAL_ZERO) returns.
LEMMA ZeroPagesInv == ASSUME PoolInv, NEW t \in Thread, ZeroPages(t) PROVE PoolInv'
  <1>1. mem' \in [Pages -> {"junk", "zero", "0xcc"}]
    BY DEF ZeroPages, PoolInv, TypeOK
  <1> QED BY <1>1, HandOutInv DEF ZeroPages

\* Nothing happens.
LEMMA PallocStutterInv == ASSUME PoolInv, UNCHANGED vars PROVE PoolInv'
  <1> USE DEF vars
  <1>1. /\ \A t \in Thread : Claim(t)' = Claim(t) /\ Mine(t)' = Mine(t)
    BY DEF Claim, Mine, At
  <1>2. TypeOK' /\ LockHeld' /\ InPool' /\ ScannedFree'
    BY DEF PoolInv, TypeOK, LockHeld, InPool, ScannedFree
  <1>3. FlipsFreeBits'
    BY <1>1 DEF PoolInv, FlipsFreeBits, At
  <1> QED BY <1>1, <1>2, <1>3, SameClaims DEF PoolInv

(* The memory of an allocated group changes only where it is handed out    *)
(* and where it is freed.                                                  *)
LEMMA ZeroedInv == ASSUME PallocInv, [Next]_vars PROVE ZeroedPagesStay'
  <1>1. CASE UNCHANGED <<groups, mem>>
    BY <1>1 DEF PallocInv, ZeroedPagesStay
  <1>2. ASSUME NEW t \in Thread, ZeroPages(t) PROVE ZeroedPagesStay'
    <2> DEFINE given == [first |-> idx[t], cnt |-> cnt[t]]
    <2> SUFFICES ASSUME NEW g \in groups', NEW p \in PagesOf(g) PROVE mem'[p] = "zero"
      BY DEF ZeroedPagesStay
    <2>1. p \in Pages /\ mem'[p] = IF p \in Mine(t) THEN "zero" ELSE mem[p]
      BY <1>2 DEF PagesOf, ZeroPages
    <2>2. PagesOf(given) = Mine(t)
      BY DEF PagesOf, Mine
    <2>3. CASE g = given
      BY <2>1, <2>2, <2>3
    <2>4. CASE g \in groups
      BY <2>1, <2>4 DEF PallocInv, ZeroedPagesStay
    <2> QED BY <1>2, <2>3, <2>4 DEF ZeroPages
  <1>3. ASSUME NEW t \in Thread, NEW g \in groups, Free(t, g) PROVE ZeroedPagesStay'
    <2> SUFFICES ASSUME NEW h \in groups', NEW p \in PagesOf(h) PROVE mem'[p] = "zero"
      BY DEF ZeroedPagesStay
    <2>1. h \in groups /\ h # g
      BY <1>3 DEF Free
    <2>2. p \in Pages /\ p \notin PagesOf(g)
      BY <2>1 DEF PallocInv, PoolInv, NoDoubleAllocation, PagesOf
    <2> QED BY <1>3, <2>1, <2>2 DEF PallocInv, ZeroedPagesStay, Free
  <1> QED BY <1>1, <1>2, <1>3
          DEF Next, vars, Get, LockPool, ScanBit, FlipBit, UnlockPool, ClearBit

-----------------------------------------------------------------------------
(* PallocInv holds in every reachable state: each step of                  *)
(* palloc_get_multiple() and palloc_free_multiple() keeps it.              *)
THEOREM PallocInvariant == Spec => []PallocInv
  <1>1. ASSUME PallocInv, [Next]_vars PROVE PoolInv'
    <2>0. PoolInv
      BY <1>1 DEF PallocInv
    <2>1. CASE UNCHANGED vars
      BY <2>0, <2>1, PallocStutterInv
    <2>2. ASSUME NEW t \in Thread, \E n \in 1..MaxRequest : Get(t, n) PROVE PoolInv'
      BY <2>0, <2>2, GetInv
    <2>3. ASSUME NEW t \in Thread, LockPool(t) PROVE PoolInv'
      BY <2>0, <2>3, LockPoolInv
    <2>4. ASSUME NEW t \in Thread, ScanBit(t) PROVE PoolInv'
      BY <2>0, <2>4, ScanBitInv
    <2>5. ASSUME NEW t \in Thread, FlipBit(t) PROVE PoolInv'
      BY <2>0, <2>5, FlipBitInv
    <2>6. ASSUME NEW t \in Thread, UnlockPool(t) PROVE PoolInv'
      BY <2>0, <2>6, UnlockPoolInv
    <2>7. ASSUME NEW t \in Thread, ZeroPages(t) PROVE PoolInv'
      BY <2>0, <2>7, ZeroPagesInv
    <2>8. ASSUME NEW t \in Thread, \E g \in groups : Free(t, g) PROVE PoolInv'
      BY <2>0, <2>8, FreeInv
    <2>9. ASSUME NEW t \in Thread, ClearBit(t) PROVE PoolInv'
      BY <2>0, <2>9, ClearBitInv
    <2> QED BY <1>1, <2>1, <2>2, <2>3, <2>4, <2>5, <2>6, <2>7, <2>8, <2>9 DEF Next
  <1>2. ASSUME PallocInv, [Next]_vars PROVE PallocInv'
    BY <1>1, <1>2, ZeroedInv DEF PallocInv
  <1> QED BY PallocInitInv, <1>2, PTL DEF Spec

(* Every variable of the page allocator keeps its type; in particular the  *)
(* scan never indexes past the bitmap.                                     *)
THEOREM PallocTypes == Spec => []TypeOK
  BY PallocInvariant, PTL DEF PallocInv, PoolInv

(* palloc_get_multiple() never gives a page out twice, though              *)
(* palloc_free_multiple() clears bits without the pool's lock.             *)
THEOREM PagesGivenOnce == Spec => []NoDoubleAllocation
  BY PallocInvariant, PTL DEF PallocInv, PoolInv

(* The free run bitmap_scan() found is still free when                     *)
(* bitmap_set_multiple() marks it.                                         *)
THEOREM ScanStaysValid == Spec => []FlipsFreeBits
  BY PallocInvariant, PTL DEF PallocInv, PoolInv

\* MapExact is UsedMapExact.
LEMMA MapIsExact == ASSUME PoolInv PROVE UsedMapExact
  <1> DEFINE set     == {p \in Pages : used_map[p]}
             given   == UNION {PagesOf(g) : g \in groups}
             claimed == UNION {Claim(t) : t \in Thread}
             taken   == given \cup claimed
  <1>1. \A p : p \in taken <=> \/ \E g \in groups : p \in PagesOf(g)
                               \/ \E t \in Thread : p \in Claim(t)
    <2>1. \A p : p \in given <=> \E g \in groups : p \in PagesOf(g)
      BY Zenon
    <2>2. \A p : p \in claimed <=> \E t \in Thread : p \in Claim(t)
      BY Zenon
    <2> HIDE DEF given, claimed
    <2> QED BY <2>1, <2>2
  <1>2. taken \subseteq Pages
    BY <1>1 DEF PagesOf, Claim, Mine
  <1>3. \A p \in Pages : p \in set <=> p \in taken
    BY <1>1 DEF PoolInv, MapExact
  <1>4. set = taken
    BY <1>2, <1>3
  <1> QED BY <1>4 DEF UsedMapExact

(* The bitmap agrees with what is allocated: no page leaks, and            *)
(* palloc_free_multiple()'s ASSERT holds.                                  *)
THEOREM BitmapAlwaysExact == Spec => []UsedMapExact
  <1>1. PallocInv => UsedMapExact
    BY MapIsExact DEF PallocInv
  <1> QED BY PallocInvariant, <1>1, PTL

(* Zeroed pages stay as they were given out: the 0xcc fill of a free never *)
(* falls on a page somebody else has.                                      *)
THEOREM PagesStayZeroed == Spec => []ZeroedPagesStay
  BY PallocInvariant, PTL DEF PallocInv, PoolInv

-----------------------------------------------------------------------------
(* malloc()'s arithmetic.                                                  *)

\* Quotient and remainder.
LEMMA Quotient ==
  ASSUME NEW n \in Nat, NEW d \in Nat \ {0}
  PROVE  /\ n \div d \in Nat /\ n % d \in 0..(d - 1)
         /\ n = ((n \div d) * d) + (n % d)
  OBVIOUS

\* A number between two multiples of d has the lower one's quotient.
LEMMA QuotientIs ==
  ASSUME NEW n \in Nat, NEW d \in Nat \ {0}, NEW q \in Nat, q * d <= n, n < (q + 1) * d
  PROVE  n \div d = q
  <1>1. PICK p, m : p = n \div d /\ m = n % d
    OBVIOUS
  <1>2. p \in Nat /\ m \in 0..(d - 1) /\ n = (p * d) + m
    BY <1>1, Quotient
  <1>3. ASSUME p < q PROVE FALSE
    <2>1. (q - p) * d >= d
      BY <1>2, <1>3
    <2> QED BY <1>2, <2>1
  <1>4. ASSUME q < p PROVE FALSE
    <2>1. (p - q) * d >= d
      BY <1>2, <1>4
    <2> QED BY <1>2, <2>1
  <1> QED BY <1>1, <1>2, <1>3, <1>4

\* A set of natural numbers that is not empty has a least element.
LEMMA LeastNatural ==
  ASSUME NEW T, T \subseteq Nat, T # {}
  PROVE  \E x \in T : \A y \in T : x <= y
  <1> DEFINE R == OpToRel(<, Nat)
  <1>1. IsWellFoundedOn(R, Nat)
    BY NatLessThanWellFounded
  <1>2. \A x, y \in Nat : y < x => <<y, x>> \in R
    BY DEF OpToRel
  <1> HIDE DEF R
  <1>3. PICK x \in T : \A y \in T : ~ (<<y, x>> \in R)
    BY <1>1, WFMin
  <1>4. x \in Nat /\ \A y \in T : y \in Nat /\ ~(y < x)
    BY <1>2, <1>3, Zenon
  <1> QED BY <1>4

\* malloc_init()'s doubling gives each descriptor a size.
LEMMA BlockSizes == \A d \in 1..10 : block_size[d] \in Nat \ {0}
  <1> DEFINE Table == [i \in 1..10 |-> MIN_BLOCK * <<1, 2, 4, 8, 16, 32, 64, 128, 256, 512>>[i]]
             Doubles(f) == f = [i \in 1..10 |-> IF i = 1 THEN MIN_BLOCK ELSE 2 * f[i - 1]]
  <1>0. MIN_BLOCK \in Nat \ {0}
    BY MallocAssumption
  <1>1. Doubles(Table)
    <2>1. \A i \in 1..10 : Table[i] = MIN_BLOCK * <<1, 2, 4, 8, 16, 32, 64, 128, 256, 512>>[i]
      OBVIOUS
    <2>2. /\ Table[1] = MIN_BLOCK /\ Table[2] = 2 * Table[1] /\ Table[3] = 2 * Table[2]
          /\ Table[4] = 2 * Table[3] /\ Table[5] = 2 * Table[4] /\ Table[6] = 2 * Table[5]
          /\ Table[7] = 2 * Table[6] /\ Table[8] = 2 * Table[7] /\ Table[9] = 2 * Table[8]
          /\ Table[10] = 2 * Table[9]
      BY <1>0, <2>1
    <2>3. DOMAIN Table = 1..10
      OBVIOUS
    <2>4. Table = [i \in 1..10 |-> Table[i]]
      OBVIOUS
    <2> HIDE DEF Table
    <2>5. ASSUME NEW i \in 1..10 PROVE Table[i] = IF i = 1 THEN MIN_BLOCK ELSE 2 * Table[i - 1]
      <3>1. \/ i = 1 \/ i = 2 \/ i = 3 \/ i = 4 \/ i = 5 \/ i = 6 \/ i = 7 \/ i = 8 \/ i = 9 \/ i = 10
        OBVIOUS
      <3> QED BY <2>2, <3>1
    <2> QED BY <2>4, <2>5
  <1> HIDE DEF Table
  <1>2. block_size = CHOOSE f : Doubles(f)
    BY DEF block_size
  <1>3. Doubles(block_size)
    <2> HIDE DEF Doubles
    <2> QED BY <1>1, <1>2
  <1>4. \A i \in 1..10 : block_size[i] = IF i = 1 THEN MIN_BLOCK ELSE 2 * block_size[i - 1]
    BY <1>3
  <1>5. block_size[1] \in Nat \ {0}
    BY <1>0, <1>4
  <1>6. \A i \in 1..9 : block_size[i] \in Nat \ {0} => block_size[i + 1] \in Nat \ {0}
    <2> TAKE i \in 1..9
    <2>1. i + 1 \in 1..10 /\ i + 1 # 1 /\ (i + 1) - 1 = i
      OBVIOUS
    <2>2. block_size[i + 1] = 2 * block_size[i]
      BY <1>4, <2>1
    <2> QED BY <2>2
  <1> HIDE DEF Doubles
  <1>7. /\ block_size[2] \in Nat \ {0} /\ block_size[3] \in Nat \ {0} /\ block_size[4] \in Nat \ {0}
        /\ block_size[5] \in Nat \ {0} /\ block_size[6] \in Nat \ {0} /\ block_size[7] \in Nat \ {0}
        /\ block_size[8] \in Nat \ {0} /\ block_size[9] \in Nat \ {0} /\ block_size[10] \in Nat \ {0}
    BY <1>5, <1>6
  <1>8. \A d \in 1..10 : \/ d = 1 \/ d = 2 \/ d = 3 \/ d = 4 \/ d = 5 \/ d = 6 \/ d = 7 \/ d = 8
                         \/ d = 9 \/ d = 10
    OBVIOUS
  <1> QED BY <1>5, <1>7, <1>8

\* An arena has room for its header and at least one block.
LEMMA ArenaRoom ==
  ASSUME NEW d \in Desc
  PROVE  /\ d \in Nat /\ d # 0 /\ PGSIZE \in Nat /\ ARENA_SIZE \in Nat
         /\ block_size[d] \in Nat \ {0} /\ block_size[d] + ARENA_SIZE < PGSIZE
         /\ blocks_per_arena(d) \in Nat /\ blocks_per_arena(d) >= 1
         /\ (blocks_per_arena(d) * block_size[d]) + ARENA_SIZE <= PGSIZE
  <1>1. PICK h : h = PGSIZE \div 2
    OBVIOUS
  <1>2. /\ PGSIZE \in Nat \ {0} /\ ARENA_SIZE \in Nat /\ ARENA_SIZE <= h
    BY <1>1, MallocAssumption
  <1>3. h \in Nat /\ 2 * h <= PGSIZE
    BY <1>1, <1>2
  <1>4. d \in 1..10 /\ block_size[d] \in Nat \ {0} /\ block_size[d] < h
    BY <1>1, BlockSizes DEF Desc
  <1>5. PICK s : s = block_size[d]
    OBVIOUS
  <1>6. s \in Nat \ {0} /\ s + ARENA_SIZE < PGSIZE
    BY <1>2, <1>3, <1>4, <1>5
  <1>7. PICK n : n = PGSIZE - ARENA_SIZE
    OBVIOUS
  <1>8. n \in Nat /\ n > s
    BY <1>2, <1>6, <1>7
  <1>9. PICK q, r : q = n \div s /\ r = n % s
    OBVIOUS
  <1>10. q \in Nat /\ r \in 0..(s - 1) /\ n = (q * s) + r
    BY <1>6, <1>8, <1>9, Quotient
  <1>11. q >= 1
    BY <1>6, <1>8, <1>10
  <1>12. blocks_per_arena(d) = q
    BY <1>5, <1>7, <1>9 DEF blocks_per_arena
  <1>13. (q * s) + ARENA_SIZE <= PGSIZE
    BY <1>2, <1>6, <1>7, <1>8, <1>10
  <1> QED BY <1>2, <1>4, <1>5, <1>6, <1>10, <1>11, <1>12, <1>13

\* The descriptor malloc() chooses fits the request.
LEMMA DescFor ==
  ASSUME NEW size \in Nat
  PROVE  /\ desc_for(size) \in Desc \cup {0}
         /\ desc_for(size) # 0 => desc_for(size) \in Desc /\ block_size[desc_for(size)] >= size
  <1> DEFINE T == {d \in Desc : block_size[d] >= size}
  <1>1. CASE T = {}
    BY <1>1 DEF desc_for
  <1>2. CASE T # {}
    <2>1. T \subseteq Nat
      BY DEF Desc
    <2>2. \E x \in T : \A y \in T : x <= y
      BY <1>2, <2>1, LeastNatural
    <2>3. Min(T) \in T
      BY <2>2 DEF Min
    <2>4. desc_for(size) = Min(T)
      BY <1>2 DEF desc_for
    <2> QED BY <2>3, <2>4
  <1> QED BY <1>1, <1>2

\* A big block's pages: no more than MaxRequest, and fewer bytes than Word.
LEMMA PageCount ==
  ASSUME NEW size \in Nat
  PROVE  /\ page_cnt(size) \in Nat /\ page_cnt(size) <= MaxRequest
         /\ PGSIZE * page_cnt(size) < Word
  <1>0. /\ PGSIZE \in Nat \ {0} /\ ARENA_SIZE \in Nat /\ Word \in Nat \ {0} /\ PGSIZE < Word
        /\ MaxRequest \in Nat
    BY MallocAssumption, PallocAssumption
  <1>1. PICK m : m = Word \div PGSIZE
    OBVIOUS
  <1>2. m \in Nat /\ m <= MaxRequest /\ Word < (m + 1) * PGSIZE
    <2>1. PICK r : r = Word % PGSIZE
      OBVIOUS
    <2>2. m \in Nat /\ r \in 0..(PGSIZE - 1) /\ Word = (m * PGSIZE) + r
      BY <1>0, <1>1, <2>1, Quotient
    <2> QED BY <1>0, <1>1, <2>2, MallocAssumption
  <1>3. PICK w : w = (size + ARENA_SIZE) % Word
    OBVIOUS
  <1>4. w \in Nat
    BY <1>0, <1>3
  <1>5. PICK v : v = (w + PGSIZE - 1) % Word
    OBVIOUS
  <1>6. v \in Nat /\ v < Word
    <2>1. w + PGSIZE - 1 \in Nat
      BY <1>0, <1>4
    <2> QED BY <1>0, <1>5, <2>1, Quotient
  <1>7. PICK q, r : q = v \div PGSIZE /\ r = v % PGSIZE
    OBVIOUS
  <1>8. q \in Nat /\ r \in 0..(PGSIZE - 1) /\ v = (q * PGSIZE) + r
    BY <1>0, <1>6, <1>7, Quotient
  <1>9. page_cnt(size) = q
    BY <1>3, <1>5, <1>7 DEF page_cnt
  <1>10. PGSIZE * q < Word
    BY <1>0, <1>6, <1>8
  <1>11. q <= m
    <2> SUFFICES ASSUME q >= m + 1 PROVE FALSE
      BY <1>2, <1>8
    <2>1. q * PGSIZE >= (m + 1) * PGSIZE
      BY <1>0, <1>2, <1>8
    <2> QED BY <1>0, <1>2, <1>8, <1>10, <2>1
  <1> QED BY <1>0, <1>2, <1>8, <1>9, <1>10, <1>11

\* A small block has the bytes asked for, unless their number wrapped around.
LEMMA SmallFits ==
  ASSUME NEW asked \in Nat, NEW size \in Nat, size = asked % Word, desc_for(size) # 0
  PROVE  (block_size[desc_for(size)] >= asked) <=> (asked + ARENA_SIZE < Word)
  <1>1. PICK d : d = desc_for(size)
    OBVIOUS
  <1>2. d \in Desc /\ block_size[d] >= size
    BY <1>1, DescFor
  <1>3. PICK s : s = block_size[d]
    OBVIOUS
  <1>4. /\ s \in Nat /\ s >= size /\ s + ARENA_SIZE < PGSIZE /\ ARENA_SIZE \in Nat
        /\ PGSIZE \in Nat /\ Word \in Nat /\ PGSIZE < Word
    BY <1>2, <1>3, ArenaRoom, MallocAssumption
  <1>5. CASE asked < Word
    <2>1. size = asked
      BY <1>4, <1>5
    <2> QED BY <1>1, <1>3, <1>4, <2>1
  <1>6. CASE asked >= Word
    BY <1>1, <1>3, <1>4, <1>6
  <1> QED BY <1>4, <1>5, <1>6

\* So has a big block, unless the sum of size and header wrapped around.
LEMMA BigFits ==
  ASSUME NEW asked \in Nat, NEW size \in Nat, size = asked % Word, page_cnt(size) # 0
  PROVE  ((PGSIZE * page_cnt(size)) - ARENA_SIZE >= asked) <=> (asked + ARENA_SIZE < Word)
  <1>0. /\ PGSIZE \in Nat \ {0} /\ ARENA_SIZE \in Nat /\ Word \in Nat \ {0} /\ PGSIZE < Word
        /\ ARENA_SIZE <= PGSIZE
    BY MallocAssumption
  <1>1. PICK n : n = page_cnt(size)
    OBVIOUS
  <1>2. n \in Nat /\ PGSIZE * n < Word /\ n >= 1
    BY <1>1, PageCount
  <1>3. CASE asked >= Word
    <2>1. ~((PGSIZE * n) - ARENA_SIZE >= asked)
      BY <1>0, <1>2, <1>3
    <2> QED BY <1>0, <1>1, <1>3, <2>1
  <1>4. CASE asked < Word
    <2>1. size = asked
      BY <1>0, <1>4
    <2>2. PICK w : w = (size + ARENA_SIZE) % Word
      OBVIOUS
    <2>3. PICK v : v = (w + PGSIZE - 1) % Word
      OBVIOUS
    <2>4. n = v \div PGSIZE
      BY <1>1, <2>2, <2>3 DEF page_cnt
    <2>5. CASE asked + ARENA_SIZE < Word
      <3>1. w = asked + ARENA_SIZE
        BY <1>0, <2>1, <2>2, <2>5
      <3>2. CASE w + PGSIZE - 1 < Word
        <4>1. v = w + PGSIZE - 1
          BY <1>0, <2>3, <3>1, <3>2
        <4>2. PICK r : r = v % PGSIZE
          OBVIOUS
        <4>3. v = (n * PGSIZE) + r /\ r \in 0..(PGSIZE - 1)
          BY <1>0, <2>4, <3>1, <4>1, <4>2, Quotient
        <4>4. PICK m : m = PGSIZE * n
          OBVIOUS
        <4>5. m \in Nat /\ v = m + r
          BY <1>0, <1>2, <4>3, <4>4
        <4>6. m >= asked + ARENA_SIZE
          BY <1>0, <3>1, <4>1, <4>3, <4>5
        <4>7. m - ARENA_SIZE >= asked
          BY <1>0, <4>5, <4>6
        <4> QED BY <1>1, <2>5, <4>4, <4>7
      <3>3. CASE w + PGSIZE - 1 >= Word
        <4>1. w + PGSIZE - 1 - Word \in Nat /\ w + PGSIZE - 1 - Word < PGSIZE
          BY <1>0, <2>5, <3>1, <3>3
        <4>2. v = w + PGSIZE - 1 - Word
          BY <1>0, <2>3, <2>5, <3>1, <3>3
        <4>3. v \div PGSIZE = 0
          BY <1>0, <4>1, <4>2
        <4> QED BY <1>2, <2>4, <4>3
      <3> QED BY <1>0, <3>1, <3>2, <3>3
    <2>6. CASE asked + ARENA_SIZE >= Word
      <3>1. w = asked + ARENA_SIZE - Word /\ w \in Nat /\ w < ARENA_SIZE
        BY <1>0, <1>4, <2>1, <2>2, <2>6
      <3>2. v \in Nat /\ v <= w + PGSIZE - 1
        <4>1. PICK z : z = w + PGSIZE - 1
          OBVIOUS
        <4>2. z \in Nat
          BY <1>0, <3>1, <4>1
        <4>3. v \in Nat /\ v <= z
          BY <1>0, <2>3, <4>1, <4>2
        <4> QED BY <4>1, <4>3
      <3>3. v < 2 * PGSIZE
        BY <1>0, <3>1, <3>2
      <3>4. PICK r : r = v % PGSIZE
        OBVIOUS
      <3>5. v = (n * PGSIZE) + r /\ r \in Nat
        BY <1>0, <2>4, <3>2, <3>4, Quotient
      <3>6. ASSUME n >= 2 PROVE FALSE
        <4>1. n * PGSIZE >= 2 * PGSIZE
          BY <1>0, <1>2, <3>6
        <4> QED BY <1>0, <1>2, <3>3, <3>5, <4>1
      <3>7. n = 1
        BY <1>2, <3>6
      <3>8. PGSIZE * n = PGSIZE
        BY <1>0, <3>7
      <3>9. ~(PGSIZE - ARENA_SIZE >= asked)
        BY <1>0, <2>6
      <3> QED BY <1>1, <2>6, <3>8, <3>9, <1>0
    <2> QED BY <1>0, <2>5, <2>6
  <1> QED BY <1>0, <1>3, <1>4

-----------------------------------------------------------------------------
(* Lists.                                                                  *)
Elems(list) == {list[i] : i \in DOMAIN list}
NoDuplicates(list) == \A i, j \in DOMAIN list : list[i] = list[j] => i = j

\* The elements of a list.
LEMMA ElemsOf ==
  ASSUME NEW S, NEW list \in Seq(S)
  PROVE  /\ Elems(list) \subseteq S
         /\ \A x : x \in Elems(list) <=> \E i \in 1..Len(list) : list[i] = x
         /\ list # << >> => Head(list) \in Elems(list)
  <1>1. Len(list) \in Nat /\ DOMAIN list = 1..Len(list) /\ \A i \in 1..Len(list) : list[i] \in S
    OBVIOUS
  <1>2. \A x : x \in Elems(list) <=> \E i \in 1..Len(list) : list[i] = x
    BY <1>1 DEF Elems
  <1>3. Elems(list) \subseteq S
    BY <1>1, <1>2
  <1>4. ASSUME list # << >> PROVE Head(list) \in Elems(list)
    <2>1. 1 \in 1..Len(list) /\ Head(list) = list[1]
      BY <1>1, <1>4
    <2> QED BY <1>2, <2>1
  <1> QED BY <1>2, <1>3, <1>4

\* A list without duplicates is as long as it has elements.
LEMMA ListLength ==
  ASSUME NEW S, NEW list \in Seq(S), NoDuplicates(list)
  PROVE  IsFiniteSet(Elems(list)) /\ Cardinality(Elems(list)) = Len(list)
  <1>1. Len(list) \in Nat /\ DOMAIN list = 1..Len(list)
    OBVIOUS
  <1>2. list \in Bijection(1..Len(list), Elems(list))
    <2>1. list \in [1..Len(list) -> Elems(list)]
      BY <1>1 DEF Elems
    <2>2. list \in Injection(1..Len(list), Elems(list))
      BY <1>1, <2>1 DEF Injection, IsInjective, NoDuplicates
    <2>3. list \in Surjection(1..Len(list), Elems(list))
      BY <1>1, <2>1 DEF Surjection, Elems
    <2> QED BY <2>2, <2>3 DEF Bijection
  <1>3. IsFiniteSet(1..Len(list)) /\ Cardinality(1..Len(list)) = Len(list)
    BY <1>1, FS_Interval
  <1>4. ExistsBijection(1..Len(list), Elems(list))
    BY <1>2 DEF ExistsBijection
  <1> QED BY <1>3, <1>4, FS_Bijection

(* list_pop_front().                                                       *)
LEMMA PopFront ==
  ASSUME NEW S, NEW list \in Seq(S), list # << >>, NoDuplicates(list)
  PROVE  /\ Tail(list) \in Seq(S) /\ Head(list) \in S
         /\ NoDuplicates(Tail(list))
         /\ Elems(Tail(list)) = Elems(list) \ {Head(list)}
  <1>1. PICK rest : rest = Tail(list)
    OBVIOUS
  <1>2. /\ rest \in Seq(S) /\ Len(list) \in Nat /\ Len(list) >= 1 /\ Len(rest) = Len(list) - 1
        /\ DOMAIN list = 1..Len(list) /\ DOMAIN rest = 1..(Len(list) - 1)
        /\ \A i \in 1..(Len(list) - 1) : rest[i] = list[i + 1]
        /\ Head(list) = list[1] /\ Head(list) \in S
    BY <1>1
  <1>3. NoDuplicates(rest)
    <2> SUFFICES ASSUME NEW i \in 1..(Len(list) - 1), NEW j \in 1..(Len(list) - 1),
                        rest[i] = rest[j]
                 PROVE  i = j
      BY <1>2 DEF NoDuplicates
    <2>1. list[i + 1] = list[j + 1] /\ i + 1 \in 1..Len(list) /\ j + 1 \in 1..Len(list)
      BY <1>2
    <2>2. i + 1 = j + 1
      BY <1>2, <2>1 DEF NoDuplicates
    <2> QED BY <2>2
  <1>4. Elems(rest) \subseteq Elems(list) \ {Head(list)}
    BY <1>2 DEF NoDuplicates, Elems
  <1>5. ASSUME NEW x \in Elems(list) \ {Head(list)} PROVE x \in Elems(rest)
    <2>1. PICK i \in 1..Len(list) : list[i] = x
      BY <1>2 DEF Elems
    <2>2. i # 1
      BY <1>2, <2>1
    <2>3. i - 1 \in 1..(Len(list) - 1) /\ rest[i - 1] = x
      BY <1>2, <2>1, <2>2
    <2> QED BY <1>2, <2>3 DEF Elems
  <1> QED BY <1>1, <1>2, <1>3, <1>4, <1>5

(* list_push_front().                                                      *)
LEMMA PushFront ==
  ASSUME NEW S, NEW list \in Seq(S), NEW x \in S, x \notin Elems(list), NoDuplicates(list)
  PROVE  /\ <<x>> \o list \in Seq(S)
         /\ NoDuplicates(<<x>> \o list)
         /\ Elems(<<x>> \o list) = Elems(list) \cup {x}
  <1>1. PICK longer : longer = <<x>> \o list
    OBVIOUS
  <1>2. /\ longer \in Seq(S) /\ Len(list) \in Nat /\ Len(longer) = Len(list) + 1
        /\ DOMAIN list = 1..Len(list) /\ DOMAIN longer = 1..(Len(list) + 1)
        /\ longer[1] = x
        /\ \A i \in 2..(Len(list) + 1) : longer[i] = list[i - 1]
    BY <1>1
  <1>3. \A i \in 2..(Len(list) + 1) : i - 1 \in 1..Len(list) /\ longer[i] \in Elems(list)
    BY <1>2 DEF Elems
  <1>4. ASSUME NEW i \in 1..(Len(list) + 1), NEW j \in 1..(Len(list) + 1), longer[i] = longer[j]
        PROVE  i = j
    <2>1. CASE i = 1 \/ j = 1
      <3>1. i = 1 \/ i \in 2..(Len(list) + 1)
        BY <1>2
      <3>2. j = 1 \/ j \in 2..(Len(list) + 1)
        BY <1>2
      <3> QED BY <1>2, <1>3, <1>4, <2>1, <3>1, <3>2
    <2>2. CASE i # 1 /\ j # 1
      <3>1. i \in 2..(Len(list) + 1) /\ j \in 2..(Len(list) + 1)
        BY <1>2, <2>2
      <3>2. i - 1 \in 1..Len(list) /\ j - 1 \in 1..Len(list) /\ list[i - 1] = list[j - 1]
        BY <1>2, <1>3, <1>4, <3>1
      <3>3. i - 1 = j - 1
        BY <1>2, <3>2 DEF NoDuplicates
      <3> QED BY <1>2, <3>3
    <2> QED BY <2>1, <2>2
  <1>5. Elems(longer) \subseteq Elems(list) \cup {x}
    <2> SUFFICES ASSUME NEW i \in 1..(Len(list) + 1) PROVE longer[i] \in Elems(list) \cup {x}
      BY <1>2 DEF Elems
    <2>1. i = 1 \/ i \in 2..(Len(list) + 1)
      BY <1>2
    <2> QED BY <1>2, <1>3, <2>1
  <1>6. ASSUME NEW y \in Elems(list) PROVE y \in Elems(longer)
    <2>1. PICK i \in 1..Len(list) : list[i] = y
      BY <1>2 DEF Elems
    <2>2. i + 1 \in 2..(Len(list) + 1) /\ i + 1 \in 1..(Len(list) + 1) /\ (i + 1) - 1 = i
      BY <1>2
    <2>3. longer[i + 1] = y
      BY <1>2, <2>1, <2>2
    <2> QED BY <1>2, <2>2, <2>3 DEF Elems
  <1>7. x \in Elems(longer)
    <2>1. 1 \in 1..(Len(list) + 1)
      BY <1>2
    <2> QED BY <1>2, <2>1 DEF Elems
  <1> QED BY <1>1, <1>2, <1>4, <1>5, <1>6, <1>7 DEF NoDuplicates

(* list_remove() of a block that is on the list.                           *)
LEMMA Remove ==
  ASSUME NEW S, NEW list \in Seq(S), NEW b \in Elems(list), NoDuplicates(list)
  PROVE  /\ ListRemove(list, b) \in Seq(S)
         /\ NoDuplicates(ListRemove(list, b))
         /\ Elems(ListRemove(list, b)) = Elems(list) \ {b}
  <1> DEFINE at == CHOOSE i \in DOMAIN list : list[i] = b
             result == [i \in 1..(Len(list) - 1) |-> list[IF i < at THEN i ELSE i + 1]]
  <1>1. at \in DOMAIN list /\ list[at] = b
    BY DEF Elems
  <1>2. Len(list) \in Nat /\ DOMAIN list = 1..Len(list) /\ \A i \in 1..Len(list) : list[i] \in S
    OBVIOUS
  <1> HIDE DEF at
  <1>3. Len(list) >= 1
    BY <1>1, <1>2
  <1>4. \A i \in 1..(Len(list) - 1) : (IF i < at THEN i ELSE i + 1) \in 1..Len(list)
    BY <1>1, <1>2, <1>3
  <1>5. result \in Seq(S) /\ DOMAIN result = 1..(Len(list) - 1)
    BY <1>2, <1>3, <1>4
  <1>6. NoDuplicates(result)
    <2> SUFFICES ASSUME NEW i \in 1..(Len(list) - 1), NEW j \in 1..(Len(list) - 1),
                        result[i] = result[j]
                 PROVE  i = j
      BY <1>5 DEF NoDuplicates
    <2>1. (IF i < at THEN i ELSE i + 1) = (IF j < at THEN j ELSE j + 1)
      BY <1>2, <1>4 DEF NoDuplicates
    <2> QED BY <2>1, <1>1, <1>2
  <1>7. ASSUME NEW i \in 1..(Len(list) - 1)
        PROVE  result[i] \in Elems(list) \ {b}
    <2>1. result[i] = list[IF i < at THEN i ELSE i + 1] /\ (IF i < at THEN i ELSE i + 1) # at
      BY <1>1, <1>2
    <2> QED BY <2>1, <1>1, <1>2, <1>4 DEF Elems, NoDuplicates
  <1>8. ASSUME NEW x \in Elems(list) \ {b}
        PROVE  x \in Elems(result)
    <2>1. PICK i \in 1..Len(list) : list[i] = x
      BY <1>2 DEF Elems
    <2>2. i # at
      BY <1>1, <2>1
    <2>3. CASE i < at
      <3>1. i \in 1..(Len(list) - 1) /\ result[i] = x
        BY <2>1, <2>3, <1>1, <1>2
      <3> QED BY <3>1, <1>5 DEF Elems
    <2>4. CASE i > at
      <3>1. i - 1 \in 1..(Len(list) - 1)
        BY <2>1, <2>4, <1>1, <1>2
      <3>2. result[i - 1] = x
        BY <2>1, <2>4, <3>1, <1>1, <1>2
      <3> QED BY <3>1, <3>2, <1>5 DEF Elems
    <2> QED BY <2>2, <2>3, <2>4, <1>1, <1>2
  <1>9. Elems(result) = Elems(list) \ {b}
    BY <1>5, <1>7, <1>8 DEF Elems
  <1> QED BY <1>5, <1>6, <1>9 DEF ListRemove, at

(* The blocks of a new arena.                                              *)
LEMMA ArenaBlocks ==
  ASSUME NEW d \in Desc, NEW p \in Pages
  PROVE  /\ Arena(d, p) \in Seq(Block) /\ Arena(d, p) # << >>
         /\ NoDuplicates(Arena(d, p)) /\ Head(Arena(d, p)).page = p
         /\ Elems(Arena(d, p)) = {x \in Block : x.page = p /\ x.idx < blocks_per_arena(d)}
         /\ << >> \o Arena(d, p) = Arena(d, p)
  <1>1. PICK n : n = blocks_per_arena(d)
    OBVIOUS
  <1>2. n \in Nat /\ n >= 1
    BY <1>1, ArenaRoom
  <1>3. PICK a : a = Arena(d, p)
    OBVIOUS
  <1>4. /\ a = [i \in 1..n |-> [page |-> p, idx |-> i - 1]]
    BY <1>1, <1>3 DEF Arena
  <1>5. \A i \in 1..n : /\ a[i] \in Block /\ a[i].page = p /\ a[i].idx = i - 1
    BY <1>2, <1>4 DEF Block
  <1>6. a \in Seq(Block) /\ DOMAIN a = 1..n /\ Len(a) = n
    <2>1. a \in [1..n -> Block]
      BY <1>4, <1>5
    <2> QED BY <1>2, <2>1
  <1>7. a # << >> /\ Head(a).page = p
    BY <1>2, <1>5, <1>6
  <1>8. NoDuplicates(a)
    BY <1>2, <1>5, <1>6 DEF NoDuplicates
  <1>9. ASSUME NEW x PROVE x \in Elems(a) <=> x \in Block /\ x.page = p /\ x.idx < n
    <2>1. ASSUME x \in Elems(a) PROVE x \in Block /\ x.page = p /\ x.idx < n
      <3>1. PICK i \in 1..n : x = a[i]
        BY <1>6, <2>1 DEF Elems
      <3> QED BY <1>2, <1>5, <3>1
    <2>2. ASSUME x \in Block, x.page = p, x.idx < n PROVE x \in Elems(a)
      <3>1. PICK j \in Nat : j = x.idx
        BY <2>2 DEF Block
      <3>2. j + 1 \in 1..n /\ (j + 1) - 1 = j
        BY <1>2, <2>2, <3>1
      <3>3. a[j + 1] = [page |-> p, idx |-> j]
        BY <1>4, <3>2
      <3>4. x = [page |-> p, idx |-> j]
        BY <2>2, <3>1 DEF Block
      <3> QED BY <1>6, <3>2, <3>3, <3>4 DEF Elems
    <2> QED BY <2>1, <2>2
  <1>10. << >> \o a = a
    BY <1>6
  <1>11. Elems(a) = {x \in Block : x.page = p /\ x.idx < n}
    BY <1>9
  <1> QED BY <1>1, <1>3, <1>6, <1>7, <1>8, <1>10, <1>11

-----------------------------------------------------------------------------
(* The heap.  A place (a block of an arena, whether or not it is in use)   *)
(* has one owner at a time: the blocks in use, a free list, a thread that  *)
(* has it popped or has still to give it back, or a thread that has        *)
(* unlinked it from the list of an arena it is about to give back.         *)
MallocLabel == {"out", "lock", "pages", "pop", "count", "done", "failed",
                "free", "recount", "unlink", "freeing", "page"}
Call == [asked : Nat, size : Nat, old : LiveBlock \cup {NULL}, block : Block \cup {NULL}, i : Nat]

HeapTypeOK == /\ arena \in [Pages -> [desc : Desc \cup {0}, free_cnt : Nat]]
              /\ free_list \in [Desc -> Seq(Block)]
              /\ lock \in [Desc -> Thread \cup {NULL}]
              /\ live \subseteq LiveBlock
              /\ mpc \in [Thread -> MallocLabel]
              /\ call \in [Thread -> Call]

\* Labels at which free() has taken the old block off the thread's hands.
GivenUp == {"recount", "unlink", "freeing"}

InLive(n, x)  == [page |-> x.page, idx |-> x.idx, asked |-> n] \in live
InList(d, x)  == x \in Elems(free_list[d])
InBlock(t, x) == call[t].block = x
InOld(t, x)   == mpc[t] \notin GivenUp /\ call[t].old # NULL /\ At0(call[t].old) = x
InGone(t, x)  == mpc[t] = "unlink" /\ call[t].old.page = x.page /\ x.idx < call[t].i

Owner == ({"live"} \X Nat) \cup ({"list"} \X Desc)
           \cup ({"block"} \X Thread) \cup ({"old"} \X Thread) \cup ({"gone"} \X Thread)
Own(k, x) == \/ k[1] = "live"  /\ InLive(k[2], x)
             \/ k[1] = "list"  /\ InList(k[2], x)
             \/ k[1] = "block" /\ InBlock(k[2], x)
             \/ k[1] = "old"   /\ InOld(k[2], x)
             \/ k[1] = "gone"  /\ InGone(k[2], x)
Owned(x) == \E k \in Owner : Own(k, x)

\* No place has two owners.
Apart == \A x \in Block : \A j, k \in Owner : Own(j, x) /\ Own(k, x) => j = k

\* Place x is one of its arena's, or a big block.
InArena(x) == \/ arena[x.page].desc # 0 /\ x.idx < blocks_per_arena(arena[x.page].desc)
              \/ arena[x.page].desc = 0 /\ arena[x.page].free_cnt > 0 /\ x.idx = 0

\* What is owned lies in an arena, and on the free list of that arena's descriptor.
Valid == /\ \A x \in Block : Owned(x) => InArena(x)
         /\ \A d \in Desc : \A x \in Block : InList(d, x) => arena[x.page].desc = d

\* No block of an arena is lost.
Cover == \A x \in Block : InArena(x) /\ arena[x.page].desc # 0 => Owned(x)

\* An arena or a big block is an allocated group of pages.
GroupOf(p) == [first |-> p, cnt |-> IF arena[p].desc = 0 THEN arena[p].free_cnt ELSE 1]
Heads == \A p \in Pages : arena[p] # NoArena => GroupOf(p) \in groups

\* A block is on a free list once.
ListsOnce == \A d \in Desc : NoDuplicates(free_list[d])

\* The blocks free_cnt counts, which lags behind the list.
Pushed(x)    == \E t \in Thread : mpc[t] = "recount" /\ At0(call[t].old) = x
Popped(x)    == \E t \in Thread : mpc[t] = "count" /\ call[t].block = x
Unlinked(x)  == \E t \in Thread : InGone(t, x)
Listed(x)    == \E d \in Desc : InList(d, x)
IsCounted(x) == (Listed(x) /\ ~Pushed(x)) \/ Popped(x) \/ Unlinked(x)
Counted(p)   == {x \in Block : x.page = p /\ IsCounted(x)}
Counts == \A p \in Pages : arena[p].desc # 0 => arena[p].free_cnt = Cardinality(Counted(p))

\* An arena that is all free is in the hands of a thread.
FullFor(t, p) ==
  \/ mpc[t] = "pop" /\ MyDesc(t) = arena[p].desc /\ Head(free_list[MyDesc(t)]).page = p
  \/ mpc[t] = "count" /\ call[t].block.page = p
  \/ mpc[t] = "unlink" /\ call[t].old.page = p
Full == \A p \in Pages :
          arena[p].desc # 0 /\ arena[p].free_cnt >= blocks_per_arena(arena[p].desc)
            => \E t \in Thread : FullFor(t, p)

\* Which blocks in use, or still to be given back by a thread, have the bytes asked for:
\* those whose request did not wrap around (BigEnough), and no others.
Good(b) == (Usable(b) >= b.asked) <=> (b.asked + ARENA_SIZE < Word)
Sizes == /\ \A b \in live : Good(b)
         /\ \A t \in Thread : mpc[t] \notin GivenUp /\ call[t].old # NULL => Good(call[t].old)

\* What a thread's call looks like at each label.
Shape(t) ==
  /\ mpc[t] \in {"out", "page"} => call[t] = NoCall
  /\ call[t].block # NULL <=> mpc[t] \in {"count", "done"}
  /\ mpc[t] \in {"free", "recount", "unlink"} => call[t].old # NULL
  /\ mpc[t] # "unlink" => call[t].i = 0
  /\ mpc[t] \in {"lock", "pages", "pop", "count", "done"} =>
       call[t].size = call[t].asked % Word
  /\ mpc[t] \in {"lock", "pop", "count"} => MyDesc(t) # 0
  /\ mpc[t] = "pages" => cnt[t] = IF MyDesc(t) = 0 THEN page_cnt(call[t].size) ELSE 1
  /\ mpc[t] \in {"count", "done"} => arena[call[t].block.page].desc = MyDesc(t)
  /\ mpc[t] = "done" /\ MyDesc(t) = 0 => arena[call[t].block.page].free_cnt = page_cnt(call[t].size)

\* The locks a thread holds, and what it knows of the lists they protect.
Locked(t) ==
  /\ mpc[t] \in {"pages", "pop", "count"} /\ MyDesc(t) # 0 => lock[MyDesc(t)] = t
  /\ mpc[t] = "pages" /\ MyDesc(t) # 0 => free_list[MyDesc(t)] = << >>
  /\ mpc[t] = "pop" => free_list[MyDesc(t)] # << >>
  /\ mpc[t] \in {"recount", "unlink"} => FreeDesc(t) # 0 /\ lock[FreeDesc(t)] = t
  /\ mpc[t] = "recount" => InList(FreeDesc(t), Freed(t))
  /\ mpc[t] = "unlink" =>
       /\ call[t].i <= blocks_per_arena(FreeDesc(t))
       /\ \A x \in Block : x.page = Freed(t).page /\ call[t].i <= x.idx
                             /\ x.idx < blocks_per_arena(FreeDesc(t)) => InList(FreeDesc(t), x)

Threads == \A t \in Thread : Shape(t) /\ Locked(t)
Places  == Apart /\ Valid /\ Cover /\ ListsOnce
HeapInv == HeapTypeOK /\ Threads /\ Places /\ Heads /\ Counts /\ Full /\ Sizes

\* The inductive invariant of malloc() over the page allocator.
MallocInv == PoolInv /\ HeapInv

-----------------------------------------------------------------------------
(* Owners and places.                                                      *)

\* The kinds of owner.
LEMMA OwnerKinds ==
  /\ \A n \in Nat : <<"live", n>> \in Owner
  /\ \A d \in Desc : <<"list", d>> \in Owner
  /\ \A t \in Thread : <<"block", t>> \in Owner /\ <<"old", t>> \in Owner /\ <<"gone", t>> \in Owner
  /\ \A k \in Owner : \/ \E n \in Nat : k = <<"live", n>>
                      \/ \E d \in Desc : k = <<"list", d>>
                      \/ \E t \in Thread : k = <<"block", t>>
                      \/ \E t \in Thread : k = <<"old", t>>
                      \/ \E t \in Thread : k = <<"gone", t>>
  BY DEF Owner

\* What each kind owns.
LEMMA OwnIs ==
  ASSUME NEW x
  PROVE  /\ \A n : Own(<<"live", n>>, x) <=> InLive(n, x)
         /\ \A d : Own(<<"list", d>>, x) <=> InList(d, x)
         /\ \A t : Own(<<"block", t>>, x) <=> InBlock(t, x)
         /\ \A t : Own(<<"old", t>>, x) <=> InOld(t, x)
         /\ \A t : Own(<<"gone", t>>, x) <=> InGone(t, x)
  BY DEF Own

\* What each kind owns after the step.
LEMMA OwnIsNext ==
  ASSUME NEW x
  PROVE  /\ \A n : Own(<<"live", n>>, x)' <=> InLive(n, x)'
         /\ \A d : Own(<<"list", d>>, x)' <=> InList(d, x)'
         /\ \A t : Own(<<"block", t>>, x)' <=> InBlock(t, x)'
         /\ \A t : Own(<<"old", t>>, x)' <=> InOld(t, x)'
         /\ \A t : Own(<<"gone", t>>, x)' <=> InGone(t, x)'
  BY DEF Own

\* The place of a block in use.
LEMMA PlaceOf ==
  /\ \A b \in LiveBlock : At0(b) \in Block /\ At0(b).page = b.page /\ At0(b).idx = b.idx
  /\ \A b \in LiveBlock : [page |-> At0(b).page, idx |-> At0(b).idx, asked |-> b.asked] = b
  /\ \A x \in Block : At0(x) = x
  /\ \A x, y \in Block : x.page = y.page /\ x.idx = y.idx => x = y
  /\ \A b, c \in LiveBlock : b.page = c.page /\ b.idx = c.idx /\ b.asked = c.asked => b = c
  /\ \A p \in Pages, i \in Nat : /\ [page |-> p, idx |-> i] \in Block
                                 /\ [page |-> p, idx |-> i].page = p
                                 /\ [page |-> p, idx |-> i].idx = i
  <1>1. /\ \A b \in LiveBlock : At0(b) \in Block /\ At0(b).page = b.page /\ At0(b).idx = b.idx
        /\ \A x \in Block : At0(x) = x
        /\ \A x, y \in Block : x.page = y.page /\ x.idx = y.idx => x = y
    BY DEF LiveBlock, Block, At0
  <1>2. \A b \in LiveBlock : [page |-> At0(b).page, idx |-> At0(b).idx, asked |-> b.asked] = b
    BY <1>1 DEF LiveBlock
  <1>3. \A b, c \in LiveBlock : b.page = c.page /\ b.idx = c.idx /\ b.asked = c.asked => b = c
    BY DEF LiveBlock
  <1>4. \A p \in Pages, i \in Nat : /\ [page |-> p, idx |-> i] \in Block
                                    /\ [page |-> p, idx |-> i].page = p
                                    /\ [page |-> p, idx |-> i].idx = i
    BY DEF Block
  <1> QED BY <1>1, <1>2, <1>3, <1>4

\* A block in use owns its place, and nothing else does.
LEMMA LiveOwns ==
  ASSUME live \subseteq LiveBlock
  PROVE  /\ \A b \in live : InLive(b.asked, At0(b)) /\ b.asked \in Nat
         /\ \A n, x : InLive(n, x) => \E b \in live : b.asked = n /\ b.page = x.page /\ b.idx = x.idx
         /\ \A n, x : InLive(n, x) /\ x \in Block => \E b \in live : b.asked = n /\ At0(b) = x
  <1>1. \A b \in live : InLive(b.asked, At0(b)) /\ b.asked \in Nat
    <2> TAKE b \in live
    <2>1. b \in LiveBlock
      OBVIOUS
    <2> QED BY <2>1, PlaceOf DEF InLive, LiveBlock
  <1>2. \A n, x : InLive(n, x) => \E b \in live : b.asked = n /\ b.page = x.page /\ b.idx = x.idx
    BY DEF InLive
  <1>3. \A n, x : InLive(n, x) /\ x \in Block => \E b \in live : b.asked = n /\ At0(b) = x
    BY <1>2, PlaceOf
  <1> QED BY <1>1, <1>2, <1>3

-----------------------------------------------------------------------------
(* What a step of thread t leaves alone.                                   *)
OthersSame(t) == \A u \in Thread : u # t =>
                   mpc'[u] = mpc[u] /\ call'[u] = call[u] /\ cnt'[u] = cnt[u]

\* The lists that another thread has locked.
HoldersKeep(t) ==
  /\ \A d \in Desc : lock[d] \notin {NULL, t} =>
                       lock'[d] = lock[d] /\ free_list'[d] = free_list[d]
  /\ \A p \in Pages : arena[p].desc # 0 /\ lock[arena[p].desc] \notin {NULL, t} =>
                        arena'[p].desc = arena[p].desc

\* An arena stays what it is, but for its count.
Steady(p) == /\ arena'[p].desc = arena[p].desc
             /\ arena[p].desc = 0 => arena'[p] = arena[p]

\* Whether x is in the hands of the owners outside J, t's own and the shared ones.
Kept(t, J, x) ==
  /\ \A n \in Nat : <<"live", n>> \notin J => (InLive(n, x)' <=> InLive(n, x))
  /\ \A d \in Desc : <<"list", d>> \notin J => (InList(d, x)' <=> InList(d, x))
  /\ <<"block", t>> \notin J => (InBlock(t, x)' <=> InBlock(t, x))
  /\ <<"old", t>> \notin J => (InOld(t, x)' <=> InOld(t, x))
  /\ <<"gone", t>> \notin J => (InGone(t, x)' <=> InGone(t, x))

\* A step of t changes no owner that it does not name.
LEMMA OwnFrame ==
  ASSUME NEW t \in Thread, OthersSame(t), NEW J, NEW x \in Block, Kept(t, J, x)
  PROVE  \A m \in Owner : m \notin J => (Own(m, x)' <=> Own(m, x))
  <1> SUFFICES ASSUME NEW m \in Owner, m \notin J PROVE Own(m, x)' <=> Own(m, x)
    OBVIOUS
  <1>1. ASSUME NEW u \in Thread, u # t
        PROVE  /\ InBlock(u, x)' <=> InBlock(u, x)
               /\ InOld(u, x)' <=> InOld(u, x)
               /\ InGone(u, x)' <=> InGone(u, x)
    BY <1>1 DEF OthersSame, InBlock, InOld, InGone
  <1>2. CASE \E n \in Nat : m = <<"live", n>>
    BY <1>2, OwnIs, OwnIsNext DEF Kept
  <1>3. CASE \E d \in Desc : m = <<"list", d>>
    BY <1>3, OwnIs, OwnIsNext DEF Kept
  <1>4. CASE \E u \in Thread : m = <<"block", u>>
    BY <1>1, <1>4, OwnIs, OwnIsNext DEF Kept
  <1>5. CASE \E u \in Thread : m = <<"old", u>>
    BY <1>1, <1>5, OwnIs, OwnIsNext DEF Kept
  <1>6. CASE \E u \in Thread : m = <<"gone", u>>
    BY <1>1, <1>6, OwnIs, OwnIsNext DEF Kept
  <1> QED BY <1>2, <1>3, <1>4, <1>5, <1>6, OwnerKinds

\* A place stays in its arena.
LEMMA InArenaKeeps ==
  ASSUME NEW x, Steady(x.page)
  PROVE  InArena(x)' <=> InArena(x)
  BY DEF Steady, InArena

\* A block keeps its bytes.
LEMMA GoodKeeps ==
  ASSUME NEW b, Steady(b.page)
  PROVE  Good(b)' <=> Good(b)
  <1>1. Usable(b)' = Usable(b)
    BY DEF Steady, Usable
  <1> QED BY <1>1 DEF Good

\* Nothing changes hands.
LEMMA NoMove ==
  ASSUME Places, NEW t \in Thread, OthersSame(t), free_list' = free_list,
         \A p \in Pages : Steady(p),
         \A x \in Block : Kept(t, {}, x)
  PROVE  Places'
  <1>1. \A m \in Owner, x \in Block : Own(m, x)' <=> Own(m, x)
    BY OwnFrame
  <1>2. \A x \in Block : (InArena(x)' <=> InArena(x)) /\ arena'[x.page].desc = arena[x.page].desc
    BY InArenaKeeps DEF Block, Steady
  <1>3. \A x \in Block : Owned(x)' <=> Owned(x)
    BY <1>1 DEF Owned
  <1>4. Apart'
    BY <1>1 DEF Places, Apart
  <1>5. Valid'
    <2>1. \A d \in Desc : \A x \in Block : InList(d, x)' <=> InList(d, x)
      BY DEF InList
    <2> QED BY <1>2, <1>3, <2>1 DEF Places, Valid
  <1>6. Cover'
    BY <1>2, <1>3 DEF Places, Cover
  <1>7. ListsOnce'
    BY DEF Places, ListsOnce
  <1> QED BY <1>4, <1>5, <1>6, <1>7 DEF Places

\* Place z goes from owner j to owner k.
LEMMA Move ==
  ASSUME Places, NEW t \in Thread, OthersSame(t), ListsOnce',
         \A p \in Pages : Steady(p),
         NEW j \in Owner, NEW k \in Owner, NEW z \in Block,
         Own(j, z), Own(k, z)', ~Own(j, z)',
         \A x \in Block : x # z => Kept(t, {}, x),
         Kept(t, {j, k}, z),
         \A d \in Desc : k = <<"list", d>> => arena[z.page].desc = d
  PROVE  Places'
  <1>1. \A m \in Owner, x \in Block : x # z => (Own(m, x)' <=> Own(m, x))
    BY OwnFrame
  <1>2. \A m \in Owner : m # j /\ m # k => (Own(m, z)' <=> Own(m, z))
    BY OwnFrame
  <1>3. \A x \in Block : (InArena(x)' <=> InArena(x)) /\ arena'[x.page].desc = arena[x.page].desc
    BY InArenaKeeps DEF Block, Steady
  <1>4. \A m \in Owner : Own(m, z)' <=> m = k
    BY <1>2 DEF Places, Apart
  <1>5. \A x \in Block : Owned(x)' <=> Owned(x)
    BY <1>1, <1>4 DEF Owned
  <1>6. Apart'
    BY <1>1, <1>4 DEF Places, Apart
  <1>7. Valid'
    <2>1. ASSUME NEW d \in Desc, NEW x \in Block, InList(d, x)' PROVE arena'[x.page].desc = d
      <3>1. Own(<<"list", d>>, x)' /\ <<"list", d>> \in Owner
        BY <2>1, OwnIsNext, OwnerKinds
      <3>2. CASE x # z
        <4>1. InList(d, x)
          BY <1>1, <3>1, <3>2, OwnIs
        <4> QED BY <1>3, <4>1 DEF Places, Valid
      <3>3. CASE x = z
        BY <1>3, <1>4, <3>1, <3>3
      <3> QED BY <3>2, <3>3
    <2> QED BY <1>3, <1>5, <2>1 DEF Places, Valid
  <1>8. Cover'
    BY <1>3, <1>5 DEF Places, Cover
  <1> QED BY <1>6, <1>7, <1>8 DEF Places

-----------------------------------------------------------------------------
(* The other threads.                                                      *)

\* The descriptor of a thread's request.
LEMMA MyDescType ==
  ASSUME HeapTypeOK, NEW t \in Thread
  PROVE  /\ MyDesc(t) \in Desc \cup {0}
         /\ MyDesc(t) # 0 => MyDesc(t) \in Desc
         /\ call[t].size \in Nat
  <1>1. call[t].size \in Nat
    BY DEF HeapTypeOK, Call
  <1> QED BY <1>1, DescFor DEF MyDesc

\* What holds of a thread that takes no step.
LEMMA OthersThread ==
  ASSUME HeapTypeOK, Threads, NEW t \in Thread, OthersSame(t), HoldersKeep(t),
         NEW u \in Thread, u # t,
         call[u].block # NULL => Steady(call[u].block.page)
  PROVE  Shape(u)' /\ Locked(u)'
  <1>1. mpc'[u] = mpc[u] /\ call'[u] = call[u] /\ cnt'[u] = cnt[u]
    BY DEF OthersSame
  <1>2. Shape(u) /\ Locked(u)
    BY DEF Threads
  <1>3. MyDesc(u)' = MyDesc(u) /\ Freed(u)' = Freed(u)
    BY <1>1 DEF MyDesc, Freed
  <1>4. u # NULL
    BY PallocAssumption
  <1>5. Shape(u)'
    <2>1. mpc[u] \in {"count", "done"} =>
            /\ arena'[call[u].block.page].desc = arena[call[u].block.page].desc
            /\ arena[call[u].block.page].desc = 0 =>
                 arena'[call[u].block.page] = arena[call[u].block.page]
      BY <1>2 DEF Shape, Steady
    <2> QED BY <1>1, <1>2, <1>3, <2>1 DEF Shape
  <1>6. CASE mpc[u] \in {"pages", "pop", "count"}
    <2>1. MyDesc(u) # 0 => /\ MyDesc(u) \in Desc /\ lock[MyDesc(u)] = u
                           /\ lock'[MyDesc(u)] = u /\ free_list'[MyDesc(u)] = free_list[MyDesc(u)]
      BY <1>2, <1>4, <1>6, MyDescType DEF Locked, HoldersKeep
    <2>2. mpc[u] = "pop" => MyDesc(u) # 0
      BY <1>2 DEF Shape
    <2> QED BY <1>1, <1>2, <1>3, <1>5, <1>6, <2>1, <2>2 DEF Locked
  <1>7. CASE mpc[u] \in {"recount", "unlink"}
    <2>1. Freed(u).page \in Pages
      <3>1. call[u].old \in LiveBlock
        BY <1>2, <1>7 DEF Shape, HeapTypeOK, Call
      <3> QED BY <3>1 DEF Freed, LiveBlock
    <2>2. FreeDesc(u) # 0 /\ FreeDesc(u) \in Desc /\ lock[FreeDesc(u)] = u
      BY <1>2, <1>7, <2>1 DEF Locked, FreeDesc, HeapTypeOK
    <2>3. FreeDesc(u)' = FreeDesc(u)
      BY <1>3, <1>4, <2>1, <2>2 DEF HoldersKeep, FreeDesc
    <2>4. lock'[FreeDesc(u)] = u /\ free_list'[FreeDesc(u)] = free_list[FreeDesc(u)]
      BY <1>4, <2>2 DEF HoldersKeep
    <2>5. \A x : InList(FreeDesc(u), x)' <=> InList(FreeDesc(u), x)
      BY <2>3, <2>4 DEF InList
    <2>6. Locked(u)'
      BY <1>1, <1>2, <1>3, <1>7, <2>2, <2>3, <2>4, <2>5 DEF Locked
    <2> QED BY <1>5, <2>6
  <1>8. CASE mpc[u] \notin {"pages", "pop", "count", "recount", "unlink"}
    BY <1>1, <1>5, <1>8 DEF Locked
  <1> QED BY <1>5, <1>6, <1>7, <1>8

\* An arena that is all free stays in the same hands.
LEMMA FullKeeps ==
  ASSUME HeapTypeOK, Threads, Full, NEW t \in Thread, OthersSame(t), HoldersKeep(t),
         NEW p \in Pages, arena'[p] = arena[p],
         arena[p].desc # 0, arena[p].free_cnt >= blocks_per_arena(arena[p].desc),
         FullFor(t, p) => FullFor(t, p)'
  PROVE  \E u \in Thread : FullFor(u, p)'
  <1>1. PICK u \in Thread : FullFor(u, p)
    BY DEF Full
  <1>2. CASE u = t
    BY <1>1, <1>2
  <1>3. CASE u # t
    <2>1. mpc'[u] = mpc[u] /\ call'[u] = call[u]
      BY <1>3 DEF OthersSame
    <2>2. MyDesc(u)' = MyDesc(u)
      BY <2>1 DEF MyDesc
    <2>3. CASE mpc[u] = "pop"
      <3>1. MyDesc(u) # 0 /\ lock[MyDesc(u)] = u /\ MyDesc(u) \in Desc
        BY <2>3, MyDescType DEF Threads, Shape, Locked
      <3>2. free_list'[MyDesc(u)] = free_list[MyDesc(u)]
        BY <1>3, <3>1, PallocAssumption DEF HoldersKeep
      <3> QED BY <1>1, <2>1, <2>2, <2>3, <3>2 DEF FullFor
    <2>4. CASE mpc[u] # "pop"
      BY <1>1, <2>1, <2>4 DEF FullFor
    <2> QED BY <2>3, <2>4
  <1> QED BY <1>2, <1>3

\* What a thread's hands have to do with the counts.
LEMMA CountedFrame ==
  ASSUME NEW t \in Thread, OthersSame(t), free_list' = free_list, NEW x,
         mpc[t] \notin {"recount", "count", "unlink"}, mpc'[t] \notin {"recount", "count", "unlink"}
  PROVE  IsCounted(x)' <=> IsCounted(x)
  <1>1. Listed(x)' <=> Listed(x)
    BY DEF Listed, InList
  <1>2. Pushed(x)' <=> Pushed(x)
    BY DEF Pushed, OthersSame
  <1>3. Popped(x)' <=> Popped(x)
    BY DEF Popped, OthersSame
  <1>4. Unlinked(x)' <=> Unlinked(x)
    BY DEF Unlinked, InGone, OthersSame
  <1> QED BY <1>1, <1>2, <1>3, <1>4 DEF IsCounted

\* The count of an arena that the step does not touch.
LEMMA CountsKeep ==
  ASSUME Counts, NEW p \in Pages, arena'[p] = arena[p],
         \A x \in Block : x.page = p => (IsCounted(x)' <=> IsCounted(x))
  PROVE  arena'[p].desc # 0 => arena'[p].free_cnt = Cardinality(Counted(p)')
  <1>1. Counted(p)' = Counted(p)
    BY DEF Counted
  <1> QED BY <1>1 DEF Counts

\* The block a thread has still to give back.
HeldOld(t) == IF mpc[t] \in GivenUp THEN NULL ELSE call[t].old

\* What InOld() says of it.
LEMMA HeldOldIs ==
  ASSUME NEW t
  PROVE  /\ \A x : InOld(t, x) <=> HeldOld(t) # NULL /\ At0(HeldOld(t)) = x
         /\ \A x : InOld(t, x)' <=> HeldOld(t)' # NULL /\ At0(HeldOld(t)') = x
         /\ (mpc[t] \notin GivenUp /\ call[t].old # NULL) <=> HeldOld(t) # NULL
         /\ (mpc'[t] \notin GivenUp /\ call'[t].old # NULL) <=> HeldOld(t)' # NULL
         /\ HeldOld(t) # NULL => call[t].old = HeldOld(t)
         /\ HeldOld(t)' # NULL => call'[t].old = HeldOld(t)'
  BY DEF HeldOld, InOld, At0

\* Sizes, in terms of what is held.
LEMMA SizesNext ==
  ASSUME Sizes, NEW t \in Thread, OthersSame(t),
         \A b \in live' : b \in live => Steady(b.page),
         \A b \in live' : b \notin live => Good(b)',
         \A u \in Thread : u # t /\ HeldOld(u) # NULL => Steady(HeldOld(u).page),
         HeldOld(t)' # NULL => Good(HeldOld(t))'
  PROVE  Sizes'
  <1>1. ASSUME NEW b \in live' PROVE Good(b)'
    BY <1>1, GoodKeeps DEF Sizes
  <1>2. ASSUME NEW u \in Thread, mpc'[u] \notin GivenUp, call'[u].old # NULL
        PROVE  Good(call[u].old)'
    <2>1. CASE u = t
      BY <1>2, <2>1, HeldOldIs
    <2>2. CASE u # t
      <3>1. mpc'[u] = mpc[u] /\ call'[u] = call[u]
        BY <2>2 DEF OthersSame
      <3>2. PICK b : b = call[u].old
        OBVIOUS
      <3>3. HeldOld(u) = b /\ b # NULL
        BY <1>2, <3>1, <3>2, HeldOldIs
      <3>4. Good(b) /\ Steady(b.page)
        BY <1>2, <2>2, <3>1, <3>2, <3>3 DEF Sizes
      <3>5. Good(b)'
        BY <3>4, GoodKeeps
      <3> QED BY <3>1, <3>2, <3>5
    <2> QED BY <2>1, <2>2
  <1> QED BY <1>1, <1>2 DEF Sizes

\* A step that moves t on, with its locks, and nothing else.
LEMMA Quiet ==
  ASSUME HeapInv, NEW t \in Thread, OthersSame(t), UNCHANGED <<arena, free_list, live>>, HeapTypeOK',
         \A d \in Desc : lock[d] \notin {NULL, t} => lock'[d] = lock[d],
         mpc[t] \notin {"pop", "count", "recount", "unlink"},
         mpc'[t] \notin {"count", "recount", "unlink"},
         call'[t].block = call[t].block, HeldOld(t)' = HeldOld(t),
         Shape(t)', Locked(t)', Heads'
  PROVE  HeapInv'
  <1>0. HeapTypeOK /\ Threads /\ Places /\ Heads /\ Counts /\ Full /\ Sizes
    BY DEF HeapInv
  <1>1. \A p \in Pages : Steady(p) /\ arena'[p] = arena[p]
    BY DEF Steady
  <1>2. HoldersKeep(t)
    BY DEF HoldersKeep
  <1>3. Threads'
    <2>1. ASSUME NEW u \in Thread, u # t PROVE Shape(u)' /\ Locked(u)'
      <3>1. Steady(call[u].block.page)
        BY DEF Steady
      <3> QED BY <1>0, <1>2, <2>1, <3>1, OthersThread
    <2> QED BY <2>1 DEF Threads
  <1>4. Places'
    <2>1. ASSUME NEW x \in Block PROVE Kept(t, {}, x)
      <3>1. InOld(t, x)' <=> InOld(t, x)
        BY HeldOldIs
      <3> QED BY <3>1 DEF Kept, InLive, InList, InBlock, InGone
    <2> QED BY <1>0, <1>1, <2>1, NoMove
  <1>5. Counts'
    BY <1>0, <1>1, CountedFrame, CountsKeep DEF Counts
  <1>6. Full'
    <2> SUFFICES ASSUME NEW p \in Pages, arena[p].desc # 0,
                        arena[p].free_cnt >= blocks_per_arena(arena[p].desc)
                 PROVE  \E u \in Thread : FullFor(u, p)'
      BY <1>1 DEF Full
    <2>1. ~FullFor(t, p)
      BY DEF FullFor
    <2> QED BY <1>0, <1>1, <1>2, <2>1, FullKeeps
  <1>7. Sizes'
    <2>1. \A b \in live' : Steady(b.page)
      BY DEF Steady
    <2>2. \A u \in Thread : Steady(HeldOld(u).page)
      BY DEF Steady
    <2>3. HeldOld(t)' # NULL => Good(HeldOld(t))'
      <3> SUFFICES ASSUME HeldOld(t) # NULL PROVE Good(HeldOld(t))'
        OBVIOUS
      <3>1. PICK b : b = HeldOld(t)
        OBVIOUS
      <3>2. Good(b) /\ Steady(b.page)
        BY <1>0, <3>1, HeldOldIs DEF Sizes, Steady
      <3>3. Good(b)'
        BY <3>2, GoodKeeps
      <3> QED BY <3>1, <3>3
    <2> QED BY <1>0, <2>1, <2>2, <2>3, SizesNext
  <1> QED BY <1>3, <1>4, <1>5, <1>6, <1>7 DEF HeapInv

-----------------------------------------------------------------------------
(* Steps of the page allocator that malloc.c does not see.                 *)

\* Arenas stay allocated.
LEMMA HeadsKeep ==
  ASSUME Heads, UNCHANGED arena, groups \subseteq groups'
  PROVE  Heads'
  <1>1. \A p \in Pages : GroupOf(p)' = GroupOf(p)
    BY DEF GroupOf
  <1> QED BY <1>1 DEF Heads

\* malloc.c does not notice.
LEMMA Idle ==
  ASSUME HeapInv, UNCHANGED <<heapVars, cnt>>, Heads'
  PROVE  HeapInv'
  <1> USE DEF heapVars
  <1>0. HeapTypeOK /\ Threads /\ Places /\ Heads /\ Counts /\ Full /\ Sizes
    BY DEF HeapInv
  <1>1. \A p \in Pages : Steady(p) /\ arena'[p] = arena[p]
    BY DEF Steady
  <1>2. HeapTypeOK'
    BY <1>0 DEF HeapTypeOK
  <1>3. Threads'
    <2> SUFFICES ASSUME NEW u \in Thread PROVE Shape(u)' /\ Locked(u)'
      BY DEF Threads
    <2>1. /\ MyDesc(u)' = MyDesc(u) /\ Freed(u)' = Freed(u) /\ FreeDesc(u)' = FreeDesc(u)
          /\ \A d, x : InList(d, x)' <=> InList(d, x)
      BY DEF MyDesc, Freed, FreeDesc, InList
    <2>2. Shape(u)'
      BY <1>0, <2>1 DEF Threads, Shape
    <2>3. Locked(u)'
      BY <1>0, <2>1 DEF Threads, Locked, InList
    <2> QED BY <2>2, <2>3
  <1>4. Places'
    <2>1. \A k, x : Own(k, x)' <=> Own(k, x)
      BY DEF Own, InLive, InList, InBlock, InOld, InGone
    <2>2. \A x : (Owned(x)' <=> Owned(x)) /\ (InArena(x)' <=> InArena(x))
      BY <2>1 DEF Owned, InArena
    <2>3. Apart'
      BY <1>0, <2>1 DEF Places, Apart
    <2>4. Valid' /\ Cover' /\ ListsOnce'
      BY <1>0, <2>2 DEF Places, Valid, Cover, ListsOnce, InList
    <2> QED BY <2>3, <2>4 DEF Places
  <1>5. Counts'
    <2>1. \A x \in Block : IsCounted(x)' <=> IsCounted(x)
      BY DEF IsCounted, Listed, InList, Pushed, Popped, Unlinked, InGone
    <2> QED BY <1>0, <1>1, <2>1, CountsKeep DEF Counts
  <1>6. Full'
    BY <1>0 DEF Full, FullFor, MyDesc
  <1>7. Sizes'
    BY <1>0, <1>1, GoodKeeps DEF Sizes, Good, Usable
  <1> QED BY <1>2, <1>3, <1>4, <1>5, <1>6, <1>7 DEF HeapInv

\* A step inside palloc.
LEMMA PallocStepInv == ASSUME MallocInv, NEW t \in Thread, PallocStep(t) PROVE MallocInv'
  <1>1. PoolInv'
    BY LockPoolInv, ScanBitInv, FlipBitInv, ClearBitInv, UnlockPoolInv DEF MallocInv, PallocStep
  <1>2. UNCHANGED <<heapVars, cnt, groups>>
    BY DEF PallocStep, LockPool, ScanBit, FlipBit, ClearBit, UnlockPool
  <1>3. Heads'
    BY <1>2, HeadsKeep DEF MallocInv, HeapInv, heapVars
  <1> QED BY <1>1, <1>2, <1>3, Idle DEF MallocInv

\* Another caller of palloc gets its zeroed pages.
LEMMA PageGotInv == ASSUME MallocInv, NEW t \in Thread, PageGot(t) PROVE MallocInv'
  <1>1. PoolInv'
    BY ZeroPagesInv DEF MallocInv, PageGot
  <1>2. UNCHANGED <<heapVars, cnt>> /\ groups \subseteq groups'
    BY DEF PageGot, ZeroPages
  <1>3. Heads'
    BY <1>2, HeadsKeep DEF MallocInv, HeapInv, heapVars
  <1> QED BY <1>1, <1>2, <1>3, Idle DEF MallocInv

\* Nothing happens.
LEMMA MallocStutterInv == ASSUME MallocInv, UNCHANGED mvars PROVE MallocInv'
  <1>1. UNCHANGED <<vars, heapVars, cnt, groups>>
    BY DEF mvars, vars
  <1>2. PoolInv'
    BY <1>1, PallocStutterInv DEF MallocInv
  <1>3. Heads'
    BY <1>1, HeadsKeep DEF MallocInv, HeapInv, heapVars
  <1> QED BY <1>1, <1>2, <1>3, Idle DEF MallocInv

\* Thread t goes to a label, and keeps its call.
LEMMA GoesTo ==
  ASSUME HeapTypeOK, NEW t \in Thread, NEW label \in MallocLabel, MGoto(t, label)
  PROVE  /\ mpc' \in [Thread -> MallocLabel] /\ mpc'[t] = label
         /\ \A u \in Thread : u # t => mpc'[u] = mpc[u]
  BY DEF HeapTypeOK, MGoto

\* Get() and Free() set the page count of the calling thread alone.
LEMMA CallsPalloc ==
  ASSUME TypeOK, NEW t \in Thread
  PROVE  /\ \A n : Get(t, n) => /\ cnt'[t] = n /\ groups' = groups
                                /\ \A u \in Thread : u # t => cnt'[u] = cnt[u]
         /\ \A g : Free(t, g) => /\ groups' = groups \ {g}
                                 /\ \A u \in Thread : u # t => cnt'[u] = cnt[u]
  BY DEF TypeOK, Get, Free

\* A call that is not in progress.
LEMMA NoCallFacts ==
  /\ NoCall \in Call
  /\ NoCall.asked = 0 /\ NoCall.size = 0 /\ NoCall.old = NULL /\ NoCall.block = NULL /\ NoCall.i = 0
  BY DEF NoCall, Call

\* Another caller asks for a page.
LEMMA PageGetInv == ASSUME MallocInv, NEW t \in Thread, PageGet(t) PROVE MallocInv'
  <1>0. HeapTypeOK /\ Threads /\ Heads /\ TypeOK /\ PoolInv /\ HeapInv
    BY DEF MallocInv, HeapInv, PoolInv
  <1>1. /\ mpc[t] = "out" /\ Get(t, 1) /\ MGoto(t, "page")
        /\ UNCHANGED <<arena, free_list, lock, live, call>>
    BY DEF PageGet, MAt
  <1>2. PoolInv'
    <2>1. 1 \in 1..MaxRequest
      BY PallocAssumption
    <2> QED BY <1>0, <1>1, <2>1, GetInv
  <1>3. /\ mpc' \in [Thread -> MallocLabel] /\ mpc'[t] = "page" /\ groups' = groups
        /\ OthersSame(t)
    BY <1>0, <1>1, GoesTo, CallsPalloc DEF MallocLabel, OthersSame
  <1>4. call[t] = NoCall /\ call'[t] = NoCall
    BY <1>0, <1>1 DEF Threads, Shape
  <1>5. HeapTypeOK'
    BY <1>0, <1>1, <1>3 DEF HeapTypeOK
  <1>6. Shape(t)' /\ Locked(t)'
    BY <1>3, <1>4, NoCallFacts DEF Shape, Locked
  <1>7. HeldOld(t)' = HeldOld(t)
    BY <1>1, <1>3, <1>4, NoCallFacts DEF HeldOld
  <1>8. Heads'
    BY <1>0, <1>1, <1>3, HeadsKeep
  <1>9. HeapInv'
    BY <1>0, <1>1, <1>3, <1>4, <1>5, <1>6, <1>7, <1>8, Quiet
  <1> QED BY <1>2, <1>9 DEF MallocInv

\* Another caller frees a page, which is no arena.
LEMMA PageFreeInv == ASSUME MallocInv, NEW t \in Thread, PageFree(t) PROVE MallocInv'
  <1>0. HeapTypeOK /\ Threads /\ Heads /\ TypeOK /\ PoolInv /\ HeapInv
    BY DEF MallocInv, HeapInv, PoolInv
  <1>1. PICK g \in groups :
        /\ mpc[t] = "out" /\ arena[g.first] = NoArena /\ Free(t, g) /\ MGoto(t, "page")
        /\ UNCHANGED <<arena, free_list, lock, live, call>>
    BY DEF PageFree, MAt
  <1>2. PoolInv'
    BY <1>0, <1>1, FreeInv
  <1>3. /\ mpc' \in [Thread -> MallocLabel] /\ mpc'[t] = "page" /\ groups' = groups \ {g}
        /\ OthersSame(t)
    BY <1>0, <1>1, GoesTo, CallsPalloc DEF MallocLabel, OthersSame
  <1>4. call[t] = NoCall /\ call'[t] = NoCall
    BY <1>0, <1>1 DEF Threads, Shape
  <1>5. HeapTypeOK'
    BY <1>0, <1>1, <1>3 DEF HeapTypeOK
  <1>6. Shape(t)' /\ Locked(t)'
    BY <1>3, <1>4, NoCallFacts DEF Shape, Locked
  <1>7. HeldOld(t)' = HeldOld(t)
    BY <1>1, <1>3, <1>4, NoCallFacts DEF HeldOld
  <1>8. Heads'
    <2> SUFFICES ASSUME NEW p \in Pages, arena[p] # NoArena PROVE GroupOf(p) \in groups'
      BY <1>1 DEF Heads, GroupOf
    <2>1. GroupOf(p) \in groups /\ GroupOf(p).first = p
      BY <1>0 DEF Heads, GroupOf
    <2> QED BY <1>1, <1>3, <2>1
  <1>9. HeapInv'
    BY <1>0, <1>1, <1>3, <1>4, <1>5, <1>6, <1>7, <1>8, Quiet
  <1> QED BY <1>2, <1>9 DEF MallocInv

\* Another caller is done.
LEMMA PageDoneInv == ASSUME MallocInv, NEW t \in Thread, PageDone(t) PROVE MallocInv'
  <1>0. HeapTypeOK /\ Threads /\ Heads /\ PoolInv /\ HeapInv
    BY DEF MallocInv, HeapInv
  <1>1. /\ mpc[t] = "page" /\ MGoto(t, "out")
        /\ UNCHANGED <<vars, arena, free_list, lock, live, call>>
    BY DEF PageDone, MAt
  <1>2. PoolInv'
    BY <1>0, <1>1, PallocStutterInv
  <1>3. /\ mpc' \in [Thread -> MallocLabel] /\ mpc'[t] = "out" /\ groups' = groups
        /\ OthersSame(t)
    BY <1>0, <1>1, GoesTo DEF MallocLabel, OthersSame, vars
  <1>4. call[t] = NoCall /\ call'[t] = NoCall
    BY <1>0, <1>1 DEF Threads, Shape
  <1>5. HeapTypeOK'
    BY <1>0, <1>1, <1>3 DEF HeapTypeOK
  <1>6. Shape(t)' /\ Locked(t)'
    BY <1>3, <1>4, NoCallFacts DEF Shape, Locked
  <1>7. HeldOld(t)' = HeldOld(t)
    BY <1>1, <1>3, <1>4, NoCallFacts DEF HeldOld
  <1>8. Heads'
    BY <1>0, <1>1, <1>3, HeadsKeep
  <1>9. HeapInv'
    BY <1>0, <1>1, <1>3, <1>4, <1>5, <1>6, <1>7, <1>8, Quiet
  <1> QED BY <1>2, <1>9 DEF MallocInv

-----------------------------------------------------------------------------
(* Taking and releasing a descriptor's lock.                               *)

\* lock_acquire(), and the test of the free list.
LEMMA LockDescInv == ASSUME MallocInv, NEW t \in Thread, LockDesc(t) PROVE MallocInv'
  <1>0. HeapTypeOK /\ Threads /\ Heads /\ TypeOK /\ PoolInv /\ HeapInv /\ Shape(t)
    BY DEF MallocInv, HeapInv, PoolInv, Threads
  <1>1. PICK d : d = MyDesc(t)
    OBVIOUS
  <1>2. d \in Desc /\ d # 0 /\ mpc[t] = "lock"
    BY <1>0, <1>1, MyDescType, ArenaRoom DEF LockDesc, MAt, Shape
  <1>3. /\ lock[d] = NULL /\ lock' = [lock EXCEPT ![d] = t]
        /\ UNCHANGED <<arena, free_list, live, call>>
        /\ \/ free_list[d] = << >> /\ Get(t, 1) /\ MGoto(t, "pages")
           \/ free_list[d] # << >> /\ MGoto(t, "pop") /\ UNCHANGED vars
    BY <1>1 DEF LockDesc, AcquireDesc
  <1>4. PoolInv' /\ groups' = groups /\ (\A u \in Thread : u # t => cnt'[u] = cnt[u])
    <2>1. 1 \in 1..MaxRequest
      BY PallocAssumption
    <2>2. CASE Get(t, 1)
      BY <1>0, <2>1, <2>2, GetInv, CallsPalloc
    <2>3. CASE UNCHANGED vars
      BY <1>0, <2>3, PallocStutterInv DEF vars
    <2> QED BY <1>3, <2>2, <2>3
  <1>5. /\ mpc' \in [Thread -> MallocLabel] /\ mpc'[t] \in {"pages", "pop"}
        /\ mpc'[t] = "pages" => free_list[d] = << >> /\ cnt'[t] = 1
        /\ mpc'[t] = "pop" => free_list[d] # << >>
        /\ OthersSame(t)
    <2>1. CASE free_list[d] = << >>
      <3>1. Get(t, 1) /\ MGoto(t, "pages")
        BY <1>3, <2>1
      <3> QED BY <1>0, <1>3, <1>4, <2>1, <3>1, GoesTo, CallsPalloc DEF MallocLabel, OthersSame
    <2>2. CASE free_list[d] # << >>
      <3>1. MGoto(t, "pop")
        BY <1>3, <2>2
      <3> QED BY <1>0, <1>3, <1>4, <2>2, <3>1, GoesTo DEF MallocLabel, OthersSame
    <2> QED BY <2>1, <2>2
  <1>6. /\ lock' \in [Desc -> Thread \cup {NULL}] /\ lock'[d] = t
        /\ \A e \in Desc : lock[e] \notin {NULL, t} => lock'[e] = lock[e]
    BY <1>0, <1>2, <1>3 DEF HeapTypeOK
  <1>7. MyDesc(t)' = d /\ call'[t] = call[t]
    BY <1>1, <1>3 DEF MyDesc
  <1>8. HeapTypeOK'
    BY <1>0, <1>3, <1>5, <1>6 DEF HeapTypeOK
  <1>9. Shape(t)'
    BY <1>0, <1>2, <1>5, <1>7 DEF Shape
  <1>10. Locked(t)'
    BY <1>2, <1>3, <1>5, <1>6, <1>7 DEF Locked
  <1>11. HeldOld(t)' = HeldOld(t)
    BY <1>2, <1>5, <1>7 DEF HeldOld, GivenUp
  <1>12. Heads'
    BY <1>0, <1>3, <1>4, HeadsKeep
  <1>13. HeapInv'
    BY <1>0, <1>2, <1>3, <1>5, <1>6, <1>7, <1>8, <1>9, <1>10, <1>11, <1>12, Quiet
  <1> QED BY <1>4, <1>13 DEF MallocInv

\* palloc has no pages.
LEMMA NoPagesInv == ASSUME MallocInv, NEW t \in Thread, NoPages(t) PROVE MallocInv'
  <1>0. HeapTypeOK /\ Threads /\ Heads /\ PoolInv /\ HeapInv /\ Shape(t) /\ Locked(t)
    BY DEF MallocInv, HeapInv, Threads
  <1>1. PICK d : d = MyDesc(t)
    OBVIOUS
  <1>2. /\ d \in Desc \cup {0} /\ mpc[t] = "pages" /\ MGoto(t, "failed")
        /\ UNCHANGED <<vars, arena, free_list, live, call>>
        /\ lock' = IF d = 0 THEN lock ELSE [lock EXCEPT ![d] = NULL]
        /\ d # 0 => d \in Desc /\ lock[d] = t
    BY <1>0, <1>1, MyDescType DEF NoPages, MAt, Locked
  <1>3. PoolInv'
    BY <1>0, <1>2, PallocStutterInv
  <1>4. /\ mpc' \in [Thread -> MallocLabel] /\ mpc'[t] = "failed" /\ groups' = groups
        /\ OthersSame(t) /\ call'[t] = call[t]
    BY <1>0, <1>2, GoesTo DEF MallocLabel, OthersSame, vars
  <1>5. /\ lock' \in [Desc -> Thread \cup {NULL}]
        /\ \A e \in Desc : lock[e] \notin {NULL, t} => lock'[e] = lock[e]
    <2>1. CASE d = 0
      BY <1>0, <1>2, <2>1 DEF HeapTypeOK
    <2>2. CASE d # 0
      BY <1>0, <1>2, <2>2 DEF HeapTypeOK
    <2> QED BY <2>1, <2>2
  <1>6. HeapTypeOK'
    BY <1>0, <1>2, <1>4, <1>5 DEF HeapTypeOK
  <1>7. Shape(t)' /\ Locked(t)'
    BY <1>0, <1>2, <1>4 DEF Shape, Locked
  <1>8. HeldOld(t)' = HeldOld(t)
    BY <1>2, <1>4 DEF HeldOld, GivenUp
  <1>9. Heads'
    BY <1>0, <1>2, <1>4, HeadsKeep
  <1>10. HeapInv'
    BY <1>0, <1>2, <1>4, <1>5, <1>6, <1>7, <1>8, <1>9, Quiet
  <1> QED BY <1>3, <1>10 DEF MallocInv

\* palloc_free_multiple() has returned.
LEMMA ReleasedInv == ASSUME MallocInv, NEW t \in Thread, Released(t) PROVE MallocInv'
  <1>0. HeapTypeOK /\ Threads /\ Heads /\ PoolInv /\ HeapInv /\ Shape(t)
    BY DEF MallocInv, HeapInv, Threads
  <1>2. /\ mpc[t] = "freeing" /\ MGoto(t, "out") /\ call' = [call EXCEPT ![t] = NoCall]
        /\ UNCHANGED <<vars, arena, free_list, live>>
        /\ lock' = [d \in Desc |-> IF lock[d] = t THEN NULL ELSE lock[d]]
    BY DEF Released, MAt
  <1>3. PoolInv'
    BY <1>0, <1>2, PallocStutterInv
  <1>4. /\ mpc' \in [Thread -> MallocLabel] /\ mpc'[t] = "out" /\ groups' = groups
        /\ call' \in [Thread -> Call] /\ call'[t] = NoCall /\ OthersSame(t)
    BY <1>0, <1>2, GoesTo, NoCallFacts DEF MallocLabel, OthersSame, vars, HeapTypeOK
  <1>5. /\ lock' \in [Desc -> Thread \cup {NULL}]
        /\ \A e \in Desc : lock[e] \notin {NULL, t} => lock'[e] = lock[e]
    BY <1>0, <1>2 DEF HeapTypeOK
  <1>6. HeapTypeOK'
    BY <1>0, <1>2, <1>4, <1>5 DEF HeapTypeOK
  <1>7. Shape(t)' /\ Locked(t)'
    BY <1>4, NoCallFacts DEF Shape, Locked
  <1>8. HeldOld(t)' = HeldOld(t) /\ call'[t].block = call[t].block
    BY <1>0, <1>2, <1>4, NoCallFacts DEF HeldOld, GivenUp, Shape
  <1>9. Heads'
    BY <1>0, <1>2, <1>4, HeadsKeep
  <1>10. HeapInv'
    BY <1>0, <1>2, <1>4, <1>5, <1>6, <1>7, <1>8, <1>9, Quiet
  <1> QED BY <1>3, <1>10 DEF MallocInv

-----------------------------------------------------------------------------
(* The calls.  A block leaves live and becomes the thread's old block.     *)
LEMMA TakeOld ==
  ASSUME HeapInv, NEW t \in Thread, OthersSame(t), UNCHANGED <<arena, free_list, lock>>, HeapTypeOK',
         mpc[t] = "out", mpc'[t] \notin {"count", "recount", "unlink"}, mpc'[t] \notin GivenUp,
         NEW b \in live, live' = live \ {b},
         call'[t].old = b, call'[t].block = NULL,
         Shape(t)', Locked(t)', Heads'
  PROVE  HeapInv'
  <1>0. HeapTypeOK /\ Threads /\ Places /\ Heads /\ Counts /\ Full /\ Sizes /\ Shape(t)
    BY DEF HeapInv, Threads
  <1>1. \A p \in Pages : Steady(p) /\ arena'[p] = arena[p]
    BY DEF Steady
  <1>2. HoldersKeep(t)
    BY DEF HoldersKeep
  <1>3. Threads'
    <2>1. ASSUME NEW u \in Thread, u # t PROVE Shape(u)' /\ Locked(u)'
      <3>1. Steady(call[u].block.page)
        BY DEF Steady
      <3> QED BY <1>0, <1>2, <2>1, <3>1, OthersThread
    <2> QED BY <2>1 DEF Threads
  <1>4. call[t] = NoCall
    BY <1>0 DEF Shape
  <1>5. b \in LiveBlock /\ b # NULL /\ b.asked \in Nat
    BY <1>0, MallocAssumption DEF HeapTypeOK, LiveBlock
  <1>6. PICK z : z = At0(b)
    OBVIOUS
  <1>7. z \in Block
    BY <1>5, <1>6, PlaceOf
  <1>8. HeldOld(t) = NULL /\ HeldOld(t)' = b
    BY <1>4, NoCallFacts DEF HeldOld
  <1>9. Places'
    <2> DEFINE j == <<"live", b.asked>>
               k == <<"old", t>>
    <2>1. j \in Owner /\ k \in Owner
      BY <1>5, OwnerKinds
    <2>2. InLive(b.asked, z) /\ ~InLive(b.asked, z)' /\ InOld(t, z)'
      <3>1. [page |-> z.page, idx |-> z.idx, asked |-> b.asked] = b
        BY <1>5, <1>6, PlaceOf
      <3> QED BY <1>5, <1>6, <1>8, <3>1, HeldOldIs DEF InLive
    <2>3. Own(j, z) /\ ~Own(j, z)' /\ Own(k, z)'
      BY <2>2, OwnIs, OwnIsNext
    <2>4. ASSUME NEW x \in Block
          PROVE  /\ \A n \in Nat : x # z \/ n # b.asked => (InLive(n, x)' <=> InLive(n, x))
                 /\ \A d \in Desc : InList(d, x)' <=> InList(d, x)
                 /\ InBlock(t, x)' <=> InBlock(t, x)
                 /\ x # z => (InOld(t, x)' <=> InOld(t, x))
                 /\ InGone(t, x)' <=> InGone(t, x)
      <3>1. ASSUME NEW n \in Nat, x # z \/ n # b.asked PROVE InLive(n, x)' <=> InLive(n, x)
        <4>1. PICK c : c = [page |-> x.page, idx |-> x.idx, asked |-> n]
          OBVIOUS
        <4>2. c.page = x.page /\ c.idx = x.idx /\ c.asked = n
          BY <4>1
        <4>3. c # b
          BY <1>6, <3>1, <4>2, <1>5, PlaceOf, <1>7
        <4> QED BY <4>1, <4>3 DEF InLive
      <3>2. \A d \in Desc : InList(d, x)' <=> InList(d, x)
        BY DEF InList
      <3>3. InBlock(t, x)' <=> InBlock(t, x)
        BY <1>4, NoCallFacts DEF InBlock
      <3>4. x # z => (InOld(t, x)' <=> InOld(t, x))
        BY <1>6, <1>8, HeldOldIs
      <3>5. InGone(t, x)' <=> InGone(t, x)
        BY DEF InGone
      <3> QED BY <3>1, <3>2, <3>3, <3>4, <3>5
    <2>5. \A x \in Block : x # z => Kept(t, {}, x)
      BY <2>4 DEF Kept
    <2>6. Kept(t, {j, k}, z)
      BY <1>7, <2>4 DEF Kept
    <2>7. ListsOnce'
      BY <1>0 DEF Places, ListsOnce
    <2>8. \A d \in Desc : k = <<"list", d>> => arena[z.page].desc = d
      OBVIOUS
    <2> HIDE DEF j, k
    <2> QED BY <1>0, <1>1, <1>7, <2>1, <2>3, <2>5, <2>6, <2>7, <2>8, Move
  <1>10. Counts'
    BY <1>0, <1>1, CountedFrame, CountsKeep DEF Counts
  <1>11. Full'
    <2> SUFFICES ASSUME NEW p \in Pages, arena[p].desc # 0,
                        arena[p].free_cnt >= blocks_per_arena(arena[p].desc)
                 PROVE  \E u \in Thread : FullFor(u, p)'
      BY <1>1 DEF Full
    <2>1. ~FullFor(t, p)
      BY DEF FullFor
    <2> QED BY <1>0, <1>1, <1>2, <2>1, FullKeeps
  <1>12. Sizes'
    <2>1. \A c \in live' : c \in live /\ Steady(c.page)
      BY DEF Steady
    <2>2. \A u \in Thread : Steady(HeldOld(u).page)
      BY DEF Steady
    <2>3. Good(b) /\ Steady(b.page)
      BY <1>0 DEF Sizes, Steady
    <2>4. Good(HeldOld(t))'
      BY <1>8, <2>3, GoodKeeps
    <2> QED BY <1>0, <2>1, <2>2, <2>4, SizesNext
  <1> QED BY <1>3, <1>9, <1>10, <1>11, <1>12 DEF HeapInv

\* malloc(), calloc() and realloc() begin.
LEMMA StartMallocInv ==
  ASSUME MallocInv, NEW t \in Thread, NEW asked \in Nat, NEW size \in Nat, size = asked % Word,
         NEW old \in live \cup {NULL}, StartMalloc(t, asked, size, old)
  PROVE  MallocInv'
  <1>0. HeapTypeOK /\ Threads /\ Heads /\ TypeOK /\ PoolInv /\ HeapInv /\ Shape(t)
    BY DEF MallocInv, HeapInv, PoolInv, Threads
  <1>1. PICK c : c = [NoCall EXCEPT !.asked = asked, !.size = size, !.old = old]
    OBVIOUS
  <1>2. /\ c \in Call /\ c.asked = asked /\ c.size = size /\ c.old = old /\ c.block = NULL /\ c.i = 0
    BY <1>0, <1>1 DEF NoCall, Call, HeapTypeOK
  <1>3. PICK d, n : d = desc_for(size) /\ n = page_cnt(size)
    OBVIOUS
  <1>4. /\ mpc[t] = "out" /\ call' = [call EXCEPT ![t] = c] /\ live' = live \ {old}
        /\ UNCHANGED <<arena, free_list, lock>>
        /\ \/ d # 0 /\ MGoto(t, "lock") /\ UNCHANGED vars
           \/ d = 0 /\ n = 0 /\ MGoto(t, "failed") /\ UNCHANGED vars
           \/ d = 0 /\ n # 0 /\ MGoto(t, "pages") /\ Get(t, n)
    BY <1>1, <1>3 DEF StartMalloc, MAt
  <1>5. call[t] = NoCall
    BY <1>0, <1>4 DEF Shape
  <1>6. n \in Nat /\ n <= MaxRequest
    BY <1>3, PageCount
  <1>7. PoolInv' /\ groups' = groups /\ (\A u \in Thread : u # t => cnt'[u] = cnt[u])
    <2>1. ASSUME n # 0, Get(t, n)
          PROVE  PoolInv' /\ groups' = groups /\ (\A u \in Thread : u # t => cnt'[u] = cnt[u])
      <3>1. n \in 1..MaxRequest
        BY <1>6, <2>1, PallocAssumption
      <3> QED BY <1>0, <2>1, <3>1, GetInv, CallsPalloc
    <2>2. CASE UNCHANGED vars
      BY <1>0, <2>2, PallocStutterInv DEF vars
    <2> QED BY <1>4, <2>1, <2>2
  <1>8. /\ call' \in [Thread -> Call] /\ call'[t] = c
        /\ \A u \in Thread : u # t => call'[u] = call[u]
    BY <1>0, <1>2, <1>4 DEF HeapTypeOK
  <1>9. /\ mpc' \in [Thread -> MallocLabel] /\ mpc'[t] \in {"lock", "failed", "pages"}
        /\ mpc'[t] = "lock" => d # 0
        /\ mpc'[t] = "pages" => d = 0 /\ cnt'[t] = n
        /\ \A u \in Thread : u # t => mpc'[u] = mpc[u]
    <2>1. CASE MGoto(t, "lock") /\ d # 0
      BY <1>0, <2>1, GoesTo DEF MallocLabel
    <2>2. CASE MGoto(t, "failed")
      BY <1>0, <2>2, GoesTo DEF MallocLabel
    <2>3. CASE MGoto(t, "pages") /\ d = 0 /\ Get(t, n)
      BY <1>0, <2>3, GoesTo, CallsPalloc DEF MallocLabel
    <2> QED BY <1>4, <2>1, <2>2, <2>3
  <1>10. OthersSame(t) /\ MyDesc(t)' = d
    BY <1>2, <1>3, <1>7, <1>8, <1>9 DEF OthersSame, MyDesc
  <1>11. HeapTypeOK'
    BY <1>0, <1>4, <1>8, <1>9 DEF HeapTypeOK
  <1>12. Shape(t)'
    BY <1>2, <1>3, <1>8, <1>9, <1>10 DEF Shape
  <1>13. Locked(t)'
    BY <1>9, <1>10 DEF Locked
  <1>14. Heads'
    BY <1>0, <1>4, <1>7, HeadsKeep
  <1>15. CASE old = NULL
    <2>1. live' = live
      BY <1>0, <1>4, <1>15, MallocAssumption DEF HeapTypeOK
    <2>2. HeldOld(t)' = HeldOld(t) /\ call'[t].block = call[t].block
      BY <1>2, <1>4, <1>5, <1>8, <1>9, <1>15, NoCallFacts DEF HeldOld, GivenUp
    <2>3. HeapInv'
      BY <1>0, <1>4, <1>9, <1>10, <1>11, <1>12, <1>13, <1>14, <2>1, <2>2, Quiet
    <2> QED BY <1>7, <2>3 DEF MallocInv
  <1>16. CASE old \in live
    <2>1. mpc'[t] \notin GivenUp
      BY <1>9 DEF GivenUp
    <2>2. HeapInv'
      BY <1>0, <1>2, <1>4, <1>8, <1>9, <1>10, <1>11, <1>12, <1>13, <1>14, <1>16, <2>1, TakeOld
    <2> QED BY <1>7, <2>2 DEF MallocInv
  <1> QED BY <1>15, <1>16

\* free() begins.
LEMMA StartFreeInv ==
  ASSUME MallocInv, NEW t \in Thread, NEW b \in live, StartFree(t, b)
  PROVE  MallocInv'
  <1>0. HeapTypeOK /\ Threads /\ Heads /\ PoolInv /\ HeapInv /\ Shape(t)
    BY DEF MallocInv, HeapInv, Threads
  <1>1. PICK c : c = [NoCall EXCEPT !.old = b]
    OBVIOUS
  <1>2. /\ c \in Call /\ c.old = b /\ c.block = NULL /\ c.i = 0
    BY <1>0, <1>1 DEF NoCall, Call, HeapTypeOK
  <1>3. /\ mpc[t] = "out" /\ call' = [call EXCEPT ![t] = c] /\ live' = live \ {b}
        /\ MGoto(t, "free") /\ UNCHANGED <<vars, arena, free_list, lock>>
    BY <1>1 DEF StartFree, MAt
  <1>4. PoolInv'
    BY <1>0, <1>3, PallocStutterInv
  <1>5. /\ mpc' \in [Thread -> MallocLabel] /\ mpc'[t] = "free" /\ groups' = groups
        /\ call' \in [Thread -> Call] /\ call'[t] = c /\ OthersSame(t)
    BY <1>0, <1>2, <1>3, GoesTo DEF MallocLabel, OthersSame, vars, HeapTypeOK
  <1>6. HeapTypeOK'
    BY <1>0, <1>3, <1>5 DEF HeapTypeOK
  <1>7. b # NULL
    BY <1>0, MallocAssumption DEF HeapTypeOK
  <1>8. Shape(t)' /\ Locked(t)'
    BY <1>2, <1>5, <1>7 DEF Shape, Locked
  <1>9. Heads'
    BY <1>0, <1>3, <1>5, HeadsKeep
  <1>10. mpc'[t] \notin GivenUp
    BY <1>5 DEF GivenUp
  <1>11. HeapInv'
    BY <1>0, <1>2, <1>3, <1>5, <1>6, <1>8, <1>9, <1>10, TakeOld
  <1> QED BY <1>4, <1>11 DEF MallocInv

\* malloc(), calloc(), realloc() and free().
LEMMA CallsInv ==
  ASSUME MallocInv, NEW t \in Thread,
         \/ \E n \in Size : malloc(t, n) \/ realloc(t, n)
         \/ \E p \in CallocArg : calloc(t, p[1], p[2])
         \/ free(t)
  PROVE  MallocInv'
  <1>0. Word \in Nat \ {0} /\ \A n \in Size : n \in Nat /\ n = n % Word
    <2>1. Word \in Nat \ {0} /\ \A n \in Size : n \in 0..(Word - 1)
      BY MallocAssumption
    <2> QED BY <2>1
  <1>1. ASSUME NEW n \in Size, malloc(t, n) PROVE MallocInv'
    BY <1>0, <1>1, StartMallocInv DEF malloc
  <1>2. ASSUME NEW n \in Size, realloc(t, n) PROVE MallocInv'
    <2>1. PICK b \in live : StartFree(t, b) \/ StartMalloc(t, n, n, b)
      BY <1>2 DEF realloc
    <2>2. CASE StartFree(t, b)
      BY <2>2, StartFreeInv
    <2>3. CASE StartMalloc(t, n, n, b)
      BY <1>0, <2>3, StartMallocInv
    <2> QED BY <2>1, <2>2, <2>3
  <1>3. ASSUME NEW p \in CallocArg, calloc(t, p[1], p[2]) PROVE MallocInv'
    <2>1. PICK a, b : a = p[1] /\ b = p[2]
      OBVIOUS
    <2>2. a \in Nat /\ b \in Nat
      <3>1. Word \in Nat /\ p \in (0..(Word - 1)) \X (0..(Word - 1))
        BY MallocAssumption
      <3>2. a \in 0..(Word - 1) /\ b \in 0..(Word - 1)
        BY <2>1, <3>1
      <3> QED BY <3>1, <3>2
    <2>3. PICK m : m = a * b
      OBVIOUS
    <2>4. m \in Nat
      BY <2>2, <2>3
    <2>5. PICK size : size = m % Word
      OBVIOUS
    <2>6. size \in Nat
      BY <1>0, <2>4, <2>5
    <2>7. StartMalloc(t, m, size, NULL)
      BY <1>3, <2>1, <2>3, <2>5 DEF calloc
    <2> QED BY <2>4, <2>5, <2>6, <2>7, StartMallocInv
  <1>4. ASSUME free(t) PROVE MallocInv'
    BY <1>4, StartFreeInv DEF free
  <1> QED BY <1>1, <1>2, <1>3, <1>4

(* Returning.  The place of owner j becomes a block in use.                *)
LEMMA GiveLive ==
  ASSUME HeapInv, NEW t \in Thread, OthersSame(t), UNCHANGED <<arena, free_list, lock>>, HeapTypeOK',
         mpc[t] \in {"done", "failed"}, mpc'[t] \in {"out", "free"},
         NEW b \in LiveBlock, live' = live \cup {b},
         NEW j \in {<<"block", t>>, <<"old", t>>}, Own(j, At0(b)),
         j = <<"block", t>> => call'[t].block = NULL /\ HeldOld(t)' = HeldOld(t),
         j = <<"old", t>> => call'[t].block = call[t].block /\ HeldOld(t)' = NULL,
         Good(b), Shape(t)', Locked(t)', Heads'
  PROVE  HeapInv'
  <1>0. HeapTypeOK /\ Threads /\ Places /\ Heads /\ Counts /\ Full /\ Sizes /\ Shape(t)
    BY DEF HeapInv, Threads
  <1>1. \A p \in Pages : Steady(p) /\ arena'[p] = arena[p]
    BY DEF Steady
  <1>2. HoldersKeep(t)
    BY DEF HoldersKeep
  <1>3. Threads'
    <2>1. ASSUME NEW u \in Thread, u # t PROVE Shape(u)' /\ Locked(u)'
      <3>1. Steady(call[u].block.page)
        BY DEF Steady
      <3> QED BY <1>0, <1>2, <2>1, <3>1, OthersThread
    <2> QED BY <2>1 DEF Threads
  <1>4. PICK z : z = At0(b)
    OBVIOUS
  <1>5. z \in Block /\ b.asked \in Nat /\ z # NULL
    BY <1>4, PlaceOf, MallocAssumption DEF LiveBlock
  <1>6. Places'
    <2> DEFINE k == <<"live", b.asked>>
    <2>1. j \in Owner /\ k \in Owner
      <3>1. <<"block", t>> \in Owner /\ <<"old", t>> \in Owner /\ k \in Owner
        BY <1>5, OwnerKinds
      <3> QED BY <3>1
    <2>2. Own(j, z) /\ Own(k, z)' /\ ~Own(j, z)'
      <3>1. [page |-> z.page, idx |-> z.idx, asked |-> b.asked] = b
        BY <1>4, PlaceOf
      <3>2. InLive(b.asked, z)'
        BY <3>1 DEF InLive
      <3>3. CASE j = <<"block", t>>
        BY <1>4, <1>5, <3>2, <3>3, OwnIs, OwnIsNext DEF InBlock
      <3>4. CASE j = <<"old", t>>
        BY <1>4, <3>2, <3>4, OwnIs, OwnIsNext, HeldOldIs
      <3> QED BY <3>3, <3>4
    <2>3. ASSUME NEW x \in Block
          PROVE  /\ \A n \in Nat : x # z \/ n # b.asked => (InLive(n, x)' <=> InLive(n, x))
                 /\ \A d \in Desc : InList(d, x)' <=> InList(d, x)
                 /\ x # z \/ j # <<"block", t>> => (InBlock(t, x)' <=> InBlock(t, x))
                 /\ x # z \/ j # <<"old", t>> => (InOld(t, x)' <=> InOld(t, x))
                 /\ InGone(t, x)' <=> InGone(t, x)
      <3>1. ASSUME NEW n \in Nat, x # z \/ n # b.asked PROVE InLive(n, x)' <=> InLive(n, x)
        <4>1. PICK c : c = [page |-> x.page, idx |-> x.idx, asked |-> n]
          OBVIOUS
        <4>2. c.page = x.page /\ c.idx = x.idx /\ c.asked = n
          BY <4>1
        <4>3. c # b
          BY <1>4, <1>5, <3>1, <4>2, PlaceOf
        <4> QED BY <4>1, <4>3 DEF InLive
      <3>2. \A d \in Desc : InList(d, x)' <=> InList(d, x)
        BY DEF InList
      <3>3. ASSUME x # z \/ j # <<"block", t>> PROVE InBlock(t, x)' <=> InBlock(t, x)
        <4>1. x # NULL
          BY MallocAssumption
        <4>2. j = <<"block", t>> => call[t].block = z
          BY <2>2, OwnIs DEF InBlock
        <4> QED BY <3>3, <4>1, <4>2 DEF InBlock
      <3>4. ASSUME x # z \/ j # <<"old", t>> PROVE InOld(t, x)' <=> InOld(t, x)
        <4>1. j = <<"old", t>> => At0(HeldOld(t)) = z
          BY <2>2, OwnIs, HeldOldIs
        <4>2. j = <<"block", t>> \/ j = <<"old", t>>
          OBVIOUS
        <4> QED BY <3>4, <4>1, <4>2, HeldOldIs
      <3>5. InGone(t, x)' <=> InGone(t, x)
        BY DEF InGone
      <3> QED BY <3>1, <3>2, <3>3, <3>4, <3>5
    <2>4. \A x \in Block : x # z => Kept(t, {}, x)
      BY <2>3 DEF Kept
    <2>5. Kept(t, {j, k}, z)
      BY <1>5, <2>3 DEF Kept
    <2>6. ListsOnce'
      BY <1>0 DEF Places, ListsOnce
    <2>7. \A d \in Desc : k = <<"list", d>> => arena[z.page].desc = d
      OBVIOUS
    <2> HIDE DEF k
    <2> QED BY <1>0, <1>1, <1>5, <2>1, <2>2, <2>4, <2>5, <2>6, <2>7, Move
  <1>7. Counts'
    BY <1>0, <1>1, CountedFrame, CountsKeep DEF Counts
  <1>8. Full'
    <2> SUFFICES ASSUME NEW p \in Pages, arena[p].desc # 0,
                        arena[p].free_cnt >= blocks_per_arena(arena[p].desc)
                 PROVE  \E u \in Thread : FullFor(u, p)'
      BY <1>1 DEF Full
    <2>1. ~FullFor(t, p)
      BY DEF FullFor
    <2> QED BY <1>0, <1>1, <1>2, <2>1, FullKeeps
  <1>9. Sizes'
    <2>1. \A c \in live' : Steady(c.page)
      BY DEF Steady
    <2>2. \A u \in Thread : Steady(HeldOld(u).page)
      BY DEF Steady
    <2>3. Good(b)'
      BY <2>1, GoodKeeps
    <2>4. HeldOld(t)' # NULL => Good(HeldOld(t))'
      <3> SUFFICES ASSUME HeldOld(t)' # NULL PROVE Good(HeldOld(t))'
        OBVIOUS
      <3>1. HeldOld(t)' = HeldOld(t)
        OBVIOUS
      <3>2. PICK c : c = HeldOld(t)
        OBVIOUS
      <3>3. Good(c) /\ Steady(c.page)
        BY <1>0, <2>2, <3>1, <3>2, HeldOldIs DEF Sizes
      <3> QED BY <3>1, <3>2, <3>3, GoodKeeps
    <2> QED BY <1>0, <2>1, <2>2, <2>3, <2>4, SizesNext
  <1> QED BY <1>3, <1>6, <1>7, <1>8, <1>9 DEF HeapInv

\* A null pointer; the old block of realloc() is in use again.
LEMMA MallocFailsInv == ASSUME MallocInv, NEW t \in Thread, MallocFails(t) PROVE MallocInv'
  <1>0. HeapTypeOK /\ Threads /\ Heads /\ PoolInv /\ HeapInv /\ Shape(t) /\ Sizes
    BY DEF MallocInv, HeapInv, Threads
  <1>1. PICK b : b = call[t].old
    OBVIOUS
  <1>2. /\ mpc[t] = "failed" /\ live' = live \cup ({b} \ {NULL}) /\ call' = [call EXCEPT ![t] = NoCall]
        /\ MGoto(t, "out") /\ UNCHANGED <<vars, arena, free_list, lock>>
    BY <1>1 DEF MallocFails, MAt
  <1>3. b \in LiveBlock \cup {NULL} /\ HeldOld(t) = b
    BY <1>0, <1>1, <1>2 DEF HeapTypeOK, Call, HeldOld, GivenUp
  <1>4. PoolInv'
    BY <1>0, <1>2, PallocStutterInv
  <1>5. /\ mpc' \in [Thread -> MallocLabel] /\ mpc'[t] = "out" /\ groups' = groups
        /\ call' \in [Thread -> Call] /\ call'[t] = NoCall /\ OthersSame(t)
    BY <1>0, <1>2, GoesTo, NoCallFacts DEF MallocLabel, OthersSame, vars, HeapTypeOK
  <1>6. live' \subseteq LiveBlock
    BY <1>0, <1>2, <1>3 DEF HeapTypeOK
  <1>7. HeapTypeOK'
    BY <1>0, <1>2, <1>5, <1>6 DEF HeapTypeOK
  <1>8. Shape(t)' /\ Locked(t)'
    BY <1>5, NoCallFacts DEF Shape, Locked
  <1>9. HeldOld(t)' = NULL /\ call'[t].block = call[t].block
    BY <1>0, <1>2, <1>5, NoCallFacts DEF HeldOld, GivenUp, Shape
  <1>10. Heads'
    BY <1>0, <1>2, <1>5, HeadsKeep
  <1>11. CASE b = NULL
    <2>1. live' = live
      BY <1>2, <1>11
    <2>2. HeapInv'
      BY <1>0, <1>2, <1>3, <1>5, <1>7, <1>8, <1>9, <1>10, <1>11, <2>1, Quiet
    <2> QED BY <1>4, <2>2 DEF MallocInv
  <1>12. CASE b # NULL
    <2>1. b \in LiveBlock /\ live' = live \cup {b}
      BY <1>2, <1>3, <1>12
    <2>2. Own(<<"old", t>>, At0(b))
      BY <1>3, <1>12, OwnIs, HeldOldIs
    <2>3. Good(b)
      BY <1>0, <1>1, <1>2, <1>12 DEF Sizes, GivenUp
    <2>4. HeapInv'
      BY <1>0, <1>2, <1>5, <1>7, <1>8, <1>9, <1>10, <2>1, <2>2, <2>3, GiveLive
    <2> QED BY <1>4, <2>4 DEF MallocInv
  <1> QED BY <1>11, <1>12

\* malloc() returns its block.
LEMMA MallocReturnsInv == ASSUME MallocInv, NEW t \in Thread, MallocReturns(t) PROVE MallocInv'
  <1>0. HeapTypeOK /\ Threads /\ Heads /\ PoolInv /\ HeapInv /\ Shape(t) /\ Places
    BY DEF MallocInv, HeapInv, Threads
  <1>1. PICK b, z, n : b = Result(t) /\ z = call[t].block /\ n = call[t].asked
    OBVIOUS
  <1>2. mpc[t] = "done" /\ z \in Block /\ n \in Nat
    BY <1>0, <1>1 DEF MallocReturns, MAt, Shape, HeapTypeOK, Call
  <1>3. b \in LiveBlock /\ b.page = z.page /\ b.idx = z.idx /\ b.asked = n
    BY <1>1, <1>2 DEF Result, LiveBlock, Block
  <1>4. At0(b) = z
    BY <1>2, <1>3, PlaceOf
  <1>5. PICK c : /\ c \in Call /\ c.block = NULL /\ c.i = 0 /\ c.old = call[t].old
                 /\ call' = [call EXCEPT ![t] = c]
                 /\ \/ c.old = NULL /\ c = NoCall /\ MGoto(t, "out")
                    \/ c.old # NULL /\ MGoto(t, "free")
    <2>1. CASE call[t].old = NULL
      BY <2>1, NoCallFacts DEF MallocReturns
    <2>2. CASE call[t].old # NULL
      <3>1. PICK c : c = [NoCall EXCEPT !.old = call[t].old]
        OBVIOUS
      <3>2. call[t].old \in LiveBlock \cup {NULL}
        BY <1>0 DEF HeapTypeOK, Call
      <3>3. c \in Call /\ c.block = NULL /\ c.i = 0 /\ c.old = call[t].old
        BY <3>1, <3>2 DEF NoCall, Call
      <3> QED BY <2>2, <3>1, <3>3 DEF MallocReturns
    <2> QED BY <2>1, <2>2
  <1>6. live' = live \cup {b} /\ UNCHANGED <<vars, arena, free_list, lock>>
    BY <1>1 DEF MallocReturns
  <1>7. PoolInv'
    BY <1>0, <1>6, PallocStutterInv
  <1>8. /\ call' \in [Thread -> Call] /\ call'[t] = c /\ groups' = groups
        /\ \A u \in Thread : u # t => call'[u] = call[u]
    BY <1>0, <1>5, <1>6 DEF vars, HeapTypeOK
  <1>9. /\ mpc' \in [Thread -> MallocLabel] /\ mpc'[t] \in {"out", "free"}
        /\ mpc'[t] = "out" => c = NoCall
        /\ mpc'[t] = "free" => c.old # NULL
        /\ \A u \in Thread : u # t => mpc'[u] = mpc[u]
    <2>1. CASE c = NoCall /\ MGoto(t, "out")
      BY <1>0, <2>1, GoesTo DEF MallocLabel
    <2>2. CASE c.old # NULL /\ MGoto(t, "free")
      BY <1>0, <2>2, GoesTo DEF MallocLabel
    <2> QED BY <1>5, <2>1, <2>2
  <1>10. OthersSame(t)
    BY <1>6, <1>8, <1>9 DEF OthersSame, vars
  <1>11. HeapTypeOK'
    BY <1>0, <1>3, <1>6, <1>8, <1>9 DEF HeapTypeOK
  <1>12. Shape(t)' /\ Locked(t)'
    BY <1>5, <1>8, <1>9, NoCallFacts DEF Shape, Locked
  <1>13. HeldOld(t)' = HeldOld(t) /\ call'[t].block = NULL
    BY <1>2, <1>5, <1>8, <1>9 DEF HeldOld, GivenUp
  <1>14. Heads'
    BY <1>0, <1>6, <1>8, HeadsKeep
  <1>15. Own(<<"block", t>>, z) /\ <<"block", t>> \in Owner
    BY <1>1, OwnIs, OwnerKinds DEF InBlock
  <1>16. Good(b)
    <2>1. PICK size : size = call[t].size
      OBVIOUS
    <2>2. size \in Nat /\ size = n % Word /\ MyDesc(t) = desc_for(size)
      BY <1>0, <1>1, <1>2, <2>1 DEF Shape, HeapTypeOK, Call, MyDesc
    <2>3. arena[b.page].desc = MyDesc(t)
      BY <1>0, <1>1, <1>2, <1>3 DEF Shape
    <2>4. CASE MyDesc(t) # 0
      <3>1. Usable(b) = block_size[desc_for(size)]
        BY <2>2, <2>3, <2>4 DEF Usable
      <3> QED BY <1>2, <1>3, <2>2, <2>4, <3>1, SmallFits DEF Good
    <2>5. CASE MyDesc(t) = 0
      <3>1. arena[b.page].free_cnt = page_cnt(size)
        BY <1>0, <1>1, <1>2, <1>3, <2>1, <2>5 DEF Shape
      <3>2. InArena(z)
        BY <1>0, <1>2, <1>15 DEF Places, Valid, Owned
      <3>3. page_cnt(size) # 0
        BY <1>3, <2>3, <2>5, <3>1, <3>2 DEF InArena
      <3>4. Usable(b) = (PGSIZE * page_cnt(size)) - ARENA_SIZE
        BY <2>3, <2>5, <3>1 DEF Usable
      <3> QED BY <1>2, <1>3, <2>2, <3>3, <3>4, BigFits DEF Good
    <2> QED BY <2>4, <2>5
  <1>17. HeapInv'
    BY <1>0, <1>2, <1>3, <1>4, <1>6, <1>9, <1>10, <1>11, <1>12, <1>13, <1>14, <1>15, <1>16, GiveLive
  <1> QED BY <1>7, <1>17 DEF MallocInv

-----------------------------------------------------------------------------
(* Counting the free blocks of an arena.                                   *)
ArenaPlaces(p, d) == {x \in Block : x.page = p /\ x.idx < blocks_per_arena(d)}

\* The places of an arena are as many as blocks_per_arena().
LEMMA ArenaSize ==
  ASSUME NEW p \in Pages, NEW d \in Desc
  PROVE  IsFiniteSet(ArenaPlaces(p, d)) /\ Cardinality(ArenaPlaces(p, d)) = blocks_per_arena(d)
  <1>1. PICK f : f = Arena(d, p)
    OBVIOUS
  <1>2. f \in Seq(Block) /\ NoDuplicates(f) /\ Elems(f) = ArenaPlaces(p, d)
    BY <1>1, ArenaBlocks DEF ArenaPlaces
  <1>3. Len(f) = blocks_per_arena(d)
    BY <1>1, ArenaRoom DEF Arena
  <1> QED BY <1>2, <1>3, ListLength

\* What a free list or a hand holds lies in its arena.
LEMMA CountedIn ==
  ASSUME Places, NEW x \in Block, IsCounted(x)
  PROVE  Owned(x) /\ InArena(x)
  <1>1. CASE Listed(x)
    BY <1>1, OwnIs, OwnerKinds DEF Listed, Owned, Places, Valid
  <1>2. CASE Popped(x)
    <2>1. PICK t \in Thread : InBlock(t, x)
      BY <1>2 DEF Popped, InBlock
    <2> QED BY <2>1, OwnIs, OwnerKinds DEF Owned, Places, Valid
  <1>3. CASE Unlinked(x)
    BY <1>3, OwnIs, OwnerKinds DEF Unlinked, Owned, Places, Valid
  <1> QED BY <1>1, <1>2, <1>3 DEF IsCounted

\* free_cnt is at most blocks_per_arena().
LEMMA CountedBound ==
  ASSUME HeapTypeOK, Places, NEW p \in Pages, arena[p].desc # 0
  PROVE  /\ arena[p].desc \in Desc
         /\ Counted(p) \subseteq ArenaPlaces(p, arena[p].desc)
         /\ IsFiniteSet(Counted(p)) /\ Cardinality(Counted(p)) \in Nat
         /\ Cardinality(Counted(p)) <= blocks_per_arena(arena[p].desc)
         /\ Cardinality(Counted(p)) >= blocks_per_arena(arena[p].desc) =>
              Counted(p) = ArenaPlaces(p, arena[p].desc)
  <1>1. PICK d : d = arena[p].desc
    OBVIOUS
  <1>2. d \in Desc
    BY <1>1 DEF HeapTypeOK
  <1>3. Counted(p) \subseteq ArenaPlaces(p, d)
    BY <1>1, CountedIn DEF Counted, ArenaPlaces, InArena
  <1>4. IsFiniteSet(ArenaPlaces(p, d)) /\ Cardinality(ArenaPlaces(p, d)) = blocks_per_arena(d)
    BY <1>2, ArenaSize
  <1>5. /\ IsFiniteSet(Counted(p)) /\ Cardinality(Counted(p)) <= Cardinality(ArenaPlaces(p, d))
        /\ Cardinality(ArenaPlaces(p, d)) = Cardinality(Counted(p)) => ArenaPlaces(p, d) = Counted(p)
    BY <1>3, <1>4, FS_Subset
  <1>6. Cardinality(Counted(p)) \in Nat /\ blocks_per_arena(d) \in Nat
    BY <1>2, <1>5, FS_CardinalityType, ArenaRoom
  <1>7. Cardinality(Counted(p)) >= blocks_per_arena(d) => Counted(p) = ArenaPlaces(p, d)
    BY <1>4, <1>5, <1>6
  <1> QED BY <1>1, <1>2, <1>3, <1>4, <1>5, <1>6, <1>7

\* Only the holder of its descriptor's lock works on a list.
LEMMA Holder ==
  ASSUME HeapTypeOK, Threads, NEW t \in Thread, NEW u \in Thread, NEW d \in Desc,
         lock[d] = t,
         \/ mpc[u] \in {"pages", "pop", "count"} /\ MyDesc(u) = d
         \/ mpc[u] \in {"recount", "unlink"} /\ FreeDesc(u) = d
  PROVE  u = t
  BY ArenaRoom DEF Threads, Locked

\* A block that has been pushed and not counted is in the hands of the lock's holder.
LEMMA PushedBy ==
  ASSUME HeapTypeOK, Threads, NEW t \in Thread, NEW d \in Desc, lock[d] = t,
         NEW x \in Block, arena[x.page].desc = d, mpc[t] # "recount"
  PROVE  ~Pushed(x)
  <1> SUFFICES ASSUME NEW u \in Thread, mpc[u] = "recount", At0(call[u].old) = x PROVE FALSE
    BY DEF Pushed
  <1>1. FreeDesc(u) = d
    BY DEF FreeDesc, Freed, At0
  <1> QED BY <1>1, Holder

\* list_pop_front(): the first block goes from the list into t's hands.
LEMMA PopBlockInv == ASSUME MallocInv, NEW t \in Thread, PopBlock(t) PROVE MallocInv'
  <1>0. HeapTypeOK /\ Threads /\ Heads /\ PoolInv /\ HeapInv /\ Shape(t) /\ Locked(t)
        /\ Places /\ Counts /\ Full /\ Sizes
    BY DEF MallocInv, HeapInv, Threads
  <1>1. PICK d, z : d = MyDesc(t) /\ z = Head(free_list[d])
    OBVIOUS
  <1>2. /\ mpc[t] = "pop" /\ d \in Desc /\ d # 0 /\ lock[d] = t /\ free_list[d] # << >>
    BY <1>0, <1>1, MyDescType DEF PopBlock, MAt, Shape, Locked
  <1>3. /\ call' = [call EXCEPT ![t].block = z] /\ free_list' = [free_list EXCEPT ![d] = Tail(@)]
        /\ MGoto(t, "count") /\ UNCHANGED <<vars, arena, lock, live>>
    BY <1>1 DEF PopBlock
  <1>4. free_list[d] \in Seq(Block) /\ NoDuplicates(free_list[d])
    BY <1>0, <1>2 DEF HeapTypeOK, Places, ListsOnce
  <1>5. /\ Tail(free_list[d]) \in Seq(Block) /\ z \in Block /\ NoDuplicates(Tail(free_list[d]))
        /\ Elems(Tail(free_list[d])) = Elems(free_list[d]) \ {z} /\ z \in Elems(free_list[d])
    BY <1>1, <1>2, <1>4, PopFront, ElemsOf
  <1>6. /\ free_list' \in [Desc -> Seq(Block)] /\ free_list'[d] = Tail(free_list[d])
        /\ \A e \in Desc : e # d => free_list'[e] = free_list[e]
    BY <1>0, <1>2, <1>3, <1>5 DEF HeapTypeOK
  <1>7. /\ call' \in [Thread -> Call] /\ call'[t].block = z /\ call'[t].old = call[t].old
        /\ call'[t].asked = call[t].asked /\ call'[t].size = call[t].size /\ call'[t].i = call[t].i
        /\ \A u \in Thread : u # t => call'[u] = call[u]
    BY <1>0, <1>3, <1>5 DEF HeapTypeOK, Call
  <1>8. /\ mpc' \in [Thread -> MallocLabel] /\ mpc'[t] = "count"
        /\ \A u \in Thread : u # t => mpc'[u] = mpc[u]
    BY <1>0, <1>3, GoesTo DEF MallocLabel
  <1>9. OthersSame(t) /\ groups' = groups /\ MyDesc(t)' = d
    BY <1>1, <1>3, <1>7, <1>8 DEF OthersSame, vars, MyDesc
  <1>10. PoolInv'
    BY <1>0, <1>3, PallocStutterInv
  <1>11. HeapTypeOK'
    BY <1>0, <1>3, <1>6, <1>7, <1>8 DEF HeapTypeOK
  <1>12. arena[z.page].desc = d /\ z # NULL
    BY <1>0, <1>2, <1>5, MallocAssumption DEF Places, Valid, InList
  <1>13. Shape(t)'
    BY <1>0, <1>2, <1>3, <1>7, <1>8, <1>9, <1>12 DEF Shape
  <1>14. Locked(t)'
    BY <1>2, <1>3, <1>8, <1>9 DEF Locked
  <1>15. HoldersKeep(t)
    BY <1>2, <1>3, <1>6 DEF HoldersKeep
  <1>16. \A p \in Pages : Steady(p) /\ arena'[p] = arena[p]
    BY <1>3 DEF Steady
  <1>17. Threads'
    <2>1. ASSUME NEW u \in Thread, u # t PROVE Shape(u)' /\ Locked(u)'
      <3>1. Steady(call[u].block.page)
        BY <1>3 DEF Steady
      <3> QED BY <1>0, <1>9, <1>15, <2>1, <3>1, OthersThread
    <2> QED BY <1>13, <1>14, <2>1 DEF Threads
  <1>18. HeldOld(t)' = HeldOld(t)
    BY <1>2, <1>7, <1>8 DEF HeldOld, GivenUp
  <1>19. \A e \in Desc, x \in Block : e # d \/ x # z => (InList(e, x)' <=> InList(e, x))
    BY <1>2, <1>5, <1>6 DEF InList
  <1>20. InList(d, z) /\ ~InList(d, z)'
    BY <1>5, <1>6 DEF InList
  <1>21. call[t].block = NULL
    BY <1>0, <1>2 DEF Shape
  <1>22. Places'
    <2> DEFINE j == <<"list", d>>
               k == <<"block", t>>
    <2>1. j \in Owner /\ k \in Owner
      BY <1>2, OwnerKinds
    <2>2. Own(j, z) /\ ~Own(j, z)' /\ Own(k, z)'
      BY <1>7, <1>20, OwnIs, OwnIsNext DEF InBlock
    <2>3. ASSUME NEW x \in Block
          PROVE  /\ \A n \in Nat : InLive(n, x)' <=> InLive(n, x)
                 /\ x # z => (InBlock(t, x)' <=> InBlock(t, x))
                 /\ InOld(t, x)' <=> InOld(t, x)
                 /\ InGone(t, x)' <=> InGone(t, x)
      <3>1. x # NULL
        BY MallocAssumption
      <3>2. x # z => (InBlock(t, x)' <=> InBlock(t, x))
        BY <1>7, <1>21, <3>1 DEF InBlock
      <3>3. InGone(t, x)' <=> InGone(t, x)
        BY <1>2, <1>8 DEF InGone
      <3> QED BY <1>3, <1>18, <3>2, <3>3, HeldOldIs DEF InLive
    <2>4. \A x \in Block : x # z => Kept(t, {}, x)
      BY <1>19, <2>3 DEF Kept
    <2>5. Kept(t, {j, k}, z)
      BY <1>5, <1>19, <2>3 DEF Kept
    <2>6. ListsOnce'
      BY <1>0, <1>5, <1>6 DEF Places, ListsOnce
    <2>7. \A e \in Desc : k = <<"list", e>> => arena[z.page].desc = e
      OBVIOUS
    <2> HIDE DEF j, k
    <2> QED BY <1>0, <1>5, <1>9, <1>16, <2>1, <2>2, <2>4, <2>5, <2>6, <2>7, Move
  <1>23. ASSUME NEW x \in Block PROVE IsCounted(x)' <=> IsCounted(x)
    <2>1. Unlinked(x)' <=> Unlinked(x)
      BY <1>2, <1>8, <1>9 DEF Unlinked, InGone, OthersSame
    <2>2. Pushed(x)' <=> Pushed(x)
      BY <1>2, <1>8, <1>9 DEF Pushed, OthersSame
    <2>3. x # z => (Popped(x)' <=> Popped(x))
      BY <1>2, <1>7, <1>8, <1>9 DEF Popped, OthersSame
    <2>4. x # z => (Listed(x)' <=> Listed(x))
      BY <1>19 DEF Listed
    <2>5. CASE x # z
      BY <2>1, <2>2, <2>3, <2>4, <2>5 DEF IsCounted
    <2>6. CASE x = z
      <3>1. Listed(z)
        BY <1>2, <1>20 DEF Listed
      <3>2. ~Pushed(z)
        BY <1>0, <1>2, <1>5, <1>12, PushedBy
      <3>3. Popped(z)'
        BY <1>7, <1>8 DEF Popped
      <3> QED BY <2>6, <3>1, <3>2, <3>3 DEF IsCounted
    <2> QED BY <2>5, <2>6
  <1>24. Counts'
    BY <1>0, <1>16, <1>23, CountsKeep DEF Counts
  <1>25. Full'
    <2> SUFFICES ASSUME NEW p \in Pages, arena[p].desc # 0,
                        arena[p].free_cnt >= blocks_per_arena(arena[p].desc)
                 PROVE  \E u \in Thread : FullFor(u, p)'
      BY <1>16 DEF Full
    <2>1. FullFor(t, p) => FullFor(t, p)'
      BY <1>1, <1>2, <1>7, <1>8 DEF FullFor
    <2> QED BY <1>0, <1>9, <1>15, <1>16, <2>1, FullKeeps
  <1>26. Sizes'
    <2>1. \A c \in live' : c \in live /\ Steady(c.page)
      BY <1>3 DEF Steady
    <2>2. \A u \in Thread : Steady(HeldOld(u).page)
      BY <1>3 DEF Steady
    <2>3. HeldOld(t)' # NULL => Good(HeldOld(t))'
      <3>1. PICK c : c = HeldOld(t)
        OBVIOUS
      <3>2. c # NULL => Good(c) /\ Steady(c.page)
        BY <1>0, <2>2, <3>1, HeldOldIs DEF Sizes
      <3> QED BY <1>18, <3>1, <3>2, GoodKeeps
    <2> QED BY <1>0, <1>9, <2>1, <2>2, <2>3, SizesNext
  <1>27. Heads'
    BY <1>0, <1>3, <1>9, HeadsKeep
  <1> QED BY <1>10, <1>11, <1>17, <1>22, <1>24, <1>25, <1>26, <1>27 DEF MallocInv, HeapInv

(* The count of one arena changes, with the thread's hands as they are.    *)
LEMMA Recounted ==
  ASSUME HeapInv, NEW t \in Thread, OthersSame(t), UNCHANGED <<free_list, live>>, HeapTypeOK',
         NEW p \in Pages, arena[p].desc # 0, arena'[p].desc = arena[p].desc,
         \A q \in Pages : q # p => arena'[q] = arena[q],
         \A d \in Desc : lock[d] \notin {NULL, t} => lock'[d] = lock[d],
         \A x \in Block : (InBlock(t, x)' <=> InBlock(t, x)) /\ (InGone(t, x)' <=> InGone(t, x)),
         HeldOld(t)' = HeldOld(t), groups' = groups,
         Shape(t)', Locked(t)',
         arena'[p].free_cnt = Cardinality(Counted(p)'),
         \A x \in Block : x.page # p => (IsCounted(x)' <=> IsCounted(x)),
         arena'[p].free_cnt >= blocks_per_arena(arena[p].desc) => FullFor(t, p)',
         \A q \in Pages : q # p => ~FullFor(t, q)
  PROVE  HeapInv'
  <1>0. HeapTypeOK /\ Threads /\ Places /\ Heads /\ Counts /\ Full /\ Sizes
    BY DEF HeapInv
  <1>1. \A q \in Pages : Steady(q)
    BY DEF Steady
  <1>2. HoldersKeep(t)
    BY <1>1 DEF HoldersKeep, Steady
  <1>3. Threads'
    <2>1. ASSUME NEW u \in Thread, u # t PROVE Shape(u)' /\ Locked(u)'
      <3>1. call[u].block # NULL => Steady(call[u].block.page)
        BY <1>0, <1>1 DEF HeapTypeOK, Call, Block
      <3> QED BY <1>0, <1>2, <2>1, <3>1, OthersThread
    <2> QED BY <2>1 DEF Threads
  <1>4. Places'
    <2>1. ASSUME NEW x \in Block PROVE Kept(t, {}, x)
      BY HeldOldIs DEF Kept, InLive, InList
    <2> QED BY <1>0, <1>1, <2>1, NoMove
  <1>5. Counts'
    <2>1. ASSUME NEW q \in Pages, q # p
          PROVE  arena'[q].desc # 0 => arena'[q].free_cnt = Cardinality(Counted(q)')
      BY <1>0, <2>1, CountsKeep
    <2> QED BY <2>1 DEF Counts
  <1>6. Full'
    <2> SUFFICES ASSUME NEW q \in Pages, arena'[q].desc # 0,
                        arena'[q].free_cnt >= blocks_per_arena(arena'[q].desc)
                 PROVE  \E u \in Thread : FullFor(u, q)'
      BY DEF Full
    <2>1. CASE q = p
      BY <2>1
    <2>2. CASE q # p
      BY <1>0, <1>2, <2>2, FullKeeps
    <2> QED BY <2>1, <2>2
  <1>7. Heads'
    <2> SUFFICES ASSUME NEW q \in Pages, arena'[q] # NoArena PROVE GroupOf(q)' \in groups'
      BY DEF Heads
    <2>1. arena[q] # NoArena
      <3>1. CASE q = p
        BY <3>1 DEF NoArena
      <3>2. CASE q # p
        BY <3>2
      <3> QED BY <3>1, <3>2
    <2>2. GroupOf(q)' = GroupOf(q)
      BY <1>1 DEF GroupOf, Steady
    <2> QED BY <1>0, <2>1, <2>2 DEF Heads
  <1>8. Sizes'
    <2>1. \A c \in live' : c \in live /\ Steady(c.page)
      BY <1>0, <1>1 DEF HeapTypeOK, LiveBlock
    <2>2. ASSUME NEW u \in Thread, HeldOld(u) # NULL
          PROVE  Steady(HeldOld(u).page) /\ Good(HeldOld(u))
      <3>1. call[u].old = HeldOld(u) /\ mpc[u] \notin GivenUp /\ call[u].old # NULL
        BY <2>2, HeldOldIs
      <3>2. call[u].old \in LiveBlock
        BY <1>0, <3>1 DEF HeapTypeOK, Call
      <3> QED BY <1>0, <1>1, <3>1, <3>2 DEF Sizes, LiveBlock
    <2>3. HeldOld(t)' # NULL => Good(HeldOld(t))'
      <3>1. PICK c : c = HeldOld(t)
        OBVIOUS
      <3>2. c # NULL => Good(c) /\ Steady(c.page)
        BY <2>2, <3>1
      <3> QED BY <3>1, <3>2, GoodKeeps
    <2> QED BY <1>0, <2>1, <2>2, <2>3, SizesNext
  <1> QED BY <1>3, <1>4, <1>5, <1>6, <1>7, <1>8 DEF HeapInv

\* The popped block is counted off, and the lock released.
LEMMA CountTakenInv == ASSUME MallocInv, NEW t \in Thread, CountTaken(t) PROVE MallocInv'
  <1>0. HeapTypeOK /\ Threads /\ Heads /\ PoolInv /\ HeapInv /\ Shape(t) /\ Locked(t)
        /\ Places /\ Counts
    BY DEF MallocInv, HeapInv, Threads
  <1>1. PICK d, z, p : d = MyDesc(t) /\ z = call[t].block /\ p = z.page
    OBVIOUS
  <1>2. mpc[t] = "count" /\ d \in Desc /\ d # 0 /\ lock[d] = t
    BY <1>0, <1>1, MyDescType DEF CountTaken, MAt, Shape, Locked
  <1>3. z \in Block /\ p \in Pages /\ arena[p].desc = d
    <2>1. z \in Block
      BY <1>0, <1>1, <1>2 DEF Shape, HeapTypeOK, Call
    <2> QED BY <1>0, <1>1, <1>2, <2>1 DEF Shape, Block
  <1>4. /\ arena' = [arena EXCEPT ![p].free_cnt = @ - 1] /\ lock' = [lock EXCEPT ![d] = NULL]
        /\ MGoto(t, "done") /\ UNCHANGED <<vars, free_list, live, call>>
    BY <1>1 DEF CountTaken
  <1>5. PoolInv'
    BY <1>0, <1>4, PallocStutterInv
  <1>6. /\ mpc' \in [Thread -> MallocLabel] /\ mpc'[t] = "done" /\ groups' = groups
        /\ OthersSame(t) /\ call'[t] = call[t] /\ MyDesc(t)' = d
    BY <1>0, <1>1, <1>4, GoesTo DEF MallocLabel, OthersSame, vars, MyDesc
  <1>7. /\ lock' \in [Desc -> Thread \cup {NULL}]
        /\ \A e \in Desc : lock[e] \notin {NULL, t} => lock'[e] = lock[e]
    BY <1>0, <1>2, <1>4 DEF HeapTypeOK
  <1>8. /\ \A x : Listed(x)' <=> Listed(x)
        /\ \A x : Pushed(x)' <=> Pushed(x)
        /\ \A x : Unlinked(x)' <=> Unlinked(x)
    BY <1>2, <1>4, <1>6 DEF Listed, InList, Pushed, Unlinked, InGone, OthersSame
  <1>9. Popped(z) /\ \A x : x # z => (Popped(x)' <=> Popped(x))
    BY <1>1, <1>2, <1>4, <1>6 DEF Popped, OthersSame
  <1>10. IsCounted(z) /\ ~IsCounted(z)'
    <2>1. Own(<<"block", t>>, z) /\ <<"block", t>> \in Owner
      BY <1>1, OwnIs, OwnerKinds DEF InBlock
    <2>2. \A k \in Owner : Own(k, z) => k = <<"block", t>>
      BY <1>0, <1>3, <2>1 DEF Places, Apart
    <2>3. ~Listed(z)
      BY <2>2, OwnIs, OwnerKinds DEF Listed
    <2>4. ~Unlinked(z)
      BY <2>2, OwnIs, OwnerKinds DEF Unlinked
    <2>5. ~Popped(z)'
      <3> SUFFICES ASSUME NEW u \in Thread, mpc'[u] = "count", call'[u].block = z PROVE FALSE
        BY DEF Popped
      <3>1. u # t
        BY <1>6
      <3>2. Own(<<"block", u>>, z) /\ <<"block", u>> \in Owner
        BY <1>4, OwnIs, OwnerKinds DEF InBlock
      <3> QED BY <2>2, <3>1, <3>2
    <2> QED BY <1>8, <1>9, <2>3, <2>4, <2>5 DEF IsCounted
  <1>11. \A x \in Block : x # z => (IsCounted(x)' <=> IsCounted(x))
    BY <1>8, <1>9 DEF IsCounted
  <1>12. Counted(p)' = Counted(p) \ {z} /\ z \in Counted(p)
    BY <1>1, <1>3, <1>10, <1>11 DEF Counted
  <1>13. /\ IsFiniteSet(Counted(p)) /\ Cardinality(Counted(p)) \in Nat
         /\ Cardinality(Counted(p)) <= blocks_per_arena(d)
         /\ arena[p].free_cnt = Cardinality(Counted(p)) /\ blocks_per_arena(d) \in Nat
    BY <1>0, <1>2, <1>3, CountedBound, ArenaRoom DEF Counts
  <1>14. Cardinality(Counted(p)') = Cardinality(Counted(p)) - 1 /\ Cardinality(Counted(p)') \in Nat
    <2>1. /\ IsFiniteSet(Counted(p) \ {z})
          /\ Cardinality(Counted(p) \ {z}) = Cardinality(Counted(p)) - 1
      BY <1>12, <1>13, FS_RemoveElement
    <2>2. Cardinality(Counted(p) \ {z}) \in Nat
      BY <2>1, FS_CardinalityType
    <2> QED BY <1>12, <2>1, <2>2
  <1>15. /\ arena'[p].desc = d /\ arena'[p].free_cnt = Cardinality(Counted(p)')
         /\ arena' \in [Pages -> [desc : Desc \cup {0}, free_cnt : Nat]]
         /\ \A q \in Pages : q # p => arena'[q] = arena[q]
    <2>1. PICK n : n = arena[p].free_cnt - 1
      OBVIOUS
    <2>2. n \in Nat /\ n = Cardinality(Counted(p)')
      BY <1>13, <1>14, <2>1
    <2>3. arena' = [arena EXCEPT ![p].free_cnt = n]
      BY <1>4, <2>1
    <2> QED BY <1>0, <1>3, <2>2, <2>3 DEF HeapTypeOK
  <1>16. HeapTypeOK'
    BY <1>0, <1>4, <1>6, <1>7, <1>15 DEF HeapTypeOK
  <1>17. Shape(t)'
    BY <1>0, <1>1, <1>2, <1>6, <1>15 DEF Shape
  <1>18. Locked(t)'
    BY <1>6 DEF Locked
  <1>19. HeldOld(t)' = HeldOld(t)
    BY <1>2, <1>6 DEF HeldOld, GivenUp
  <1>20. \A x \in Block : (InBlock(t, x)' <=> InBlock(t, x)) /\ (InGone(t, x)' <=> InGone(t, x))
    BY <1>2, <1>6 DEF InBlock, InGone
  <1>21. ~(arena'[p].free_cnt >= blocks_per_arena(arena[p].desc))
    BY <1>3, <1>13, <1>14, <1>15
  <1>22. \A q \in Pages : q # p => ~FullFor(t, q)
    BY <1>1, <1>2 DEF FullFor
  <1>23. \A x \in Block : x.page # p => (IsCounted(x)' <=> IsCounted(x))
    BY <1>1, <1>11
  <1>24. HeapInv'
    BY <1>0, <1>2, <1>3, <1>4, <1>6, <1>7, <1>15, <1>16, <1>17, <1>18, <1>19, <1>20, <1>21, <1>22,
       <1>23, Recounted
  <1> QED BY <1>5, <1>24 DEF MallocInv

\* The block that free() gives back, as a place.
LEMMA FreedIs ==
  ASSUME HeapTypeOK, NEW t \in Thread, call[t].old # NULL
  PROVE  /\ call[t].old \in LiveBlock /\ Freed(t) \in Block /\ Freed(t).page \in Pages
         /\ Freed(t) = At0(call[t].old) /\ Freed(t).page = call[t].old.page
         /\ Freed(t).idx = call[t].old.idx
  <1>1. call[t].old \in LiveBlock
    BY DEF HeapTypeOK, Call
  <1>2. Freed(t) = At0(call[t].old)
    BY DEF Freed, At0
  <1>3. Freed(t) \in Block /\ Freed(t).page = call[t].old.page /\ Freed(t).idx = call[t].old.idx
    BY <1>1, <1>2, PlaceOf
  <1>4. Freed(t).page \in Pages
    BY <1>3 DEF Block
  <1> QED BY <1>1, <1>2, <1>3, <1>4

\* The pushed block is counted; an arena that is all free is in t's hands.
LEMMA RecountInv == ASSUME MallocInv, NEW t \in Thread, Recount(t) PROVE MallocInv'
  <1>0. HeapTypeOK /\ Threads /\ Heads /\ PoolInv /\ HeapInv /\ Shape(t) /\ Locked(t)
        /\ Places /\ Counts
    BY DEF MallocInv, HeapInv, Threads
  <1>1. PICK d, z, p : d = FreeDesc(t) /\ z = Freed(t) /\ p = z.page
    OBVIOUS
  <1>2. mpc[t] = "recount" /\ call[t].old # NULL /\ call[t].block = NULL /\ call[t].i = 0
    BY <1>0 DEF Recount, MAt, Shape
  <1>3. /\ z \in Block /\ p \in Pages /\ z = At0(call[t].old) /\ p = call[t].old.page
        /\ d \in Desc /\ d # 0 /\ lock[d] = t /\ arena[p].desc = d /\ InList(d, z)
    <2>1. z \in Block /\ p \in Pages /\ z = At0(call[t].old) /\ p = call[t].old.page
      BY <1>0, <1>1, <1>2, FreedIs
    <2>2. arena[p].desc = d
      BY <1>1 DEF FreeDesc
    <2> QED BY <1>0, <1>1, <1>2, <2>1, <2>2 DEF Locked, HeapTypeOK
  <1>4. PICK n : n = arena[p].free_cnt + 1
    OBVIOUS
  <1>5. /\ arena' = [arena EXCEPT ![p].free_cnt = n] /\ UNCHANGED <<vars, free_list, live>>
        /\ \/ n >= blocks_per_arena(d) /\ MGoto(t, "unlink") /\ UNCHANGED <<lock, call>>
           \/ /\ ~(n >= blocks_per_arena(d)) /\ MGoto(t, "out") /\ lock' = [lock EXCEPT ![d] = NULL]
              /\ call' = [call EXCEPT ![t] = NoCall]
    BY <1>1, <1>4 DEF Recount
  <1>6. PoolInv'
    BY <1>0, <1>5, PallocStutterInv
  <1>7. n \in Nat
    BY <1>0, <1>3, <1>4 DEF HeapTypeOK
  <1>8. /\ arena'[p].desc = d /\ arena'[p].free_cnt = n
        /\ arena' \in [Pages -> [desc : Desc \cup {0}, free_cnt : Nat]]
        /\ \A q \in Pages : q # p => arena'[q] = arena[q]
    <2>1. arena' = [arena EXCEPT ![p].free_cnt = n]
      BY <1>5
    <2>2. p \in Pages /\ arena[p].desc = d
      BY <1>3
    <2> QED BY <1>0, <1>7, <2>1, <2>2 DEF HeapTypeOK
  <1>9. /\ mpc' \in [Thread -> MallocLabel] /\ call' \in [Thread -> Call]
        /\ lock' \in [Desc -> Thread \cup {NULL}]
        /\ \A e \in Desc : lock[e] \notin {NULL, t} => lock'[e] = lock[e]
        /\ OthersSame(t) /\ groups' = groups
        /\ \/ n >= blocks_per_arena(d) /\ mpc'[t] = "unlink" /\ call'[t] = call[t] /\ lock'[d] = t
           \/ ~(n >= blocks_per_arena(d)) /\ mpc'[t] = "out" /\ call'[t] = NoCall
    <2>0. groups' = groups /\ cnt' = cnt
      BY <1>5 DEF vars
    <2>1. CASE n >= blocks_per_arena(d)
      <3>1. MGoto(t, "unlink") /\ UNCHANGED <<lock, call>>
        BY <1>5, <2>1
      <3> QED BY <1>0, <1>3, <2>0, <2>1, <3>1, GoesTo DEF MallocLabel, OthersSame, HeapTypeOK
    <2>2. CASE ~(n >= blocks_per_arena(d))
      <3>1. /\ MGoto(t, "out") /\ lock' = [lock EXCEPT ![d] = NULL]
            /\ call' = [call EXCEPT ![t] = NoCall]
        BY <1>5, <2>2
      <3> QED BY <1>0, <1>3, <2>0, <2>2, <3>1, GoesTo, NoCallFacts
              DEF MallocLabel, OthersSame, HeapTypeOK
    <2> QED BY <2>1, <2>2
  <1>10. HeapTypeOK'
    BY <1>0, <1>5, <1>8, <1>9 DEF HeapTypeOK
  <1>11. ASSUME NEW x \in Block
         PROVE  /\ Listed(x)' <=> Listed(x)
                /\ Popped(x)' <=> Popped(x)
                /\ Unlinked(x)' <=> Unlinked(x)
                /\ ~InGone(t, x) /\ ~InGone(t, x)'
                /\ x # z => (Pushed(x)' <=> Pushed(x))
    <2>1. ~InGone(t, x) /\ ~InGone(t, x)'
      <3>1. x.idx \in Nat
        BY DEF Block
      <3> QED BY <1>2, <1>9, <3>1 DEF InGone
    <2>2. Unlinked(x)' <=> Unlinked(x)
      <3>1. \A u \in Thread : u # t => (InGone(u, x)' <=> InGone(u, x))
        BY <1>9 DEF InGone, OthersSame
      <3> QED BY <2>1, <3>1 DEF Unlinked
    <2>3. Listed(x)' <=> Listed(x)
      BY <1>5 DEF Listed, InList
    <2>4. Popped(x)' <=> Popped(x)
      BY <1>2, <1>9 DEF Popped, OthersSame
    <2>5. x # z => (Pushed(x)' <=> Pushed(x))
      BY <1>2, <1>3, <1>9 DEF Pushed, OthersSame
    <2> QED BY <2>1, <2>2, <2>3, <2>4, <2>5
  <1>12. ~IsCounted(z) /\ IsCounted(z)'
    <2>1. Own(<<"list", d>>, z) /\ <<"list", d>> \in Owner
      BY <1>3, OwnIs, OwnerKinds
    <2>2. \A k \in Owner : Own(k, z) => k = <<"list", d>>
      BY <1>0, <1>3, <2>1 DEF Places, Apart
    <2>3. ~Unlinked(z)
      BY <2>2, OwnIs, OwnerKinds DEF Unlinked
    <2>4. ~Popped(z)
      <3>1. \A u \in Thread : ~InBlock(u, z)
        BY <2>2, OwnIs, OwnerKinds
      <3> QED BY <3>1 DEF Popped, InBlock
    <2>5. Pushed(z)
      BY <1>2, <1>3 DEF Pushed
    <2>6. Listed(z)
      BY <1>3 DEF Listed
    <2>7. ~Pushed(z)'
      <3> SUFFICES ASSUME NEW u \in Thread, mpc'[u] = "recount", At0(call'[u].old) = z PROVE FALSE
        BY DEF Pushed
      <3>1. u # t
        BY <1>9
      <3>2. mpc[u] = "recount" /\ At0(call[u].old) = z
        BY <1>9, <3>1 DEF OthersSame
      <3>3. FreeDesc(u) = d
        BY <1>1, <1>3, <3>2 DEF FreeDesc, Freed, At0
      <3> QED BY <1>0, <1>3, <3>1, <3>2, <3>3, Holder
    <2> QED BY <1>3, <1>11, <2>3, <2>4, <2>5, <2>6, <2>7 DEF IsCounted
  <1>13. \A x \in Block : x # z => (IsCounted(x)' <=> IsCounted(x))
    BY <1>11 DEF IsCounted
  <1>14. Counted(p)' = Counted(p) \cup {z} /\ z \notin Counted(p)
    BY <1>1, <1>3, <1>12, <1>13 DEF Counted
  <1>15. /\ IsFiniteSet(Counted(p)) /\ Cardinality(Counted(p)) = arena[p].free_cnt
         /\ Counted(p) \subseteq ArenaPlaces(p, d) /\ blocks_per_arena(d) \in Nat
    BY <1>0, <1>3, CountedBound, ArenaRoom DEF Counts
  <1>16. IsFiniteSet(Counted(p)') /\ Cardinality(Counted(p)') = n
    <2>1. /\ IsFiniteSet(Counted(p) \cup {z})
          /\ Cardinality(Counted(p) \cup {z}) = Cardinality(Counted(p)) + 1
      BY <1>14, <1>15, FS_AddElement
    <2> QED BY <1>4, <1>14, <1>15, <2>1
  <1>17. ASSUME n >= blocks_per_arena(d), NEW x \in Block, x.page = p, x.idx < blocks_per_arena(d)
         PROVE  InList(d, x)
    <2>1. z \in ArenaPlaces(p, d)
      <3>1. InArena(z)
        BY <1>0, <1>3, OwnIs, OwnerKinds DEF Places, Valid, Owned
      <3> QED BY <1>1, <1>3, <3>1 DEF InArena, ArenaPlaces
    <2>2. Counted(p)' \subseteq ArenaPlaces(p, d)
      BY <1>14, <1>15, <2>1
    <2>3. /\ IsFiniteSet(ArenaPlaces(p, d)) /\ Cardinality(ArenaPlaces(p, d)) = blocks_per_arena(d)
      BY <1>3, ArenaSize
    <2>4. /\ Cardinality(Counted(p)') <= Cardinality(ArenaPlaces(p, d))
          /\ Cardinality(ArenaPlaces(p, d)) = Cardinality(Counted(p)') =>
               ArenaPlaces(p, d) = Counted(p)'
      <3>1. PICK S : S = Counted(p)'
        OBVIOUS
      <3> QED BY <2>2, <2>3, <3>1, FS_Subset
    <2>5. Counted(p)' = ArenaPlaces(p, d)
      BY <1>7, <1>15, <1>16, <1>17, <2>3, <2>4
    <2>6. x \in Counted(p)'
      BY <1>17, <2>5 DEF ArenaPlaces
    <2>7. CASE x = z
      BY <1>3, <2>7
    <2>8. CASE x # z
      <3>1. IsCounted(x)
        BY <1>14, <2>6, <2>8 DEF Counted
      <3>2. CASE Listed(x)
        BY <1>0, <1>3, <1>17, <3>2 DEF Listed, Places, Valid
      <3>3. ASSUME NEW u \in Thread, mpc[u] = "count", call[u].block = x PROVE FALSE
        <4>1. MyDesc(u) = d
          BY <1>0, <1>3, <1>17, <3>3 DEF Threads, Shape
        <4> QED BY <1>0, <1>2, <1>3, <3>3, <4>1, Holder
      <3>4. ASSUME NEW u \in Thread, InGone(u, x) PROVE FALSE
        <4>1. mpc[u] = "unlink" /\ FreeDesc(u) = d
          BY <1>3, <1>17, <3>4 DEF InGone, FreeDesc, Freed
        <4> QED BY <1>0, <1>2, <1>3, <4>1, Holder
      <3> QED BY <3>1, <3>2, <3>3, <3>4 DEF IsCounted, Popped, Unlinked
    <2> QED BY <2>7, <2>8
  <1>18. Shape(t)'
    BY <1>2, <1>9, NoCallFacts DEF Shape
  <1>19. Locked(t)'
    <2>1. CASE mpc'[t] = "out"
      BY <2>1 DEF Locked
    <2>2. CASE n >= blocks_per_arena(d) /\ mpc'[t] = "unlink" /\ call'[t] = call[t] /\ lock'[d] = t
      <3>1. Freed(t)' = z /\ FreeDesc(t)' = d
        BY <1>1, <1>8, <2>2 DEF Freed, FreeDesc
      <3>2. \A x : InList(d, x)' <=> InList(d, x)
        BY <1>5 DEF InList
      <3>3. call'[t].i <= blocks_per_arena(d)
        BY <1>2, <1>15, <2>2
      <3>4. \A x \in Block : x.page = p /\ call'[t].i <= x.idx /\ x.idx < blocks_per_arena(d) =>
                               InList(d, x)'
        BY <1>17, <2>2, <3>2
      <3> QED BY <1>1, <1>3, <2>2, <3>1, <3>3, <3>4 DEF Locked
    <2> QED BY <1>9, <2>1, <2>2
  <1>20. HeldOld(t)' = HeldOld(t)
    BY <1>2, <1>9, NoCallFacts DEF HeldOld, GivenUp
  <1>21. \A x \in Block : (InBlock(t, x)' <=> InBlock(t, x)) /\ (InGone(t, x)' <=> InGone(t, x))
    <2>1. call'[t].block = call[t].block
      BY <1>2, <1>9, NoCallFacts
    <2> QED BY <1>11, <2>1 DEF InBlock
  <1>22. arena'[p].free_cnt >= blocks_per_arena(arena[p].desc) => FullFor(t, p)'
    BY <1>3, <1>8, <1>9 DEF FullFor
  <1>23. \A q \in Pages : q # p => ~FullFor(t, q)
    BY <1>2 DEF FullFor
  <1>24. \A x \in Block : x.page # p => (IsCounted(x)' <=> IsCounted(x))
    BY <1>1, <1>13
  <1>25. HeapInv'
    <2>1. HeapInv /\ OthersSame(t) /\ UNCHANGED <<free_list, live>> /\ groups' = groups
      BY <1>0, <1>5, <1>9
    <2>2. /\ p \in Pages /\ arena[p].desc # 0 /\ arena'[p].desc = arena[p].desc
          /\ arena'[p].free_cnt = Cardinality(Counted(p)')
      BY <1>3, <1>8, <1>16
    <2>3. /\ \A q \in Pages : q # p => arena'[q] = arena[q]
          /\ \A e \in Desc : lock[e] \notin {NULL, t} => lock'[e] = lock[e]
      BY <1>8, <1>9
    <2> QED BY <1>10, <1>18, <1>19, <1>20, <1>21, <1>22, <1>23, <1>24, <2>1, <2>2, <2>3, Recounted
  <1> QED BY <1>6, <1>25 DEF MallocInv

(* A block goes from or to a list whose lock t has, or takes.              *)
LEMMA ListMove ==
  ASSUME HeapInv, NEW t \in Thread, OthersSame(t), UNCHANGED <<arena, live, groups>>, HeapTypeOK',
         NEW d \in Desc, lock[d] \in {NULL, t},
         \A e \in Desc : e # d => lock'[e] = lock[e] /\ free_list'[e] = free_list[e],
         ListsOnce',
         NEW j \in Owner, NEW k \in Owner, NEW z \in Block,
         Own(j, z), Own(k, z)', ~Own(j, z)',
         \A x \in Block : x # z => Kept(t, {}, x),
         Kept(t, {j, k}, z),
         \A e \in Desc : k = <<"list", e>> => arena[z.page].desc = e,
         \A x \in Block : IsCounted(x)' <=> IsCounted(x),
         \A p \in Pages : FullFor(t, p) => FullFor(t, p)',
         HeldOld(t)' = NULL,
         Shape(t)', Locked(t)'
  PROVE  HeapInv'
  <1>0. HeapTypeOK /\ Threads /\ Places /\ Heads /\ Counts /\ Full /\ Sizes
    BY DEF HeapInv
  <1>1. \A p \in Pages : Steady(p) /\ arena'[p] = arena[p]
    BY DEF Steady
  <1>2. HoldersKeep(t)
    BY DEF HoldersKeep
  <1>3. Threads'
    <2>1. ASSUME NEW u \in Thread, u # t PROVE Shape(u)' /\ Locked(u)'
      <3>1. Steady(call[u].block.page)
        BY DEF Steady
      <3> QED BY <1>0, <1>2, <2>1, <3>1, OthersThread
    <2> QED BY <2>1 DEF Threads
  <1>4. Places'
    BY <1>0, <1>1, Move
  <1>5. Counts'
    BY <1>0, <1>1, CountsKeep DEF Counts
  <1>6. Full'
    <2> SUFFICES ASSUME NEW p \in Pages, arena[p].desc # 0,
                        arena[p].free_cnt >= blocks_per_arena(arena[p].desc)
                 PROVE  \E u \in Thread : FullFor(u, p)'
      BY <1>1 DEF Full
    <2> QED BY <1>0, <1>1, <1>2, FullKeeps
  <1>7. Sizes'
    <2>1. \A c \in live' : c \in live /\ Steady(c.page)
      BY DEF Steady
    <2>2. \A u \in Thread : Steady(HeldOld(u).page)
      BY DEF Steady
    <2> QED BY <1>0, <2>1, <2>2, SizesNext
  <1>8. Heads'
    BY <1>0, HeadsKeep
  <1> QED BY <1>3, <1>4, <1>5, <1>6, <1>7, <1>8 DEF HeapInv

\* free() of a small block: it goes from t's hands to the list.
LEMMA FreeSmallInv ==
  ASSUME MallocInv, NEW t \in Thread, FreeBlock(t), FreeDesc(t) # 0
  PROVE  MallocInv'
  <1>0. HeapTypeOK /\ Threads /\ PoolInv /\ HeapInv /\ Shape(t) /\ Places
    BY DEF MallocInv, HeapInv, Threads
  <1>1. PICK d, z : d = FreeDesc(t) /\ z = Freed(t)
    OBVIOUS
  <1>2. mpc[t] = "free" /\ call[t].old # NULL /\ call[t].block = NULL /\ call[t].i = 0
    BY <1>0 DEF FreeBlock, MAt, Shape
  <1>3. /\ z \in Block /\ z = At0(call[t].old) /\ z.page = call[t].old.page
        /\ d \in Desc /\ d # 0 /\ arena[z.page].desc = d
    <2>1. z \in Block /\ z.page \in Pages /\ z = At0(call[t].old) /\ z.page = call[t].old.page
      BY <1>0, <1>1, <1>2, FreedIs
    <2>2. arena[z.page].desc = d
      BY <1>1 DEF FreeDesc
    <2> QED BY <1>0, <1>1, <1>2, <2>1, <2>2 DEF HeapTypeOK
  <1>4. /\ lock[d] = NULL /\ lock' = [lock EXCEPT ![d] = t]
        /\ free_list' = [free_list EXCEPT ![d] = <<z>> \o @]
        /\ MGoto(t, "recount") /\ UNCHANGED <<vars, arena, live, call>>
    BY <1>1 DEF FreeBlock, AcquireDesc
  <1>5. PoolInv'
    BY <1>0, <1>4, PallocStutterInv
  <1>6. free_list[d] \in Seq(Block) /\ NoDuplicates(free_list[d])
    BY <1>0, <1>3 DEF HeapTypeOK, Places, ListsOnce
  <1>7. Own(<<"old", t>>, z) /\ <<"old", t>> \in Owner
    BY <1>2, <1>3, OwnIs, OwnerKinds DEF InOld, GivenUp
  <1>8. \A m \in Owner : Own(m, z) => m = <<"old", t>>
    BY <1>0, <1>3, <1>7 DEF Places, Apart
  <1>9. ~Listed(z) /\ ~Popped(z) /\ ~Unlinked(z)
    <2>1. ~Listed(z)
      BY <1>8, OwnIs, OwnerKinds DEF Listed
    <2>2. ~Unlinked(z)
      BY <1>8, OwnIs, OwnerKinds DEF Unlinked
    <2>3. \A u \in Thread : ~InBlock(u, z)
      BY <1>8, OwnIs, OwnerKinds
    <2> QED BY <2>1, <2>2, <2>3 DEF Popped, InBlock
  <1>10. z \notin Elems(free_list[d])
    BY <1>3, <1>9 DEF Listed, InList
  <1>11. PICK list : list = <<z>> \o free_list[d]
    OBVIOUS
  <1>12. list \in Seq(Block) /\ NoDuplicates(list) /\ Elems(list) = Elems(free_list[d]) \cup {z}
    BY <1>3, <1>6, <1>10, <1>11, PushFront
  <1>13. /\ free_list' \in [Desc -> Seq(Block)] /\ free_list'[d] = list
         /\ \A e \in Desc : e # d => free_list'[e] = free_list[e]
    BY <1>0, <1>3, <1>4, <1>11, <1>12 DEF HeapTypeOK
  <1>14. /\ lock' \in [Desc -> Thread \cup {NULL}] /\ lock'[d] = t
         /\ \A e \in Desc : e # d => lock'[e] = lock[e]
    BY <1>0, <1>3, <1>4 DEF HeapTypeOK
  <1>15. /\ mpc' \in [Thread -> MallocLabel] /\ mpc'[t] = "recount"
         /\ OthersSame(t) /\ groups' = groups /\ call'[t] = call[t]
    BY <1>0, <1>4, GoesTo DEF MallocLabel, OthersSame, vars
  <1>16. HeapTypeOK'
    BY <1>0, <1>4, <1>13, <1>14, <1>15 DEF HeapTypeOK
  <1>17. \A e \in Desc, x \in Block : e # d \/ x # z => (InList(e, x)' <=> InList(e, x))
    BY <1>3, <1>12, <1>13 DEF InList
  <1>18. InList(d, z)'
    BY <1>12, <1>13 DEF InList
  <1>19. Freed(t)' = z /\ FreeDesc(t)' = d
    BY <1>1, <1>4 DEF Freed, FreeDesc
  <1>20. Shape(t)'
    BY <1>2, <1>15 DEF Shape
  <1>21. Locked(t)'
    BY <1>3, <1>14, <1>15, <1>18, <1>19 DEF Locked, InList
  <1>22. HeldOld(t)' = NULL
    BY <1>15 DEF HeldOld, GivenUp
  <1>23. ASSUME NEW x \in Block
         PROVE  /\ \A n \in Nat : InLive(n, x)' <=> InLive(n, x)
                /\ InBlock(t, x)' <=> InBlock(t, x)
                /\ x # z => (InOld(t, x)' <=> InOld(t, x))
                /\ InGone(t, x)' <=> InGone(t, x)
    BY <1>2, <1>3, <1>4, <1>15 DEF InLive, InBlock, InOld, InGone, GivenUp
  <1>24. ASSUME NEW x \in Block PROVE IsCounted(x)' <=> IsCounted(x)
    <2>1. Unlinked(x)' <=> Unlinked(x)
      BY <1>2, <1>15 DEF Unlinked, InGone, OthersSame
    <2>2. Popped(x)' <=> Popped(x)
      BY <1>2, <1>15 DEF Popped, OthersSame
    <2>3. CASE x # z
      <3>1. Pushed(x)' <=> Pushed(x)
        BY <1>2, <1>3, <1>15, <2>3 DEF Pushed, OthersSame
      <3>2. Listed(x)' <=> Listed(x)
        BY <1>17, <2>3 DEF Listed
      <3> QED BY <2>1, <2>2, <3>1, <3>2 DEF IsCounted
    <2>4. CASE x = z
      <3>1. Pushed(z)'
        BY <1>3, <1>15 DEF Pushed
      <3> QED BY <1>9, <2>1, <2>2, <2>4, <3>1 DEF IsCounted
    <2> QED BY <2>3, <2>4
  <1>25. HeapInv'
    <2> DEFINE j == <<"old", t>>
               k == <<"list", d>>
    <2>1. k \in Owner /\ Own(k, z)'
      BY <1>3, <1>18, OwnIsNext, OwnerKinds
    <2>2. ~Own(j, z)'
      BY <1>15, OwnIsNext DEF InOld, GivenUp
    <2>3. \A x \in Block : x # z => Kept(t, {}, x)
      BY <1>17, <1>23 DEF Kept
    <2>4. Kept(t, {j, k}, z)
      BY <1>3, <1>17, <1>23 DEF Kept
    <2>5. ListsOnce'
      BY <1>0, <1>12, <1>13 DEF Places, ListsOnce
    <2>6. \A e \in Desc : k = <<"list", e>> => arena[z.page].desc = e
      BY <1>3
    <2>7. \A p \in Pages : FullFor(t, p) => FullFor(t, p)'
      BY <1>2 DEF FullFor
    <2>8. j \in Owner /\ Own(j, z)
      BY <1>7
    <2>9. lock[d] \in {NULL, t} /\ UNCHANGED <<arena, live, groups>>
      BY <1>4, <1>15
    <2>10. \A e \in Desc : e # d => lock'[e] = lock[e] /\ free_list'[e] = free_list[e]
      BY <1>13, <1>14
    <2> HIDE DEF j, k
    <2> QED BY <1>0, <1>3, <1>15, <1>16, <1>20, <1>21, <1>22, <1>24,
               <2>1, <2>2, <2>3, <2>4, <2>5, <2>6, <2>7, <2>8, <2>9, <2>10, ListMove
  <1> QED BY <1>5, <1>25 DEF MallocInv

\* list_remove() of the next block of an arena that is all free.
LEMMA UnlinkNextInv ==
  ASSUME MallocInv, NEW t \in Thread, Unlink(t), call[t].i < blocks_per_arena(FreeDesc(t))
  PROVE  MallocInv'
  <1>0. HeapTypeOK /\ Threads /\ PoolInv /\ HeapInv /\ Shape(t) /\ Locked(t) /\ Places
    BY DEF MallocInv, HeapInv, Threads
  <1>1. PICK d, a, i : d = FreeDesc(t) /\ a = Freed(t).page /\ i = call[t].i
    OBVIOUS
  <1>2. mpc[t] = "unlink" /\ call[t].old # NULL /\ call[t].block = NULL /\ i \in Nat
    BY <1>0, <1>1 DEF Unlink, MAt, Shape, HeapTypeOK, Call
  <1>3. /\ a \in Pages /\ a = call[t].old.page /\ d \in Desc /\ d # 0 /\ arena[a].desc = d
        /\ lock[d] = t /\ i < blocks_per_arena(d) /\ blocks_per_arena(d) \in Nat
        /\ \A x \in Block : x.page = a /\ i <= x.idx /\ x.idx < blocks_per_arena(d) => InList(d, x)
    <2>1. a \in Pages /\ a = call[t].old.page
      BY <1>0, <1>1, <1>2, FreedIs
    <2>2. arena[a].desc = d
      BY <1>1 DEF FreeDesc
    <2>3. d \in Desc /\ d # 0
      BY <1>0, <1>1, <1>2, <2>1, <2>2 DEF Locked, HeapTypeOK
    <2> QED BY <1>0, <1>1, <1>2, <2>1, <2>2, <2>3, ArenaRoom DEF Locked
  <1>4. PICK z : z = [page |-> a, idx |-> i]
    OBVIOUS
  <1>5. z \in Block /\ z.page = a /\ z.idx = i
    BY <1>2, <1>3, <1>4, PlaceOf
  <1>6. InList(d, z) /\ z \in Elems(free_list[d])
    BY <1>2, <1>3, <1>5 DEF InList
  <1>7. /\ free_list' = [free_list EXCEPT ![d] = ListRemove(@, z)]
        /\ call' = [call EXCEPT ![t].i = i + 1]
        /\ UNCHANGED <<vars, arena, mpc, lock, live>>
    BY <1>1, <1>4 DEF Unlink, UnlinkNext
  <1>8. PoolInv'
    BY <1>0, <1>7, PallocStutterInv
  <1>9. free_list[d] \in Seq(Block) /\ NoDuplicates(free_list[d])
    BY <1>0, <1>3 DEF HeapTypeOK, Places, ListsOnce
  <1>10. PICK list : list = ListRemove(free_list[d], z)
    OBVIOUS
  <1>11. list \in Seq(Block) /\ NoDuplicates(list) /\ Elems(list) = Elems(free_list[d]) \ {z}
    BY <1>6, <1>9, <1>10, Remove
  <1>12. /\ free_list' \in [Desc -> Seq(Block)] /\ free_list'[d] = list
         /\ \A e \in Desc : e # d => free_list'[e] = free_list[e]
    BY <1>0, <1>3, <1>7, <1>10, <1>11 DEF HeapTypeOK
  <1>13. /\ call' \in [Thread -> Call] /\ call'[t].block = NULL /\ call'[t].old = call[t].old
         /\ call'[t].i = i + 1
         /\ \A u \in Thread : u # t => call'[u] = call[u]
    <2>1. PICK n : n = i + 1
      OBVIOUS
    <2>2. n \in Nat /\ call' = [call EXCEPT ![t].i = n]
      BY <1>2, <1>7, <2>1
    <2>3. call \in [Thread -> Call]
      BY <1>0 DEF HeapTypeOK
    <2>4. call' \in [Thread -> Call]
      BY <2>2, <2>3 DEF Call
    <2>5. call'[t] = [call[t] EXCEPT !.i = n] /\ \A u \in Thread : u # t => call'[u] = call[u]
      BY <2>2, <2>3
    <2>6. call[t] \in Call
      BY <2>3
    <2>7. call'[t].block = call[t].block /\ call'[t].old = call[t].old /\ call'[t].i = n
      BY <2>5, <2>6 DEF Call
    <2> QED BY <1>2, <2>1, <2>4, <2>5, <2>7
  <1>14. OthersSame(t) /\ groups' = groups /\ mpc'[t] = "unlink"
    BY <1>2, <1>7, <1>13 DEF OthersSame, vars
  <1>15. HeapTypeOK'
    BY <1>0, <1>7, <1>12, <1>13 DEF HeapTypeOK
  <1>16. \A e \in Desc, x \in Block : e # d \/ x # z => (InList(e, x)' <=> InList(e, x))
    BY <1>3, <1>11, <1>12 DEF InList
  <1>17. ~InList(d, z)'
    BY <1>11, <1>12 DEF InList
  <1>18. ASSUME NEW x \in Block PROVE InGone(t, x)' <=> InGone(t, x) \/ x = z
    <2>1. x.idx \in Nat
      BY DEF Block
    <2>2. x = z <=> x.page = a /\ x.idx = i
      BY <1>5, PlaceOf
    <2>3. x.idx < i + 1 <=> x.idx < i \/ x.idx = i
      BY <1>2, <2>1
    <2> QED BY <1>1, <1>2, <1>3, <1>13, <1>14, <2>2, <2>3 DEF InGone
  <1>19. Freed(t)'.page = a /\ FreeDesc(t)' = d
    BY <1>1, <1>3, <1>7, <1>13 DEF Freed, FreeDesc
  <1>20. Shape(t)'
    BY <1>2, <1>13, <1>14 DEF Shape
  <1>21. Locked(t)'
    <2>1. i + 1 <= blocks_per_arena(d)
      BY <1>2, <1>3
    <2>2. ASSUME NEW x \in Block, x.page = a, i + 1 <= x.idx, x.idx < blocks_per_arena(d)
          PROVE  InList(d, x)'
      <3>1. x.idx \in Nat
        BY DEF Block
      <3>2. x # z /\ i <= x.idx
        BY <1>2, <1>5, <2>2, <3>1
      <3> QED BY <1>3, <1>16, <2>2, <3>2
    <2> QED BY <1>3, <1>7, <1>13, <1>14, <1>19, <2>1, <2>2 DEF Locked
  <1>22. HeldOld(t)' = NULL
    BY <1>14 DEF HeldOld, GivenUp
  <1>23. ASSUME NEW x \in Block
         PROVE  /\ \A n \in Nat : InLive(n, x)' <=> InLive(n, x)
                /\ InBlock(t, x)' <=> InBlock(t, x)
                /\ InOld(t, x)' <=> InOld(t, x)
    BY <1>2, <1>7, <1>13, <1>14 DEF InLive, InBlock, InOld, GivenUp
  <1>24. ASSUME NEW x \in Block PROVE IsCounted(x)' <=> IsCounted(x)
    <2>1. Pushed(x)' <=> Pushed(x)
      BY <1>2, <1>14 DEF Pushed, OthersSame
    <2>2. Popped(x)' <=> Popped(x)
      BY <1>2, <1>14 DEF Popped, OthersSame
    <2>3. \A u \in Thread : u # t => (InGone(u, x)' <=> InGone(u, x))
      BY <1>14 DEF InGone, OthersSame
    <2>4. CASE x # z
      <3>1. Unlinked(x)' <=> Unlinked(x)
        BY <1>18, <2>3, <2>4 DEF Unlinked
      <3>2. Listed(x)' <=> Listed(x)
        BY <1>16, <2>4 DEF Listed
      <3> QED BY <2>1, <2>2, <3>1, <3>2 DEF IsCounted
    <2>5. CASE x = z
      <3>1. Listed(z)
        BY <1>3, <1>6 DEF Listed
      <3>2. ~Pushed(z)
        BY <1>0, <1>2, <1>3, <1>5, PushedBy
      <3>3. Unlinked(z)'
        BY <1>5, <1>18 DEF Unlinked
      <3> QED BY <2>5, <3>1, <3>2, <3>3 DEF IsCounted
    <2> QED BY <2>4, <2>5
  <1>25. HeapInv'
    <2> DEFINE j == <<"list", d>>
               k == <<"gone", t>>
    <2>1. j \in Owner /\ k \in Owner
      BY <1>3, OwnerKinds
    <2>2. Own(j, z) /\ ~Own(j, z)' /\ Own(k, z)'
      BY <1>5, <1>6, <1>17, <1>18, OwnIs, OwnIsNext
    <2>3. \A x \in Block : x # z => Kept(t, {}, x)
      BY <1>16, <1>18, <1>23 DEF Kept
    <2>4. Kept(t, {j, k}, z)
      BY <1>5, <1>16, <1>23 DEF Kept
    <2>5. ListsOnce'
      BY <1>0, <1>11, <1>12 DEF Places, ListsOnce
    <2>6. \A e \in Desc : k = <<"list", e>> => arena[z.page].desc = e
      OBVIOUS
    <2>7. \A p \in Pages : FullFor(t, p) => FullFor(t, p)'
      BY <1>2, <1>13, <1>14 DEF FullFor
    <2> HIDE DEF j, k
    <2> QED BY <1>0, <1>3, <1>5, <1>7, <1>12, <1>14, <1>15, <1>20, <1>21, <1>22, <1>24,
               <2>1, <2>2, <2>3, <2>4, <2>5, <2>6, <2>7, ListMove
  <1> QED BY <1>8, <1>25 DEF MallocInv

-----------------------------------------------------------------------------
(* An arena comes or goes.                                                 *)

\* What has to hold of the places of page p.
PagePlaces(p) ==
  \A x \in Block : x.page = p =>
    /\ \A j, k \in Owner : Own(j, x) /\ Own(k, x) => j = k
    /\ Owned(x) => InArena(x)
    /\ InArena(x) /\ arena[x.page].desc # 0 => Owned(x)
    /\ \A d \in Desc : InList(d, x) => arena[x.page].desc = d

\* No block of page p is in use or in the hands of a thread other than t.
Unused(t, p) ==
  /\ \A b \in live : b.page # p
  /\ \A u \in Thread : u # t => /\ call[u].block # NULL => call[u].block.page # p
                                /\ HeldOld(u) # NULL => HeldOld(u).page # p

\* Who uses a page owns a place of it.
LEMMA UnusedIs ==
  ASSUME HeapTypeOK, NEW t \in Thread, NEW p \in Pages,
         \A x \in Block : x.page = p =>
           \A k \in Owner : Own(k, x) => k \in {<<"old", t>>, <<"gone", t>>}
  PROVE  Unused(t, p)
  <1>1. ASSUME NEW b \in live, b.page = p PROVE FALSE
    <2>1. b \in LiveBlock /\ b.asked \in Nat /\ InLive(b.asked, At0(b))
      BY LiveOwns DEF HeapTypeOK
    <2>2. At0(b) \in Block /\ At0(b).page = p
      BY <1>1, <2>1, PlaceOf
    <2>3. Own(<<"live", b.asked>>, At0(b)) /\ <<"live", b.asked>> \in Owner
      BY <2>1, OwnIs, OwnerKinds
    <2> QED BY <2>2, <2>3
  <1>2. ASSUME NEW u \in Thread, u # t, call[u].block # NULL, call[u].block.page = p PROVE FALSE
    <2>1. call[u].block \in Block
      BY <1>2 DEF HeapTypeOK, Call
    <2>2. Own(<<"block", u>>, call[u].block) /\ <<"block", u>> \in Owner
      BY OwnIs, OwnerKinds DEF InBlock
    <2> QED BY <1>2, <2>1, <2>2
  <1>3. ASSUME NEW u \in Thread, u # t, HeldOld(u) # NULL, HeldOld(u).page = p PROVE FALSE
    <2>1. HeldOld(u) \in LiveBlock
      BY <1>3, HeldOldIs DEF HeapTypeOK, Call
    <2>2. At0(HeldOld(u)) \in Block /\ At0(HeldOld(u)).page = p
      BY <1>3, <2>1, PlaceOf
    <2>3. Own(<<"old", u>>, At0(HeldOld(u))) /\ <<"old", u>> \in Owner
      BY <1>3, HeldOldIs, OwnIs, OwnerKinds
    <2> QED BY <1>3, <2>2, <2>3
  <1> QED BY <1>1, <1>2, <1>3 DEF Unused

\* Page p changes, and the rest of the heap does not.
LEMMA OnePage ==
  ASSUME HeapInv, NEW t \in Thread, OthersSame(t), HoldersKeep(t), live' = live, HeapTypeOK',
         NEW p \in Pages, \A q \in Pages : q # p => arena'[q] = arena[q],
         \A x \in Block : x.page # p => Kept(t, {}, x) /\ (IsCounted(x)' <=> IsCounted(x)),
         Unused(t, p), PagePlaces(p)', ListsOnce', Heads',
         arena'[p].desc # 0 => /\ arena'[p].free_cnt = Cardinality(Counted(p)')
                               /\ FullFor(t, p)',
         \A q \in Pages : q # p /\ FullFor(t, q) => FullFor(t, q)',
         HeldOld(t)' # NULL => Good(HeldOld(t))',
         Shape(t)', Locked(t)'
  PROVE  HeapInv'
  <1>0. HeapTypeOK /\ Threads /\ Places /\ Counts /\ Full /\ Sizes
    BY DEF HeapInv
  <1>1. \A q \in Pages : q # p => Steady(q)
    BY DEF Steady
  <1>2. Threads'
    <2>1. ASSUME NEW u \in Thread, u # t PROVE Shape(u)' /\ Locked(u)'
      <3>1. call[u].block # NULL => Steady(call[u].block.page)
        BY <1>0, <1>1, <2>1 DEF HeapTypeOK, Call, Block, Unused
      <3> QED BY <1>0, <2>1, <3>1, OthersThread
    <2> QED BY <2>1 DEF Threads
  <1>3. Places'
    <2>1. \A m \in Owner, x \in Block : x.page # p => (Own(m, x)' <=> Own(m, x))
      BY OwnFrame
    <2>2. \A x \in Block : x.page # p =>
            (InArena(x)' <=> InArena(x)) /\ arena'[x.page].desc = arena[x.page].desc
      BY <1>1, InArenaKeeps DEF Block, Steady
    <2>3. \A x \in Block : x.page # p => (Owned(x)' <=> Owned(x))
      BY <2>1 DEF Owned
    <2>4. Apart'
      BY <1>0, <2>1 DEF Places, Apart, PagePlaces
    <2>5. Valid'
      <3>1. \A d \in Desc, x \in Block : x.page # p => (InList(d, x)' <=> InList(d, x))
        BY <2>1, OwnIs, OwnIsNext, OwnerKinds
      <3> QED BY <1>0, <2>2, <2>3, <3>1 DEF Places, Valid, PagePlaces
    <2>6. Cover'
      BY <1>0, <2>2, <2>3 DEF Places, Cover, PagePlaces
    <2> QED BY <2>4, <2>5, <2>6 DEF Places
  <1>4. Counts'
    <2>1. ASSUME NEW q \in Pages, q # p
          PROVE  arena'[q].desc # 0 => arena'[q].free_cnt = Cardinality(Counted(q)')
      BY <1>0, <2>1, CountsKeep
    <2> QED BY <2>1 DEF Counts
  <1>5. Full'
    <2> SUFFICES ASSUME NEW q \in Pages, arena'[q].desc # 0,
                        arena'[q].free_cnt >= blocks_per_arena(arena'[q].desc)
                 PROVE  \E u \in Thread : FullFor(u, q)'
      BY DEF Full
    <2>1. CASE q = p
      BY <2>1
    <2>2. CASE q # p
      BY <1>0, <2>2, FullKeeps
    <2> QED BY <2>1, <2>2
  <1>6. Sizes'
    <2>1. \A c \in live' : c \in live /\ Steady(c.page)
      BY <1>0, <1>1 DEF HeapTypeOK, LiveBlock, Unused
    <2>2. ASSUME NEW u \in Thread, u # t, HeldOld(u) # NULL PROVE Steady(HeldOld(u).page)
      <3>1. HeldOld(u) \in LiveBlock
        BY <1>0, <2>2, HeldOldIs DEF HeapTypeOK, Call
      <3> QED BY <1>1, <2>2, <3>1 DEF LiveBlock, Unused
    <2> QED BY <1>0, <2>1, <2>2, SizesNext
  <1> QED BY <1>2, <1>3, <1>4, <1>5, <1>6 DEF HeapInv

\* The pages palloc gives a thread are in no arena, and nobody has a block of them.
LEMMA NewPage ==
  ASSUME MallocInv, NEW t \in Thread, At(t, "zero"), NEW p, p = idx[t]
  PROVE  /\ p \in Pages /\ cnt[t] \in Nat \ {0} /\ arena[p] = NoArena
         /\ \A x \in Block : x.page = p => ~Owned(x)
  <1>0. TypeOK /\ NoDoubleAllocation /\ Heads /\ Valid
    BY DEF MallocInv, PoolInv, HeapInv, Places
  <1>1. p \in Pages /\ p \in Nat /\ cnt[t] \in Nat \ {0}
    BY <1>0, PagesNat, PallocAssumption DEF TypeOK
  <1>2. p \in Claim(t)
    BY <1>1 DEF Claim, Mine, At
  <1>3. arena[p] = NoArena
    <2> SUFFICES ASSUME arena[p] # NoArena PROVE FALSE
      OBVIOUS
    <2>1. GroupOf(p) \in groups /\ GroupOf(p).first = p
      BY <1>0, <1>1 DEF Heads, GroupOf
    <2>2. PICK g \in groups : g.first = p
      BY <2>1
    <2>3. g.cnt \in Nat /\ g.cnt >= 1
      BY <1>0, PallocAssumption DEF TypeOK, Group
    <2>4. p \in PagesOf(g)
      BY <1>1, <2>2, <2>3 DEF PagesOf
    <2> QED BY <1>0, <1>2, <2>4 DEF NoDoubleAllocation
  <1>4. ASSUME NEW x \in Block, x.page = p PROVE ~Owned(x)
    BY <1>0, <1>3, <1>4 DEF Valid, InArena, NoArena
  <1> QED BY <1>1, <1>3, <1>4

\* Page p of t's request is the head of an arena of descriptor d, or of a big block.
NewArena(t, p, d, n) ==
  /\ mpc[t] = "pages" /\ call[t].block = NULL /\ call[t].i = 0
  /\ p \in Pages /\ d \in Desc \cup {0} /\ n \in Nat \ {0} /\ call[t].size = call[t].asked % Word
  /\ d = 0 => n = page_cnt(call[t].size)
  /\ arena[p] = NoArena /\ \A x \in Block : x.page = p => ~Owned(x)
  /\ arena' \in [Pages -> [desc : Desc \cup {0}, free_cnt : Nat]]
  /\ arena'[p].desc = d /\ arena'[p].free_cnt = n
  /\ \A q \in Pages : q # p => arena'[q] = arena[q]
  /\ Heads' /\ Unused(t, p)
  /\ UNCHANGED <<lock, live, cnt>>

\* What GotPages() does whatever the size.
LEMMA GotPagesStep ==
  ASSUME MallocInv, NEW t \in Thread, GotPages(t), NEW p, p = idx[t], NEW d, d = MyDesc(t),
         NEW n, d = 0 => n = cnt[t], d # 0 => n = blocks_per_arena(d)
  PROVE  PoolInv' /\ NewArena(t, p, d, n)
  <1>0. HeapTypeOK /\ Threads /\ Heads /\ TypeOK /\ PoolInv /\ Shape(t)
    BY DEF MallocInv, HeapInv, PoolInv, Threads
  <1>1. mpc[t] = "pages" /\ At(t, "zero") /\ Goto(t, "out")
        /\ groups' = groups \cup {[first |-> p, cnt |-> cnt[t]]}
        /\ arena' = [arena EXCEPT ![p] = [desc |-> d, free_cnt |-> n]]
        /\ UNCHANGED <<used_map, owner, mem, cnt, idx, bit, lock, live>>
    BY DEF GotPages, MAt
  <1>2. /\ call[t].block = NULL /\ call[t].i = 0 /\ call[t].size = call[t].asked % Word
        /\ cnt[t] = IF d = 0 THEN page_cnt(call[t].size) ELSE 1
    BY <1>0, <1>1 DEF Shape
  <1>3. /\ p \in Pages /\ cnt[t] \in Nat \ {0} /\ arena[p] = NoArena
        /\ \A x \in Block : x.page = p => ~Owned(x)
    BY <1>1, NewPage
  <1>4. d \in Desc \cup {0}
    BY <1>0, MyDescType
  <1>5. n \in Nat \ {0}
    <2>1. CASE d = 0
      BY <1>3, <2>1
    <2>2. CASE d # 0
      <3>1. d \in Desc
        BY <1>4, <2>2
      <3> QED BY <2>2, <3>1, ArenaRoom
    <2> QED BY <2>1, <2>2
  <1>6. PoolInv'
    <2>1. mem' \in [Pages -> {"junk", "zero", "0xcc"}]
      BY <1>0, <1>1 DEF TypeOK
    <2> QED BY <1>0, <1>1, <2>1, HandOutInv
  <1>7. /\ arena' \in [Pages -> [desc : Desc \cup {0}, free_cnt : Nat]]
        /\ arena'[p] = [desc |-> d, free_cnt |-> n]
        /\ \A q \in Pages : q # p => arena'[q] = arena[q]
    BY <1>0, <1>1, <1>3, <1>4, <1>5 DEF HeapTypeOK
  <1>8. Heads'
    <2> SUFFICES ASSUME NEW q \in Pages, arena'[q] # NoArena PROVE GroupOf(q)' \in groups'
      BY DEF Heads
    <2>1. CASE q = p
      <3>1. GroupOf(q)' = [first |-> p, cnt |-> cnt[t]]
        BY <1>2, <1>7, <2>1 DEF GroupOf
      <3> QED BY <1>1, <3>1
    <2>2. CASE q # p
      <3>1. GroupOf(q)' = GroupOf(q) /\ arena[q] # NoArena
        BY <1>7, <2>2 DEF GroupOf
      <3> QED BY <1>0, <1>1, <3>1 DEF Heads
    <2> QED BY <2>1, <2>2
  <1>9. Unused(t, p)
    <2>1. \A x \in Block : x.page = p => \A k \in Owner : ~Own(k, x)
      BY <1>3 DEF Owned
    <2> QED BY <1>0, <1>3, <2>1, UnusedIs
  <1>10. d = 0 => n = page_cnt(call[t].size)
    BY <1>2
  <1> QED BY <1>1, <1>2, <1>3, <1>4, <1>5, <1>6, <1>7, <1>8, <1>9, <1>10 DEF NewArena

\* The block t has still to give back is not on a page that nobody owns.
LEMMA HeldKeeps ==
  ASSUME HeapTypeOK, Sizes, NEW t \in Thread, NEW p \in Pages, HeldOld(t)' = HeldOld(t),
         \A q \in Pages : q # p => arena'[q] = arena[q],
         \A x \in Block : x.page = p => ~Owned(x)
  PROVE  HeldOld(t)' # NULL => Good(HeldOld(t))'
  <1>1. PICK b : b = HeldOld(t)
    OBVIOUS
  <1>2. ASSUME b # NULL PROVE Good(b) /\ Steady(b.page)
    <2>1. b = call[t].old /\ mpc[t] \notin GivenUp /\ b \in LiveBlock
      BY <1>1, <1>2, HeldOldIs DEF HeapTypeOK, Call
    <2>2. At0(b) \in Block /\ At0(b).page = b.page /\ b.page \in Pages
      BY <2>1, PlaceOf DEF LiveBlock
    <2>3. Own(<<"old", t>>, At0(b)) /\ <<"old", t>> \in Owner
      BY <1>1, <1>2, HeldOldIs, OwnIs, OwnerKinds
    <2>4. b.page # p
      BY <2>2, <2>3 DEF Owned
    <2> QED BY <1>2, <2>1, <2>2, <2>4 DEF Sizes, Steady
  <1>3. b # NULL => Good(b)'
    BY <1>2, GoodKeeps
  <1> QED BY <1>1, <1>3

\* A big block.
LEMMA GotBigInv == ASSUME MallocInv, NEW t \in Thread, GotPages(t), MyDesc(t) = 0 PROVE MallocInv'
  <1>0. HeapTypeOK /\ Threads /\ HeapInv /\ Places /\ Sizes
    BY DEF MallocInv, HeapInv
  <1>1. PICK p, z, n : p = idx[t] /\ z = [page |-> p, idx |-> 0] /\ n = cnt[t]
    OBVIOUS
  <1>2. /\ PoolInv'
        /\ mpc[t] = "pages" /\ call[t].block = NULL /\ call[t].i = 0
        /\ p \in Pages /\ n \in Nat \ {0} /\ call[t].size = call[t].asked % Word
        /\ n = page_cnt(call[t].size)
        /\ arena[p] = NoArena /\ \A x \in Block : x.page = p => ~Owned(x)
        /\ arena' \in [Pages -> [desc : Desc \cup {0}, free_cnt : Nat]]
        /\ arena'[p].desc = 0 /\ arena'[p].free_cnt = n
        /\ \A q \in Pages : q # p => arena'[q] = arena[q]
        /\ Heads' /\ Unused(t, p)
        /\ UNCHANGED <<lock, live, cnt>>
    <2>1. PICK d : d = MyDesc(t) /\ d = 0
      OBVIOUS
    <2>2. (d = 0 => n = cnt[t]) /\ (d # 0 => n = blocks_per_arena(d))
      BY <1>1, <2>1
    <2>3. p = idx[t] /\ d = MyDesc(t)
      BY <1>1, <2>1
    <2>4. PoolInv' /\ NewArena(t, p, d, n)
      BY <2>2, <2>3, GotPagesStep
    <2> QED BY <2>1, <2>4 DEF NewArena
  <1>3. z \in Block /\ z.page = p /\ z.idx = 0
    BY <1>1, <1>2, PlaceOf
  <1>4. call' = [call EXCEPT ![t].block = z] /\ MGoto(t, "done") /\ free_list' = free_list
    BY <1>1 DEF GotPages
  <1>5. /\ call' \in [Thread -> Call] /\ call'[t].block = z /\ call'[t].old = call[t].old
        /\ call'[t].size = call[t].size /\ call'[t].asked = call[t].asked /\ call'[t].i = call[t].i
        /\ \A u \in Thread : u # t => call'[u] = call[u]
    <2>1. call \in [Thread -> Call] /\ call[t] \in Call
      BY <1>0 DEF HeapTypeOK
    <2>2. call' \in [Thread -> Call]
      BY <1>3, <1>4, <2>1 DEF Call
    <2>3. call'[t] = [call[t] EXCEPT !.block = z] /\ \A u \in Thread : u # t => call'[u] = call[u]
      BY <1>4, <2>1
    <2> QED BY <2>1, <2>2, <2>3 DEF Call
  <1>6. mpc' \in [Thread -> MallocLabel] /\ mpc'[t] = "done" /\ OthersSame(t) /\ MyDesc(t)' = 0
    BY <1>0, <1>2, <1>4, <1>5, GoesTo DEF MallocLabel, OthersSame, MyDesc
  <1>7. HeapTypeOK'
    BY <1>0, <1>2, <1>4, <1>5, <1>6 DEF HeapTypeOK
  <1>8. HoldersKeep(t)
    BY <1>2, <1>4 DEF HoldersKeep, NoArena
  <1>9. Shape(t)'
    <2>1. z # NULL
      BY <1>3, MallocAssumption
    <2> QED BY <1>2, <1>3, <1>5, <1>6, <2>1 DEF Shape
  <1>10. Locked(t)'
    BY <1>6 DEF Locked
  <1>11. HeldOld(t)' = HeldOld(t)
    BY <1>2, <1>5, <1>6 DEF HeldOld, GivenUp
  <1>12. ASSUME NEW x \in Block
         PROVE  /\ \A e \in Nat : InLive(e, x)' <=> InLive(e, x)
                /\ \A e \in Desc : InList(e, x)' <=> InList(e, x)
                /\ InBlock(t, x)' <=> x = z
                /\ ~InBlock(t, x)
                /\ InOld(t, x)' <=> InOld(t, x)
                /\ InGone(t, x)' <=> InGone(t, x)
    <2>1. x # NULL
      BY MallocAssumption
    <2>2. InOld(t, x)' <=> InOld(t, x)
      BY <1>11, HeldOldIs
    <2> QED BY <1>2, <1>4, <1>5, <1>6, <2>1, <2>2 DEF InLive, InList, InBlock, InGone
  <1>13. \A x \in Block : x.page # p => Kept(t, {}, x) /\ (IsCounted(x)' <=> IsCounted(x))
    <2>1. \A x \in Block : IsCounted(x)' <=> IsCounted(x)
      BY <1>2, <1>4, <1>6, CountedFrame
    <2>2. \A x \in Block : x.page # p => Kept(t, {}, x)
      BY <1>3, <1>12 DEF Kept
    <2> QED BY <2>1, <2>2
  <1>14. PagePlaces(p)'
    <2> DEFINE k == <<"block", t>>
    <2> SUFFICES ASSUME NEW x \in Block, x.page = p
                 PROVE  /\ \A i, j \in Owner : Own(i, x)' /\ Own(j, x)' => i = j
                        /\ Owned(x)' => InArena(x)'
                        /\ InArena(x)' /\ arena'[x.page].desc # 0 => Owned(x)'
                        /\ \A d \in Desc : InList(d, x)' => arena'[x.page].desc = d
      BY DEF PagePlaces
    <2>1. Kept(t, {k}, x)
      BY <1>12 DEF Kept
    <2>2. \A m \in Owner : m # k => ~Own(m, x)'
      BY <1>2, <1>6, <2>1, OwnFrame DEF Owned
    <2>3. Own(k, x)' => x = z
      BY <1>12, OwnIsNext
    <2>4. InArena(z)'
      BY <1>2, <1>3 DEF InArena
    <2>5. Owned(x)' => InArena(x)'
      BY <2>2, <2>3, <2>4 DEF Owned
    <2>6. \A d \in Desc : ~InList(d, x)'
      BY <2>2, OwnIsNext, OwnerKinds
    <2> QED BY <1>2, <2>2, <2>5, <2>6
  <1>15. ListsOnce'
    BY <1>0, <1>4 DEF Places, ListsOnce
  <1>16. HeldOld(t)' # NULL => Good(HeldOld(t))'
    BY <1>0, <1>2, <1>11, HeldKeeps
  <1>17. \A q \in Pages : ~FullFor(t, q)
    BY <1>2 DEF FullFor
  <1>18. HeapInv'
    BY <1>0, <1>2, <1>6, <1>7, <1>8, <1>9, <1>10, <1>13, <1>14, <1>15, <1>16, <1>17, OnePage
  <1> QED BY <1>2, <1>18 DEF MallocInv

\* An arena, whose blocks are all on the free list.
LEMMA GotSmallInv == ASSUME MallocInv, NEW t \in Thread, GotPages(t), MyDesc(t) # 0 PROVE MallocInv'
  <1>0. HeapTypeOK /\ Threads /\ HeapInv /\ Places /\ Sizes /\ Locked(t)
    BY DEF MallocInv, HeapInv, Threads
  <1>1. PICK p, d, n : p = idx[t] /\ d = MyDesc(t) /\ d # 0 /\ n = blocks_per_arena(d)
    OBVIOUS
  <1>2. PoolInv' /\ NewArena(t, p, d, n)
    <2>1. (d = 0 => n = cnt[t]) /\ (d # 0 => n = blocks_per_arena(d)) /\ p = idx[t] /\ d = MyDesc(t)
      BY <1>1
    <2> QED BY <2>1, GotPagesStep
  <1>3. /\ mpc[t] = "pages" /\ call[t].block = NULL /\ call[t].i = 0
        /\ p \in Pages /\ d \in Desc /\ n \in Nat \ {0} /\ call[t].size = call[t].asked % Word
        /\ arena[p] = NoArena /\ \A x \in Block : x.page = p => ~Owned(x)
        /\ arena' \in [Pages -> [desc : Desc \cup {0}, free_cnt : Nat]]
        /\ arena'[p].desc = d /\ arena'[p].free_cnt = n
        /\ \A q \in Pages : q # p => arena'[q] = arena[q]
        /\ Heads' /\ Unused(t, p)
        /\ UNCHANGED <<lock, live, cnt>>
    BY <1>1, <1>2 DEF NewArena
  <1>4. free_list[d] = << >> /\ lock[d] = t
    BY <1>0, <1>1, <1>3 DEF Locked
  <1>5. /\ free_list' = [free_list EXCEPT ![d] = free_list[d] \o Arena(d, p)]
        /\ MGoto(t, "pop") /\ call' = call
    BY <1>1 DEF GotPages
  <1>6. PICK list : list = Arena(d, p)
    OBVIOUS
  <1>7. /\ list \in Seq(Block) /\ list # << >> /\ NoDuplicates(list) /\ Head(list).page = p
        /\ Elems(list) = {x \in Block : x.page = p /\ x.idx < n}
        /\ << >> \o list = list
    BY <1>1, <1>3, <1>6, ArenaBlocks
  <1>8. /\ free_list' \in [Desc -> Seq(Block)] /\ free_list'[d] = list
        /\ \A e \in Desc : e # d => free_list'[e] = free_list[e]
    <2>1. free_list' = [free_list EXCEPT ![d] = list]
      BY <1>4, <1>5, <1>6, <1>7
    <2> QED BY <1>0, <1>3, <1>7, <2>1 DEF HeapTypeOK
  <1>9. /\ mpc' \in [Thread -> MallocLabel] /\ mpc'[t] = "pop" /\ OthersSame(t)
        /\ MyDesc(t)' = d /\ call'[t] = call[t]
    BY <1>0, <1>1, <1>3, <1>5, GoesTo DEF MallocLabel, OthersSame, MyDesc
  <1>10. HeapTypeOK'
    BY <1>0, <1>3, <1>5, <1>8, <1>9 DEF HeapTypeOK
  <1>11. HoldersKeep(t)
    <2>1. \A e \in Desc : lock[e] \notin {NULL, t} => lock'[e] = lock[e] /\ free_list'[e] = free_list[e]
      BY <1>3, <1>4, <1>8
    <2>2. arena[p].desc = 0
      BY <1>3 DEF NoArena
    <2>3. \A q \in Pages : arena[q].desc # 0 => arena'[q].desc = arena[q].desc
      BY <1>3, <2>2
    <2> QED BY <2>1, <2>3 DEF HoldersKeep
  <1>12. Shape(t)'
    BY <1>1, <1>3, <1>9 DEF Shape
  <1>13. Locked(t)'
    BY <1>3, <1>4, <1>7, <1>8, <1>9 DEF Locked
  <1>14. HeldOld(t)' = HeldOld(t)
    BY <1>3, <1>9 DEF HeldOld, GivenUp
  <1>15. ASSUME NEW x \in Block
         PROVE  /\ \A e \in Nat : InLive(e, x)' <=> InLive(e, x)
                /\ \A e \in Desc : e # d => (InList(e, x)' <=> InList(e, x))
                /\ InList(d, x)' <=> x.page = p /\ x.idx < n
                /\ ~InList(d, x)
                /\ InBlock(t, x)' <=> InBlock(t, x)
                /\ InOld(t, x)' <=> InOld(t, x)
                /\ InGone(t, x)' <=> InGone(t, x)
    <2>1. InOld(t, x)' <=> InOld(t, x)
      BY <1>14, HeldOldIs
    <2>2. ~InList(d, x)
      BY <1>4 DEF InList, Elems
    <2> QED BY <1>3, <1>5, <1>7, <1>8, <1>9, <2>1, <2>2 DEF InLive, InList, InBlock, InGone
  <1>16. ASSUME NEW x \in Block
         PROVE  /\ Pushed(x)' <=> Pushed(x)
                /\ Popped(x)' <=> Popped(x)
                /\ Unlinked(x)' <=> Unlinked(x)
                /\ x.page # p => (Listed(x)' <=> Listed(x))
    <2>1. x.page # p => (Listed(x)' <=> Listed(x))
      BY <1>15 DEF Listed
    <2> QED BY <1>3, <1>9, <2>1 DEF Pushed, Popped, Unlinked, InGone, OthersSame
  <1>17. \A x \in Block : x.page # p => Kept(t, {}, x) /\ (IsCounted(x)' <=> IsCounted(x))
    <2>1. \A x \in Block : x.page # p => Kept(t, {}, x)
      BY <1>15 DEF Kept
    <2> QED BY <1>16, <2>1 DEF IsCounted
  <1>18. PagePlaces(p)'
    <2> DEFINE k == <<"list", d>>
    <2> SUFFICES ASSUME NEW x \in Block, x.page = p
                 PROVE  /\ \A i, j \in Owner : Own(i, x)' /\ Own(j, x)' => i = j
                        /\ Owned(x)' => InArena(x)'
                        /\ InArena(x)' /\ arena'[x.page].desc # 0 => Owned(x)'
                        /\ \A e \in Desc : InList(e, x)' => arena'[x.page].desc = e
      BY DEF PagePlaces
    <2>0. k \in Owner
      BY <1>3, OwnerKinds
    <2>1. Kept(t, {k}, x)
      BY <1>15 DEF Kept
    <2>2. \A m \in Owner : m # k => ~Own(m, x)'
      BY <1>3, <1>9, <2>1, OwnFrame DEF Owned
    <2>3. Own(k, x)' <=> x.idx < n
      BY <1>15, OwnIsNext
    <2>4. InArena(x)' <=> x.idx < n
      BY <1>1, <1>3 DEF InArena
    <2>5. Owned(x)' <=> InArena(x)'
      BY <2>0, <2>2, <2>3, <2>4 DEF Owned
    <2>6. \A e \in Desc : e # d => ~InList(e, x)'
      BY <2>2, OwnIsNext, OwnerKinds
    <2> QED BY <1>3, <2>2, <2>5, <2>6
  <1>19. ListsOnce'
    BY <1>0, <1>7, <1>8 DEF Places, ListsOnce
  <1>20. arena'[p].free_cnt = Cardinality(Counted(p)')
    <2>1. ASSUME NEW x \in Block, x.page = p PROVE IsCounted(x)' <=> x.idx < n
      <3>1. ~Unlinked(x)
        BY <1>3, <2>1, OwnIs, OwnerKinds DEF Owned, Unlinked
      <3>2. \A u \in Thread : ~InBlock(u, x)
        BY <1>3, <2>1, OwnIs, OwnerKinds DEF Owned
      <3>3. ~Popped(x)
        BY <3>2 DEF Popped, InBlock
      <3>4. ~Pushed(x)
        <4> SUFFICES ASSUME NEW u \in Thread, mpc[u] = "recount", At0(call[u].old) = x PROVE FALSE
          BY DEF Pushed
        <4>1. call[u].old # NULL /\ FreeDesc(u) # 0
          BY <1>0 DEF Threads, Shape, Locked
        <4>2. Freed(u).page = p
          BY <2>1, <4>1 DEF Freed, At0
        <4> QED BY <1>3, <4>1, <4>2 DEF FreeDesc, NoArena
      <3>5. Listed(x)' <=> x.idx < n
        <4>1. \A e \in Desc : e # d => ~InList(e, x)
          BY <1>3, <2>1, OwnIs, OwnerKinds DEF Owned
        <4> QED BY <1>3, <1>15, <2>1, <4>1 DEF Listed
      <3> QED BY <1>16, <3>1, <3>3, <3>4, <3>5 DEF IsCounted
    <2>2. Counted(p)' = ArenaPlaces(p, d)
      BY <1>1, <2>1 DEF Counted, ArenaPlaces
    <2> QED BY <1>1, <1>3, <2>2, ArenaSize
  <1>21. FullFor(t, p)'
    BY <1>3, <1>7, <1>8, <1>9 DEF FullFor
  <1>22. HeldOld(t)' # NULL => Good(HeldOld(t))'
    BY <1>0, <1>3, <1>14, HeldKeeps
  <1>23. \A q \in Pages : ~FullFor(t, q)
    BY <1>3 DEF FullFor
  <1>24. HeapInv'
    BY <1>0, <1>3, <1>9, <1>10, <1>11, <1>12, <1>13, <1>17, <1>18, <1>19, <1>20, <1>21, <1>22,
       <1>23, OnePage
  <1> QED BY <1>2, <1>24 DEF MallocInv

\* Page p, of which only t has blocks, and these to give back, is an arena no more.
LEMMA Dropped ==
  ASSUME HeapInv, NEW t \in Thread, OthersSame(t), UNCHANGED <<live, lock, free_list>>, HeapTypeOK',
         NEW p \in Pages, arena'[p] = NoArena,
         \A q \in Pages : q # p => arena'[q] = arena[q],
         NEW g, groups' = groups \ {g}, g.first = p,
         arena[p].desc # 0 => lock[arena[p].desc] = t,
         NEW k \in {<<"old", t>>, <<"gone", t>>},
         \A x \in Block : x.page = p => \A j \in Owner : Own(j, x) => j = k,
         \A x \in Block : x.page = p => Kept(t, {k}, x) /\ ~Own(k, x)',
         \A x \in Block : x.page # p => Kept(t, {}, x) /\ (IsCounted(x)' <=> IsCounted(x)),
         \A q \in Pages : q # p => ~FullFor(t, q),
         HeldOld(t)' = NULL, Shape(t)', Locked(t)'
  PROVE  HeapInv'
  <1>0. HeapTypeOK /\ Places /\ Heads
    BY DEF HeapInv
  <1>1. HoldersKeep(t)
    <2>1. \A q \in Pages : arena[q].desc # 0 /\ lock[arena[q].desc] \notin {NULL, t} =>
                             arena'[q].desc = arena[q].desc
      OBVIOUS
    <2> QED BY <2>1 DEF HoldersKeep
  <1>2. Unused(t, p)
    BY <1>0, UnusedIs
  <1>3. PagePlaces(p)'
    <2> SUFFICES ASSUME NEW x \in Block, x.page = p
                 PROVE  /\ \A j \in Owner : ~Own(j, x)'
                        /\ ~InArena(x)'
      BY OwnIsNext, OwnerKinds DEF PagePlaces, Owned
    <2>1. \A j \in Owner : ~Own(j, x)'
      BY OwnFrame
    <2> QED BY <2>1 DEF InArena, NoArena
  <1>4. ListsOnce'
    BY <1>0 DEF Places, ListsOnce
  <1>5. Heads'
    <2> SUFFICES ASSUME NEW q \in Pages, arena'[q] # NoArena PROVE GroupOf(q)' \in groups'
      BY DEF Heads
    <2>1. q # p
      OBVIOUS
    <2>2. GroupOf(q)' = GroupOf(q) /\ GroupOf(q).first = q /\ arena[q] # NoArena
      BY <2>1 DEF GroupOf
    <2> QED BY <1>0, <2>1, <2>2 DEF Heads
  <1>6. arena'[p].desc = 0
    BY DEF NoArena
  <1> QED BY <1>1, <1>2, <1>3, <1>4, <1>5, <1>6, OnePage

\* free() of a big block.
LEMMA FreeBigInv ==
  ASSUME MallocInv, NEW t \in Thread, FreeBlock(t), FreeDesc(t) = 0
  PROVE  MallocInv'
  <1>0. HeapTypeOK /\ Threads /\ PoolInv /\ HeapInv /\ Shape(t) /\ Places /\ Heads /\ TypeOK
    BY DEF MallocInv, HeapInv, Threads, PoolInv
  <1>1. PICK z, a : z = Freed(t) /\ a = z.page
    OBVIOUS
  <1>2. mpc[t] = "free" /\ call[t].old # NULL /\ call[t].block = NULL /\ call[t].i = 0
    BY <1>0 DEF FreeBlock, MAt, Shape
  <1>3. z \in Block /\ a \in Pages /\ z = At0(call[t].old) /\ arena[a].desc = 0
    BY <1>0, <1>1, <1>2, FreedIs DEF FreeDesc
  <1>4. PICK g : g = [first |-> a, cnt |-> arena[a].free_cnt]
    OBVIOUS
  <1>5. /\ Free(t, g) /\ arena' = [arena EXCEPT ![a] = NoArena]
        /\ MGoto(t, "freeing") /\ UNCHANGED <<free_list, lock, live, call>>
    BY <1>1, <1>4 DEF FreeBlock
  <1>6. g \in groups /\ g.first = a
    BY <1>4, <1>5 DEF Free
  <1>7. PoolInv'
    BY <1>0, <1>5, <1>6, FreeInv
  <1>8. /\ arena' \in [Pages -> [desc : Desc \cup {0}, free_cnt : Nat]] /\ arena'[a] = NoArena
        /\ \A q \in Pages : q # a => arena'[q] = arena[q]
    BY <1>0, <1>3, <1>5 DEF HeapTypeOK, NoArena
  <1>9. /\ mpc' \in [Thread -> MallocLabel] /\ mpc'[t] = "freeing" /\ call'[t] = call[t]
        /\ OthersSame(t) /\ groups' = groups \ {g}
    BY <1>0, <1>5, GoesTo, CallsPalloc DEF MallocLabel, OthersSame
  <1>10. HeapTypeOK'
    BY <1>0, <1>5, <1>8, <1>9 DEF HeapTypeOK
  <1>11. Shape(t)' /\ Locked(t)'
    BY <1>2, <1>9 DEF Shape, Locked
  <1>12. HeldOld(t)' = NULL
    BY <1>9 DEF HeldOld, GivenUp
  <1>13. Own(<<"old", t>>, z) /\ <<"old", t>> \in Owner
    BY <1>2, <1>3, OwnIs, OwnerKinds DEF InOld, GivenUp
  <1>14. ASSUME NEW x \in Block, x.page = a, NEW j \in Owner, Own(j, x) PROVE j = <<"old", t>>
    <2>1. InArena(x) /\ InArena(z)
      BY <1>0, <1>3, <1>13, <1>14 DEF Places, Valid, Owned
    <2>2. x = z
      <3>1. x.page = a /\ z.page = a /\ x.idx = 0 /\ z.idx = 0
        BY <1>1, <1>3, <1>14, <2>1 DEF InArena
      <3> QED BY <1>3, <3>1, PlaceOf
    <2> QED BY <1>0, <1>3, <1>13, <1>14, <2>2 DEF Places, Apart
  <1>15. ASSUME NEW x \in Block
         PROVE  /\ \A n \in Nat : InLive(n, x)' <=> InLive(n, x)
                /\ \A e \in Desc : InList(e, x)' <=> InList(e, x)
                /\ InBlock(t, x)' <=> InBlock(t, x)
                /\ InGone(t, x)' <=> InGone(t, x)
                /\ ~InOld(t, x)'
                /\ x.page # a => ~InOld(t, x)
    BY <1>1, <1>2, <1>3, <1>5, <1>9 DEF InLive, InList, InBlock, InGone, InOld, GivenUp
  <1>16. ASSUME NEW x \in Block PROVE IsCounted(x)' <=> IsCounted(x)
    BY <1>2, <1>5, <1>9, CountedFrame
  <1>17. HeapInv'
    <2>1. PICK k : k = <<"old", t>>
      OBVIOUS
    <2>2. \A x \in Block : x.page = a => Kept(t, {k}, x) /\ ~Own(k, x)'
      BY <1>15, <2>1, OwnIsNext DEF Kept
    <2>3. \A x \in Block : x.page # a => Kept(t, {}, x) /\ (IsCounted(x)' <=> IsCounted(x))
      BY <1>15, <1>16 DEF Kept
    <2>4. \A q \in Pages : q # a => ~FullFor(t, q)
      BY <1>2 DEF FullFor
    <2>5. k \in {<<"old", t>>, <<"gone", t>>} /\ \A x \in Block : x.page = a =>
            \A j \in Owner : Own(j, x) => j = k
      BY <1>14, <2>1
    <2>6. UNCHANGED <<live, lock, free_list>> /\ (arena[a].desc # 0 => lock[arena[a].desc] = t)
      BY <1>3, <1>5
    <2>7. HeapInv /\ OthersSame(t) /\ HeapTypeOK' /\ a \in Pages /\ arena'[a] = NoArena
      BY <1>0, <1>3, <1>8, <1>9, <1>10
    <2>8. \A q \in Pages : q # a => arena'[q] = arena[q]
      BY <1>8
    <2>9. groups' = groups \ {g} /\ g.first = a
      BY <1>6, <1>9
    <2> QED BY <1>11, <1>12, <2>2, <2>3, <2>4, <2>5, <2>6, <2>7, <2>8, <2>9, Dropped
  <1> QED BY <1>7, <1>17 DEF MallocInv

\* The last block of an arena is unlinked, and the page goes back.
LEMMA GiveBackInv ==
  ASSUME MallocInv, NEW t \in Thread, Unlink(t), ~(call[t].i < blocks_per_arena(FreeDesc(t)))
  PROVE  MallocInv'
  <1>0. HeapTypeOK /\ Threads /\ PoolInv /\ HeapInv /\ Shape(t) /\ Locked(t) /\ Places /\ Heads /\ TypeOK
    BY DEF MallocInv, HeapInv, Threads, PoolInv
  <1>1. PICK d, a, i : d = FreeDesc(t) /\ a = Freed(t).page /\ i = call[t].i
    OBVIOUS
  <1>2. mpc[t] = "unlink" /\ call[t].old # NULL /\ call[t].block = NULL /\ i \in Nat
    BY <1>0, <1>1 DEF Unlink, MAt, Shape, HeapTypeOK, Call
  <1>3. /\ a \in Pages /\ a = call[t].old.page /\ d \in Desc /\ d # 0 /\ arena[a].desc = d
        /\ lock[d] = t /\ i = blocks_per_arena(d)
    <2>1. a \in Pages /\ a = call[t].old.page
      BY <1>0, <1>1, <1>2, FreedIs
    <2>2. arena[a].desc = d
      BY <1>1 DEF FreeDesc
    <2>3. d \in Desc /\ d # 0
      BY <1>0, <1>1, <1>2, <2>1, <2>2 DEF Locked, HeapTypeOK
    <2>4. i <= blocks_per_arena(d) /\ lock[d] = t /\ ~(i < blocks_per_arena(d))
      BY <1>0, <1>1, <1>2 DEF Locked
    <2>5. i = blocks_per_arena(d)
      BY <1>2, <2>3, <2>4, ArenaRoom
    <2> QED BY <2>1, <2>2, <2>3, <2>4, <2>5
  <1>4. PICK g : g = [first |-> a, cnt |-> 1]
    OBVIOUS
  <1>5. /\ Free(t, g) /\ arena' = [arena EXCEPT ![a] = NoArena]
        /\ call' = [call EXCEPT ![t] = NoCall]
        /\ MGoto(t, "freeing") /\ UNCHANGED <<free_list, lock, live>>
    BY <1>1, <1>4 DEF Unlink, GiveBack
  <1>6. g \in groups /\ g.first = a
    BY <1>4, <1>5 DEF Free
  <1>7. PoolInv'
    BY <1>0, <1>5, <1>6, FreeInv
  <1>8. /\ arena' \in [Pages -> [desc : Desc \cup {0}, free_cnt : Nat]] /\ arena'[a] = NoArena
        /\ \A q \in Pages : q # a => arena'[q] = arena[q]
    BY <1>0, <1>3, <1>5 DEF HeapTypeOK, NoArena
  <1>9. /\ mpc' \in [Thread -> MallocLabel] /\ mpc'[t] = "freeing"
        /\ \A u \in Thread : u # t => mpc'[u] = mpc[u]
    BY <1>0, <1>5, GoesTo DEF MallocLabel
  <1>10. /\ call' \in [Thread -> Call] /\ call'[t] = NoCall
         /\ \A u \in Thread : u # t => call'[u] = call[u]
    BY <1>0, <1>5, NoCallFacts DEF HeapTypeOK
  <1>11. OthersSame(t) /\ groups' = groups \ {g}
    BY <1>0, <1>5, <1>9, <1>10, CallsPalloc DEF OthersSame
  <1>12. HeapTypeOK'
    BY <1>0, <1>5, <1>8, <1>9, <1>10 DEF HeapTypeOK
  <1>13. Shape(t)' /\ Locked(t)'
    BY <1>9, <1>10, NoCallFacts DEF Shape, Locked
  <1>14. HeldOld(t)' = NULL
    BY <1>9 DEF HeldOld, GivenUp
  <1>15. ASSUME NEW x \in Block, x.page = a, NEW j \in Owner, Own(j, x) PROVE j = <<"gone", t>>
    <2>1. InArena(x)
      BY <1>0, <1>15 DEF Places, Valid, Owned
    <2>2. InGone(t, x)
      BY <1>1, <1>2, <1>3, <1>15, <2>1 DEF InArena, InGone
    <2>3. Own(<<"gone", t>>, x) /\ <<"gone", t>> \in Owner
      BY <2>2, OwnIs, OwnerKinds
    <2> QED BY <1>0, <1>15, <2>3 DEF Places, Apart
  <1>16. ASSUME NEW x \in Block
         PROVE  /\ \A n \in Nat : InLive(n, x)' <=> InLive(n, x)
                /\ \A e \in Desc : InList(e, x)' <=> InList(e, x)
                /\ InBlock(t, x)' <=> InBlock(t, x)
                /\ ~InOld(t, x)' /\ ~InOld(t, x)
                /\ ~InGone(t, x)'
                /\ x.page # a => ~InGone(t, x)
    <2>1. InBlock(t, x)' <=> InBlock(t, x)
      BY <1>2, <1>10, NoCallFacts DEF InBlock
    <2> QED BY <1>2, <1>3, <1>5, <1>9, <2>1 DEF InLive, InList, InGone, InOld, GivenUp
  <1>17. ASSUME NEW x \in Block, x.page # a PROVE IsCounted(x)' <=> IsCounted(x)
    <2>1. Pushed(x)' <=> Pushed(x)
      BY <1>2, <1>9, <1>11 DEF Pushed, OthersSame
    <2>2. Popped(x)' <=> Popped(x)
      BY <1>2, <1>9, <1>11 DEF Popped, OthersSame
    <2>3. \A u \in Thread : u # t => (InGone(u, x)' <=> InGone(u, x))
      BY <1>11 DEF InGone, OthersSame
    <2>4. Unlinked(x)' <=> Unlinked(x)
      BY <1>16, <1>17, <2>3 DEF Unlinked
    <2>5. Listed(x)' <=> Listed(x)
      BY <1>16 DEF Listed
    <2> QED BY <2>1, <2>2, <2>4, <2>5 DEF IsCounted
  <1>18. HeapInv'
    <2>1. PICK k : k = <<"gone", t>>
      OBVIOUS
    <2>2. \A x \in Block : x.page = a => Kept(t, {k}, x) /\ ~Own(k, x)'
      BY <1>16, <2>1, OwnIsNext DEF Kept
    <2>3. \A x \in Block : x.page # a => Kept(t, {}, x) /\ (IsCounted(x)' <=> IsCounted(x))
      BY <1>16, <1>17 DEF Kept
    <2>4. \A q \in Pages : q # a => ~FullFor(t, q)
      BY <1>2, <1>3 DEF FullFor
    <2>5. k \in {<<"old", t>>, <<"gone", t>>} /\ \A x \in Block : x.page = a =>
            \A j \in Owner : Own(j, x) => j = k
      BY <1>15, <2>1
    <2>6. UNCHANGED <<live, lock, free_list>> /\ (arena[a].desc # 0 => lock[arena[a].desc] = t)
      BY <1>3, <1>5
    <2>7. HeapInv /\ OthersSame(t) /\ HeapTypeOK' /\ a \in Pages /\ arena'[a] = NoArena
      BY <1>0, <1>3, <1>8, <1>11, <1>12
    <2>8. \A q \in Pages : q # a => arena'[q] = arena[q]
      BY <1>8
    <2>9. groups' = groups \ {g} /\ g.first = a
      BY <1>6, <1>11
    <2> QED BY <1>13, <1>14, <2>2, <2>3, <2>4, <2>5, <2>6, <2>7, <2>8, <2>9, Dropped
  <1> QED BY <1>7, <1>18 DEF MallocInv

-----------------------------------------------------------------------------
(* The invariant holds for ever.                                           *)

\* malloc_init() establishes the invariant.
LEMMA MallocInitInv == ASSUME MallocInit PROVE MallocInv
  <1>0. /\ Init /\ arena = [p \in Pages |-> NoArena] /\ free_list = [d \in Desc |-> << >>]
        /\ lock = [d \in Desc |-> NULL] /\ live = {} /\ mpc = [t \in Thread |-> "out"]
        /\ call = [t \in Thread |-> NoCall]
    BY DEF MallocInit
  <1>1. PoolInv
    BY <1>0, PallocInitInv DEF PallocInv
  <1>2. HeapTypeOK
    BY <1>0, NoCallFacts DEF HeapTypeOK, MallocLabel, NoArena
  <1>3. /\ \A p \in Pages : arena[p] = NoArena /\ arena[p].desc = 0 /\ arena[p].free_cnt = 0
        /\ \A d \in Desc : free_list[d] = << >>
        /\ \A t \in Thread : mpc[t] = "out" /\ call[t] = NoCall
    BY <1>0 DEF NoArena
  <1>4. Threads
    BY <1>3, NoCallFacts DEF Threads, Shape, Locked
  <1>5. Places
    <2>1. \A x \in Block, d \in Desc : ~InList(d, x)
      BY <1>3 DEF InList, Elems
    <2>2. \A x \in Block, n \in Nat : ~InLive(n, x)
      BY <1>0 DEF InLive
    <2>3. \A x \in Block, t \in Thread : ~InBlock(t, x) /\ ~InOld(t, x) /\ ~InGone(t, x)
      BY <1>3, NoCallFacts, MallocAssumption DEF InBlock, InOld, InGone
    <2>4. \A x \in Block : \A k \in Owner : ~Own(k, x)
      BY <2>1, <2>2, <2>3, OwnIs, OwnerKinds
    <2>5. \A x \in Block : ~InArena(x)
      BY <1>3 DEF InArena, Block
    <2>6. ListsOnce
      BY <1>3 DEF ListsOnce, NoDuplicates
    <2> QED BY <2>1, <2>4, <2>5, <2>6 DEF Places, Apart, Valid, Cover, Owned
  <1>6. Heads /\ Counts /\ Full
    BY <1>3 DEF Heads, Counts, Full
  <1>7. Sizes
    BY <1>0, <1>3, NoCallFacts DEF Sizes
  <1> QED BY <1>1, <1>2, <1>4, <1>5, <1>6, <1>7 DEF MallocInv, HeapInv

\* Every step keeps it.
LEMMA MallocNextInv == ASSUME MallocInv, [MallocNext]_mvars PROVE MallocInv'
  <1>1. CASE UNCHANGED mvars
    BY <1>1, MallocStutterInv
  <1>2. CASE MallocNext
    <2> PICK t \in Thread :
          \/ \E n \in Size : malloc(t, n) \/ realloc(t, n)
          \/ \E p \in CallocArg : calloc(t, p[1], p[2])
          \/ free(t)
          \/ LockDesc(t) \/ GotPages(t) \/ NoPages(t) \/ PopBlock(t) \/ CountTaken(t)
          \/ MallocReturns(t) \/ MallocFails(t)
          \/ FreeBlock(t) \/ Recount(t) \/ Unlink(t) \/ Released(t)
          \/ PageGet(t) \/ PageGot(t) \/ PageFree(t) \/ PageDone(t)
          \/ PallocStep(t)
      BY <1>2 DEF MallocNext
    <2>1. CASE \/ \E n \in Size : malloc(t, n) \/ realloc(t, n)
               \/ \E p \in CallocArg : calloc(t, p[1], p[2])
               \/ free(t)
      BY <2>1, CallsInv
    <2>2. CASE LockDesc(t)
      BY <2>2, LockDescInv
    <2>3. CASE GotPages(t)
      BY <2>3, GotBigInv, GotSmallInv
    <2>4. CASE NoPages(t)
      BY <2>4, NoPagesInv
    <2>5. CASE PopBlock(t)
      BY <2>5, PopBlockInv
    <2>6. CASE CountTaken(t)
      BY <2>6, CountTakenInv
    <2>7. CASE MallocReturns(t)
      BY <2>7, MallocReturnsInv
    <2>8. CASE MallocFails(t)
      BY <2>8, MallocFailsInv
    <2>9. CASE FreeBlock(t)
      BY <2>9, FreeSmallInv, FreeBigInv
    <2>10. CASE Recount(t)
      BY <2>10, RecountInv
    <2>11. CASE Unlink(t)
      BY <2>11, UnlinkNextInv, GiveBackInv
    <2>12. CASE Released(t)
      BY <2>12, ReleasedInv
    <2>13. CASE PageGet(t) \/ PageGot(t) \/ PageFree(t) \/ PageDone(t)
      BY <2>13, PageGetInv, PageGotInv, PageFreeInv, PageDoneInv
    <2>14. CASE PallocStep(t)
      BY <2>14, PallocStepInv
    <2> QED BY <2>1, <2>2, <2>3, <2>4, <2>5, <2>6, <2>7, <2>8, <2>9,
               <2>10, <2>11, <2>12, <2>13, <2>14
  <1> QED BY <1>1, <1>2

(* The inductive invariant of malloc.c over palloc.c holds in every state. *)
THEOREM MallocInvariant == MallocSpec => []MallocInv
  <1>1. MallocInit => MallocInv
    BY MallocInitInv
  <1>2. MallocInv /\ [MallocNext]_mvars => MallocInv'
    BY MallocNextInv
  <1> QED BY <1>1, <1>2, PTL DEF MallocSpec

(* Palloc gives no page out twice to malloc.c and its other callers: the   *)
(* page allocator's own guarantee, for the callers the kernel really has.  *)
THEOREM PagesGivenOnceToMalloc == MallocSpec => []NoDoubleAllocation
  <1>1. MallocInv => NoDoubleAllocation
    BY DEF MallocInv, PoolInv
  <1> QED BY <1>1, MallocInvariant, PTL

(* The bitmap stays exact over malloc.c: no page leaks when an arena or a  *)
(* big block is given back, and palloc_free_multiple()'s ASSERT holds.     *)
THEOREM BitmapExactOverMalloc == MallocSpec => []UsedMapExact
  <1>1. MallocInv => UsedMapExact
    BY MapIsExact DEF MallocInv
  <1> QED BY <1>1, MallocInvariant, PTL

(* BigEnough for all sizes: a block has the bytes that were asked for if   *)
(* the request and an arena header together stay below Word.               *)
THEOREM BlocksBigEnough == MallocSpec => []BigEnough
  <1>1. MallocInv => BigEnough
    BY DEF MallocInv, HeapInv, Sizes, Good, BigEnough
  <1> QED BY <1>1, MallocInvariant, PTL

-----------------------------------------------------------------------------
(* Blocks in use do not overlap.                                           *)

\* Multiples of c.
LEMMA Multiples ==
  ASSUME NEW a \in Nat, NEW b \in Nat, NEW c \in Nat, a <= b
  PROVE  /\ a * c <= b * c /\ a * c \in Nat /\ b * c \in Nat
         /\ (a + 1) * c = (a * c) + c /\ c * a = a * c
  <1>1. PICK k \in Nat : b = a + k
    <2>1. b - a \in Nat /\ b = a + (b - a)
      OBVIOUS
    <2> QED BY <2>1
  <1>2. b * c = (a * c) + (k * c)
    BY <1>1
  <1>3. a * c \in Nat /\ k * c \in Nat /\ b * c \in Nat
    OBVIOUS
  <1> QED BY <1>2, <1>3

\* Numbers of a page and of a block.
InUseOf(b) == b.page \in Pages /\ b.idx \in Nat /\ InArena(b)

\* A block lies in the pages of its group, behind the header.
LEMMA ExtentBounds ==
  ASSUME HeapTypeOK, NEW b, InUseOf(b), NEW i \in Extent(b),
         NEW n, n = GroupOf(b.page).cnt
  PROVE  /\ i \in Nat /\ n \in Nat
         /\ (b.page * PGSIZE) + ARENA_SIZE <= i
         /\ i < (b.page + n) * PGSIZE
         /\ arena[b.page].desc # 0 =>
              /\ (b.page * PGSIZE) + ARENA_SIZE + (b.idx * block_size[arena[b.page].desc]) <= i
              /\ i < (b.page * PGSIZE) + ARENA_SIZE + ((b.idx + 1) * block_size[arena[b.page].desc])
  <1>1. PICK p, j, d, m : p = b.page /\ j = b.idx /\ d = arena[p].desc /\ m = arena[p].free_cnt
    OBVIOUS
  <1>2. p \in Pages /\ p \in Nat /\ j \in Nat /\ d \in Desc \cup {0} /\ m \in Nat
    BY <1>1, PagesNat DEF InUseOf, HeapTypeOK
  <1>3. PGSIZE \in Nat \ {0} /\ ARENA_SIZE \in Nat
    BY MallocAssumption
  <1>4. PICK base : base = p * PGSIZE
    OBVIOUS
  <1>5. base \in Nat /\ PGSIZE * p = base
    BY <1>2, <1>3, <1>4, Multiples
  <1>6. CASE d # 0
    <2>1. d \in Desc
      BY <1>2, <1>6
    <2>2. PICK s, k : s = block_size[d] /\ k = blocks_per_arena(d)
      OBVIOUS
    <2>3. s \in Nat \ {0} /\ k \in Nat /\ (k * s) + ARENA_SIZE <= PGSIZE
      BY <2>1, <2>2, ArenaRoom
    <2>4. j < k /\ n = 1
      BY <1>1, <1>6, <2>2 DEF InUseOf, InArena, GroupOf
    <2>5. PICK w : w = j * s
      OBVIOUS
    <2>6. w \in Nat /\ (j + 1) * s = w + s /\ w + s <= k * s /\ k * s \in Nat
      <3>1. j + 1 \in Nat /\ j + 1 <= k
        BY <1>2, <2>3, <2>4
      <3>2. (j + 1) * s <= k * s /\ k * s \in Nat
        BY <2>3, <3>1, Multiples
      <3>3. w \in Nat /\ (j + 1) * s = w + s
        BY <1>2, <2>3, <2>5, Multiples
      <3> QED BY <3>2, <3>3
    <2>7. Usable(b) = s
      BY <1>1, <1>6, <2>2 DEF Usable
    <2>8. i \in (base + ARENA_SIZE + w)..(base + ARENA_SIZE + w + s - 1)
      BY <1>1, <1>5, <2>5, <2>7 DEF Extent
    <2>9. i \in Nat /\ base + ARENA_SIZE + w <= i /\ i < base + ARENA_SIZE + w + s
      BY <1>3, <1>5, <2>3, <2>6, <2>8
    <2>10. (p + n) * PGSIZE = base + PGSIZE
      BY <1>2, <1>3, <1>4, <2>4, Multiples
    <2>11. base + ARENA_SIZE <= i /\ i < base + PGSIZE
      BY <1>3, <1>5, <2>3, <2>6, <2>9
    <2>12. /\ (p * PGSIZE) + ARENA_SIZE <= i /\ i < (p + n) * PGSIZE
           /\ (p * PGSIZE) + ARENA_SIZE + (j * s) <= i
           /\ i < (p * PGSIZE) + ARENA_SIZE + ((j + 1) * s)
      <3>1. base + ARENA_SIZE + ((j + 1) * s) = base + ARENA_SIZE + w + s
        BY <1>3, <1>5, <2>3, <2>6
      <3> QED BY <1>4, <2>5, <2>9, <2>10, <2>11, <3>1
    <2> QED BY <1>1, <2>2, <2>4, <2>9, <2>12
  <1>7. CASE d = 0
    <2>1. j = 0 /\ m > 0 /\ n = m
      BY <1>1, <1>7 DEF InUseOf, InArena, GroupOf
    <2>2. PICK w : w = m * PGSIZE
      OBVIOUS
    <2>3. w \in Nat /\ PGSIZE * m = w /\ PGSIZE <= w
      <3>1. 1 * PGSIZE <= m * PGSIZE
        BY <1>2, <1>3, <2>1, Multiples
      <3> QED BY <1>2, <1>3, <2>2, <3>1, Multiples
    <2>4. Usable(b) = w - ARENA_SIZE
      BY <1>1, <1>7, <2>3 DEF Usable
    <2>5. LET from == base + ARENA_SIZE + (0 * (w - ARENA_SIZE))
          IN  i \in from..(from + (w - ARENA_SIZE) - 1)
      BY <1>1, <1>5, <2>1, <2>4 DEF Extent
    <2>6. 0 * (w - ARENA_SIZE) = 0
      BY <1>3, <2>3
    <2>7. i \in Nat /\ base + ARENA_SIZE <= i /\ i < base + w
      BY <1>3, <1>5, <2>3, <2>5, <2>6
    <2>8. (p + n) * PGSIZE = base + w
      BY <1>2, <1>3, <1>4, <2>1, <2>2
    <2> QED BY <1>1, <1>2, <1>4, <1>7, <2>1, <2>7, <2>8
  <1> QED BY <1>6, <1>7

\* The page of each byte of a block is one of its group.
LEMMA ExtentPages ==
  ASSUME MallocInv, NEW b, InUseOf(b), NEW i \in Extent(b)
  PROVE  GroupOf(b.page) \in groups /\ (i \div PGSIZE) \in PagesOf(GroupOf(b.page))
  <1>0. HeapTypeOK /\ Heads /\ InPool
    BY DEF MallocInv, HeapInv, PoolInv
  <1>1. PICK p, n, q : p = b.page /\ n = GroupOf(p).cnt /\ q = i \div PGSIZE
    OBVIOUS
  <1>2. /\ i \in Nat /\ n \in Nat /\ p \in Nat /\ p \in Pages
        /\ (p * PGSIZE) + ARENA_SIZE <= i /\ i < (p + n) * PGSIZE
    BY <1>0, <1>1, ExtentBounds, PagesNat DEF InUseOf
  <1>3. PGSIZE \in Nat \ {0} /\ ARENA_SIZE \in Nat
    BY MallocAssumption
  <1>4. arena[p] # NoArena
    BY <1>1 DEF InUseOf, InArena, NoArena
  <1>5. GroupOf(p) \in groups /\ GroupOf(p).first = p
    BY <1>0, <1>2, <1>4 DEF Heads, GroupOf
  <1>6. p + n <= PageCnt
    BY <1>0, <1>1, <1>5 DEF InPool
  <1>7. q \in Nat /\ q * PGSIZE <= i /\ i < (q + 1) * PGSIZE
    BY <1>1, <1>2, <1>3, Quotient
  <1>8. p <= q
    <2> SUFFICES ASSUME ~(p <= q) PROVE FALSE
      OBVIOUS
    <2>1. q + 1 \in Nat /\ q + 1 <= p
      BY <1>2, <1>7
    <2>2. (q + 1) * PGSIZE <= p * PGSIZE
      BY <1>2, <1>3, <2>1, Multiples
    <2> QED BY <1>2, <1>3, <1>7, <2>2
  <1>9. q < p + n
    <2> SUFFICES ASSUME ~(q < p + n) PROVE FALSE
      OBVIOUS
    <2>1. (p + n) * PGSIZE <= q * PGSIZE
      BY <1>2, <1>3, <1>7, Multiples
    <2> QED BY <1>2, <1>3, <1>7, <2>1
  <1>10. q \in Pages
    BY <1>2, <1>6, <1>7, <1>9, PagesNat, PallocAssumption
  <1> QED BY <1>1, <1>5, <1>8, <1>9, <1>10 DEF PagesOf

\* Two groups that share a page are one.
LEMMA SameGroup ==
  ASSUME MallocInv, NEW p, NEW q, GroupOf(p) \in groups, GroupOf(q) \in groups,
         NEW r \in PagesOf(GroupOf(p)), r \in PagesOf(GroupOf(q))
  PROVE  p = q
  <1>1. GroupOf(p) = GroupOf(q)
    BY DEF MallocInv, PoolInv, NoDoubleAllocation
  <1>2. GroupOf(p).first = p /\ GroupOf(q).first = q
    BY DEF GroupOf
  <1> QED BY <1>1, <1>2

\* A block keeps off the headers.
LEMMA ExtentHeader ==
  ASSUME MallocInv, NEW b, InUseOf(b), NEW p \in Pages, arena[p] # NoArena
  PROVE  Extent(b) \cap (PGSIZE * p)..((PGSIZE * p) + ARENA_SIZE - 1) = {}
  <1> SUFFICES ASSUME NEW i \in Extent(b), i \in (PGSIZE * p)..((PGSIZE * p) + ARENA_SIZE - 1)
               PROVE  FALSE
    OBVIOUS
  <1>0. HeapTypeOK /\ Heads /\ TypeOK
    BY DEF MallocInv, HeapInv, PoolInv
  <1>1. PGSIZE \in Nat \ {0} /\ ARENA_SIZE \in Nat /\ ARENA_SIZE <= PGSIZE
    <2>1. PGSIZE \in Nat \ {0} /\ ARENA_SIZE \in Nat /\ ARENA_SIZE <= PGSIZE \div 2
      BY MallocAssumption
    <2> QED BY <2>1
  <1>2. p \in Nat /\ i \in Nat /\ (b.page * PGSIZE) + ARENA_SIZE <= i
    BY <1>0, ExtentBounds, PagesNat
  <1>3. PICK base : base = p * PGSIZE
    OBVIOUS
  <1>4. base \in Nat /\ PGSIZE * p = base /\ (p + 1) * PGSIZE = base + PGSIZE
    BY <1>1, <1>2, <1>3, Multiples
  <1>5. base <= i /\ i < base + ARENA_SIZE
    BY <1>1, <1>2, <1>4
  <1>6. i \div PGSIZE = p
    <2>1. p * PGSIZE <= i /\ i < (p + 1) * PGSIZE
      BY <1>1, <1>2, <1>3, <1>4, <1>5
    <2> QED BY <1>1, <1>2, <2>1, QuotientIs
  <1>7. GroupOf(b.page) \in groups /\ p \in PagesOf(GroupOf(b.page))
    BY <1>6, ExtentPages
  <1>8. GroupOf(p) \in groups /\ GroupOf(p).first = p
    BY <1>0 DEF Heads, GroupOf
  <1>9. p \in PagesOf(GroupOf(p))
    <2>1. GroupOf(p).cnt \in 1..MaxRequest
      BY <1>0, <1>8 DEF TypeOK, Group
    <2> QED BY <1>2, <1>8, <2>1, PallocAssumption DEF PagesOf
  <1>10. b.page = p
    BY <1>7, <1>8, <1>9, SameGroup
  <1> QED BY <1>1, <1>2, <1>3, <1>4, <1>5, <1>10

\* Blocks of different places do not overlap.
LEMMA ExtentsApart ==
  ASSUME MallocInv, NEW b, NEW c, InUseOf(b), InUseOf(c), b.page # c.page \/ b.idx # c.idx
  PROVE  Extent(b) \cap Extent(c) = {}
  <1> SUFFICES ASSUME NEW i \in Extent(b), i \in Extent(c) PROVE FALSE
    OBVIOUS
  <1>0. HeapTypeOK
    BY DEF MallocInv, HeapInv
  <1>1. b.page = c.page
    BY ExtentPages, SameGroup
  <1>2. PICK p, d, j, k : p = b.page /\ p = c.page /\ d = arena[p].desc /\ j = b.idx /\ k = c.idx
    BY <1>1
  <1>3. p \in Pages /\ p \in Nat /\ d \in Desc \cup {0} /\ j \in Nat /\ k \in Nat /\ j # k
    BY <1>0, <1>2, PagesNat DEF InUseOf, HeapTypeOK
  <1>4. d # 0
    BY <1>2, <1>3 DEF InUseOf, InArena
  <1>5. PICK s, base : s = block_size[d] /\ base = (p * PGSIZE) + ARENA_SIZE
    OBVIOUS
  <1>6. s \in Nat \ {0}
    <2>1. d \in Desc
      BY <1>3, <1>4
    <2> QED BY <1>5, <2>1, ArenaRoom
  <1>7. base \in Nat
    <2>1. PGSIZE \in Nat /\ ARENA_SIZE \in Nat
      BY MallocAssumption
    <2>2. p * PGSIZE \in Nat
      BY <1>3, <2>1, Multiples
    <2> QED BY <1>5, <2>1, <2>2
  <1>8. /\ i \in Nat
        /\ base + (j * s) <= i /\ i < base + ((j + 1) * s)
        /\ base + (k * s) <= i /\ i < base + ((k + 1) * s)
    <2>1. PICK n : n = GroupOf(p).cnt
      OBVIOUS
    <2>2. /\ i \in Nat
          /\ (p * PGSIZE) + ARENA_SIZE + (j * block_size[d]) <= i
          /\ i < (p * PGSIZE) + ARENA_SIZE + ((j + 1) * block_size[d])
      BY <1>0, <1>2, <1>4, <2>1, ExtentBounds
    <2>3. /\ (p * PGSIZE) + ARENA_SIZE + (k * block_size[d]) <= i
          /\ i < (p * PGSIZE) + ARENA_SIZE + ((k + 1) * block_size[d])
      BY <1>0, <1>2, <1>4, <2>1, ExtentBounds
    <2> QED BY <1>5, <2>2, <2>3
  <1>9. PICK m : m = i - base
    OBVIOUS
  <1>10. /\ j * s \in Nat /\ (j + 1) * s \in Nat
         /\ k * s \in Nat /\ (k + 1) * s \in Nat
    <2>1. j + 1 \in Nat /\ k + 1 \in Nat
      BY <1>3
    <2> QED BY <1>3, <1>6, <2>1, Multiples
  <1>11. /\ m \in Nat
         /\ j * s <= m /\ m < (j + 1) * s
         /\ k * s <= m /\ m < (k + 1) * s
    BY <1>7, <1>8, <1>9, <1>10
  <1>12. m \div s = j /\ m \div s = k
    BY <1>3, <1>6, <1>11, QuotientIs
  <1> QED BY <1>3, <1>12

\* What is in use: the owner of its place.
LEMMA InUseOwned ==
  ASSUME HeapTypeOK
  PROVE  /\ \A b \in live : /\ b.page \in Pages /\ b.idx \in Nat /\ At0(b) \in Block
                           /\ b.asked \in Nat /\ Own(<<"live", b.asked>>, At0(b))
         /\ \A t \in Thread : \A b \in InHand(t) :
              /\ b.page \in Pages /\ b.idx \in Nat /\ At0(b) \in Block
              /\ \E k \in {<<"block", t>>, <<"old", t>>} : Own(k, At0(b))
  <1>1. ASSUME NEW b \in live
        PROVE  /\ b.page \in Pages /\ b.idx \in Nat /\ At0(b) \in Block
               /\ b.asked \in Nat /\ Own(<<"live", b.asked>>, At0(b))
    <2>1. b \in LiveBlock
      BY DEF HeapTypeOK
    <2>2. InLive(b.asked, At0(b)) /\ b.asked \in Nat
      BY LiveOwns DEF HeapTypeOK
    <2> QED BY <2>1, <2>2, PlaceOf, OwnIs DEF LiveBlock
  <1>2. ASSUME NEW t \in Thread, NEW b \in InHand(t)
        PROVE  /\ b.page \in Pages /\ b.idx \in Nat /\ At0(b) \in Block
               /\ \E k \in {<<"block", t>>, <<"old", t>>} : Own(k, At0(b))
    <2>1. b # NULL /\ (b = call[t].block \/ b = HeldOld(t))
      BY DEF InHand, HeldOld, GivenUp
    <2>2. CASE b = call[t].block
      <3>1. b \in Block
        BY <2>1, <2>2 DEF HeapTypeOK, Call
      <3>2. At0(b) = b
        BY <3>1, PlaceOf
      <3>3. Own(<<"block", t>>, At0(b))
        BY <2>2, <3>2, OwnIs DEF InBlock
      <3> QED BY <3>1, <3>2, <3>3 DEF Block
    <2>3. CASE b = HeldOld(t)
      <3>1. b \in LiveBlock
        BY <2>1, <2>3, HeldOldIs DEF HeapTypeOK, Call
      <3>2. Own(<<"old", t>>, At0(b))
        BY <2>1, <2>3, HeldOldIs, OwnIs
      <3> QED BY <3>1, <3>2, PlaceOf DEF LiveBlock
    <2> QED BY <2>1, <2>2, <2>3
  <1> QED BY <1>1, <1>2

\* Places of different owners are different.
LEMMA OwnersApart ==
  ASSUME Places, NEW j \in Owner, NEW k \in Owner, j # k, NEW b, NEW c,
         At0(b) \in Block, At0(c) \in Block, Own(j, At0(b)), Own(k, At0(c))
  PROVE  b.page # c.page \/ b.idx # c.idx
  <1>1. At0(b) # At0(c)
    BY DEF Places, Apart
  <1> QED BY <1>1 DEF At0

\* A block in use lies in an arena.
LEMMA InUseValid ==
  ASSUME HeapTypeOK, Places, NEW b \in InUse
  PROVE  InUseOf(b)
  <1>1. b.page \in Pages /\ b.idx \in Nat /\ At0(b) \in Block /\ Owned(At0(b))
    <2>1. CASE b \in live
      BY <2>1, InUseOwned, OwnerKinds DEF Owned
    <2>2. ASSUME NEW t \in Thread, b \in InHand(t)
          PROVE  b.page \in Pages /\ b.idx \in Nat /\ At0(b) \in Block /\ Owned(At0(b))
      BY <2>2, InUseOwned, OwnerKinds DEF Owned
    <2>3. b \in live \/ \E t \in Thread : b \in InHand(t)
      BY DEF InUse
    <2> QED BY <2>1, <2>2, <2>3
  <1>2. InArena(At0(b))
    BY <1>1 DEF Places, Valid
  <1>3. At0(b).page = b.page /\ At0(b).idx = b.idx
    BY DEF At0
  <1> QED BY <1>1, <1>2, <1>3 DEF InUseOf, InArena

(* LiveBlocksSafe for all sizes and any number of threads: a block in use  *)
(* overlaps no other and no arena header and lies in allocated pages, so   *)
(* free() gives no arena back under a thread that has a block of it.       *)
THEOREM BlocksNeverOverlap == MallocSpec => []LiveBlocksSafe
  <1>1. ASSUME MallocInv PROVE LiveBlocksSafe
    <2>0. HeapTypeOK /\ Places /\ Heads
      BY <1>1 DEF MallocInv, HeapInv
    <2>1. ASSUME NEW b \in InUse
          PROVE  /\ \E g \in groups : g.first = b.page
                 /\ \A i \in Extent(b) : \E g \in groups : (i \div PGSIZE) \in PagesOf(g)
                 /\ \A p \in Pages : arena[p] # NoArena =>
                       Extent(b) \cap (PGSIZE * p)..((PGSIZE * p) + ARENA_SIZE - 1) = {}
      <3>1. InUseOf(b)
        BY <2>0, InUseValid
      <3>2. arena[b.page] # NoArena /\ b.page \in Pages
        BY <3>1 DEF InUseOf, InArena, NoArena
      <3>3. GroupOf(b.page) \in groups /\ GroupOf(b.page).first = b.page
        BY <2>0, <3>2 DEF Heads, GroupOf
      <3> QED BY <1>1, <3>1, <3>3, ExtentPages, ExtentHeader
    <2>2. ASSUME NEW b \in live, NEW c \in live, b # c PROVE Extent(b) \cap Extent(c) = {}
      <3>1. InUseOf(b) /\ InUseOf(c)
        BY <2>0, InUseValid DEF InUse
      <3>2. b.page # c.page \/ b.idx # c.idx
        <4>1. b \in LiveBlock /\ c \in LiveBlock
          BY <2>0 DEF HeapTypeOK
        <4>2. CASE b.asked = c.asked
          BY <2>2, <4>1, <4>2, PlaceOf
        <4>3. CASE b.asked # c.asked
          <5>1. PICK j, k : j = <<"live", b.asked>> /\ k = <<"live", c.asked>>
            OBVIOUS
          <5>2. j # k /\ j \in Owner /\ k \in Owner
            BY <2>0, <4>3, <5>1, InUseOwned, OwnerKinds
          <5>3. Own(j, At0(b)) /\ Own(k, At0(c)) /\ At0(b) \in Block /\ At0(c) \in Block
            BY <2>0, <5>1, InUseOwned
          <5> QED BY <2>0, <5>2, <5>3, OwnersApart
        <4> QED BY <4>2, <4>3
      <3> QED BY <1>1, <3>1, <3>2, ExtentsApart
    <2>3. ASSUME NEW t \in Thread, NEW b \in InHand(t), NEW c \in InUse,
                 c \in live \/ \E u \in Thread \ {t} : c \in InHand(u)
          PROVE  Extent(b) \cap Extent(c) = {}
      <3>1. InUseOf(b) /\ InUseOf(c)
        BY <2>0, InUseValid DEF InUse
      <3>2. PICK j \in {<<"block", t>>, <<"old", t>>} : Own(j, At0(b))
        BY <2>0, InUseOwned
      <3>3. j \in Owner /\ At0(b) \in Block /\ At0(c) \in Block
        BY <2>0, <2>3, InUseOwned, OwnerKinds
      <3>4. PICK k \in Owner : k # j /\ Own(k, At0(c))
        <4>1. CASE c \in live
          <5>1. <<"live", c.asked>> \in Owner /\ Own(<<"live", c.asked>>, At0(c))
            BY <2>0, <4>1, InUseOwned, OwnerKinds
          <5> QED BY <5>1
        <4>2. CASE \E u \in Thread \ {t} : c \in InHand(u)
          <5>1. PICK u \in Thread : u # t /\ c \in InHand(u)
            BY <4>2
          <5>2. PICK k \in {<<"block", u>>, <<"old", u>>} : Own(k, At0(c))
            BY <2>0, <5>1, InUseOwned
          <5>3. k \in Owner
            BY OwnerKinds
          <5>4. k[2] = u /\ j[2] = t
            OBVIOUS
          <5> QED BY <5>1, <5>2, <5>3, <5>4
        <4> QED BY <2>3, <4>1, <4>2
      <3>5. b.page # c.page \/ b.idx # c.idx
        BY <2>0, <3>2, <3>3, <3>4, OwnersApart
      <3> QED BY <1>1, <3>1, <3>5, ExtentsApart
    <2> QED BY <2>1, <2>2, <2>3 DEF LiveBlocksSafe
  <1> QED BY <1>1, MallocInvariant, PTL

-----------------------------------------------------------------------------
(* The free lists while nobody has them locked.                            *)

\* While a lock is free, the blocks free_cnt counts are those on the list.
LEMMA CountedFree ==
  ASSUME HeapInv, NEW d \in Desc, lock[d] = NULL, NEW p \in Pages, arena[p].desc = d
  PROVE  /\ \A x \in Block : x.page = p => (IsCounted(x) <=> InList(d, x))
         /\ \A t \in Thread : ~FullFor(t, p)
         /\ \A t \in Thread, x \in Block : x.page = p => ~InGone(t, x)
  <1>0. HeapTypeOK /\ Threads /\ Places
    BY DEF HeapInv
  <1>1. d # 0 /\ \A u \in Thread : lock[d] # u
    BY ArenaRoom, PallocAssumption
  <1>2. ASSUME NEW u \in Thread, mpc[u] \in {"pages", "pop", "count"} PROVE MyDesc(u) # d
    BY <1>0, <1>1, <1>2 DEF Threads, Locked
  <1>3. ASSUME NEW u \in Thread, mpc[u] \in {"recount", "unlink"}
        PROVE  call[u].old.page # p
    <2>1. FreeDesc(u) # d
      BY <1>0, <1>1, <1>3 DEF Threads, Locked
    <2>2. Freed(u).page = call[u].old.page
      BY DEF Freed
    <2> QED BY <2>1, <2>2 DEF FreeDesc
  <1>4. ASSUME NEW u \in Thread, mpc[u] = "count" PROVE call[u].block.page # p
    <2>1. arena[call[u].block.page].desc = MyDesc(u)
      BY <1>0, <1>4 DEF Threads, Shape
    <2> QED BY <1>2, <1>4, <2>1
  <1>5. ASSUME NEW x \in Block, x.page = p
        PROVE  /\ IsCounted(x) <=> InList(d, x)
               /\ \A t \in Thread : ~InGone(t, x)
    <2>1. ~Pushed(x)
      BY <1>3, <1>5 DEF Pushed, At0
    <2>2. ~Popped(x)
      BY <1>4, <1>5 DEF Popped
    <2>3. \A t \in Thread : ~InGone(t, x)
      BY <1>3, <1>5 DEF InGone
    <2>4. Listed(x) <=> InList(d, x)
      BY <1>0, <1>5 DEF Listed, Places, Valid
    <2> QED BY <2>1, <2>2, <2>3, <2>4 DEF IsCounted, Unlinked
  <1>6. \A t \in Thread : ~FullFor(t, p)
    BY <1>2, <1>3, <1>4 DEF FullFor
  <1> QED BY <1>5, <1>6

\* A block in use has its place owned, and conversely.
LEMMA UsedPlaces ==
  ASSUME HeapTypeOK, NEW x \in Block
  PROVE  (\E b \in InUse : At0(b) = x) <=>
           \E k \in Owner : k[1] \in {"live", "block", "old"} /\ Own(k, x)
  <1>1. ASSUME NEW b \in InUse, At0(b) = x
        PROVE  \E k \in Owner : k[1] \in {"live", "block", "old"} /\ Own(k, x)
    <2>1. CASE b \in live
      <3>1. <<"live", b.asked>> \in Owner /\ Own(<<"live", b.asked>>, x)
        BY <1>1, <2>1, InUseOwned, OwnerKinds
      <3> QED BY <3>1
    <2>2. ASSUME NEW t \in Thread, b \in InHand(t)
          PROVE  \E k \in Owner : k[1] \in {"live", "block", "old"} /\ Own(k, x)
      <3>1. PICK k \in {<<"block", t>>, <<"old", t>>} : Own(k, x)
        BY <1>1, <2>2, InUseOwned
      <3>2. k \in Owner
        BY OwnerKinds
      <3>3. k[1] \in {"live", "block", "old"}
        OBVIOUS
      <3> QED BY <3>1, <3>2, <3>3
    <2>3. b \in live \/ \E t \in Thread : b \in InHand(t)
      BY DEF InUse
    <2> QED BY <2>1, <2>2, <2>3
  <1>2. ASSUME NEW k \in Owner, k[1] \in {"live", "block", "old"}, Own(k, x)
        PROVE  \E b \in InUse : At0(b) = x
    <2>1. CASE \E n \in Nat : k = <<"live", n>>
      <3>1. PICK n \in Nat : InLive(n, x)
        BY <1>2, <2>1, OwnIs
      <3> QED BY <3>1, LiveOwns DEF InUse, HeapTypeOK
    <2>2. CASE \E t \in Thread : k = <<"block", t>>
      <3>1. PICK t \in Thread : call[t].block = x
        BY <1>2, <2>2, OwnIs DEF InBlock
      <3>2. x # NULL /\ At0(x) = x
        BY MallocAssumption, PlaceOf
      <3>3. x \in InHand(t)
        BY <3>1, <3>2 DEF InHand
      <3> QED BY <3>2, <3>3 DEF InUse
    <2>3. CASE \E t \in Thread : k = <<"old", t>>
      <3>1. PICK t \in Thread : InOld(t, x)
        BY <1>2, <2>3, OwnIs
      <3>2. HeldOld(t) # NULL /\ At0(HeldOld(t)) = x
        BY <3>1, HeldOldIs
      <3>3. HeldOld(t) \in InHand(t)
        BY <3>2 DEF InHand, HeldOld, GivenUp
      <3> QED BY <3>2, <3>3 DEF InUse
    <2> QED BY <1>2, <2>1, <2>2, <2>3, OwnerKinds
  <1> QED BY <1>1, <1>2

\* ArenasExact, for one arena.
LEMMA ArenaExact ==
  ASSUME HeapInv, NEW d \in Desc, lock[d] = NULL, NEW p \in Pages, arena[p].desc = d,
         NEW listed, listed = Elems(free_list[d]),
         NEW freeOf, freeOf = {b \in listed : b.page = p}
  PROVE  /\ freeOf \cap {At0(b) : b \in InUse} = {}
         /\ freeOf \cup {At0(b) : b \in {c \in InUse : c.page = p}}
              = {[page |-> p, idx |-> i] : i \in 0..(blocks_per_arena(d) - 1)}
         /\ arena[p].free_cnt = Cardinality(freeOf)
         /\ arena[p].free_cnt < blocks_per_arena(d)
  <1>0. HeapTypeOK /\ Threads /\ Places /\ Counts /\ Full
    BY DEF HeapInv
  <1>1. d # 0 /\ blocks_per_arena(d) \in Nat
    BY ArenaRoom
  <1>2. listed \subseteq Block
    BY <1>0, ElemsOf DEF HeapTypeOK
  <1>3. \A x \in Block : x \in freeOf <=> x.page = p /\ InList(d, x)
    BY DEF InList
  <1>4. freeOf = Counted(p)
    BY <1>2, <1>3, CountedFree DEF Counted
  <1>5. arena[p].free_cnt = Cardinality(freeOf)
    BY <1>0, <1>1, <1>4 DEF Counts
  <1>6. arena[p].free_cnt < blocks_per_arena(d)
    <2>1. ~(arena[p].free_cnt >= blocks_per_arena(d))
      BY <1>0, <1>1, CountedFree DEF Full
    <2>2. arena[p].free_cnt \in Nat
      BY <1>0 DEF HeapTypeOK
    <2> QED BY <1>1, <2>1, <2>2
  <1>7. ASSUME NEW x \in Block, x.page = p
        PROVE  /\ ~(InList(d, x) /\ \E b \in InUse : At0(b) = x)
               /\ InList(d, x) \/ (\E b \in InUse : At0(b) = x) <=> x.idx < blocks_per_arena(d)
    <2>1. \A k \in Owner : k[1] \in {"live", "block", "old"} /\ Own(k, x) => ~InList(d, x)
      <3>1. <<"list", d>> \in Owner /\ (Own(<<"list", d>>, x) <=> InList(d, x))
        BY OwnIs, OwnerKinds
      <3>2. \A k \in Owner : k[1] \in {"live", "block", "old"} => k # <<"list", d>>
        OBVIOUS
      <3> QED BY <1>0, <3>1, <3>2 DEF Places, Apart
    <2>2. Owned(x) <=> InList(d, x) \/ \E k \in Owner : k[1] \in {"live", "block", "old"} /\ Own(k, x)
      <3>1. ASSUME NEW k \in Owner, Own(k, x), k[1] \notin {"live", "block", "old"}
            PROVE  InList(d, x)
        <4>1. CASE \E e \in Desc : k = <<"list", e>>
          <5>1. PICK e \in Desc : InList(e, x)
            BY <3>1, <4>1, OwnIs
          <5>2. e = d
            BY <1>0, <1>7, <5>1 DEF Places, Valid
          <5> QED BY <5>1, <5>2
        <4>2. CASE \E t \in Thread : k = <<"gone", t>>
          BY <1>7, <3>1, <4>2, CountedFree, OwnIs
        <4> QED BY <3>1, <4>1, <4>2, OwnerKinds
      <3>2. <<"list", d>> \in Owner /\ (Own(<<"list", d>>, x) <=> InList(d, x))
        BY OwnIs, OwnerKinds
      <3> QED BY <3>1, <3>2 DEF Owned
    <2>3. InArena(x) <=> x.idx < blocks_per_arena(d)
      BY <1>1, <1>7 DEF InArena
    <2>4. Owned(x) <=> InArena(x)
      BY <1>0, <1>1, <1>7 DEF Places, Valid, Cover
    <2> QED BY <1>0, <2>1, <2>2, <2>3, <2>4, UsedPlaces
  <1>8. freeOf \cap {At0(b) : b \in InUse} = {}
    <2> SUFFICES ASSUME NEW x \in freeOf, NEW b \in InUse, x = At0(b) PROVE FALSE
      OBVIOUS
    <2>1. x \in Block /\ x.page = p /\ InList(d, x)
      BY <1>2, <1>3
    <2> QED BY <1>7, <2>1
  <1>9. ASSUME NEW x
        PROVE  x \in freeOf \cup {At0(b) : b \in {c \in InUse : c.page = p}} <=>
               x \in {[page |-> p, idx |-> i] : i \in 0..(blocks_per_arena(d) - 1)}
    <2>1. x \in {[page |-> p, idx |-> i] : i \in 0..(blocks_per_arena(d) - 1)} <=>
            x \in Block /\ x.page = p /\ x.idx < blocks_per_arena(d)
      BY <1>1 DEF Block
    <2>2. x \in {At0(b) : b \in {c \in InUse : c.page = p}} <=>
            x \in Block /\ x.page = p /\ \E b \in InUse : At0(b) = x
      <3>1. \A b \in InUse : At0(b) \in Block /\ At0(b).page = b.page
        <4> TAKE b \in InUse
        <4>1. b.page \in Pages /\ b.idx \in Nat
          BY <1>0, InUseValid DEF InUseOf
        <4> QED BY <4>1 DEF At0, Block
      <3> QED BY <3>1
    <2> QED BY <1>2, <1>3, <1>7, <2>1, <2>2
  <1> QED BY <1>5, <1>6, <1>8, <1>9

(* ArenasExact for all sizes and any number of threads: while a            *)
(* descriptor's lock is free its list and its arenas agree, so free()'s    *)
(* ASSERT on free_cnt holds, no block of an arena is lost and no arena     *)
(* that is wholly free is kept.                                            *)
THEOREM ListsAndArenasAgree == MallocSpec => []ArenasExact
  <1>1. ASSUME MallocInv PROVE ArenasExact
    <2>0. HeapTypeOK /\ Places /\ HeapInv
      BY <1>1 DEF MallocInv, HeapInv
    <2>1. ASSUME NEW d \in Desc, lock[d] = NULL
          PROVE  LET listed   == {free_list[d][i] : i \in DOMAIN free_list[d]}
                     arenas   == {p \in Pages : arena[p].desc = d}
                     FreeOf(p) == {b \in listed : b.page = p}
                 IN  /\ Cardinality(listed) = Len(free_list[d])
                     /\ \A b \in listed : b.page \in arenas
                     /\ \A p \in arenas :
                          /\ FreeOf(p) \cap {At0(b) : b \in InUse} = {}
                          /\ FreeOf(p) \cup {At0(b) : b \in {c \in InUse : c.page = p}}
                               = {[page |-> p, idx |-> i] : i \in 0..(blocks_per_arena(d) - 1)}
                          /\ arena[p].free_cnt = Cardinality(FreeOf(p))
                          /\ arena[p].free_cnt < blocks_per_arena(d)
      <3> DEFINE listed == {free_list[d][i] : i \in DOMAIN free_list[d]}
                 arenas == {p \in Pages : arena[p].desc = d}
                 FreeOf(p) == {b \in listed : b.page = p}
      <3>1. listed = Elems(free_list[d])
        BY DEF Elems
      <3>2. free_list[d] \in Seq(Block) /\ NoDuplicates(free_list[d])
        BY <2>0 DEF HeapTypeOK, Places, ListsOnce
      <3>3. Cardinality(listed) = Len(free_list[d])
        BY <3>1, <3>2, ListLength
      <3>4. \A b \in listed : b.page \in arenas
        <4> SUFFICES ASSUME NEW b \in Elems(free_list[d]) PROVE b.page \in arenas
          BY <3>1
        <4>1. b \in Block
          BY <3>2, ElemsOf
        <4> QED BY <2>0, <4>1 DEF Places, Valid, InList, Block
      <3>5. ASSUME NEW p \in arenas
            PROVE  /\ FreeOf(p) \cap {At0(b) : b \in InUse} = {}
                   /\ FreeOf(p) \cup {At0(b) : b \in {c \in InUse : c.page = p}}
                        = {[page |-> p, idx |-> i] : i \in 0..(blocks_per_arena(d) - 1)}
                   /\ arena[p].free_cnt = Cardinality(FreeOf(p))
                   /\ arena[p].free_cnt < blocks_per_arena(d)
        <4>1. p \in Pages /\ arena[p].desc = d
          OBVIOUS
        <4> HIDE DEF listed
        <4> QED BY <2>0, <2>1, <3>1, <4>1, ArenaExact
      <3> QED BY <3>3, <3>4, <3>5
    <2> QED BY <2>1 DEF ArenasExact
  <1> QED BY <1>1, MallocInvariant, PTL
=============================================================================
