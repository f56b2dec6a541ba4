-------------------------------- MODULE Fifo --------------------------------
(* A bounded first-in first-out queue: what an interrupt queue promises.   *)
EXTENDS Naturals, Sequences

CONSTANTS Item, Capacity

VARIABLE items

FifoInit == items = << >>
Put(x)   == Len(items) < Capacity /\ items' = Append(items, x)
Get      == items # << >> /\ items' = Tail(items)
FifoNext == Get \/ \E x \in Item : Put(x)
FifoSpec == FifoInit /\ [][FifoNext]_items
=============================================================================
