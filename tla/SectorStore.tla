---------------------------- MODULE SectorStore ----------------------------
(***************************************************************************)
(* What the block layer promises to threads that use it without any        *)
(* locking of their own: every read and every write of a sector takes      *)
(* effect at one moment between its call and its return.                   *)
(***************************************************************************)
CONSTANTS Thread,
          Address,   \* the sectors of all disks
          Data,
          NoCall

VARIABLES store,     \* address -> what is stored there
          call       \* thread -> the call it is in, or NoCall

vars == <<store, call>>

Calls == [op : {"read", "write"}, at : Address, data : Data, done : BOOLEAN]

StoreInit == /\ store \in [Address -> Data]
             /\ call = [t \in Thread |-> NoCall]

\* The data of a read that has not been done is not known yet; it is some value.
Call(t) == /\ call[t] = NoCall
           /\ call' \in {[call EXCEPT ![t] = c] : c \in {k \in Calls : ~k.done}}
           /\ UNCHANGED store

Read(t) == /\ call[t] # NoCall /\ ~call[t].done
           /\ call[t].op = "read"
           /\ call' = [call EXCEPT ![t].done = TRUE, ![t].data = store[call[t].at]]
           /\ UNCHANGED store

Write(t) == /\ call[t] # NoCall /\ ~call[t].done
            /\ call[t].op = "write"
            /\ call' = [call EXCEPT ![t].done = TRUE]
            /\ store' = [store EXCEPT ![call[t].at] = call[t].data]

Return(t) == /\ call[t] # NoCall /\ call[t].done
             /\ call' = [call EXCEPT ![t] = NoCall]
             /\ UNCHANGED store

StoreNext == \E t \in Thread : Call(t) \/ Read(t) \/ Write(t) \/ Return(t)

StoreSpec == StoreInit /\ [][StoreNext]_vars
=============================================================================
