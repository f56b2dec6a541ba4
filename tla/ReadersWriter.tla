---------------------------- MODULE ReadersWriter ----------------------------
(* What a readers-writers lock promises: many readers or one writer.       *)
CONSTANT Client

VARIABLES readers,   \* threads inside as readers
          writers    \* threads inside as writers

RWInit == readers = {} /\ writers = {}

EnterRead(t)  == /\ t \notin readers /\ writers = {}
                 /\ readers' = readers \cup {t} /\ UNCHANGED writers
EnterWrite(t) == /\ readers = {} /\ writers = {}
                 /\ writers' = {t} /\ UNCHANGED readers
LeaveRead(t)  == t \in readers /\ readers' = readers \ {t} /\ UNCHANGED writers
LeaveWrite(t) == t \in writers /\ writers' = writers \ {t} /\ UNCHANGED readers

RWNext == \E t \in Client : EnterRead(t) \/ EnterWrite(t) \/ LeaveRead(t) \/ LeaveWrite(t)

RWSpec == RWInit /\ [][RWNext]_<<readers, writers>>
=============================================================================
