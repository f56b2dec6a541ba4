------------------------------ MODULE MCRWLock ------------------------------
(* RWLock for TLC.                                                         *)
EXTENDS RWLock

MCConds == {"read", "write"}
MCLocks == {Guard}
=============================================================================
