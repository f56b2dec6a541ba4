----------------------------- MODULE MCProcess -----------------------------
(* Process for TLC: eight pages of four bytes, of which six are the user's.*)
EXTENDS Process, TLC

Header(type, offset, vaddr, filesz, memsz) ==
  [type |-> type, offset |-> offset, vaddr |-> vaddr, filesz |-> filesz, memsz |-> memsz]
Code  == Header("load", 0, 4, 4, 4)
Bss   == Header("load", 3, 11, 1, 2)       \* across a page and a table boundary
Top   == Header("load", 0, 20, 3, 3)       \* where the stack goes
Wraps == Header("load", 0, 8, 4, 28)
Page0 == Header("load", 2, 2, 1, 1)
Note  == Header("other", 0, 0, 0, 0)
Dyn   == Header("dynamic", 0, 0, 0, 0)

MCProgram == {<<Note, Code>>, <<Bss>>, <<Code, Code>>, <<Top>>, <<Wraps>>, <<Page0>>, <<Dyn>>}
Symmetry == Permutations(Proc)
=============================================================================
