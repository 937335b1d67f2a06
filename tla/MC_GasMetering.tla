--------------------------- MODULE MC_GasMetering ---------------------------
(* A function shaped like the tests' contracts: an entry block that either *)
(* enters a loop or goes to a return block, and a loop whose body can     *)
(* branch back to itself forever (infinite.wasm of gas_test.rs); the entry *)
(* and the return block grow memory by 0 or 1 page.  The budget pays for  *)
(* one page and then a few dozen instructions.  The return block ends in *)
(* a call of a function with two locals whose body uses 0 or 3 units.    *)
EXTENDS GasMetering

MCBlocks == {"entry", "loop", "ret"}

MCOps(b) == CASE b = "entry" -> <<"op", "grow">>
              [] b = "loop"  -> <<"op">>
              [] b = "ret"   -> <<"op", "grow", "call">>

MCSucc(b) == CASE b = "entry" -> {"loop", "ret"}
                [] b = "loop"  -> {"loop", "entry"}
                [] b = "ret"   -> {"exit"}

=============================================================================
