----------------------------- MODULE GasMetering -----------------------------
(***************************************************************************)
(* One function activation of a module rewritten by GasMeter::            *)
(* transform_default (src/gas_metering/transform.rs) and run by the       *)
(* engine.  The injector (gas_inject, not in the tree; spec §4.7) puts     *)
(* `i64.const <block cost>; call $__instrumented_use_gas` at the head of  *)
(* every basic block; the charge function decrements the per-instance     *)
(* counter and traps with "out of gas" when it would go negative, and the *)
(* engine then reports zero gas left (spec §8 scenario 5).  A memory.grow *)
(* goes through an injected helper that first charges the memory-grow     *)
(* cost times the requested pages; a call first charges the per-local    *)
(* cost times the callee's locals.  pos = 0 is the injected charge at the *)
(* block head; 1..Len(Ops(blk)) are the block's original instructions;   *)
(* Len(Ops(blk))+1 is its closing branch.                                  *)
(***************************************************************************)
EXTENDS Naturals, Sequences

CONSTANTS
    Blocks, Entry, Exit,
    Ops(_),     \* a block's instructions: "op", "grow" (memory.grow), "call"
    Succ(_),    \* the blocks its closing branch can go to, or Exit
    GasLimit,   \* the instance's gas budget
    Pages,        \* page counts a memory.grow can request
    CalleeLocals, \* locals of the function a call invokes
    CalleeUse     \* gas the callee's own metered body may use

BlockLen(b) == Len(Ops(b))

ASSUME Entry \in Blocks /\ Exit \notin Blocks /\ GasLimit \in Nat /\ Pages \subseteq Nat
ASSUME CalleeLocals \in Nat /\ CalleeUse \subseteq Nat
ASSUME \A b \in Blocks : Ops(b) \in Seq({"op", "grow", "call"}) /\ BlockLen(b) > 0
                        /\ Succ(b) \subseteq Blocks \cup {Exit}

\* mem: pages the activation's memory.grow calls have added.
VARIABLES blk, pos, gas, mem, st

vars == <<blk, pos, gas, mem, st>>

\* ConstantCostRules::new(1, 8192, 1) with its arguments swapped.
InstructionCostSwapped == 8192

\* transform_default with no charge per instruction.
InstructionCostZero == 0

\* instruction_cost of the rules transform_default hands to inject.
InstructionCost == 1

\* memory_grow_cost of transform_default's rules left out (MemoryGrowCost::Free).
MemoryGrowCostFree == 0

\* memory_grow_cost of the rules transform_default hands to inject, per page.
MemoryGrowCost == 8192

\* call_per_local_cost of transform_default's rules left out.
CallPerLocalCostFree == 0

\* call_per_local_cost of the rules transform_default hands to inject.
CallPerLocalCost == 1

\* The constant the injector puts before the charge call: the sum of the
\* block's instruction costs.
BlockCost(b) == BlockLen(b) * InstructionCost

Init ==
    /\ blk = Entry
    /\ pos = 0
    /\ gas = GasLimit
    /\ mem = 0
    /\ st = "running"

\* call $__instrumented_use_gas(BlockCost(blk)) at the block head.
UseGas ==
    /\ st = "running"
    /\ pos = 0
    /\ IF gas >= BlockCost(blk)
       THEN /\ gas' = gas - BlockCost(blk)
            /\ pos' = 1
            /\ UNCHANGED st
       ELSE /\ st' = "oog"
            /\ gas' = 0
            /\ UNCHANGED pos
    /\ UNCHANGED <<blk, mem>>

\* The engine executes one original instruction of the block other than
\* memory.grow.
Step ==
    /\ st = "running"
    /\ pos \in 1..BlockLen(blk)
    /\ Ops(blk)[pos] = "op"
    /\ pos' = pos + 1
    /\ UNCHANGED <<blk, gas, mem, st>>

\* memory.grow(pg) through the injected helper: charge MemoryGrowCost * pg
\* with __instrumented_use_gas, trapping like a block charge, then grow.
GrowMemory(pg) ==
    /\ st = "running"
    /\ pos \in 1..BlockLen(blk)
    /\ Ops(blk)[pos] = "grow"
    /\ IF gas >= MemoryGrowCost * pg
       THEN /\ gas' = gas - MemoryGrowCost * pg
            /\ pos' = pos + 1
            /\ mem' = mem + pg
            /\ UNCHANGED st
       ELSE /\ st' = "oog"
            /\ gas' = 0
            /\ UNCHANGED <<pos, mem>>
    /\ UNCHANGED blk

\* A call to a function with CalleeLocals locals: the injected pre-charge
\* of CallPerLocalCost per local, trapping like a block charge; then the
\* callee runs its own metered body on the same counter, using u, and
\* returns, or finds the counter exhausted and traps the whole instance.
CallFunction(u) ==
    /\ st = "running"
    /\ pos \in 1..BlockLen(blk)
    /\ Ops(blk)[pos] = "call"
    /\ IF gas >= CallPerLocalCost * CalleeLocals + u
       THEN /\ gas' = gas - CallPerLocalCost * CalleeLocals - u
            /\ pos' = pos + 1
            /\ UNCHANGED st
       ELSE /\ st' = "oog"
            /\ gas' = 0
            /\ UNCHANGED pos
    /\ UNCHANGED <<blk, mem>>

\* The control instruction that ends the block: a branch to the head of a
\* successor block, or the function's return.
Branch ==
    /\ st = "running"
    /\ pos = BlockLen(blk) + 1
    /\ \E s \in Succ(blk) :
          IF s = Exit
          THEN st' = "done" /\ UNCHANGED <<blk, pos>>
          ELSE blk' = s /\ pos' = 0 /\ UNCHANGED st
    /\ UNCHANGED <<gas, mem>>

\* The instance has stopped; get_gas_left keeps returning gas.
Stopped ==
    /\ st # "running"
    /\ UNCHANGED vars

Next == UseGas \/ Step \/ (\E pg \in Pages : GrowMemory(pg))
        \/ (\E u \in CalleeUse : CallFunction(u)) \/ Branch \/ Stopped

\* The engine runs the instance to completion on the calling thread: it
\* never withholds the next step of a running instance.
Spec == Init /\ [][Next]_vars
        /\ WF_vars(UseGas \/ Step \/ (\E pg \in Pages : GrowMemory(pg))
                   \/ (\E u \in CalleeUse : CallFunction(u)) \/ Branch)

-----------------------------------------------------------------------------
(* Properties *)

\* The gas already paid for instructions of the current block that have
\* not run yet.
Prepaid ==
    IF st = "running" /\ pos > 0
    THEN (BlockLen(blk) - pos + 1) * 1
    ELSE 0

\* Refinement: charging a whole block at its head and then running its
\* instructions implements per-instruction accounting at one unit per
\* instruction (the documented cost, spec §8 scenario 6) and 8192 per page
\* grown and 1 per local of a called function (the rates documented in
\* transform_default and spec §6): every instruction, page and local is
\* paid for, the budget is never overdrawn, and out-of-gas leaves nothing.
Abstract == INSTANCE GasBudget WITH
    pos <- IF pos = 0 THEN 1 ELSE pos,
    used <- GasLimit - gas - Prepaid,
    Cost <- 1,
    GrowCost <- 8192,
    LocalCost <- 1

GasBudgetRefinement == Abstract!Spec

\* Liveness: every activation of a metered function stops, by returning or
\* by running out of gas, even one whose control flow loops forever (the
\* infinite loop of gas_test.rs): gas is the only cancellation (spec §5.3).
Terminates == <>(st # "running")

=============================================================================
