------------------------------ MODULE GasBudget ------------------------------
(***************************************************************************)
(* What gas metering promises one function activation (spec §4.7, §5.3):  *)
(* every executed instruction is paid for at its cost; a memory.grow also *)
(* at GrowCost per requested page; a call also at LocalCost per local of  *)
(* the callee, plus whatever the callee's own metered body uses.  The     *)
(* total paid never exceeds the caller's budget, and execution stops with *)
(* "out of gas" and nothing left once the budget cannot pay for the rest  *)
(* of the straight-line block it is in, or for the growth or call about   *)
(* to happen.  Control flow is a graph of basic blocks; pos is the next   *)
(* instruction of the current block (1-based), Len(Ops(blk))+1 meaning    *)
(* the block's closing branch is next; mem counts the pages grown.        *)
(***************************************************************************)
EXTENDS Naturals, Sequences

CONSTANTS Blocks, Entry, Exit, Ops(_), Succ(_), GasLimit, Cost, GrowCost, Pages,
          LocalCost, CalleeLocals, CalleeUse

ASSUME Entry \in Blocks /\ Exit \notin Blocks /\ Cost \in Nat \ {0}
ASSUME GrowCost \in Nat /\ Pages \subseteq Nat
ASSUME LocalCost \in Nat /\ CalleeLocals \in Nat /\ CalleeUse \subseteq Nat

VARIABLES blk, pos, used, mem, st

vars == <<blk, pos, used, mem, st>>

Init ==
    /\ blk = Entry
    /\ pos = 1
    /\ used = 0
    /\ mem = 0
    /\ st = "running"

\* The cost of the instructions of the current block not yet executed.
RestOfBlock == (Len(Ops(blk)) - pos + 1) * Cost

\* The instruction at pos grows memory.
AtGrow == pos <= Len(Ops(blk)) /\ Ops(blk)[pos] = "grow"

\* The instruction at pos calls a function.
AtCall == pos <= Len(Ops(blk)) /\ Ops(blk)[pos] = "call"

\* The pages the instruction at pos may request.
GrowPages == IF AtGrow THEN Pages ELSE {0}

\* The charge for the callee's locals, and what its body may use.
CallCharge == IF AtCall THEN LocalCost * CalleeLocals ELSE 0
CallUse == IF AtCall THEN CalleeUse ELSE {0}

Exec ==
    /\ st = "running"
    /\ pos <= Len(Ops(blk))
    /\ \E pg \in GrowPages, u \in CallUse :
          /\ used + Cost + GrowCost * pg + CallCharge + u <= GasLimit
          /\ used' = used + Cost + GrowCost * pg + CallCharge + u
          /\ mem' = mem + pg
    /\ pos' = pos + 1
    /\ UNCHANGED <<blk, st>>

Abort ==
    /\ st = "running"
    /\ \/ used + RestOfBlock > GasLimit
       \/ \E pg \in GrowPages, u \in CallUse :
             used + RestOfBlock + GrowCost * pg + CallCharge + u > GasLimit
    /\ st' = "oog"
    /\ used' = GasLimit
    /\ UNCHANGED <<blk, pos, mem>>

Jump ==
    /\ st = "running"
    /\ pos = Len(Ops(blk)) + 1
    /\ \E s \in Succ(blk) :
          IF s = Exit
          THEN st' = "done" /\ UNCHANGED <<blk, pos>>
          ELSE blk' = s /\ pos' = 1 /\ UNCHANGED st
    /\ UNCHANGED <<used, mem>>

Next == Exec \/ Abort \/ Jump

Spec == Init /\ [][Next]_vars

=============================================================================
