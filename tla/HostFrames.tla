----------------------------- MODULE HostFrames -----------------------------
(***************************************************************************)
(* Nested contract execution through the EVM host bridge, as driven by the *)
(* in-memory host of evm_example:                                          *)
(*   - the guest primitives of src/evm/host_functions (contract, control,  *)
(*     storage, log) as wrapped by mock_evm_bridge.rs,                     *)
(*   - the MockContext host (mock_context.rs), whose storage, registry,    *)
(*     return-data, execution-status and event cells are Rc<RefCell> and   *)
(*     shared by every clone of a context,                                 *)
(*   - ContractExecutor (contract_executor.rs), which runs one instance    *)
(*     and turns the engine's outcome and the shared cells into a result.  *)
(* The frame stack is the chain of paused host calls: a parent is blocked  *)
(* inside call_contract / create_contract while its child runs.  Payloads  *)
(* and code are model values; gas is one unit per primitive.               *)
(***************************************************************************)
EXTENDS Integers, Sequences

CONSTANTS
    Top, Target, Unknown,    \* contract addresses the guest can name
    CreateAddr, Create2Addr, \* results of generate_create_address / _create2_
    EOA,                     \* caller of the top-level invocation
    TopCode, TargetCode,     \* WASM modules registered by the harness
    Data,                    \* non-empty payloads passed to finish / revert
    Keys, Vals,              \* storage keys; storage values (0 included)
    CallValues,              \* value argument of call / callCode
    GasArgs,                 \* gas argument of the call primitives
    CreateCodes,             \* code passed to createContract
    TxGasLimit,              \* tx_info.gas_limit: budget of every instance
    MaxDepth,                \* bound on the frame stack (the code has none)
    MaxTx,                   \* top-level invocations made by the harness
    ReuseContext             \* TRUE: the harness reuses one MockContext

Empty     == "empty"     \* the empty byte string
Zero      == "zero"      \* the all-zero address written on create failure
NoCode    == "nocode"    \* address absent from contract_registry
ShortCode == "short"     \* 1..3 bytes: shorter than the 4-byte prefix
WasmCode  == "wasm"      \* a prefixed module: code[4..] is loadable
CodeKinds == {Empty, ShortCode, WasmCode}

\* Code the engine's load_module_from_bytes accepts.
Loadable == {TopCode, TargetCode, WasmCode}

Addrs    == {Top, Target, Unknown, CreateAddr, Create2Addr}
Variants == {"call", "callcode", "delegatecall", "staticcall"}
\* execution_status: None / Some(true) / Some(false)
StatusVals == {"none", "ok", "rev"}
\* How a frame ended: one of the four control primitives, a plain return
\* from the exported function, or an engine error (trap, host exception 9,
\* out of gas).
Ends        == {"finish", "revert", "invalid", "selfdestruct", "return", "trap"}
SuccessEnds == {"finish", "selfdestruct", "return"}

ASSUME /\ Data \cap {Empty} = {}
       /\ CreateCodes \subseteq CodeKinds
       /\ TxGasLimit \in Nat \ {0} /\ MaxDepth \in Nat \ {0}
       /\ MaxTx \in Nat \ {0} /\ ReuseContext \in BOOLEAN

VARIABLES
    frames,    \* stack of paused/running instances, top-level first
    status,    \* the shared execution_status cell
    retData,   \* the shared return_data cell
    storage,   \* the shared storage map, keyed by slot only
    registry,  \* the shared contract_registry: address -> code
    events,    \* the shared events cell: emitting address per event
    obs,       \* what the last primitive handed back to the guest
    lastTx,    \* result of the last top-level call_contract_function
    txCount,   \* top-level invocations started
    crashed    \* the host process panicked

vars == <<frames, status, retData, storage, registry, events, obs, lastTx,
          txCount, crashed>>

NoObs == [prim |-> "none", ret |-> 0, ok |-> FALSE, end |-> "none",
          addr |-> Zero, key |-> "none", val |-> 0]

\* A frame: the identity fields copied into the cloned context, the code it
\* runs, the host call that started it, and its instance's gas.
MkFrame(addr, caller, value, code, kind, variant, target, gasArg, gas) ==
    [addr |-> addr, caller |-> caller, value |-> value, code |-> code,
     kind |-> kind, variant |-> variant, target |-> target,
     gasArg |-> gasArg, gas |-> gas, out |-> Empty, ended |-> "running",
     bridgeErr |-> FALSE]

TopFrame == MkFrame(Top, EOA, 0, TopCode, "top", "none", Top,
                    TxGasLimit, TxGasLimit)

Cur == frames[Len(frames)]
SetCur(f) == [frames EXCEPT ![Len(frames)] = f]
Spend(f) == [f EXCEPT !.gas = @ - 1]

\* The running instance can execute another primitive.
Running == /\ ~crashed
           /\ frames /= <<>>
           /\ Cur.ended = "running"
           /\ Cur.gas > 0

Init ==
    /\ frames = <<>>
    /\ status = "none"
    /\ retData = Empty
    /\ storage = [k \in Keys |-> 0]
    /\ registry = [a \in Addrs |-> CASE a = Top    -> TopCode
                                     [] a = Target -> TargetCode
                                     [] OTHER      -> NoCode]
    /\ events = <<>>
    /\ obs = NoObs
    /\ lastTx = [success |-> FALSE, data |-> Empty, end |-> "none",
                 out |-> Empty]
    /\ txCount = 0
    /\ crashed = FALSE

(* The harness                                                             *)

\* The harness runs the "call" export through
\* ContractExecutor::call_contract_function, either on a freshly built
\* MockContext (new return-data, status and event cells; storage and registry
\* handles shared with the previous context) or on the context it used last.
Invoke ==
    /\ ~crashed
    /\ frames = <<>>
    /\ txCount < MaxTx
    /\ frames' = <<TopFrame>>
    /\ txCount' = txCount + 1
    /\ IF ReuseContext
          THEN UNCHANGED <<status, retData, events>>
          ELSE /\ status' = "none"
               /\ retData' = Empty
               /\ events' = <<>>
    /\ obs' = NoObs
    /\ UNCHANGED <<storage, registry, lastTx, crashed>>

\* Variant: an Err from call_wasm_func is judged by the status cell.
ExecResultErrByStatus(e) ==
    [success |-> status /= "rev",
     data |-> IF e = "trap" THEN Empty ELSE retData,
     isRev |-> status = "rev"]

\* Variant: an Err from call_wasm_func returns the return-data cell.
ExecResultErrKeepsData(e) ==
    [success |-> e /= "trap" /\ status /= "rev",
     data |-> retData,
     isRev |-> status = "rev"]

\* Variant: a reverted instance's result carries no return data.
ExecResultRevertEmpty(e) ==
    IF e = "trap"
       THEN [success |-> FALSE, data |-> Empty, isRev |-> status = "rev"]
       ELSE [success |-> status /= "rev",
             data |-> IF status = "rev" THEN Empty ELSE retData,
             isRev |-> status = "rev"]

\* ContractExecutor::call_contract_function's result for an instance whose
\* call_wasm_func ended with e, read from the shared cells afterwards.
ExecResult(e) ==
    IF e = "trap"
       THEN [success |-> FALSE, data |-> Empty, isRev |-> status = "rev"]
       ELSE [success |-> status /= "rev", data |-> retData,
             isRev |-> status = "rev"]

\* The top-level instance has stopped: the executor's result is recorded.
TopReturn ==
    /\ ~crashed
    /\ frames /= <<>>
    /\ Cur.kind = "top"
    /\ Cur.ended /= "running"
    /\ LET r == ExecResult(Cur.ended)
       IN lastTx' = [success |-> r.success, data |-> r.data,
                     end |-> Cur.ended, out |-> Cur.out]
    /\ frames' = <<>>
    /\ UNCHANGED <<status, retData, storage, registry, events, obs, txCount,
                   crashed>>

(* Primitives that keep the frame running                                  *)

\* storageStore: the key is hex-encoded and the value inserted into the one
\* storage map every context shares.
StorageStore(k, v) ==
    /\ Running
    /\ storage' = [storage EXCEPT ![k] = v]
    /\ frames' = SetCur(Spend(Cur))
    /\ obs' = [NoObs EXCEPT !.prim = "storageStore", !.addr = Cur.addr,
                            !.key = k, !.val = v]
    /\ UNCHANGED <<status, retData, registry, events, lastTx, txCount,
                   crashed>>

\* storageLoad: the value under the key, or zero when absent.
StorageLoad(k) ==
    /\ Running
    /\ frames' = SetCur(Spend(Cur))
    /\ obs' = [NoObs EXCEPT !.prim = "storageLoad", !.addr = Cur.addr,
                            !.key = k, !.val = storage[k]]
    /\ UNCHANGED <<status, retData, storage, registry, events, lastTx,
                   txCount, crashed>>

\* emitLogEvent: an event attributed to get_address() is appended.
EmitLogEvent ==
    /\ Running
    /\ events' = Append(events, Cur.addr)
    /\ frames' = SetCur(Spend(Cur))
    /\ obs' = [NoObs EXCEPT !.prim = "emit", !.addr = Cur.addr]
    /\ UNCHANGED <<status, retData, storage, registry, lastTx, txCount,
                   crashed>>

\* getReturnDataSize: the length of the shared return-data cell.
GetReturnDataSize ==
    /\ Running
    /\ frames' = SetCur(Spend(Cur))
    /\ obs' = [NoObs EXCEPT !.prim = "returnDataSize",
                            !.ret = IF retData = Empty THEN 0 ELSE 1]
    /\ UNCHANGED <<status, retData, storage, registry, events, lastTx,
                   txCount, crashed>>

\* returnDataCopy: the guest receives the shared return-data cell.
ReturnDataCopy ==
    /\ Running
    /\ frames' = SetCur(Spend(Cur))
    /\ obs' = [NoObs EXCEPT !.prim = "returnDataCopy", !.val = retData]
    /\ UNCHANGED <<status, retData, storage, registry, events, lastTx,
                   txCount, crashed>>

(* Primitives that end the frame: the bridge asks the engine to exit, and  *)
(* call_wasm_func returns Ok; a host exception makes it return Err.        *)

\* finish: return_data := data, status := Some(true), exit(0).
Finish(d) ==
    /\ Running
    /\ retData' = d
    /\ status' = "ok"
    /\ frames' = SetCur([Spend(Cur) EXCEPT !.ended = "finish", !.out = d])
    /\ obs' = [NoObs EXCEPT !.prim = "finish", !.val = d]
    /\ UNCHANGED <<storage, registry, events, lastTx, txCount, crashed>>

\* revert: return_data := data, status := Some(false), exit(1).
Revert(d) ==
    /\ Running
    /\ retData' = d
    /\ status' = "rev"
    /\ frames' = SetCur([Spend(Cur) EXCEPT !.ended = "revert", !.out = d])
    /\ obs' = [NoObs EXCEPT !.prim = "revert", !.val = d]
    /\ UNCHANGED <<storage, registry, events, lastTx, txCount, crashed>>

\* invalid: status := Some(false), return data untouched, exit(2).
Invalid ==
    /\ Running
    /\ status' = "rev"
    /\ frames' = SetCur([Spend(Cur) EXCEPT !.ended = "invalid"])
    /\ obs' = [NoObs EXCEPT !.prim = "invalid"]
    /\ UNCHANGED <<retData, storage, registry, events, lastTx, txCount,
                   crashed>>

\* selfDestruct: the mock only computes the balance it would transfer; no
\* cell changes; exit(3).
SelfDestruct ==
    /\ Running
    /\ frames' = SetCur([Spend(Cur) EXCEPT !.ended = "selfdestruct"])
    /\ obs' = [NoObs EXCEPT !.prim = "selfDestruct"]
    /\ UNCHANGED <<status, retData, storage, registry, events, lastTx,
                   txCount, crashed>>

\* The exported function returns without a control primitive.
PlainReturn ==
    /\ Running
    /\ frames' = SetCur([Spend(Cur) EXCEPT !.ended = "return"])
    /\ obs' = [NoObs EXCEPT !.prim = "return"]
    /\ UNCHANGED <<status, retData, storage, registry, events, lastTx,
                   txCount, crashed>>

\* A primitive other than the contract operations fails validation (bad
\* offset, negative length, topic count outside 0..4): the bridge wrapper
\* calls set_exception_by_hostapi(9) and call_wasm_func returns Err.
HostFault ==
    /\ Running
    /\ frames' = SetCur([Spend(Cur) EXCEPT !.ended = "trap",
                                           !.bridgeErr = TRUE])
    /\ obs' = [NoObs EXCEPT !.prim = "fault"]
    /\ UNCHANGED <<status, retData, storage, registry, events, lastTx,
                   txCount, crashed>>

\* The injected gas check finds the instance's gas exhausted: the engine
\* traps with OutOfGas and call_wasm_func returns Err.
OutOfGas ==
    /\ ~crashed
    /\ frames /= <<>>
    /\ Cur.ended = "running"
    /\ Cur.gas = 0
    /\ frames' = SetCur([Cur EXCEPT !.ended = "trap"])
    /\ obs' = [NoObs EXCEPT !.prim = "outOfGas"]
    /\ UNCHANGED <<status, retData, storage, registry, events, lastTx,
                   txCount, crashed>>

(* Contract operations: call, callCode, callDelegate, callStatic and       *)
(* createContract.  contract.rs passes evmhost.get_caller() as the caller  *)
(* of every call variant; the mock clones its context for the child.       *)

\* The child's address: the target for CALL / STATICCALL, the current
\* address for CALLCODE / DELEGATECALL.
ChildAddr(v, t) == IF v \in {"call", "staticcall"} THEN t ELSE Cur.addr

\* The child's value: the argument for CALL / CALLCODE, the current value
\* for DELEGATECALL, zero for STATICCALL.
ChildValue(v, val) == CASE v \in {"call", "callcode"} -> val
                        [] v = "delegatecall"        -> Cur.value
                        [] v = "staticcall"          -> 0

\* The registry entry of the target, or the caller's own code when absent.
CodeFor(t) == IF registry[t] /= NoCode THEN registry[t] ELSE Cur.code

\* A call primitive: the parent pauses inside the host call and a new
\* instance of the target's code starts with the transaction's gas limit.
CallBegin(v, t, val, g) ==
    /\ Running
    /\ Len(frames) < MaxDepth
    /\ CodeFor(t) \in Loadable
    /\ frames' = Append(SetCur(Spend(Cur)),
                        MkFrame(ChildAddr(v, t), Cur.caller,
                                ChildValue(v, val), CodeFor(t), "call", v, t,
                                g, TxGasLimit))
    /\ obs' = [NoObs EXCEPT !.prim = "callBegin", !.addr = t]
    /\ UNCHANGED <<status, retData, storage, registry, events, lastTx,
                   txCount, crashed>>

\* The four call host functions of contract.rs: each validates its
\* parameters (ContractOpFault when that fails), reads the target, the data
\* and, for CALL and CALLCODE only, the value word, passes
\* evmhost.get_caller() and the gas argument, and hands over to the mock.
CallContract(t, val, g) == CallBegin("call", t, val, g)
CallCode(t, val, g)     == CallBegin("callcode", t, val, g)
CallDelegate(t, g)      == CallBegin("delegatecall", t, 0, g)
CallStatic(t, g)        == CallBegin("staticcall", t, 0, g)

\* A call whose target code the engine cannot load: execute_contract_call
\* returns Err, the mock returns failure without touching the cells, and
\* the bridge returns 0.
CallLoadFails(t) ==
    /\ Running
    /\ CodeFor(t) \notin Loadable
    /\ frames' = SetCur(Spend(Cur))
    /\ obs' = [NoObs EXCEPT !.prim = "call", !.ok = FALSE, !.end = "noload",
                            !.addr = t]
    /\ UNCHANGED <<status, retData, storage, registry, events, lastTx,
                   txCount, crashed>>

\* Variant: the child's result is stored without resetting the status.
CallReturnKeepsStatus ==
    /\ ~crashed
    /\ frames /= <<>>
    /\ Cur.kind = "call"
    /\ Cur.ended /= "running"
    /\ LET r == ExecResult(Cur.ended)
       IN /\ retData' = r.data
          /\ obs' = [NoObs EXCEPT !.prim = "call", !.ret = 0,
                                  !.ok = r.success /\ ~r.isRev,
                                  !.end = Cur.ended, !.addr = Cur.target]
    /\ frames' = SubSeq(frames, 1, Len(frames) - 1)
    /\ UNCHANGED <<status, storage, registry, events, lastTx, txCount,
                   crashed>>

\* The child instance has stopped: the executor builds its result from the
\* shared cells, the mock stores it with set_return_data (which also sets
\* status := Some(true)) and reports success iff success && !is_reverted;
\* the bridge wrapper maps Ok(_) to 0.
CallReturn ==
    /\ ~crashed
    /\ frames /= <<>>
    /\ Cur.kind = "call"
    /\ Cur.ended /= "running"
    /\ LET r == ExecResult(Cur.ended)
       IN /\ retData' = r.data
          /\ status' = "ok"
          /\ obs' = [NoObs EXCEPT !.prim = "call", !.ret = 0,
                                  !.ok = r.success /\ ~r.isRev,
                                  !.end = Cur.ended, !.addr = Cur.target]
    /\ frames' = SubSeq(frames, 1, Len(frames) - 1)
    /\ UNCHANGED <<storage, registry, events, lastTx, txCount, crashed>>

\* A call or create whose offsets or lengths fail validation in contract.rs:
\* the bridge wrapper maps Err(_) to 1 without raising an exception, so the
\* guest keeps running.
ContractOpFault ==
    /\ Running
    /\ frames' = SetCur([Spend(Cur) EXCEPT !.bridgeErr = TRUE])
    /\ obs' = [NoObs EXCEPT !.prim = "contractFault", !.ret = 1]
    /\ UNCHANGED <<status, retData, storage, registry, events, lastTx,
                   txCount, crashed>>

NewAddr(c2) == IF c2 THEN Create2Addr ELSE CreateAddr

\* createContract with empty code: failure, the zero address is written.
CreateEmptyCode ==
    /\ Running
    /\ Empty \in CreateCodes
    /\ frames' = SetCur(Spend(Cur))
    /\ obs' = [NoObs EXCEPT !.prim = "create", !.val = Empty]
    /\ UNCHANGED <<status, retData, storage, registry, events, lastTx,
                   txCount, crashed>>

\* Variant: the empty-code check is missing.
CreateNoConstructorAnyCode(c2, code) ==
    /\ Running
    /\ registry' = [registry EXCEPT ![NewAddr(c2)] = code]
    /\ frames' = SetCur(Spend(Cur))
    /\ obs' = [NoObs EXCEPT !.prim = "create", !.ok = TRUE,
                            !.addr = NewAddr(c2), !.val = code]
    /\ UNCHANGED <<status, retData, storage, events, lastTx, txCount,
                   crashed>>

\* createContract with code and no constructor data: no constructor runs,
\* the code is registered at the new address, which is written back.
CreateNoConstructor(c2, code) ==
    /\ Running
    /\ code /= Empty
    /\ registry' = [registry EXCEPT ![NewAddr(c2)] = code]
    /\ frames' = SetCur(Spend(Cur))
    /\ obs' = [NoObs EXCEPT !.prim = "create", !.ok = TRUE,
                            !.addr = NewAddr(c2), !.val = code]
    /\ UNCHANGED <<status, retData, storage, events, lastTx, txCount,
                   crashed>>

\* createContract with constructor data and code shorter than four bytes:
\* execute_contract_deployment slices code[4..] and panics inside the
\* extern "C" host function, which aborts the process.
CreatePanic ==
    /\ Running
    /\ ShortCode \in CreateCodes
    /\ crashed' = TRUE
    /\ obs' = [NoObs EXCEPT !.prim = "create", !.val = ShortCode]
    /\ UNCHANGED <<frames, status, retData, storage, registry, events,
                   lastTx, txCount>>

\* createContract with a module and constructor data: a deploy instance of
\* code[4..] starts at the new address with the creator as caller; contract.rs
\* passes the creator's gas left, the instance gets the gas limit.
CreateBegin(c2, val) ==
    /\ Running
    /\ WasmCode \in CreateCodes
    /\ Len(frames) < MaxDepth
    /\ frames' = Append(SetCur(Spend(Cur)),
                        MkFrame(NewAddr(c2), Cur.addr, val, WasmCode,
                                "deploy", "none", NewAddr(c2),
                                Cur.gas - 1, TxGasLimit))
    /\ obs' = [NoObs EXCEPT !.prim = "createBegin", !.addr = NewAddr(c2)]
    /\ UNCHANGED <<status, retData, storage, registry, events, lastTx,
                   txCount, crashed>>

\* ContractExecutor::deploy_contract: Ok exactly when call_wasm_func("deploy")
\* is, whatever the constructor left in the status cell.
DeployOk(e) == e /= "trap"

\* Variant: the code is registered whether or not the constructor ran.
CreateReturnRegistersAlways ==
    /\ ~crashed
    /\ frames /= <<>>
    /\ Cur.kind = "deploy"
    /\ Cur.ended /= "running"
    /\ LET ok   == DeployOk(Cur.ended)
           data == IF ok THEN retData ELSE Empty
       IN /\ retData' = data
          /\ status' = "ok"
          /\ registry' = [registry EXCEPT ![Cur.addr] = WasmCode]
          /\ obs' = [NoObs EXCEPT !.prim = "create", !.ok = ok,
                                  !.addr = IF ok THEN Cur.addr ELSE Zero,
                                  !.end = Cur.ended, !.val = WasmCode]
    /\ frames' = SubSeq(frames, 1, Len(frames) - 1)
    /\ UNCHANGED <<storage, events, lastTx, txCount, crashed>>

\* The deploy instance has stopped: deploy_contract is Ok whenever
\* call_wasm_func is, whatever the status; the mock stores the constructor's
\* return data with set_return_data and, on success, registers the code.
CreateReturn ==
    /\ ~crashed
    /\ frames /= <<>>
    /\ Cur.kind = "deploy"
    /\ Cur.ended /= "running"
    /\ LET ok   == DeployOk(Cur.ended)
           data == IF ok THEN retData ELSE Empty
       IN /\ retData' = data
          /\ status' = "ok"
          /\ registry' = IF ok THEN [registry EXCEPT ![Cur.addr] = WasmCode]
                               ELSE registry
          /\ obs' = [NoObs EXCEPT !.prim = "create", !.ok = ok,
                                  !.addr = IF ok THEN Cur.addr ELSE Zero,
                                  !.end = Cur.ended, !.val = WasmCode]
    /\ frames' = SubSeq(frames, 1, Len(frames) - 1)
    /\ UNCHANGED <<storage, events, lastTx, txCount, crashed>>


\* The harness has made its invocations, or the host process has aborted.
Terminated == crashed \/ (frames = <<>> /\ txCount = MaxTx)
Done == Terminated /\ UNCHANGED vars

Next ==
    \/ Invoke
    \/ TopReturn
    \/ \E k \in Keys, v \in Vals : StorageStore(k, v)
    \/ \E k \in Keys : StorageLoad(k)
    \/ EmitLogEvent
    \/ GetReturnDataSize
    \/ ReturnDataCopy
    \/ \E d \in Data \cup {Empty} : Finish(d) \/ Revert(d)
    \/ Invalid
    \/ SelfDestruct
    \/ PlainReturn
    \/ HostFault
    \/ OutOfGas
    \/ \E t \in Addrs, g \in GasArgs :
          \/ \E val \in CallValues : CallContract(t, val, g) \/ CallCode(t, val, g)
          \/ CallDelegate(t, g) \/ CallStatic(t, g)
    \/ \E t \in Addrs : CallLoadFails(t)
    \/ CallReturn
    \/ ContractOpFault
    \/ CreateEmptyCode
    \/ \E c2 \in BOOLEAN, code \in CreateCodes : CreateNoConstructor(c2, code)
    \/ CreatePanic
    \/ \E c2 \in BOOLEAN, val \in CallValues : CreateBegin(c2, val)
    \/ CreateReturn
    \/ Done

Spec == Init /\ [][Next]_vars

(* Properties                                                              *)

FrameType ==
    [addr : Addrs, caller : Addrs \cup {EOA}, value : CallValues \cup {0},
     code : Loadable, kind : {"top", "call", "deploy"},
     variant : Variants \cup {"none"}, target : Addrs,
     gasArg : GasArgs \cup (0..TxGasLimit), gas : 0..TxGasLimit,
     out : Data \cup {Empty}, ended : Ends \cup {"running"},
     bridgeErr : BOOLEAN]

TypeOK ==
    /\ frames \in Seq(FrameType) /\ Len(frames) <= MaxDepth
    /\ status \in StatusVals
    /\ retData \in Data \cup {Empty}
    /\ storage \in [Keys -> Vals]
    /\ registry \in [Addrs -> Loadable \cup {ShortCode, NoCode}]
    /\ events \in Seq(Addrs)
    /\ obs.ret \in {0, 1} /\ obs.ok \in BOOLEAN
    /\ obs.end \in Ends \cup {"none", "noload"}
    /\ obs.addr \in Addrs \cup {Zero}
    /\ lastTx.success \in BOOLEAN /\ lastTx.end \in Ends \cup {"none"}
    /\ txCount \in 0..MaxTx /\ crashed \in BOOLEAN

\* What mock call_contract / call_code / call_delegate / call_static report
\* to the bridge (ContractCallResult.success) is success exactly when the
\* child instance ended by finish, selfDestruct or a plain return; it is read
\* from the execution-status cell that every frame of the transaction shares.
HostCallResultFaithful ==
    [][obs'.prim = "call" /\ obs'.end \in Ends =>
         (obs'.ok <=> obs'.end \in SuccessEnds)]_vars

\* After a call primitive returns, the return data the caller can read is
\* the callee's own: what it passed to finish or revert, and nothing when it
\* trapped (out of gas, exception 9), whatever earlier callees left in the
\* shared return-data cell (spec 5.3; execute_contract_call stores the
\* executor's return_data with set_return_data).
CallReturnDataIsCallee ==
    [][obs'.prim = "call" /\ obs'.end \in {"finish", "revert", "trap"} =>
         retData' = IF obs'.end = "trap" THEN Empty
                    ELSE frames[Len(frames)].out]_vars

\* The executor's verdict on a top-level invocation
\* (ContractExecutionResult.success) is success exactly when the instance
\* ended by finish, selfDestruct or a plain return, whatever its children did
\* to the shared status cell; and when it ended by finish or revert, the
\* result's return_data is what it passed, not what a child left in the
\* shared return-data cell.
TopLevelSuccessFaithful ==
    lastTx.end /= "none" =>
        /\ lastTx.success <=> lastTx.end \in SuccessEnds
        /\ lastTx.end \in {"finish", "revert"} => lastTx.data = lastTx.out

\* createContract hands the guest the zero address exactly when nothing was
\* registered, and a non-zero address only once the registry maps it to the
\* code that was passed in.
CreateReportsRegistration ==
    [][obs'.prim = "create" =>
         IF obs'.addr = Zero THEN registry' = registry
                             ELSE registry'[obs'.addr] = obs'.val]_vars


(* Statements of the specification and the source that the code does not  *)
(* keep; each is checked by a run that expects a counterexample.          *)

\* The call table of the specification: callContract and its variants return
\* 0 to the guest on success and 1 on failure, so a contract can see that
\* the callee reverted (mock_evm_bridge maps every Ok(_) to 0).
GuestSeesCallFailure ==
    [][obs'.prim = "call" => (obs'.ret = 0 <=> obs'.ok)]_vars

\* CALL, CALLCODE and STATICCALL run the child with the parent's address as
\* caller (contract.rs passes evmhost.get_caller() instead).
CallerIsParentAddress ==
    \A i \in 2..Len(frames) :
        frames[i].kind = "call" /\ frames[i].variant /= "delegatecall" =>
            frames[i].caller = frames[i - 1].addr

\* No sequence of guest primitives makes the host process abort
\* (execute_contract_deployment slices code[4..]).
NoHostPanic == ~crashed

\* After a bridge-level failure no further primitive runs in that frame: the
\* failure policy of the specification (the contract-operation wrappers
\* return 1 and let the guest continue).
BridgeErrorAborts ==
    \A i \in 1..Len(frames) :
        frames[i].bridgeErr => frames[i].ended /= "running"

=============================================================================
