# TLA+ models of the DTVM EVM host bridge

This directory holds TLA+ models of `src/rust_crate`: the EVM host bridge
that lets WASM contracts call an EVM-style host, the in-memory host
(`evm_example`) used by the tests, and the gas metering transformer. Every
module is written from the Rust source. Definitions carry the source's names
where TLA+ allows it, and `PROJECT.json` maps each definition to the lines it
models.

## The system

| Part | Source | State | Operations |
|---|---|---|---|
| Memory accessor and validation | `src/evm/utils.rs` | the instance's linear memory | `validate_range`, `read_bytes`, `write_bytes`, `validate_*_param` |
| Contract operations | `host_functions/contract.rs` | none of its own; it drives the host | `call_contract`, `call_code`, `call_delegate`, `call_static`, `create_contract` |
| Control | `host_functions/control.rs` | host status and return data | `finish`, `revert`, `invalid`, `self_destruct`, `get_return_data_size`, `return_data_copy` |
| Storage, logs | `storage.rs`, `log.rs` | host storage and events | `storage_store`, `storage_load`, `emit_log_event`, `emit_log0..4` |
| Environment | `code.rs`, `transaction.rs`, `block.rs`, `account.rs`, `fee.rs` | read-only host data | getters and the copy primitives (`code_copy`, `call_data_copy`, `external_code_copy`) |
| Arithmetic, hashes | `math.rs`, `crypto.rs`, `traits.rs` | none | `addmod`, `mulmod`, `expmod` (defaults on `EvmHost`), `sha256`, `keccak256` |
| Errors | `src/evm/error.rs` | none | error constructors and formatting |
| Gas metering | `src/gas_metering/transform.rs` (+ `gas_inject`, not in the tree) | module bytes; per-instance gas counter | `transform_default`, `transform_with_rules`; the injected `__instrumented_use_gas` |
| Mock host | `evm_example/src/mock_context.rs` | `Rc<RefCell>` cells for storage, registry, return data, status, events | the `EvmHost` methods; nested calls and create |
| Executor | `evm_example/src/contract_executor.rs` | none of its own | `deploy_contract`, `call_contract_function` |
| Bridge wrappers | `evm_example/src/mock_evm_bridge.rs` | none | one `extern "C"` function per import; failures become exception 9 or a return code |

**How the parts interact.** A test builds a `MockContext` and hands it to
`ContractExecutor`, which loads the WASM module and creates an instance. The
instance gets the gas limit and a clone of the context. The guest calls
imports; each wrapper in `mock_evm_bridge.rs` calls the matching function of
`host_functions`, which validates offsets through `MemoryAccessor` and calls
the `EvmHost` method of the context.

A call primitive does not return to the guest until the callee has run. The
mock host clones its context, sets the child's identity fields, and runs the
target's code through a new `ContractExecutor`. The parent instance stays
paused inside the host call until the child's instance stops. Every clone
shares its parent's storage, registry, return-data, status and event cells.
The child's writes are therefore the parent's, and the executor reads the
child's verdict from the same status cell that the parent and its earlier
children wrote.

**What is hard here.** The execution is single-threaded and strictly nested,
so the hazards come from two sources:
- state shared across frames and across invocations: the status and
  return-data cells, storage keyed by slot only, and a reused context;
- how outcomes are translated at each layer: engine Ok/Err, then the
  executor's result, then the host's `ContractCallResult`, then the `i32`
  the guest sees.

`PROJECT.json` lists every hazard at the line where it bites.

## Modules

| Module | Models | Runs |
|---|---|---|
| `HostFrames` | nested execution with the mock host, the contract and control primitives, the executor | `frames_*` |
| `MemoryBridge` | `MemoryAccessor`, the `validate_*` helpers, and the primitives that read or write guest memory | `memory_*` |
| `ModArith` | `addmod`, `mulmod`, `expmod` and `bigint_to_bytes32` of `EvmHost` | `arith_pass` |
| `GasMetering`, `GasBudget` | one activation of a metered function; the per-instruction accounting it must implement | `gas_pass` |

Each `MC_*` module EXTENDS its module and defines the constants a cfg
substitutes with `<-`.

### HostFrames: nested execution with the mock host

`HostFrames.tla` models one guest instance per frame on a stack. The last
frame runs; the others are paused inside a call or create primitive.

State:
- `frames`: one record per instance, holding the identity fields copied into
  the cloned context (address, caller, value), the code it runs, how it was
  started, its gas, what it passed to finish/revert, and how it ended;
- `status`, `retData`, `storage`, `registry`, `events`: the shared `Rc`
  cells of `MockContext`;
- `obs`: what the last primitive handed back to the guest;
- `lastTx`: the executor's last top-level result;
- `crashed`: a panic that aborted the host process.

Actions:
- one per guest primitive: `StorageStore`, `StorageLoad`, `EmitLogEvent`,
  `GetReturnDataSize`, `ReturnDataCopy`, `Finish`, `Revert`, `Invalid`,
  `SelfDestruct`, `PlainReturn`;
- failures: `HostFault` (exception 9), `OutOfGas`, `ContractOpFault` (a
  contract operation fails validation and returns 1);
- the call path: `CallContract`, `CallCode`, `CallDelegate` and
  `CallStatic`, one per host function of `contract.rs`, each pass their
  variant to `CallBegin`, which pushes the child (DELEGATECALL and STATICCALL
  read no value word). `CallReturn` completes the host call, running the
  executor and `set_return_data`; `DeployOk` is `deploy_contract`'s verdict. `CallLoadFails`
  covers a target whose code the engine cannot load;
- the create path: `CreateEmptyCode`, `CreateNoConstructor`, `CreatePanic`
  (`code[4..]` on short code), `CreateBegin` and `CreateReturn`;
- the harness: `Invoke` starts an invocation on a fresh or a reused context,
  and `TopReturn` records the executor's result.

Each primitive costs one unit of gas, and a frame with none left traps.
GasMetering shows that block-head charging implements this per-step
accounting. Data is abstract: payloads are one model value or empty; code is
a label (the harness's two modules, or createContract's empty, short or
well-formed code); there is one storage slot.

Runs (`MC_HostFrames.tla` gives the constants):
- `HostFrames.cfg` (pass, about 290k distinct states, a few seconds) checks:
  - `TypeOK`;
  - `HostCallResultFaithful`: the host reports a child call as successful
    exactly when the child ended by finish, selfDestruct or a plain return.
    The interesting case is two children, where the first reverts and the
    second self-destructs. The verdict is right only because
    `set_return_data` resets the shared status;
  - `TopLevelSuccessFaithful`: the same for the executor's top-level
    result, and a top-level instance that ends by finish or revert gets its
    own data back, whatever a child left in the shared return-data cell.
    Mutants: judging an `Err` by the status cell, and dropping a reverted
    instance's return data;
  - `CreateReportsRegistration`: a zero address exactly when nothing was
    registered;
  - `CallReturnDataIsCallee`: after a call returns, the return data is the
    callee's own output (finish or revert), or empty when it trapped. The
    case that matters is a first child that finishes with data and a second
    that runs out of gas. Only the executor's `Err` arm (empty data) and
    `set_return_data` keep the parent from reading the first child's
    output as the second's (spec §5.3).
- Violation runs, each checking one statement of the spec or the source
  that the code breaks (the findings in `PROJECT.json` give the lines):
  - `HostFrames_reuse.cfg`: stale status across invocations on a reused
    context;
  - `HostFrames_callcode.cfg`: the guest gets 0 for a failed call;
  - `HostFrames_caller.cfg`: a CALL child's caller is the grandparent;
  - `HostFrames_panic.cfg`: a create with short code aborts the process;
  - `HostFrames_abort.cfg`: the guest keeps running after a bridge failure.

Bounds: `TxGasLimit = 2` primitives per instance (two calls in one frame, or
a call followed by an end); `MaxDepth = 2` (a parent and its children);
`MaxTx = 1` for the pass run and 2 for the reuse run, where a second
invocation is the point. With a fresh context per invocation, two
invocations share only storage and the registry, and no passing property
reads those across invocations. Depth 3 or gas 3 exceeds 100M states.

No fairness: every HostFrames property is a safety property. The harness
stops after `MaxTx` invocations or a crash; `Done` is the stuttering step of
that final state, so deadlock checking stays on.

### MemoryBridge: memory access, validation and the memory primitives

State: `mem`, a 4-byte linear memory of bytes in `ByteVals`; `exception`,
set when a wrapper raises exception 9; `exitCode`, the code a control
primitive passed to `instance.exit`; `last`, a record of the last
primitive (its name, arguments, whether validation passed, what the guest
got, what the host function returned, the effective arguments, the log it
emitted, the bytes a control primitive handed the host). Once the instance
has raised or exited (`~Running`) it calls nothing more. Actions, one per
primitive:
- copies: `CallDataCopy`, `ReturnDataCopy`, `CodeCopy`, `ExternalCodeCopy`
  (`CopyBuffer` is the shared zero-fill helper);
- block hash: `GetBlockHash` through the wrapper's i32 parameter, with the
  undefined result the missing return gives modelled as a choice of 0 or 1;
- fixed-size getters, one action per source file: `AccountValue`
  (get_address, get_caller, get_tx_origin, get_call_value, get_chain_id),
  `BlockValue` (coinbase, prev_randao), `FeeValue` (base fee, blob base
  fee), `TxGasPrice`. All go through `WriteHostValue`, which validates the
  result offset as an address or a word (`ResultSize`) and writes the
  host's value, any value of the right size;
- `GetExternalBalance`, `GetExternalCodeSize` (through
  `unwrap_or_default`), `ExternalCodeHash`;
- `HashPrim` (sha256, keccak256), `EmitLogEvent` (0..4 topics, offset 0 as
  "no topic"), `EmitLogN` (emit_log0..4: the unused topics are passed as
  0), `StorageStore`, `StorageLoad` (the `as u32` casts),
  `MathPrim` (addmod, mulmod, expmod through ModArith);
- control: `ExitWithData` (finish, revert: validate and read the data
  region, hand it to the host, exit with 0 or 1), `Invalid` (exit 2),
  `SelfDestruct` (validate and read the recipient address, exit 3), all
  through `ControlExit`, whose failure path is the wrappers' exception 9.

`ValidateDataParam` follows the body of `validate_data_param`
(`utils.rs:240-274`). That function takes three arguments while every host
function passes a fourth (the caller's name, used only in error text), so
the tree as it stands does not compile; the model follows the body.

Every action routes through `Outcome`: a failed validation sets
`exception` and leaves memory unchanged, exactly as the wrappers do. `W = 4`
bit integers stand for i32, so `AsU32` and `LowI32` wrap at 2^4. Offsets and
lengths range over -1..4 and -1..3 (negative, zero, in range, one past the
end); word operands over {-1, 0, 2, 3}, the edge cases for a 2-byte word in
4 bytes.

Runs (`MC_MemoryBridge.tla`):
- `MemoryBridge.cfg` (pass, 48,896 distinct states, about 95 s) checks:
  - `TypeOK`;
  - `ValidationContract`: a primitive succeeds exactly when every region it
    touches is inside memory and its lengths are non-negative. That a failed
    primitive leaves memory unchanged is not a checked property: `Outcome`
    makes it so by construction, as the wrappers' early returns do;
  - `CopiesZeroFill`: the call-data and return-data copies write the source
    prefix and zero-fill the rest of the destination;
  - `ComputedWordWritten`: addmod, mulmod and expmod write the reference
    result into the result word and nothing else.
  The control primitives and getBlockHash are actions of the run (so their
  validation is under `ValidationContract`), but their exit codes and the
  host-side block-hash verdict are not separate properties: stated on their
  own they would restate `ExitCodeOf`, `ControlExit` and `BlockHashFound`.
- Violation runs: `MemoryBridge_codecopy.cfg` (`code_copy` leaves the tail
  unwritten, `code.rs:96`), `MemoryBridge_blockhash.cfg` (the guest's
  getBlockHash result does not follow the host's, `mock_evm_bridge.rs:170`),
  `MemoryBridge_logtopic.cfg` (a topic at offset 0 is logged as zero,
  `log.rs:60`).

### ModArith: modular arithmetic on words

`FromBytesBE`, `ToBytesBE`, `BigintToBytes32`, `ModPow` (square and
multiply), `AddMod`, `MulMod`, `ExpMod` follow `traits.rs`. The
state machine `Call` applies one operation to any pair of words and modulus.
`ModArith.cfg` uses base-4 bytes and 2-byte words (values 0..15) and checks
`ArithMatchesReference`: every result equals a reference written with
plain integer arithmetic and a RECURSIVE power, including modulus 0 and 1
and exponent 0. All 12,289 states take about 50 s.

### GasMetering and GasBudget: metered execution

`GasBudget.tla` is the promise of spec §4.7 and §5.3 for one function
activation: each instruction is paid for as it runs, a memory.grow is also
paid for at `GrowCost` per requested page, a call at `LocalCost` per local
of the callee plus what the callee's body uses, the budget is never
overdrawn, and the activation stops with "out of gas" and nothing left once
the budget cannot pay for the rest of its basic block or for the growth or
call about to happen. `mem`
counts the pages grown, so a growth that was not paid for is visible.

`GasMetering.tla` is the rewritten function: `UseGas` is the injected
`__instrumented_use_gas(BlockCost(blk))` at each block head (the counter is
decremented, or the instance traps and reports zero gas left); `Step` is an
original instruction; `GrowMemory(pg)` is memory.grow through the injected
helper, which charges `MemoryGrowCost * pg` (or traps with zero gas left)
before growing; `CallFunction(u)` is a call: the injected pre-charge of
`CallPerLocalCost * CalleeLocals` (spec §4.7 item 5), then the callee's own
metered body, which uses `u` of the same counter or exhausts it and traps the
whole instance; `Branch` is the block's closing control instruction;
`Stopped` is the terminal state. A block is the sequence `Ops(b)` of its
instructions, "op", "grow" or "call". `InstructionCost`, `MemoryGrowCost`
and `CallPerLocalCost` are the `1`, `8192` and `1` of
`ConstantCostRules::new(1, 8192, 1)` in `transform_default`. The callee is
abstracted to the gas it uses (`CalleeUse`), since its own activation is an
instance of the same model. The injector
itself is not in the tree, so everything but that constant is modelled from
the specification.

`GasMetering.cfg` (pass, 107,389 states, a few seconds) runs a function
with an entry block, a loop that may branch to itself forever, and a return
block. The entry and return blocks each grow memory by 0 or 1 page, and the
return block ends in a call of a function with two locals whose body uses 0
or 3 units, so a call can be refused at the pre-charge or run out inside
the callee. The
budget of 8230 pays for one page and a few dozen instructions, so a grow
succeeds, a second one traps, and the loop also runs out on instructions
alone. It checks:
- `GasBudgetRefinement`: `GasMetering` implements `GasBudget` under the
  mapping "used = budget − counter − gas prepaid for the block's remaining
  instructions", with the same pages grown. It fails if the page charge is
  dropped (`MemoryGrowCostFree`), the local charge is dropped
  (`CallPerLocalCostFree`) or the instruction cost is wrong;
- `Terminates`: every activation stops, even the infinite loop.

Fairness: weak fairness of the instance's steps. The engine runs an instance
to completion on the calling thread, so a running instance always takes its
next step. The branch choices are unconstrained: termination must come from
gas alone.

## Hazards modelled but not stated as properties

The models reach these cases; no run states a property about them beside
the eight counterexample runs (`PROJECT.json` gives each hazard's note):
- `getExternalCodeSize` swallows its validation error;
- a call to an address missing from the registry runs the caller's own
  code (`CodeFor`, `mock_context.rs:743`);
- a top-level instance that ends without finish or revert reports its last
  child's output (`contract_executor.rs:117`);
- every nested instance gets the transaction's gas limit, not its gas
  argument (`gasArg` in each frame);
- storage keyed by slot only, and CREATE's fixed placeholder address.

STATICCALL write protection is not a property: spec §9 records the
permissive mock as a known simplification.

## Not modelled

- Rollback of a failed child's effects: `storage_store` and `emit_log_event`
  write into cells shared with the parent, so a reverted or trapped callee's
  writes and events persist (visible in `HostFrames` states). Spec section 5
  makes discarding them optional, so no property requires it; the hazard is
  listed in `PROJECT.json`.
- Hashing (`crypto.rs`, the hash defaults of `EvmHost`): modelled only as an
  opaque digest of the bytes read; the hash functions are beyond TLC's
  reach.
- The error taxonomy (`error.rs`). Every wrapper discards the error value
  (`if let Err(_)`, `Err(_) => 1`, `unwrap_or_default`), so no error kind
  reaches the guest, the host or a later step. The models keep only
  whether a primitive failed.
- The parse, inject and serialize error chain of `transform_with_rules`:
  three `?` conversions of library errors, with no state of their own.
  Custom `Rules` (the tests' `MyRules`) and `call_indirect`'s conservative
  bound are not modelled either; the gas model uses `transform_default`'s
  rules.
- The scalar getters (`get_block_number`, `get_block_timestamp`,
  `get_block_gas_limit`, `get_call_data_size`, `get_code_size`,
  `get_gas_left`). They return a host value and change no state. The block
  number is the constant `CurrentBlock` that getBlockHash compares against.
- The `MockContextBuilder` configuration and the mock's fixed answers
  (balance, code size, block hash). The models take the host's answers as
  inputs over small sets.
- The engine itself (module loading, instantiation, WASM execution). Guest
  behaviour is an arbitrary choice of primitives.
