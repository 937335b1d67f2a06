---------------------------- MODULE MemoryBridge ----------------------------
(***************************************************************************)
(* The memory side of the host bridge: MemoryAccessor and the validate_*  *)
(* helpers of src/evm/utils.rs, and the primitives that move bytes between *)
(* the guest's linear memory and the host (the copy primitives, the fixed- *)
(* size getters, getBlockHash, getExternalCodeSize, storage, and the      *)
(* control primitives that hand memory to the host and exit), each with    *)
(* the extern "C" wrapper of mock_evm_bridge.rs that turns a failure into  *)
(* exception 9.                                                            *)
(* Widths are scaled down: i32/u32 become W-bit integers, i64 becomes a    *)
(* 2W-bit integer, a 20-byte address AddrSize bytes and a 32-byte word     *)
(* WordSize bytes; the host's answers are inputs.                          *)
(***************************************************************************)
EXTENDS Integers, Sequences, FiniteSets

CONSTANTS
    W,            \* bit width standing for i32 / u32
    MemSize,      \* bytes of linear memory
    AddrSize,     \* bytes of an address
    WordSize,     \* bytes of a word
    ByteVals,     \* byte values (0 included)
    Offsets,      \* i32 offsets the guest passes
    WordOffsets,  \* i32 offsets of word operands, results and topics
    TopicCounts,  \* num_topics values the guest passes to emitLogEvent
    Lengths,      \* i32 lengths the guest passes
    BlockNums,    \* i64 block numbers the guest passes to getBlockHash
    CallData,     \* the call data of the frame
    Code,         \* the frame's own code
    ReturnData,   \* the last return data
    ExtCodeOf(_), \* external code of an address, or NoExt
    CurrentBlock, \* get_block_number()
    KnownBlocks,  \* block numbers get_block_hash answers Some(..) for
    BlockHash,    \* the hash it answers
    Digest(_, _), \* EvmHost::sha256 / keccak256 of a byte sequence
    BalanceOf(_)  \* get_external_balance of an address

NoExt == "none"

ASSUME /\ W \in Nat /\ MemSize < 2^(W - 1)
       /\ AddrSize \in Nat \ {0} /\ WordSize \in Nat \ {0}
       /\ ByteVals = 0..(Cardinality(ByteVals) - 1)

VARIABLES
    mem,        \* the instance's linear memory: 0..MemSize-1 -> byte
    exception,  \* set_exception_by_hostapi(9) was called: the guest is aborted
    exitCode,   \* the code instance.exit received, or NoExit
    last        \* the last primitive, its inputs and what it returned

vars == <<mem, exception, exitCode, last>>

NoExit == -1

\* The instance still runs guest code: it neither raised nor exited.
Running == ~exception /\ exitCode = NoExit

\* The EvmHost arithmetic defaults on words of this memory.
Arith == INSTANCE ModArith WITH ByteBase <- Cardinality(ByteVals),
             op <- "none", operands <- <<>>, result <- <<>>

Addr == 0..(MemSize - 1)
Zeros(n) == [i \in 1..n |-> 0]
MinOf(a, b) == IF a <= b THEN a ELSE b

\* `x as u32` on an i32 value.
AsU32(x) == x % 2^W

\* An i64 argument received in an i32 parameter: its low W bits, signed.
LowI32(n) == LET u == n % 2^W IN IF u >= 2^(W - 1) THEN u - 2^W ELSE u

\* The engine's bounds predicate validate_wasm_addr(offset, length).
ValidateRange(off, len) == off + len <= MemSize

MathPrims == {"addmod", "mulmod", "expmod"}
HashPrims == {"sha256", "keccak256"}

ReadBytes(off, len) == [i \in 1..len |-> mem[off + i - 1]]

\* memory.write_bytes(off, data) after its range check has passed.
WriteBytes(m, off, data) ==
    [a \in Addr |-> IF off <= a /\ a < off + Len(data)
                       THEN data[a - off + 1] ELSE m[a]]

\* validate_offset_for_type: non-negative and the whole type in range.
ValidateOffsetForType(off, size) == off >= 0 /\ ValidateRange(off, size)

\* validate_data_param: offset and length non-negative, range accessible.
ValidateDataParam(off, len) ==
    off >= 0 /\ len >= 0 /\ ValidateRange(off, len)

\* Bytes a copy primitive takes from a source of which it skips src bytes.
Copied(source, src, len) ==
    MinOf(len, IF src < Len(source) THEN Len(source) - src ELSE 0)

\* The copy primitives' buffer: vec![0; len] with the available source bytes
\* copied to its front.
CopyBuffer(source, src, len) ==
    SubSeq(source, src + 1, src + Copied(source, src, len))
        \o Zeros(len - Copied(source, src, len))

\* What the last primitive was called with and handed back. args are the
\* guest's arguments; eff is the block number get_block_hash received; ret is
\* the value the guest's call returns; hostRet what the host function
\* returned before the wrapper; out the bytes a control primitive handed
\* the host.
NoLast == [prim |-> "none", args |-> <<>>, ok |-> TRUE,
           ret |-> 0, hostRet |-> 0, eff |-> 0, out |-> <<>>,
           log |-> [data |-> <<>>, topics |-> <<>>]]

\* The outcome of a primitive: on success memory becomes newMem; on failure
\* memory is untouched and, when the wrapper raises, the guest is aborted
\* with exception 9.
Outcome(ok, raises, newMem, rec) ==
    /\ mem' = IF ok THEN newMem ELSE mem
    /\ exception' = (~ok /\ raises)
    /\ last' = [rec EXCEPT !.ok = ok]
    /\ UNCHANGED exitCode

Init ==
    /\ mem \in [Addr -> ByteVals]
    /\ exception = FALSE
    /\ exitCode = NoExit
    /\ last = NoLast

\* A call_data_copy that, like code_copy, writes only the copied prefix.
CallDataCopyPrefixOnly(res, src, len) ==
    /\ Running
    /\ Outcome(ValidateDataParam(res, len) /\ src >= 0, TRUE,
               WriteBytes(mem, res, SubSeq(CopyBuffer(CallData, src, len), 1,
                                           Copied(CallData, src, len))),
               [NoLast EXCEPT !.prim = "callDataCopy",
                              !.args = <<res, src, len>>])

\* call_data_copy (transaction.rs) behind the callDataCopy wrapper: validate
\* the destination, refuse a negative source offset, build a zero-initialised
\* buffer of len bytes with the available call data at its front, and write
\* the whole buffer.
CallDataCopy(res, src, len) ==
    /\ Running
    /\ Outcome(ValidateDataParam(res, len) /\ src >= 0, TRUE,
               WriteBytes(mem, res, CopyBuffer(CallData, src, len)),
               [NoLast EXCEPT !.prim = "callDataCopy",
                              !.args = <<res, src, len>>])

\* A return_data_copy without the `data_offset < 0` check: the offset's
\* `as usize` is then past any return data and the copy is all zeros.
ReturnDataCopyNoSrcCheck(res, src, len) ==
    /\ Running
    /\ Outcome(ValidateDataParam(res, len), TRUE,
               WriteBytes(mem, res, IF src < 0 THEN Zeros(len)
                                    ELSE CopyBuffer(ReturnData, src, len)),
               [NoLast EXCEPT !.prim = "returnDataCopy",
                              !.args = <<res, src, len>>])

\* return_data_copy (control.rs): the same shape over the return data.
ReturnDataCopy(res, src, len) ==
    /\ Running
    /\ Outcome(ValidateDataParam(res, len) /\ src >= 0, TRUE,
               WriteBytes(mem, res, CopyBuffer(ReturnData, src, len)),
               [NoLast EXCEPT !.prim = "returnDataCopy",
                              !.args = <<res, src, len>>])

\* code_copy (code.rs): builds the same zero-filled buffer but writes only
\* buffer[..copied_bytes].
CodeCopy(res, src, len) ==
    /\ Running
    /\ Outcome(ValidateDataParam(res, len) /\ src >= 0, TRUE,
               WriteBytes(mem, res, SubSeq(CopyBuffer(Code, src, len), 1,
                                           Copied(Code, src, len))),
               [NoLast EXCEPT !.prim = "codeCopy",
                              !.args = <<res, src, len>>])

\* external_code_copy (code.rs): validate the address and the destination,
\* refuse a negative code offset, read the address, and write len bytes:
\* the zero-filled copy of the account's code, or zeros for no account.
ExternalCodeCopy(addrOff, res, src, len) ==
    /\ Running
    /\ LET code == ExtCodeOf(ReadBytes(addrOff, AddrSize))
       IN Outcome(/\ ValidateOffsetForType(addrOff, AddrSize)
                  /\ ValidateDataParam(res, len) /\ src >= 0, TRUE,
                  IF code = NoExt THEN WriteBytes(mem, res, Zeros(len))
                  ELSE WriteBytes(mem, res, CopyBuffer(code, src, len)),
                  [NoLast EXCEPT !.prim = "externalCodeCopy",
                        !.args = <<addrOff, res, src, len>>])

\* get_block_hash (block.rs): found when the number is below the current
\* block and the host knows it.
BlockHashFound(n) == n >= 0 /\ n < CurrentBlock /\ n \in KnownBlocks

\* The getBlockHash import: the descriptor declares (i64, i32) -> i32, the
\* wrapper takes (i32 number_offset, i32 result_offset) and returns nothing.
\* The host function sees the low 32 bits of n; the guest's result is
\* whatever the return register holds (undefined: any value).
GetBlockHash(n, res) ==
    /\ Running
    /\ \E garbage \in {0, 1} :
         LET eff == LowI32(n)
             hostRet == IF BlockHashFound(eff) THEN 1 ELSE 0
         IN Outcome(ValidateOffsetForType(res, WordSize), TRUE,
                    WriteBytes(mem, res, IF hostRet = 1 THEN BlockHash
                                         ELSE Zeros(WordSize)),
                    [NoLast EXCEPT !.prim = "getBlockHash", !.args = <<n, res>>,
                                   !.eff = eff, !.hostRet = hostRet,
                                   !.ret = garbage])

\* The getExternalCodeSize wrapper's unwrap_or_default: an Err becomes 0.
UnwrapOrDefault(ok, v) == IF ok THEN v ELSE 0

\* get_external_code_size answering -1 for an account without code.
GetExternalCodeSizeMissingIsMinusOne(addrOff) ==
    /\ Running
    /\ LET ok == ValidateOffsetForType(addrOff, AddrSize)
           code == ExtCodeOf(ReadBytes(addrOff, AddrSize))
       IN Outcome(ok, FALSE, mem,
                  [NoLast EXCEPT !.prim = "getExternalCodeSize",
                       !.args = <<addrOff>>,
                       !.ret = CASE ~ok -> 0 [] code = NoExt -> -1
                                 [] OTHER -> Len(code)])

\* get_external_code_size (code.rs) behind a wrapper that turns Err into 0
\* with unwrap_or_default: a failed validation raises nothing.
GetExternalCodeSize(addrOff) ==
    /\ Running
    /\ LET ok == ValidateOffsetForType(addrOff, AddrSize)
           code == ExtCodeOf(ReadBytes(addrOff, AddrSize))
       IN Outcome(ok, FALSE, mem,
                  [NoLast EXCEPT !.prim = "getExternalCodeSize",
                       !.args = <<addrOff>>,
                       !.ret = UnwrapOrDefault(ok, IF code # NoExt THEN Len(code)
                                                   ELSE 0)])

\* The getters that write a 20-byte address; the others write a word.
AddressGetters == {"getAddress", "getCaller", "getTxOrigin", "getBlockCoinbase"}

ResultSize(name) == IF name \in AddressGetters THEN AddrSize ELSE WordSize

\* The shape every fixed-size getter shares, with its extern "C" wrapper:
\* validate_address_param or validate_bytes32_param on the result offset,
\* write the host's value there; an Err raises exception 9.
WriteHostValue(name, res, val) ==
    /\ Running
    /\ Outcome(ValidateOffsetForType(res, ResultSize(name)), TRUE,
               WriteBytes(mem, res, val),
               [NoLast EXCEPT !.prim = name, !.args = <<res>>])

AccountGetters == {"getAddress", "getCaller", "getTxOrigin", "getCallValue",
                   "getChainId"}

\* get_address, get_caller, get_tx_origin (addresses), get_call_value and
\* get_chain_id (words) of account.rs.
AccountValue(name, res, val) ==
    /\ name \in AccountGetters
    /\ WriteHostValue(name, res, val)

\* get_block_coinbase (an address) and get_block_prev_randao (a word) of
\* block.rs.
BlockValue(name, res, val) ==
    /\ name \in {"getBlockCoinbase", "getBlockPrevRandao"}
    /\ WriteHostValue(name, res, val)

\* get_base_fee and get_blob_base_fee of fee.rs.
FeeValue(name, res, val) ==
    /\ name \in {"getBaseFee", "getBlobBaseFee"}
    /\ WriteHostValue(name, res, val)

\* get_tx_gas_price of transaction.rs.
TxGasPrice(res, val) == WriteHostValue("getTxGasPrice", res, val)

EnvGetters == AccountGetters \cup {"getBlockCoinbase", "getBlockPrevRandao",
                                  "getBaseFee", "getBlobBaseFee", "getTxGasPrice"}

\* get_external_balance (account.rs): validate the address and the result
\* word, read the address, write the balance the host reports for it.
GetExternalBalance(addrOff, res) ==
    /\ Running
    /\ Outcome(/\ ValidateOffsetForType(addrOff, AddrSize)
               /\ ValidateOffsetForType(res, WordSize), TRUE,
               WriteBytes(mem, res, BalanceOf(ReadBytes(addrOff, AddrSize))),
               [NoLast EXCEPT !.prim = "getExternalBalance",
                              !.args = <<addrOff, res>>])

\* get_external_code_hash (code.rs): validate the address and the result
\* word, read the address, write the account's code hash, or zeros when
\* the host knows no such account.
ExternalCodeHash(addrOff, res) ==
    /\ Running
    /\ LET code == ExtCodeOf(ReadBytes(addrOff, AddrSize))
       IN Outcome(/\ ValidateOffsetForType(addrOff, AddrSize)
                  /\ ValidateOffsetForType(res, WordSize), TRUE,
                  WriteBytes(mem, res, IF code = NoExt THEN Zeros(WordSize)
                                       ELSE Digest("keccak256", code)),
                  [NoLast EXCEPT !.prim = "getExternalCodeHash",
                                 !.args = <<addrOff, res>>])

\* sha256 and keccak256 (crypto.rs): validate the input region and the
\* result word, read the input, write the host's digest.
HashPrim(name, inOff, len, res) ==
    /\ Running
    /\ Outcome(ValidateDataParam(inOff, len) /\ ValidateOffsetForType(res, WordSize),
               TRUE, WriteBytes(mem, res, Digest(name, ReadBytes(inOff, len))),
               [NoLast EXCEPT !.prim = name, !.args = <<inOff, len, res>>])

\* emit_log_event (log.rs): refuse num_topics outside 0..4, validate the
\* data region, read it, then for each of the first num_topics offsets read
\* a word, except that an offset of 0 stands for the zero topic; the event
\* goes to the host and memory is only read.
EmitLogEvent(dataOff, len, n, t) ==
    /\ Running
    /\ LET ok == /\ n >= 0 /\ n <= 4
                 /\ ValidateDataParam(dataOff, len)
                 /\ \A i \in 1..n : t[i] /= 0 => ValidateOffsetForType(t[i], WordSize)
           topic(o) == IF o /= 0 THEN ReadBytes(o, WordSize) ELSE Zeros(WordSize)
       IN Outcome(ok, TRUE, mem,
                  [NoLast EXCEPT !.prim = "emitLogEvent",
                     !.args = <<dataOff, len, n>> \o t,
                     !.log = IF ok THEN [data |-> ReadBytes(dataOff, len),
                                         topics |-> [i \in 1..n |-> topic(t[i])]]
                             ELSE NoLast.log])

\* emit_log0 .. emit_log4 (log.rs): emit_log_event with num_topics = n,
\* the n topic offsets given, and 0 for the unused ones.
EmitLogN(n, dataOff, len, ts) ==
    EmitLogEvent(dataOff, len, n, ts \o Zeros(4 - n))

\* storage_store (storage.rs): both offsets go through `as u32` straight to
\* read_bytes32, with no negative check; memory is only read.
StorageStore(keyOff, valOff) ==
    /\ Running
    /\ Outcome(/\ ValidateRange(AsU32(keyOff), WordSize)
               /\ ValidateRange(AsU32(valOff), WordSize), TRUE, mem,
               [NoLast EXCEPT !.prim = "storageStore", !.args = <<keyOff, valOff>>])

\* storage_load (storage.rs): read the key at keyOff as u32, ask the host,
\* write the word at resOff as u32.
StorageLoad(keyOff, resOff, val) ==
    /\ Running
    /\ Outcome(/\ ValidateRange(AsU32(keyOff), WordSize)
               /\ ValidateRange(AsU32(resOff), WordSize), TRUE,
               WriteBytes(mem, AsU32(resOff), val),
               [NoLast EXCEPT !.prim = "storageLoad", !.args = <<keyOff, resOff>>])

\* An expmod host function handing the host the exponent as the base.
MathPrimSwapped(name, a, b, n, res) ==
    /\ Running
    /\ LET A == ReadBytes(a, WordSize)
           B == ReadBytes(b, WordSize)
           N == ReadBytes(n, WordSize)
           value == CASE name = "addmod" -> Arith!AddMod(A, B, N)
                      [] name = "mulmod" -> Arith!MulMod(A, B, N)
                      [] name = "expmod" -> Arith!ExpMod(B, A, N)
       IN Outcome(\A o \in {a, b, n, res} : ValidateOffsetForType(o, WordSize),
                  TRUE, WriteBytes(mem, res, value),
                  [NoLast EXCEPT !.prim = name, !.args = <<a, b, n, res>>])

\* addmod, mulmod and expmod (math.rs): validate the three operand offsets
\* and the result offset as words, read the three operands, ask the host,
\* and write the result word.
MathPrim(name, a, b, n, res) ==
    /\ Running
    /\ LET A == ReadBytes(a, WordSize)
           B == ReadBytes(b, WordSize)
           N == ReadBytes(n, WordSize)
           value == CASE name = "addmod" -> Arith!AddMod(A, B, N)
                      [] name = "mulmod" -> Arith!MulMod(A, B, N)
                      [] name = "expmod" -> Arith!ExpMod(A, B, N)
       IN Outcome(\A o \in {a, b, n, res} : ValidateOffsetForType(o, WordSize),
                  TRUE, WriteBytes(mem, res, value),
                  [NoLast EXCEPT !.prim = name, !.args = <<a, b, n, res>>])

\* The code each control primitive passes to instance.exit.
ExitCodeOf == [finish |-> 0, revert |-> 1, invalid |-> 2, selfDestruct |-> 3]

\* A control primitive: when its checks pass it hands the host out and
\* exits the instance with its code; else the wrapper raises exception 9.
ControlExit(name, args, ok, out) ==
    /\ Running
    /\ mem' = mem
    /\ exception' = ~ok
    /\ exitCode' = IF ok THEN ExitCodeOf[name] ELSE NoExit
    /\ last' = [NoLast EXCEPT !.prim = name, !.args = args, !.ok = ok,
                              !.out = IF ok THEN out ELSE <<>>]

\* finish and revert (control.rs): validate_data_param on the data region,
\* read it, hand it to EvmHost::finish / revert, exit with 0 / 1.
ExitWithData(name, off, len) ==
    /\ name \in {"finish", "revert"}
    /\ ControlExit(name, <<off, len>>, ValidateDataParam(off, len),
                   ReadBytes(off, len))

\* invalid (control.rs): EvmHost::invalid, then exit with 2.
Invalid == ControlExit("invalid", <<>>, TRUE, <<>>)

\* self_destruct (control.rs): validate_address_param, read the recipient,
\* hand it to EvmHost::self_destruct, exit with 3.
SelfDestruct(addrOff) ==
    ControlExit("selfDestruct", <<addrOff>>, ValidateOffsetForType(addrOff, AddrSize),
                ReadBytes(addrOff, AddrSize))

\* Once exception 9 is set, or the instance has exited, it makes no more
\* calls.
Done == ~Running /\ UNCHANGED vars

Next ==
    \/ \E res \in Offsets, src \in Offsets, len \in Lengths :
          \/ CallDataCopy(res, src, len)
          \/ ReturnDataCopy(res, src, len)
          \/ CodeCopy(res, src, len)
          \/ \E a \in Offsets : ExternalCodeCopy(a, res, src, len)
    \/ \E n \in BlockNums, res \in Offsets : GetBlockHash(n, res)
    \/ \E a \in Offsets : GetExternalCodeSize(a)
    \/ \E name \in EnvGetters, res \in Offsets :
          \E val \in [1..ResultSize(name) -> ByteVals] :
             \/ AccountValue(name, res, val)
             \/ BlockValue(name, res, val)
             \/ FeeValue(name, res, val)
             \/ TxGasPrice(res, val)
    \/ \E a, res \in Offsets : GetExternalBalance(a, res)
    \/ \E k \in Offsets, v \in Offsets : StorageStore(k, v)
    \/ \E k \in Offsets, res \in Offsets, val \in [1..WordSize -> ByteVals] :
          StorageLoad(k, res, val)
    \/ \E name \in MathPrims, a, b, n, res \in WordOffsets : MathPrim(name, a, b, n, res)
    \/ \E a \in Offsets, res \in WordOffsets : ExternalCodeHash(a, res)
    \/ \E name \in HashPrims, inOff \in Offsets, len \in Lengths, res \in WordOffsets :
          HashPrim(name, inOff, len, res)
    \/ \E dataOff \in WordOffsets, n \in TopicCounts, t1, t2 \in WordOffsets :
          EmitLogEvent(dataOff, 1, n, <<t1, t2, 0, 0>>)
    \/ \E n \in 0..2, dataOff \in WordOffsets, t1, t2 \in WordOffsets :
          EmitLogN(n, dataOff, 1, SubSeq(<<t1, t2>>, 1, n))
    \/ \E name \in {"finish", "revert"}, off \in Offsets, len \in Lengths :
          ExitWithData(name, off, len)
    \/ Invalid
    \/ \E a \in Offsets : SelfDestruct(a)
    \/ Done

Spec == Init /\ [][Next]_vars

\* Memory is bytes, and the record of the last primitive is well formed.
TypeOK ==
    /\ mem \in [Addr -> ByteVals]
    /\ exception \in BOOLEAN
    /\ exitCode \in {NoExit} \cup 0..3
    /\ last.ok \in BOOLEAN /\ last.ret \in Nat /\ last.hostRet \in {0, 1}

\* The specification's range rule (section 4.3), stated on the guest's raw
\* i32 arguments: a region is acceptable when its offset and length are not
\* negative and it lies inside memory.
InMemory(off, len) == off >= 0 /\ len >= 0 /\ off + len <= MemSize

CopyPrims == {"callDataCopy", "returnDataCopy", "codeCopy", "externalCodeCopy"}

\* The res, src, len arguments of a copy primitive.
CopyArgs(r) == IF r.prim = "externalCodeCopy" THEN Tail(r.args) ELSE r.args

Acceptable(r) ==
    CASE r.prim \in CopyPrims ->
            /\ r.prim = "externalCodeCopy" => InMemory(r.args[1], AddrSize)
            /\ InMemory(CopyArgs(r)[1], CopyArgs(r)[3]) /\ CopyArgs(r)[2] >= 0
      [] r.prim = "getExternalCodeSize" -> InMemory(r.args[1], AddrSize)
      [] r.prim \in {"getAddress", "getCaller", "getTxOrigin", "getBlockCoinbase"} ->
            InMemory(r.args[1], AddrSize)
      [] r.prim \in {"getCallValue", "getChainId", "getBlockPrevRandao",
                     "getBaseFee", "getBlobBaseFee", "getTxGasPrice"} ->
            InMemory(r.args[1], WordSize)
      [] r.prim = "getExternalBalance" ->
            InMemory(r.args[1], AddrSize) /\ InMemory(r.args[2], WordSize)
      [] r.prim = "getBlockHash" -> InMemory(r.args[2], WordSize)
      [] r.prim \in MathPrims ->
            \A i \in 1..4 : InMemory(r.args[i], WordSize)
      [] r.prim = "getExternalCodeHash" ->
            InMemory(r.args[1], AddrSize) /\ InMemory(r.args[2], WordSize)
      [] r.prim \in HashPrims ->
            InMemory(r.args[1], r.args[2]) /\ InMemory(r.args[3], WordSize)
      [] r.prim = "emitLogEvent" ->
            /\ r.args[3] \in 0..4 /\ InMemory(r.args[1], r.args[2])
            /\ \A i \in 1..r.args[3] : InMemory(r.args[3 + i], WordSize)
      [] r.prim \in {"storageStore", "storageLoad"} ->
            InMemory(r.args[1], WordSize) /\ InMemory(r.args[2], WordSize)
      [] r.prim \in {"finish", "revert"} -> InMemory(r.args[1], r.args[2])
      [] r.prim = "selfDestruct" -> InMemory(r.args[1], AddrSize)
      [] r.prim = "invalid" -> TRUE

\* Every primitive that touches guest memory succeeds exactly on the
\* arguments the specification accepts: validate_data_param, the
\* validate_*_param helpers and the storage primitives' unchecked `as u32`
\* casts neither let a negative or out-of-range region through nor refuse a
\* region that fits exactly.
ValidationContract ==
    [][last'.prim # "none" => (last'.ok <=> Acceptable(last'))]_vars

\* The source a copy primitive reads, per the specification: the call data,
\* the return data, the code, or the code of the account whose address is
\* stored at addr (empty when there is none).
SpecSource(r) ==
    CASE r.prim = "callDataCopy" -> CallData
      [] r.prim = "returnDataCopy" -> ReturnData
      [] r.prim = "codeCopy" -> Code
      [] r.prim = "externalCodeCopy" ->
            LET c == ExtCodeOf([i \in 1..AddrSize |-> mem[r.args[1] + i - 1]])
            IN IF c = NoExt THEN <<>> ELSE c

\* Memory after an EVM copy of len bytes from byte src of source to res:
\* byte by byte, the source byte when there is one, else zero.
ZeroFilled(res, src, len, source) ==
    [a \in Addr |-> IF a < res \/ a >= res + len THEN mem[a]
                    ELSE IF src + a - res < Len(source)
                         THEN source[src + a - res + 1] ELSE 0]

\* The zero-fill rule for a step of a set of copy primitives: a successful
\* copy leaves exactly len bytes written at res, the available source bytes
\* and then zeros, and every other byte as it was.
ZeroFillStep(prims) ==
    last'.prim \in prims /\ last'.ok =>
        mem' = ZeroFilled(CopyArgs(last')[1], CopyArgs(last')[2],
                          CopyArgs(last')[3], SpecSource(last'))

\* call_data_copy, return_data_copy and external_code_copy honour the
\* zero-fill rule, the account-less external copy included.
CopiesZeroFill ==
    [][ZeroFillStep({"callDataCopy", "returnDataCopy", "externalCodeCopy"})]_vars

\* code_copy honours the zero-fill rule (spec 4.3 and 9.2); code.rs writes
\* only buffer[..copied_bytes].
CodeCopyZeroFill == [][ZeroFillStep({"codeCopy"})]_vars

\* The bytes of memory from off, before the step.
Region(off, len) == [i \in 1..len |-> mem[off + i - 1]]

\* The word a computing primitive must produce from memory as it was before
\* the call: the EVM result of the three operand words for addmod, mulmod
\* and expmod, the host's digest of the input region for the hashes.
ExpectedWord(r) ==
    IF r.prim \in MathPrims
    THEN LET v(k) == Arith!ValueOf(Region(r.args[k], WordSize))
         IN Arith!WordOf(Arith!Reference(r.prim, v(1), v(2), v(3)))
    ELSE Digest(r.prim, Region(r.args[1], r.args[2]))

\* addmod, mulmod, expmod, sha256 and keccak256 leave at res exactly the
\* word computed from their inputs as they were before the call (the result
\* may overwrite an input), and every other byte as it was.
ComputedWordWritten ==
    [][last'.prim \in MathPrims \cup HashPrims /\ last'.ok =>
         LET res == last'.args[Len(last'.args)]
         IN \A x \in Addr :
              mem'[x] = IF res <= x /\ x < res + WordSize
                           THEN ExpectedWord(last')[x - res + 1] ELSE mem[x]]_vars

\* emitLogEvent hands the host the len bytes at data and, in order, the
\* num_topics words at t1..t4 (spec 4.5: topics are words in memory), and
\* leaves memory as it was; log.rs reads offset 0 as the zero topic.
LogCarriesMemory ==
    [][last'.prim = "emitLogEvent" /\ last'.ok =>
         LET a == last'.args
         IN /\ last'.log.data = Region(a[1], a[2])
            /\ last'.log.topics = [i \in 1..a[3] |-> Region(a[3 + i], WordSize)]
            /\ mem' = mem]_vars

\* The word getBlockHash leaves at res and the verdict it gives, for a
\* block number n, per spec section 4.4: the hash and 1 when
\* 0 <= n < current block and the host knows n, else zeros and 0.
BlockHashVerdict(n, res, verdict) ==
    LET found == n >= 0 /\ n < CurrentBlock /\ n \in KnownBlocks
    IN /\ verdict = IF found THEN 1 ELSE 0
       /\ \A i \in 1..WordSize :
            mem'[res + i - 1] = IF found THEN BlockHash[i] ELSE 0

\* The guest's getBlockHash(n, res) follows the verdict for the n it passed:
\* fails through the wrapper's i32 parameter and missing result.
GuestBlockHashFaithful ==
    [][last'.prim = "getBlockHash" /\ last'.ok =>
         BlockHashVerdict(last'.args[1], last'.args[2], last'.ret)]_vars

====
