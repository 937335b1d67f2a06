---------------------------- MODULE MC_MemoryBridge ----------------------------
(* MemoryBridge with a 4-byte memory, 4-bit integers, one-byte addresses  *)
(* and two-byte words. Offsets and lengths run from -1 to one past memory, *)
(* so negative, exactly-fitting and overflowing regions all occur.         *)
EXTENDS MemoryBridge

MCOffsets == -1..4
MCLengths == -1..3
\* Word operands: negative, at 0, the last word that fits, one past it.
MCWordOffsets == {-1, 0, 2, 3}
MCTopicCounts == {-1, 0, 1, 2, 4, 5}
\* -1 and 17 pass through the wrapper's i32 parameter as -1 and 1.
MCBlockNums == {-1, 0, 1, 2, 17}
MCCallData == <<1, 1>>
MCCode == <<1, 1>>
MCReturnData == <<1>>
\* One deployed account, at the address byte 1, holding three bytes of code.
MCExtCodeOf(a) == IF a = <<1>> THEN <<1, 0, 1>> ELSE NoExt
\* The host knows every block but 0, including the current one.
MCKnownBlocks == {1, 2}
MCBlockHash == <<1, 1>>
\* A stand-in digest that tells the two hashes apart and depends on the
\* length and the content of the input.
MCDigest(name, d) ==
    << IF name = "sha256" THEN 1 ELSE 0,
       (Len(d) + Cardinality({i \in DOMAIN d : d[i] = 1})) % 2 >>

\* The host's balance of an address: its first byte, then 1.
MCBalanceOf(a) == <<a[1], 1>>

====
