------------------------------- MODULE ModArith -------------------------------
(***************************************************************************)
(* The modular arithmetic of EvmHost (the default addmod, mulmod and       *)
(* expmod methods of src/evm/traits.rs, with bigint_to_bytes32), on words  *)
(* of WordSize bytes in base ByteBase instead of 32 bytes of base 256.     *)
(* Each step applies one method to operand words and records the result.   *)
(***************************************************************************)
EXTENDS Integers, Sequences
LOCAL INSTANCE SequencesExt

CONSTANTS
    ByteBase,   \* values of a byte
    WordSize    \* bytes of a word

ASSUME ByteBase >= 2 /\ WordSize \in Nat \ {0}

Bytes == 0..(ByteBase - 1)
Words == [1..WordSize -> Bytes]

VARIABLES
    op,        \* the method last called
    operands,  \* its three operand words
    result     \* the word it returned

vars == <<op, operands, result>>

\* BigUint::from_bytes_be.
FromBytesBE(s) == FoldLeft(LAMBDA acc, x : acc * ByteBase + x, 0, s)

\* BigUint::to_bytes_be: the shortest big-endian bytes, <<0>> for zero.
RECURSIVE ToBytesBE(_)
ToBytesBE(v) ==
    IF v < ByteBase THEN <<v>> ELSE ToBytesBE(v \div ByteBase) \o <<v % ByteBase>>

\* bigint_to_bytes32 returning to_bytes_be without padding it to a word.
BigintToBytes32Unpadded(v) == ToBytesBE(v)

\* bigint_to_bytes32: the low WordSize bytes when longer, else zero-padded
\* on the left.
BigintToBytes32(v) ==
    LET bytes == ToBytesBE(v)
    IN IF Len(bytes) > WordSize
          THEN SubSeq(bytes, Len(bytes) - WordSize + 1, Len(bytes))
          ELSE [i \in 1..(WordSize - Len(bytes)) |-> 0] \o bytes

\* BigUint::modpow: square and multiply over the bits of the exponent.
RECURSIVE ModPow(_, _, _)
ModPow(b, e, m) ==
    IF e = 0 THEN 1 % m
    ELSE LET h == ModPow(b, e \div 2, m)
             sq == (h * h) % m
         IN IF e % 2 = 0 THEN sq ELSE (sq * (b % m)) % m

\* EvmHost::addmod: zero for a zero modulus.
AddMod(aBytes, bBytes, nBytes) ==
    LET n == FromBytesBE(nBytes)
    IN BigintToBytes32(IF n = 0 THEN 0
                       ELSE (FromBytesBE(aBytes) + FromBytesBE(bBytes)) % n)

\* EvmHost::mulmod: zero for a zero modulus.
MulMod(aBytes, bBytes, nBytes) ==
    LET n == FromBytesBE(nBytes)
    IN BigintToBytes32(IF n = 0 THEN 0
                       ELSE (FromBytesBE(aBytes) * FromBytesBE(bBytes)) % n)

\* EvmHost::expmod without the modulus-one case.
ExpModNoModOneCase(baseBytes, expBytes, modBytes) ==
    LET base == FromBytesBE(baseBytes)
        exponent == FromBytesBE(expBytes)
        modulus == FromBytesBE(modBytes)
    IN BigintToBytes32(CASE modulus = 0 -> 0
                         [] exponent = 0 -> 1
                         [] base = 0 -> 0
                         [] OTHER -> ModPow(base, exponent, modulus))

\* EvmHost::expmod: the special cases in the code's order, then modpow.
ExpMod(baseBytes, expBytes, modBytes) ==
    LET base == FromBytesBE(baseBytes)
        exponent == FromBytesBE(expBytes)
        modulus == FromBytesBE(modBytes)
    IN BigintToBytes32(CASE modulus = 0 -> 0
                         [] modulus = 1 -> 0
                         [] exponent = 0 -> 1
                         [] base = 0 -> 0
                         [] OTHER -> ModPow(base, exponent, modulus))

Init ==
    /\ op = "none"
    /\ operands = <<>>
    /\ result = [i \in 1..WordSize |-> 0]

\* One call of a method on operand words a, b, n.
Call(name, a, b, n, value) ==
    /\ op' = name
    /\ operands' = <<a, b, n>>
    /\ result' = value

Next ==
    \E a, b, n \in Words :
        \/ Call("addmod", a, b, n, AddMod(a, b, n))
        \/ Call("mulmod", a, b, n, MulMod(a, b, n))
        \/ Call("expmod", a, b, n, ExpMod(a, b, n))

Spec == Init /\ [][Next]_vars

\* A result is always a word of exactly WordSize bytes.
TypeOK ==
    /\ op \in {"none", "addmod", "mulmod", "expmod"}
    /\ result \in Words

\* Reference definitions: the value of a big-endian word, the word of the
\* low WordSize bytes of a value, and b^e mod m by repeated multiplication.
RECURSIVE ValueOf(_)
ValueOf(s) ==
    IF s = <<>> THEN 0 ELSE s[1] * ByteBase^(Len(s) - 1) + ValueOf(Tail(s))

WordOf(v) == [i \in 1..WordSize |-> (v \div ByteBase^(WordSize - i)) % ByteBase]

RECURSIVE PowRef(_, _, _)
PowRef(b, e, m) == IF e = 0 THEN 1 % m ELSE (b * PowRef(b, e - 1, m)) % m

\* The EVM's ADDMOD, MULMOD and EXPMOD (spec 4.1 and 9): zero for a zero
\* modulus, 0^0 = 1, and the result reduced to the low bits of a word.
Reference(name, a, b, n) ==
    CASE n = 0 -> 0
      [] name = "addmod" -> (a + b) % n
      [] name = "mulmod" -> (a * b) % n
      [] name = "expmod" -> PowRef(a, b, n)

\* Every result the EvmHost defaults return is the word of the reference
\* value: the special-case chain of expmod (modulus 1 before exponent 0),
\* modpow, and the padding and truncation of bigint_to_bytes32 included.
ArithMatchesReference ==
    op /= "none" =>
        result = WordOf(Reference(op, ValueOf(operands[1]), ValueOf(operands[2]),
                                  ValueOf(operands[3])))

=============================================================================
