----------------------------- MODULE ScriptNum -----------------------------
(***************************************************************************)
(* Script numbers: the byte encoding of integers on the AVM stack.         *)
(*                                                                         *)
(* A number is little-endian sign-magnitude: the most significant bit of  *)
(* the last byte is the sign.  CScriptNum parses a stack element into an  *)
(* avm::bigint (after a size and a minimality check) and writes a result  *)
(* back with getvch, which serializes either the int64_t or the bigint    *)
(* alternative of its variant.  Bytes are integers 0..255.                 *)
(***************************************************************************)
EXTENDS Integers, Sequences

(* CScriptNum::MAXIMUM_ITEM_SIZE (script_num.h), the maxIntegerSize of     *)
(* EvalScript.                                                             *)
MAXIMUM_ITEM_SIZE == 100000

AbsVal(n) == IF n < 0 THEN -n ELSE n

(* The magnitude of a little-endian byte string.                           *)
RECURSIVE LEValue(_)
LEValue(d) == IF d = <<>> THEN 0 ELSE Head(d) + 256 * LEValue(Tail(d))

(* bigint::deserialize: the bytes, reversed, as an OpenSSL MPI whose top   *)
(* bit is the sign.                                                        *)
Decode(d) ==
    IF d = <<>> THEN 0
    ELSE LET last == d[Len(d)]
             mag  == LEValue([d EXCEPT ![Len(d)] = last % 128])
         IN  IF last >= 128 THEN -mag ELSE mag

(* Fault variant: a zero top byte is always rejected, so the encodings   *)
(* that need a sign byte (0xff00 for 255) are refused.                     *)
IsMinimallyEncodedNoSignByte(d, nMaxNumSize) ==
    /\ Len(d) <= nMaxNumSize
    /\ Len(d) > 0 => d[Len(d)] % 128 # 0

(* serialize_number.h IsMinimallyEncoded.  The top byte, sign bit aside,  *)
(* must not be zero, unless the byte below it needs the sign bit.         *)
IsMinimallyEncoded(d, nMaxNumSize) ==
    /\ Len(d) <= nMaxNumSize
    /\ Len(d) > 0 /\ d[Len(d)] % 128 = 0 =>
           Len(d) > 1 /\ d[Len(d) - 1] >= 128

(* The CScriptNum(span, nMaxNumSize) constructor: the exception it throws *)
(* or the value it holds.                                                  *)
ParseScriptNum(d, nMaxNumSize) ==
    CASE Len(d) > nMaxNumSize -> [exc |-> "overflow", val |-> 0]
      [] ~IsMinimallyEncoded(d, nMaxNumSize) -> [exc |-> "nonminimal", val |-> 0]
      [] OTHER -> [exc |-> "none", val |-> Decode(d)]

(* The loop of avm::serialize for a non-zero magnitude a: low bytes first; *)
(* the last byte gets the sign bit, or an extra sign byte when its own top *)
(* bit is taken.                                                           *)
RECURSIVE SerializeAbs(_, _)
SerializeAbs(a, neg) ==
    LET tmp  == a % 256
        rest == a \div 256
    IN  IF rest # 0 THEN <<tmp>> \o SerializeAbs(rest, neg)
        ELSE IF tmp >= 128 THEN <<tmp, IF neg THEN 128 ELSE 0>>
        ELSE <<IF neg THEN tmp + 128 ELSE tmp>>

(* avm::serialize(int64_t): getvch of the int64_t alternative.             *)
Serialize(n) == IF n = 0 THEN <<>> ELSE SerializeAbs(AbsVal(n), n < 0)

(* The big-endian magnitude bytes of BN_bn2bin, here least significant    *)
(* first.                                                                  *)
RECURSIVE MagBytes(_)
MagBytes(a) == IF a = 0 THEN <<>> ELSE <<a % 256>> \o MagBytes(a \div 256)

(* Fault variant: the magnitude is written without the extra sign byte.   *)
BigSerializeNoExt(n) ==
    LET mag == MagBytes(AbsVal(n))
    IN  IF n < 0 THEN [mag EXCEPT ![Len(mag)] = @ + 128] ELSE mag

(* bigint::serialize: BN_bn2mpi (magnitude, a zero byte in front when its *)
(* top bit is set, the sign in the top bit), length prefix dropped,        *)
(* reversed.                                                               *)
BigSerialize(n) ==
    LET mag == MagBytes(AbsVal(n))
        ext == IF mag # <<>> /\ mag[Len(mag)] >= 128 THEN Append(mag, 0) ELSE mag
    IN  IF n < 0 THEN [ext EXCEPT ![Len(ext)] = @ + 128] ELSE ext

(* Fault variant: the sign is or-ed into a byte whose top bit is set.     *)
RECURSIVE TrimFromNoExtraByte(_, _, _)
TrimFromNoExtraByte(d, i, last) ==
    IF i = 0 THEN <<>>
    ELSE IF d[i] = 0 THEN TrimFromNoExtraByte(d, i - 1, last)
    ELSE SubSeq(d, 1, i - 1) \o <<d[i] + last>>

(* The trimming loop of MinimallyEncode, from byte i (1-based) down.      *)
RECURSIVE TrimFrom(_, _, _)
TrimFrom(d, i, last) ==
    IF i = 0 THEN <<>>
    ELSE IF d[i] = 0 THEN TrimFrom(d, i - 1, last)
    ELSE IF d[i] >= 128 THEN SubSeq(d, 1, i) \o <<last>>
    ELSE SubSeq(d, 1, i - 1) \o <<d[i] + last>>

(* serialize_number.h MinimallyEncode: whether it changed the data, and   *)
(* the data it leaves.                                                     *)
MinimallyEncode(d) ==
    LET n == Len(d)
    IN  CASE n = 0 -> [changed |-> FALSE, data |-> d]
          [] d[n] % 128 # 0 -> [changed |-> FALSE, data |-> d]
          [] n = 1 -> [changed |-> TRUE, data |-> <<>>]
          [] d[n - 1] >= 128 -> [changed |-> FALSE, data |-> d]
          [] OTHER -> [changed |-> TRUE, data |-> TrimFrom(d, n - 1, d[n])]

=============================================================================
