------------------------------ MODULE ByteOps ------------------------------
(***************************************************************************)
(* The byte-string cases of the EvalScript switch: bitwise logic and      *)
(* shifts (interpreter.cpp 685-794, RShift/LShift 32-92), OP_EQUAL and     *)
(* OP_EQUALVERIFY (795-831), splice and conversion (1113-1227).  Bytes are *)
(* integers 0..255; &, | and ^^ are those of the Bitwise module.          *)
(***************************************************************************)
EXTENDS Integers, Sequences, StackOps, Bitwise

(* script.h MAX_SCRIPT_ELEMENT_SIZE (4000); a model gives a smaller value  *)
(* so that OP_CAT and OP_NUM2BIN reach it.                                 *)
CONSTANT MAX_SCRIPT_ELEMENT_SIZE

ASSUME MAX_SCRIPT_ELEMENT_SIZE \in Nat

ByteOpcodes ==
    {"OP_AND", "OP_OR", "OP_XOR", "OP_INVERT", "OP_LSHIFT", "OP_RSHIFT",
     "OP_EQUAL", "OP_EQUALVERIFY", "OP_CAT", "OP_SPLIT", "OP_REVERSEBYTES",
     "OP_NUM2BIN", "OP_BIN2NUM"}

(* make_rshift_mask / make_lshift_mask, indexed by the bit shift 0..7.     *)
RShiftMask == <<255, 254, 252, 248, 240, 224, 192, 128>>
LShiftMask == <<255, 127, 63, 31, 15, 7, 3, 1>>

(* RShift(x, n): byte i goes to byte i + n/8, its low bits carried into   *)
(* the next byte; a uint8_t carry shifted left loses what passes bit 7.   *)
(* Written per result byte: the loop ORs at most one value and one carry  *)
(* into each.                                                              *)
RShift(x, n) ==
    LET b    == n % 8
        B    == n \div 8
        mask == RShiftMask[b + 1]
        ovf  == 255 - mask
    IN  [k \in DOMAIN x |->
            (IF k - B >= 1 THEN (x[k - B] & mask) \div 2^b ELSE 0)
          | (IF k - B - 1 >= 1 THEN ((x[k - B - 1] & ovf) * 2^(8 - b)) % 256 ELSE 0)]

(* LShift(x, n): byte i goes to byte i - n/8, its high bits carried into  *)
(* the byte before.                                                        *)
LShift(x, n) ==
    LET b    == n % 8
        B    == n \div 8
        mask == LShiftMask[b + 1]
        ovf  == 255 - mask
    IN  [k \in DOMAIN x |->
            (IF k + B <= Len(x) THEN ((x[k + B] & mask) * 2^b) % 256 ELSE 0)
          | (IF k + B + 1 <= Len(x) THEN (x[k + B + 1] & ovf) \div 2^(8 - b) ELSE 0)]

(* case OP_LSHIFT / OP_RSHIFT: a shift of at least the bit length zeroes   *)
(* the value; otherwise the do-while runs once, n being below INT32_MAX.   *)
Shift(op, s) ==
    LET L  == Len(s)
        v  == s[L - 1]
        p  == ParseScriptNum(s[L], MAXIMUM_ITEM_SIZE)
        s2 == SubSeq(s, 1, L - 2)
    IN  CASE p.exc # "none" -> Fail("UNKNOWN", s)
          [] p.val < 0 -> Fail("INVALID_NUMBER_RANGE", s)
          [] p.val >= Len(v) * 8 -> Ok(Append(s2, [i \in DOMAIN v |-> 0]))
          [] op = "OP_LSHIFT" -> Ok(Append(s2, LShift(v, p.val)))
          [] OTHER -> Ok(Append(s2, RShift(v, p.val)))

(* case OP_AND / OP_OR / OP_XOR: vch1 combined in place, vch2 popped.      *)
BitLogic(op, v1, v2) ==
    [i \in DOMAIN v1 |-> CASE op = "OP_AND" -> v1[i] & v2[i]
                           [] op = "OP_OR"  -> v1[i] | v2[i]
                           [] OTHER         -> v1[i] ^^ v2[i]]

(* case OP_EQUAL / OP_EQUALVERIFY.  Below two elements the code first     *)
(* reads stacktop(-1), stack.at(size - 1): on an empty stack that throws   *)
(* std::out_of_range, caught after the loop as UNKNOWN; with one element   *)
(* it is INVALID_STACK_OPERATION.                                          *)
Equal(op, s) ==
    LET L == Len(s)
        t == Append(SubSeq(s, 1, L - 2), IF s[L - 1] = s[L] THEN <<1>> ELSE <<>>)
    IN  CASE L = 0 -> Fail("UNKNOWN", s)
          [] L = 1 -> Fail("INVALID_STACK_OPERATION", s)
          [] op = "OP_EQUAL" -> Ok(t)
          [] s[L - 1] = s[L] -> Ok(SubSeq(t, 1, Len(t) - 1))
          [] OTHER -> Fail("EQUALVERIFY", t)

(* case OP_SPLIT: the position is range-checked before getSizeType.        *)
Split(s) ==
    LET L == Len(s)
        d == s[L - 1]
        p == ParseScriptNum(s[L], MAXIMUM_ITEM_SIZE)
    IN  CASE p.exc # "none" -> Fail("UNKNOWN", s)
          [] p.val < 0 \/ p.val > Len(d) -> Fail("INVALID_SPLIT_RANGE", s)
          [] OTHER -> Ok([s EXCEPT ![L - 1] = SubSeq(d, 1, p.val),
                                   ![L] = SubSeq(d, p.val + 1, Len(d))])

(* Fault variant: the sign bit is not cleared from the old last byte.     *)
PadNumKeepsSign(raw, size) ==
    LET sign   == IF raw # <<>> /\ raw[Len(raw)] >= 128 THEN 128 ELSE 0
        padded == raw \o [i \in 1..(size - Len(raw)) |-> 0]
    IN  [padded EXCEPT ![size] = sign]

(* The padding of OP_NUM2BIN: the sign bit moves from the last byte of the *)
(* minimal encoding to the last byte of the zero-padded result.            *)
PadNum(raw, size) ==
    LET sign    == IF raw # <<>> /\ raw[Len(raw)] >= 128 THEN 128 ELSE 0
        cleared == IF raw # <<>> THEN [raw EXCEPT ![Len(raw)] = @ % 128] ELSE raw
        padded  == cleared \o [i \in 1..(size - Len(raw)) |-> 0]
    IN  [padded EXCEPT ![size] = sign]

(* case OP_NUM2BIN: size checks, pop, MinimallyEncode in place, then the   *)
(* width test and the padding.                                             *)
Num2Bin(s) ==
    LET L   == Len(s)
        p   == ParseScriptNum(s[L], MAXIMUM_ITEM_SIZE)
        s1  == SubSeq(s, 1, L - 1)
        raw == MinimallyEncode(s1[L - 1]).data
        t   == [s1 EXCEPT ![L - 1] = raw]
    IN  CASE p.exc # "none" -> Fail("UNKNOWN", s)
          [] p.val < 0 \/ p.val > INT32_MAX -> Fail("PUSH_SIZE", s)
          [] p.val > MAX_SCRIPT_ELEMENT_SIZE -> Fail("PUSH_SIZE", s)
          [] Len(raw) > p.val -> Fail("IMPOSSIBLE_ENCODING", t)
          [] Len(raw) = p.val -> Ok(t)
          [] OTHER -> Ok([t EXCEPT ![L - 1] = PadNum(raw, p.val)])

(* case OP_BIN2NUM: MinimallyEncode in place, then the range check.        *)
Bin2Num(s) ==
    LET L == Len(s)
        t == [s EXCEPT ![L] = MinimallyEncode(s[L]).data]
    IN  IF IsMinimallyEncoded(t[L], MAXIMUM_ITEM_SIZE) THEN Ok(t)
        ELSE Fail("INVALID_NUMBER_RANGE", t)

ByteArity ==
    [op \in ByteOpcodes |->
        IF op \in {"OP_INVERT", "OP_REVERSEBYTES", "OP_BIN2NUM"} THEN 1 ELSE 2]

(* The byte cases of the switch: the equality cases check their own      *)
(* depth; the others fail below their arity before they touch the stack.   *)
ByteOp(op, s) ==
    LET L == Len(s) IN
    CASE op \in {"OP_EQUAL", "OP_EQUALVERIFY"} -> Equal(op, s)
      [] L < ByteArity[op] -> Fail("INVALID_STACK_OPERATION", s)
      [] op \in {"OP_AND", "OP_OR", "OP_XOR"} ->
            IF Len(s[L - 1]) # Len(s[L]) THEN Fail("INVALID_OPERAND_SIZE", s)
            ELSE Ok(Append(SubSeq(s, 1, L - 2), BitLogic(op, s[L - 1], s[L])))
      [] op = "OP_INVERT" -> Ok([s EXCEPT ![L] = [i \in DOMAIN s[L] |-> 255 - s[L][i]]])
      [] op \in {"OP_LSHIFT", "OP_RSHIFT"} -> Shift(op, s)
      [] op = "OP_CAT" ->
            IF Len(s[L - 1]) + Len(s[L]) > MAX_SCRIPT_ELEMENT_SIZE
            THEN Fail("PUSH_SIZE", s)
            ELSE Ok(Append(SubSeq(s, 1, L - 2), s[L - 1] \o s[L]))
      [] op = "OP_SPLIT" -> Split(s)
      [] op = "OP_REVERSEBYTES" ->
            Ok([s EXCEPT ![L] = [i \in DOMAIN s[L] |-> s[L][Len(s[L]) + 1 - i]]])
      [] op = "OP_NUM2BIN" -> Num2Bin(s)
      [] OTHER -> Bin2Num(s)

=============================================================================
