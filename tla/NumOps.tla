------------------------------ MODULE NumOps ------------------------------
(***************************************************************************)
(* The numeric cases of the EvalScript switch (interpreter.cpp 837-998).  *)
(* Operands are parsed by the CScriptNum constructor, which always yields  *)
(* the avm::bigint alternative; arithmetic results stay bigint and are     *)
(* written by bigint::serialize, while a bool assigned to a CScriptNum     *)
(* goes through operator=(int64_t) and the int64_t serializer.             *)
(***************************************************************************)
EXTENDS Integers, Sequences, StackOps

UnaryNumOps ==
    {"OP_1ADD", "OP_1SUB", "OP_NEGATE", "OP_ABS", "OP_NOT", "OP_0NOTEQUAL"}

BinaryNumOps ==
    {"OP_ADD", "OP_SUB", "OP_MUL", "OP_DIV", "OP_MOD", "OP_BOOLAND",
     "OP_BOOLOR", "OP_NUMEQUAL", "OP_NUMEQUALVERIFY", "OP_NUMNOTEQUAL",
     "OP_LESSTHAN", "OP_GREATERTHAN", "OP_LESSTHANOREQUAL",
     "OP_GREATERTHANOREQUAL", "OP_MIN", "OP_MAX"}

NumOpcodes == UnaryNumOps \cup BinaryNumOps \cup {"OP_WITHIN"}

(* Fault variant: floor division, as TLA+'s \div.                         *)
BnDivFloor(a, b) == a \div b

(* bigint::operator/= through BN_div: the quotient of the magnitudes,      *)
(* negated when the signs differ (truncation towards zero).                *)
BnDiv(a, b) ==
    LET q == AbsVal(a) \div AbsVal(b)
    IN  IF (a < 0) # (b < 0) THEN -q ELSE q

(* bigint::operator%= through BN_mod: the remainder of the magnitudes,     *)
(* with the sign of the dividend.                                          *)
BnMod(a, b) ==
    LET r == AbsVal(a) % AbsVal(b)
    IN  IF a < 0 THEN -r ELSE r

(* bn = (a comparison): operator=(int64_t) with a bool, then getvch.        *)
BoolNum(b) == Serialize(IF b THEN 1 ELSE 0)

(* The inner switch of OP_1ADD .. OP_0NOTEQUAL, with getvch of the result. *)
UnaryNum(op, a) ==
    CASE op = "OP_1ADD"      -> BigSerialize(a + 1)
      [] op = "OP_1SUB"      -> BigSerialize(a - 1)
      [] op = "OP_NEGATE"    -> BigSerialize(-a)
      [] op = "OP_ABS"       -> BigSerialize(IF a < 0 THEN -a ELSE a)
      [] op = "OP_NOT"       -> BoolNum(a = 0)
      [] op = "OP_0NOTEQUAL" -> BoolNum(a # 0)

(* The inner switch of OP_ADD .. OP_MAX, with getvch of the result; the    *)
(* zero divisor is tested before this is reached.                          *)
BinaryNum(op, a, b) ==
    CASE op = "OP_ADD" -> BigSerialize(a + b)
      [] op = "OP_SUB" -> BigSerialize(a - b)
      [] op = "OP_MUL" -> BigSerialize(a * b)
      [] op = "OP_DIV" -> BigSerialize(BnDiv(a, b))
      [] op = "OP_MOD" -> BigSerialize(BnMod(a, b))
      [] op = "OP_BOOLAND" -> BoolNum(a # 0 /\ b # 0)
      [] op = "OP_BOOLOR"  -> BoolNum(a # 0 \/ b # 0)
      [] op \in {"OP_NUMEQUAL", "OP_NUMEQUALVERIFY"} -> BoolNum(a = b)
      [] op = "OP_NUMNOTEQUAL" -> BoolNum(a # b)
      [] op = "OP_LESSTHAN"    -> BoolNum(a < b)
      [] op = "OP_GREATERTHAN" -> BoolNum(a > b)
      [] op = "OP_LESSTHANOREQUAL"    -> BoolNum(a <= b)
      [] op = "OP_GREATERTHANOREQUAL" -> BoolNum(a >= b)
      [] op = "OP_MIN" -> BigSerialize(IF a < b THEN a ELSE b)
      [] op = "OP_MAX" -> BigSerialize(IF a > b THEN a ELSE b)

(* The operands parsed, deepest first; a constructor that throws ends the *)
(* script through EvalScript's catch (std::exception: UNKNOWN).           *)
Parsed(s, k) ==
    [i \in 1..k |-> ParseScriptNum(s[Len(s) - k + i], MAXIMUM_ITEM_SIZE)]

ParseFails(p) == \E i \in DOMAIN p : p[i].exc # "none"

(* case OP_NUMEQUALVERIFY: the pushed result is tested and popped.         *)
NumEqualVerify(t) ==
    IF CastToBool(t[Len(t)]) THEN Ok(SubSeq(t, 1, Len(t) - 1))
    ELSE Fail("NUMEQUALVERIFY", t)

NumOp(op, s) ==
    LET L == Len(s)
        k == CASE op \in UnaryNumOps -> 1 [] op \in BinaryNumOps -> 2 [] OTHER -> 3
        p == Parsed(s, k)
        rest == SubSeq(s, 1, L - k)
    IN  CASE L < k -> Fail("INVALID_STACK_OPERATION", s)
          [] ParseFails(p) -> Fail("UNKNOWN", s)
          [] op \in UnaryNumOps -> Ok(Append(rest, UnaryNum(op, p[1].val)))
          [] op = "OP_DIV" /\ p[2].val = 0 -> Fail("DIV_BY_ZERO", s)
          [] op = "OP_MOD" /\ p[2].val = 0 -> Fail("MOD_BY_ZERO", s)
          [] op = "OP_NUMEQUALVERIFY" ->
                NumEqualVerify(Append(rest, BinaryNum(op, p[1].val, p[2].val)))
          [] op \in BinaryNumOps ->
                Ok(Append(rest, BinaryNum(op, p[1].val, p[2].val)))
          [] OTHER ->
                Ok(Append(rest, IF p[2].val <= p[1].val /\ p[1].val < p[3].val
                                THEN <<1>> ELSE <<>>))

=============================================================================
