----------------------------- MODULE StackOps -----------------------------
(***************************************************************************)
(* The stack-manipulation cases of the EvalScript switch (interpreter.cpp  *)
(* 506-683): each opcode as an operator from the main stack to an outcome  *)
(* [res, stack], res being "next" or the error the case returns.  They     *)
(* are written with the code's index arithmetic (stacktop(-i) is           *)
(* s[Len(s) + 1 - i], erase and insert positions counted from the end).    *)
(*                                                                         *)
(* NDEBUG says whether the build compiles assert() away; the build either *)
(* does or does not, so it is a constant.                                  *)
(***************************************************************************)
EXTENDS Integers, Sequences, ScriptNum

CONSTANT NDEBUG

ASSUME NDEBUG \in BOOLEAN

INT32_MAX == 2147483647

(* CastToBool: any non-zero byte is true, except a final 0x80 (-0).        *)
CastToBool(v) ==
    \E i \in DOMAIN v : v[i] # 0 /\ ~(i = Len(v) /\ v[i] = 128)

StackOpcodes ==
    {"OP_2DROP", "OP_2DUP", "OP_3DUP", "OP_2OVER", "OP_2ROT", "OP_2SWAP",
     "OP_IFDUP", "OP_DEPTH", "OP_DROP", "OP_DUP", "OP_NIP", "OP_OVER",
     "OP_PICK", "OP_ROLL", "OP_ROT", "OP_SWAP", "OP_TUCK", "OP_SIZE"}

(* The number of elements each case requires, INVALID_STACK_OPERATION     *)
(* below it.                                                               *)
MinDepth ==
    [OP_2DROP |-> 2, OP_2DUP |-> 2, OP_3DUP |-> 3, OP_2OVER |-> 4,
     OP_2ROT |-> 6, OP_2SWAP |-> 4, OP_IFDUP |-> 1, OP_DEPTH |-> 0,
     OP_DROP |-> 1, OP_DUP |-> 1, OP_NIP |-> 2, OP_OVER |-> 2,
     OP_PICK |-> 2, OP_ROLL |-> 2, OP_ROT |-> 3, OP_SWAP |-> 2,
     OP_TUCK |-> 2, OP_SIZE |-> 1]

Ok(s) == [res |-> "next", stack |-> s]
Fail(e, s) == [res |-> e, stack |-> s]

(* CScriptNum::getSizeType: assert(n >= 0 && n <= INT32_MAX).              *)
SizeTypeAsserts(n) == ~NDEBUG /\ (n < 0 \/ n > INT32_MAX)

(* Fault variant: ROLL erases the element above xn (stack.end() - n).     *)
PickRollEraseOffByOne(op, s) ==
    LET p  == ParseScriptNum(s[Len(s)], MAXIMUM_ITEM_SIZE)
        n  == p.val
        s1 == SubSeq(s, 1, Len(s) - 1)
        at == Len(s1) - n
    IN  CASE p.exc # "none" -> Fail("UNKNOWN", s)
          [] SizeTypeAsserts(n) -> Fail("ABORT", s)
          [] n < 0 \/ n >= Len(s1) -> Fail("INVALID_STACK_OPERATION", s1)
          [] op = "OP_PICK" -> Ok(Append(s1, s1[at]))
          [] OTHER -> Ok(Append(SubSeq(s1, 1, at) \o SubSeq(s1, at + 2, Len(s1)),
                                s1[at]))

(* case OP_PICK / OP_ROLL.  The index is parsed (a non-minimal or         *)
(* oversized element throws, and EvalScript's catch turns it into         *)
(* UNKNOWN), converted by getSizeType, popped, and only then range-checked.*)
PickRoll(op, s) ==
    LET p  == ParseScriptNum(s[Len(s)], MAXIMUM_ITEM_SIZE)
        n  == p.val
        s1 == SubSeq(s, 1, Len(s) - 1)
        at == Len(s1) - n
    IN  CASE p.exc # "none" -> Fail("UNKNOWN", s)
          [] SizeTypeAsserts(n) -> Fail("ABORT", s)
          [] n < 0 \/ n >= Len(s1) -> Fail("INVALID_STACK_OPERATION", s1)
          [] op = "OP_PICK" -> Ok(Append(s1, s1[at]))
          [] OTHER -> Ok(Append(SubSeq(s1, 1, at - 1) \o SubSeq(s1, at + 1, Len(s1)),
                                s1[at]))

(* The cases once the depth check has passed; L = stack.size().           *)
Effect(op, s) ==
    LET L == Len(s) IN
    CASE op = "OP_2DROP" -> Ok(SubSeq(s, 1, L - 2))
      [] op = "OP_2DUP"  -> Ok(s \o <<s[L - 1], s[L]>>)
      [] op = "OP_3DUP"  -> Ok(s \o <<s[L - 2], s[L - 1], s[L]>>)
      [] op = "OP_2OVER" -> Ok(s \o <<s[L - 3], s[L - 2]>>)
      [] op = "OP_2ROT"  ->
            Ok(SubSeq(s, 1, L - 6) \o SubSeq(s, L - 3, L) \o <<s[L - 5], s[L - 4]>>)
      [] op = "OP_2SWAP" ->
            Ok([s EXCEPT ![L - 3] = s[L - 1], ![L - 1] = s[L - 3],
                         ![L - 2] = s[L],     ![L] = s[L - 2]])
      [] op = "OP_IFDUP" -> Ok(IF CastToBool(s[L]) THEN Append(s, s[L]) ELSE s)
      [] op = "OP_DEPTH" -> Ok(Append(s, BigSerialize(L)))
      [] op = "OP_DROP"  -> Ok(SubSeq(s, 1, L - 1))
      [] op = "OP_DUP"   -> Ok(Append(s, s[L]))
      [] op = "OP_NIP"   -> Ok(Append(SubSeq(s, 1, L - 2), s[L]))
      [] op = "OP_OVER"  -> Ok(Append(s, s[L - 1]))
      [] op \in {"OP_PICK", "OP_ROLL"} -> PickRoll(op, s)
      [] op = "OP_ROT"   ->
            LET t == [s EXCEPT ![L - 2] = s[L - 1], ![L - 1] = s[L - 2]]
            IN  Ok([t EXCEPT ![L - 1] = t[L], ![L] = t[L - 1]])
      [] op = "OP_SWAP"  -> Ok([s EXCEPT ![L - 1] = s[L], ![L] = s[L - 1]])
      [] op = "OP_TUCK"  -> Ok(SubSeq(s, 1, L - 2) \o <<s[L]>> \o SubSeq(s, L - 1, L))
      [] op = "OP_SIZE"  -> Ok(Append(s, BigSerialize(Len(s[L]))))

StackOp(op, s) ==
    IF Len(s) < MinDepth[op] THEN Fail("INVALID_STACK_OPERATION", s)
    ELSE Effect(op, s)

=============================================================================
