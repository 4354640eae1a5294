----------------------------- MODULE ScriptCodec -----------------------------
(***************************************************************************)
(* The byte form of a CScript (script.h, script.cpp): how an operation is *)
(* read from the bytes (GetScriptOp, which EvalScript calls for every     *)
(* opcode and IsPushOnly for the unlock script), and how data and numbers *)
(* are written as pushes (CScript::operator<< and push_int64).  A script  *)
(* is a sequence of bytes 0..255; a push's length is written with         *)
(* OP_PUSHDATA1/2/4 little-endian.                                        *)
(***************************************************************************)
EXTENDS Integers, Sequences, ScriptNum

OP_0 == 0
OP_PUSHDATA1 == 76
OP_PUSHDATA2 == 77
OP_PUSHDATA4 == 78
OP_1NEGATE == 79
OP_1 == 81
OP_16 == 96

(* GetScriptOp at byte pc: the opcode, and for a push its data, the size   *)
(* read from the bytes after a PUSHDATA1/2/4 little-endian.  False when   *)
(* the script ends first.                                                  *)
GetScriptOp(sc, pc) ==
    LET opcode == sc[pc]
        k      == CASE opcode < 76 -> 0 [] opcode = 76 -> 1 [] opcode = 77 -> 2 [] OTHER -> 4
        start  == pc + 1 + k
        nSize  == IF k = 0 THEN opcode ELSE LEValue(SubSeq(sc, pc + 1, pc + k))
        fail   == [ok |-> FALSE, opcode |-> 255, item |-> <<>>, next |-> pc]
    IN  CASE pc > Len(sc) -> fail
          [] opcode > 78 -> [ok |-> TRUE, opcode |-> opcode, item |-> <<>>, next |-> pc + 1]
          [] Len(sc) - pc < k -> fail
          [] Len(sc) + 1 - start < nSize -> fail
          [] OTHER -> [ok |-> TRUE, opcode |-> opcode,
                       item |-> SubSeq(sc, start, start + nSize - 1),
                       next |-> start + nSize]

(* CScript::IsPushOnly(pc): every operation from pc on is read and is at   *)
(* most OP_16 (OP_RESERVED included).                                      *)
RECURSIVE IsPushOnlyFrom(_, _)
IsPushOnlyFrom(sc, pc) ==
    \/ pc > Len(sc)
    \/ LET op == GetScriptOp(sc, pc)
       IN  op.ok /\ op.opcode <= OP_16 /\ IsPushOnlyFrom(sc, op.next)

IsPushOnly(sc) == IsPushOnlyFrom(sc, 1)

(* The operations of a script as EvalScript reads them, the last one not   *)
(* ok when GetOp fails (BAD_OPCODE).                                       *)
RECURSIVE ScriptOpsFrom(_, _)
ScriptOpsFrom(sc, pc) ==
    IF pc > Len(sc) THEN <<>>
    ELSE LET op == GetScriptOp(sc, pc)
             rec == [ok |-> op.ok, opcode |-> op.opcode, item |-> op.item]
         IN  IF op.ok THEN <<rec>> \o ScriptOpsFrom(sc, op.next) ELSE <<rec>>

(* CheckMinimalPush: the push opcode a datum must be written with.  An     *)
(* empty datum is OP_0; one byte 1..16 or 0x81 must be OP_1..OP_16 or      *)
(* OP_1NEGATE, never a push; then the shortest of the direct push,         *)
(* PUSHDATA1, PUSHDATA2, and anything longer is accepted.                  *)
CheckMinimalPush(data, opcode) ==
    CASE Len(data) = 0 -> opcode = OP_0
      [] Len(data) = 1 /\ data[1] \in 1..16 -> FALSE
      [] Len(data) = 1 /\ data[1] = 129 -> FALSE
      [] Len(data) <= 75 -> opcode = Len(data)
      [] Len(data) <= 255 -> opcode = OP_PUSHDATA1
      [] Len(data) <= 65535 -> opcode = OP_PUSHDATA2
      [] OTHER -> TRUE

(* Fault variant: the direct push also takes a 76-byte datum.             *)
PushVectorWideDirect(b) ==
    CASE Len(b) <= OP_PUSHDATA1 -> <<Len(b)>> \o b
      [] Len(b) <= 255 -> <<OP_PUSHDATA1, Len(b)>> \o b
      [] Len(b) <= 65535 -> <<OP_PUSHDATA2, Len(b) % 256, Len(b) \div 256>> \o b
      [] OTHER -> <<OP_PUSHDATA4>> \o [i \in 1..4 |-> (Len(b) \div (256 ^ (i - 1))) % 256] \o b

(* CScript::operator<<(std::vector<uint8_t>): the shortest length prefix,  *)
(* the size little-endian after PUSHDATA1/2/4, then the bytes.             *)
PushVector(b) ==
    CASE Len(b) < OP_PUSHDATA1 -> <<Len(b)>> \o b
      [] Len(b) <= 255 -> <<OP_PUSHDATA1, Len(b)>> \o b
      [] Len(b) <= 65535 -> <<OP_PUSHDATA2, Len(b) % 256, Len(b) \div 256>> \o b
      [] OTHER -> <<OP_PUSHDATA4>> \o [i \in 1..4 |-> (Len(b) \div (256 ^ (i - 1))) % 256] \o b

(* Fault variant: -1 is not given its opcode and is pushed as 0x81.        *)
PushInt64NoNegate(n) ==
    CASE n \in 1..16 -> <<n + (OP_1 - 1)>>
      [] n = 0 -> <<OP_0>>
      [] OTHER -> PushVector(Serialize(n))

(* CScript::push_int64: -1 and 1..16 as OP_1NEGATE and OP_1..OP_16, 0 as   *)
(* OP_0, any other number as a push of avm::serialize(n).                  *)
PushInt64(n) ==
    CASE n = -1 \/ n \in 1..16 -> <<n + (OP_1 - 1)>>
      [] n = 0 -> <<OP_0>>
      [] OTHER -> PushVector(Serialize(n))

(* CScript::DecodeOP_N for OP_0 and OP_1..OP_16, and the value EvalScript *)
(* pushes for OP_1NEGATE..OP_16: (int)opcode - (int)(OP_1 - 1).            *)
SmallIntValue(opcode) == IF opcode = OP_0 THEN 0 ELSE opcode - (OP_1 - 1)
=============================================================================
