---------------------------- MODULE MC_EvalLoop ----------------------------
(***************************************************************************)
(* Model of VerifyScriptAvm/EvalScript with the optimized ConditionStack, *)
(* carrying the materialized vector of booleans beside it, and the check  *)
(* that it implements the same loop over the materialized condition stack.*)
(***************************************************************************)
EXTENDS Integers, Sequences, CondStack, DataOps

CONSTANTS MaxOps, MaxStackSize, MaxUnlockLen, MaxLockLen, OpSet,
          LOCKTIME_THRESHOLD, SEQUENCE_FINAL

VARIABLES phase, stack, altstack, vfExec, nOpCount, script, opNum, status, err

vars == <<phase, stack, altstack, vfExec, nOpCount, script, opNum, status, err>>

(* Every condition stack a script within the length bounds can build.    *)
MaxLen == IF MaxUnlockLen > MaxLockLen THEN MaxUnlockLen ELSE MaxLockLen

\* no introspection, hash or signature opcode is in the control-flow runs:
\* an empty transaction, no auth key and primitives that are never called
MCNoTx == <<>>
MCNoDigest(alg, v) == <<>>
MCNoVerify(pk, hash, sig) == FALSE
\* the spending transaction: version 2, one input, not final, no output,
\* its lock time a time
MCLockTx == <<[txid |-> <<1>>, n |-> 0, nSequence |-> 14, script |-> <<>>]>>
OptValues == [size : 0..MaxLen, ffp : (0..MaxLen) \cup {NO_FALSE}]
MatValues == UNION {[1..k -> BOOLEAN] : k \in 0..MaxLen}
PairValues == [opt : OptValues, mat : MatValues]

Impl == INSTANCE EvalLoop WITH
    CsInit <- PairInit, CsEmpty <- PairEmpty, CsAllTrue <- PairAllTrue,
    CsPushBack <- PairPushBack, CsPopBack <- PairPopBack,
    CsToggleTop <- PairToggleTop, CsValues <- PairValues,
    DataHandler <- DataOp

(* The refinement mapping: the abstract loop sees the materialized stack. *)
Abs == INSTANCE EvalLoop WITH
    CsInit <- MatInit, CsEmpty <- MatEmpty, CsAllTrue <- MatAllTrue,
    CsPushBack <- MatPushBack, CsPopBack <- MatPopBack,
    CsToggleTop <- MatToggleTop, CsValues <- MatValues,
    DataHandler <- DataOp, vfExec <- vfExec.mat

Spec == Impl!Spec

TypeOK == Impl!TypeOK

OpLimitEnforced == Impl!OpLimitEnforced
VerdictBalanced == Impl!VerdictBalanced

IsIf(op) == op \in {"OP_IF", "OP_NOTIF"}
IsEndif(op) == op = "OP_ENDIF"

(* While a script runs, the condition stack is as deep as the number of   *)
(* IF/NOTIF minus the number of ENDIF it has read: the conditional        *)
(* opcodes are dispatched in skipped branches too, so nesting inside a    *)
(* false branch is still matched.                                          *)
CondDepth ==
    status = "running" =>
        Len(vfExec.mat) = Len(SelectSeq(script, IsIf)) - Len(SelectSeq(script, IsEndif))

(***************************************************************************)
(* The byte form of pushes, over data at the length boundaries of the     *)
(* push opcodes (75/76, 255/256) and the one-byte data that have their    *)
(* own opcode, over numbers at the boundaries of their encodings, and     *)
(* over the element on top of the stack in every state.                   *)
(***************************************************************************)
Zeros(k) == [i \in 1..k |-> 0]
PushSamples ==
    {Zeros(k) : k \in {0, 2, 75, 76, 77, 255, 256, 257}} \cup {<<b>> : b \in {0, 1, 16, 17, 128, 129, 255}}
IntSamples ==
    {-2147483647, -32769, -32768, -32767, -256, -255, -129, -128, -127, -17, -16, -2, -1,
     0, 1, 16, 17, 127, 128, 255, 256, 32767, 32768, 2147483647}

(* CScript << d read back by GetOp, and judged by CheckMinimalPush.        *)
PushReadsBack(d) ==
    LET sc == PushVector(d)
    IN  /\ ScriptOpsFrom(sc, 1) = <<[ok |-> TRUE, opcode |-> sc[1], item |-> d]>>
        /\ CheckMinimalPush(d, sc[1]) <=> ~(Len(d) = 1 /\ d[1] \in (1..16) \cup {129})

(* push_int64(n) read back by GetOp and executed as EvalScript does.       *)
Int64PushReadsBack(n) ==
    LET sc  == PushInt64(n)
        ops == ScriptOpsFrom(sc, 1)
    IN  /\ Len(ops) = 1 /\ ops[1].ok /\ IsPushOnly(sc)
        /\ IF ops[1].opcode <= OP_PUSHDATA4
           THEN /\ CheckMinimalPush(ops[1].item, ops[1].opcode)
                /\ ParseScriptNum(ops[1].item, MAXIMUM_ITEM_SIZE) = [exc |-> "none", val |-> n]
           ELSE SmallIntValue(ops[1].opcode) = n

SamplePushesReadBack == \A d \in PushSamples : PushReadsBack(d)
SampleIntsReadBack == \A n \in IntSamples : Int64PushReadsBack(n)

(* A datum CScript::operator<< writes is read back by GetScriptOp as one   *)
(* operation carrying exactly that datum, with the length prefix that      *)
(* EvalScript's MINIMALDATA check demands, except a single byte 1..16 or   *)
(* 0x81, which operator<< pushes as data although OP_1..OP_16 and          *)
(* OP_1NEGATE exist for it: such a script is refused by its own verifier.  *)
PushEncodingRoundTrip ==
    /\ SamplePushesReadBack
    /\ stack # <<>> => PushReadsBack(stack[Len(stack)])

(* push_int64 writes every number as the one operation EvalScript accepts  *)
(* under MINIMALDATA and turns back into the same number: OP_0,            *)
(* OP_1NEGATE, OP_1..OP_16 for the small ones, a minimal push otherwise.   *)
PushInt64Minimal ==
    /\ SampleIntsReadBack
    /\ stack # <<>> => Int64PushReadsBack(Decode(stack[Len(stack)]))
=============================================================================
