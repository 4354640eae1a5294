------------------------------ MODULE EvalLoop ------------------------------
(***************************************************************************)
(* interpreter.cpp VerifyScriptAvm and the control part of EvalScript:    *)
(* the push-only check of the unlock script, the evaluation of unlock then *)
(* lock on one shared main stack, the per-opcode loop (op numbering, the   *)
(* op-count limit, disabled opcodes, pushes, the conditional opcodes,      *)
(* VERIFY, RETURN, the altstack and drop opcodes, the stack-size limit),   *)
(* the unbalanced-conditional check after the loop, and the final verdict. *)
(*                                                                         *)
(* The condition stack is a parameter: its operations are CONSTANT         *)
(* operators, so the same loop is instantiated once with the optimized     *)
(* ConditionStack and once with the materialized vector of booleans.       *)
(*                                                                         *)
(* The script is not fixed in advance: each step executes any opcode of    *)
(* OpSet, which enumerates every script up to the length bounds.           *)
(***************************************************************************)
EXTENDS Integers, Sequences, DataOps

CONSTANTS
    CsInit,             \* a default-constructed condition stack
    CsEmpty(_),         \* vfExec.empty()
    CsAllTrue(_),       \* vfExec.all_true()
    CsPushBack(_, _),   \* vfExec.push_back(f)
    CsPopBack(_),       \* vfExec.pop_back()
    CsToggleTop(_),     \* vfExec.toggle_top()
    CsValues,           \* the set the condition stack ranges over
    DataHandler(_, _),  \* the cases of the switch that transform the stack
    OpSet,              \* the opcodes the scripts of a model are made of
    MaxOps,             \* MAX_OPS_PER_SCRIPT (script.h), scaled down
    MaxStackSize,       \* MAX_STACK_SIZE (script.h), scaled down
    MaxUnlockLen,       \* the number of opcodes in the unlock script, a bound
    MaxLockLen,         \* the number of opcodes in the lock script, a bound
    LOCKTIME_THRESHOLD, \* script.h: lock times below it are heights, scaled down
    SEQUENCE_FINAL      \* CTxIn::SEQUENCE_FINAL, 0xffffffff, scaled down

ASSUME MaxOps \in Nat /\ MaxStackSize \in Nat
ASSUME MaxUnlockLen \in Nat /\ MaxLockLen \in Nat
ASSUME LOCKTIME_THRESHOLD \in Nat /\ SEQUENCE_FINAL \in Nat

VARIABLES
    phase,      \* "start", "unlock", "lock" or "done": where VerifyScriptAvm is
    stack,      \* the main stack, shared by the unlock and the lock script
    altstack,   \* EvalScript's local altstack
    vfExec,     \* EvalScript's local ConditionStack
    nOpCount,   \* EvalScript's local count of opcodes above OP_16
    script,     \* the opcodes read so far from the current script (history)
    opNum,      \* *serror_op_num
    status,     \* "running", "ok", "error" or "aborted" (assert failed)
    err         \* *serror

vars == <<phase, stack, altstack, vfExec, nOpCount, script, opNum, status, err>>

(* The opcodes modelled, by the class the loop tells apart.  Data pushes  *)
(* (opcode <= OP_PUSHDATA4) carry their opcode byte and their data, bytes *)
(* in script order: OP_0, the non-minimal push of 0x01, and one- and       *)
(* two-byte pushes at the edges of the number encoding (0x00, 0x7f, 0x80,  *)
(* 0xff, 256 as 0x0001, 255 as 0xff00, a negative zero 0x0080).           *)
(* OP_1NEGATE .. OP_16 push small numbers.  All are <= OP_16 and not      *)
(* counted.                                                               *)
PushData == [OP_0      |-> [code |-> 0, data |-> <<>>],
             PUSH_00   |-> [code |-> 1, data |-> <<0>>],
             PUSH_01   |-> [code |-> 1, data |-> <<1>>],
             PUSH_7F   |-> [code |-> 1, data |-> <<127>>],
             PUSH_80   |-> [code |-> 1, data |-> <<128>>],
             PUSH_FF   |-> [code |-> 1, data |-> <<255>>],
             PUSH_0001 |-> [code |-> 2, data |-> <<0, 1>>],
             PUSH_FF00 |-> [code |-> 2, data |-> <<255, 0>>],
             PUSH_0080 |-> [code |-> 2, data |-> <<0, 128>>]]
SmallInt == [OP_1NEGATE |-> -1, OP_1 |-> 1, OP_2 |-> 2, OP_3 |-> 3,
             OP_8 |-> 8, OP_9 |-> 9, OP_16 |-> 16]
PushOps == DOMAIN PushData \cup DOMAIN SmallInt
CondOps == {"OP_IF", "OP_NOTIF", "OP_ELSE", "OP_ENDIF"}
(* The opcodes that do nothing under the flags of VerifyScriptAvm: OP_NOP, *)
(* OP_CHECKSEQUENCEVERIFY (SCRIPT_VERIFY_CHECKSEQUENCEVERIFY is not set)   *)
(* and the upgradable NOPs (SCRIPT_VERIFY_DISCOURAGE_UPGRADABLE_NOPS is    *)
(* not set).                                                               *)
NopOps == {"OP_NOP", "OP_CHECKSEQUENCEVERIFY", "OP_NOP1", "OP_NOP4", "OP_NOP5",
           "OP_NOP6", "OP_NOP7", "OP_NOP8", "OP_NOP9", "OP_NOP10"}
Opcodes == PushOps \cup CondOps \cup NopOps \cup
           {"OP_CHECKLOCKTIMEVERIFY", "OP_VERIFY", "OP_RETURN", "OP_TOALTSTACK",
            "OP_FROMALTSTACK", "OP_2MUL"} \cup DataOpcodes

ASSUME OpSet \subseteq Opcodes

(* opcode > OP_16: the opcodes that count towards the limit.               *)
Counted(op) == op \notin PushOps

(* IsOpcodeDisabled: OP_2MUL and OP_2DIV.                                  *)
IsOpcodeDisabled(op) == op = "OP_2MUL"

Top(s) == s[Len(s)]
Pop(s) == SubSeq(s, 1, Len(s) - 1)

(***************************************************************************)
(* One opcode's effect, as an outcome record.  res is "next" (go on with   *)
(* the loop), "success" (EvalScript returns true at once) or an error.     *)
(***************************************************************************)
Out(res, s, a, v) == [res |-> res, stack |-> s, alt |-> a, vf |-> v]
Next3(s, a, v) == Out("next", s, a, v)
Err(e) == Out(e, stack, altstack, vfExec)

(* case OP_IF / OP_NOTIF: in an executed branch the top must be a minimal *)
(* boolean and is consumed; the branch value is pushed in every case.     *)
IfOp(op, fExec) ==
    IF ~fExec THEN Next3(stack, altstack, CsPushBack(vfExec, FALSE))
    ELSE IF stack = <<>> THEN Err("UNBALANCED_CONDITIONAL")
    ELSE IF Len(Top(stack)) > 1 \/ (Len(Top(stack)) = 1 /\ Top(stack)[1] # 1)
         THEN Err("MINIMALIF")
    ELSE LET f == CastToBool(Top(stack))
         IN  Next3(Pop(stack), altstack,
                   CsPushBack(vfExec, IF op = "OP_NOTIF" THEN ~f ELSE f))

(* TransactionSignatureChecker::CheckLockTime for input 0 (the checker of  *)
(* verify_script_avm is built with nIn = 0): a height against a height or *)
(* a time against a time, not later than the transaction's nLockTime, and *)
(* the input not final.                                                    *)
CheckLockTime(n) ==
    /\ (n < LOCKTIME_THRESHOLD) = (TxLockTime < LOCKTIME_THRESHOLD)
    /\ n <= TxLockTime
    /\ TxInputs[1].nSequence # SEQUENCE_FINAL

(* case OP_CHECKLOCKTIMEVERIFY: the top, read as a CScriptNum of up to 5  *)
(* bytes (a parse exception is caught as UNKNOWN), must be a non-negative *)
(* lock time the transaction satisfies; the element stays on the stack.   *)
CheckLockTimeVerify ==
    LET p == ParseScriptNum(Top(stack), 5)
    IN  CASE p.exc # "none" -> Err("UNKNOWN")
          [] p.val < 0 -> Err("NEGATIVE_LOCKTIME")
          [] ~CheckLockTime(p.val) -> Err("UNSATISFIED_LOCKTIME")
          [] OTHER -> Next3(stack, altstack, vfExec)

(* case OP_ELSE: toggles the innermost branch; needs an open IF.          *)
ElseOp ==
    IF CsEmpty(vfExec) THEN Err("UNBALANCED_CONDITIONAL")
    ELSE Next3(stack, altstack, CsToggleTop(vfExec))

(* case OP_ENDIF: closes the innermost branch; needs an open IF.           *)
EndifOp ==
    IF CsEmpty(vfExec) THEN Err("UNBALANCED_CONDITIONAL")
    ELSE Next3(stack, altstack, CsPopBack(vfExec))

(* case OP_VERIFY: a true top is popped, a false one stops with VERIFY.    *)
VerifyOp ==
    CASE stack = <<>> -> Err("INVALID_STACK_OPERATION")
      [] CastToBool(Top(stack)) -> Next3(Pop(stack), altstack, vfExec)
      [] OTHER -> Err("VERIFY")

(* case OP_RETURN: on an empty stack the script succeeds at once, the rest *)
(* of it unread; otherwise it fails with OP_RETURN.                        *)
ReturnOp ==
    IF stack = <<>> THEN Out("success", stack, altstack, vfExec)
    ELSE Err("OP_RETURN")

(* case OP_TOALTSTACK: moves the top to the altstack.                      *)
ToAltStackOp ==
    IF stack = <<>> THEN Err("INVALID_STACK_OPERATION")
    ELSE Next3(Pop(stack), Append(altstack, Top(stack)), vfExec)

(* case OP_FROMALTSTACK: moves the altstack's top back to the stack.       *)
FromAltStackOp ==
    IF altstack = <<>> THEN Err("INVALID_ALTSTACK_OPERATION")
    ELSE Next3(Append(stack, Top(altstack)), Pop(altstack), vfExec)

(* The switch of EvalScript, for the opcodes modelled.                     *)
Dispatch(op, fExec) ==
    CASE op \in DOMAIN SmallInt ->
            Next3(Append(stack, Serialize(SmallInt[op])), altstack, vfExec)
      [] op \in NopOps -> Next3(stack, altstack, vfExec)
      [] op = "OP_CHECKLOCKTIMEVERIFY" ->
            IF stack = <<>> THEN Err("INVALID_STACK_OPERATION")
            ELSE CheckLockTimeVerify
      [] op \in {"OP_IF", "OP_NOTIF"} -> IfOp(op, fExec)
      [] op = "OP_ELSE" -> ElseOp
      [] op = "OP_ENDIF" -> EndifOp
      [] op = "OP_VERIFY" -> VerifyOp
      [] op = "OP_RETURN" -> ReturnOp
      [] op = "OP_TOALTSTACK" -> ToAltStackOp
      [] op = "OP_FROMALTSTACK" -> FromAltStackOp
      [] op \in DataOpcodes ->
            LET r == DataHandler(op, stack)
            IN  Out(r.res, r.stack, altstack, vfExec)

(* Fault variant: only opcodes of executed branches are counted.          *)
NextOpCountExecOnly(op, fExec) ==
    IF Counted(op) /\ fExec THEN nOpCount + 1 ELSE nOpCount

(* ++nOpCount for an opcode above OP_16, before the fExec test.            *)
NextOpCount(op, fExec) ==
    IF Counted(op) THEN nOpCount + 1 ELSE nOpCount

(* Fault variant: the op-count limit is not enforced.                     *)
LoopBodyNoOpLimit(op, fExec, n) ==
    CASE IsOpcodeDisabled(op) -> Err("DISABLED_OPCODE")
      [] fExec /\ op \in DOMAIN PushData ->
            IF CheckMinimalPush(PushData[op].data, PushData[op].code)
            THEN Next3(Append(stack, PushData[op].data), altstack, vfExec)
            ELSE Err("MINIMALDATA")
      [] fExec \/ op \in CondOps -> Dispatch(op, fExec)
      [] OTHER -> Next3(stack, altstack, vfExec)

(* Fault variant: conditional opcodes of a skipped branch are ignored.     *)
LoopBodySkipsCond(op, fExec, n) ==
    CASE Counted(op) /\ n > MaxOps -> Err("OP_COUNT")
      [] IsOpcodeDisabled(op) -> Err("DISABLED_OPCODE")
      [] fExec /\ op \in DOMAIN PushData ->
            IF CheckMinimalPush(PushData[op].data, PushData[op].code)
            THEN Next3(Append(stack, PushData[op].data), altstack, vfExec)
            ELSE Err("MINIMALDATA")
      [] fExec -> Dispatch(op, fExec)
      [] OTHER -> Next3(stack, altstack, vfExec)

(* The loop body up to the size check, in the code's order.  n is         *)
(* nOpCount after the increment.                                           *)
LoopBody(op, fExec, n) ==
    CASE Counted(op) /\ n > MaxOps -> Err("OP_COUNT")
      [] IsOpcodeDisabled(op) -> Err("DISABLED_OPCODE")
      [] fExec /\ op \in DOMAIN PushData ->
            IF CheckMinimalPush(PushData[op].data, PushData[op].code)
            THEN Next3(Append(stack, PushData[op].data), altstack, vfExec)
            ELSE Err("MINIMALDATA")
      [] fExec \/ op \in CondOps -> Dispatch(op, fExec)
      [] OTHER -> Next3(stack, altstack, vfExec)

(* Size limits, checked after every opcode that falls through the switch. *)
StackSizeOK(s, a) == Len(s) + Len(a) <= MaxStackSize

(***************************************************************************)
(* VerifyScriptAvm                                                          *)
(***************************************************************************)
Init ==
    /\ phase = "start"
    /\ stack = <<>>
    /\ altstack = <<>>
    /\ vfExec = CsInit
    /\ nOpCount = 0
    /\ script = <<>>
    /\ opNum = 0
    /\ status = "running"
    /\ err = "UNKNOWN"

(* The result checks after the lock script: a true top, then a clean stack. *)
Verdict(s) ==
    CASE s = <<>> \/ ~CastToBool(Top(s)) -> "EVAL_FALSE"
      [] Len(s) # 1 -> "CLEANSTACK"
      [] OTHER -> "OK"

(* EvalScript returned true with main stack s.  After the unlock script    *)
(* VerifyScriptAvm calls EvalScript on the lock script with the same stack *)
(* and a fresh altstack, condition stack, op count and op number; after    *)
(* the lock script it decides the verdict.                                 *)
ScriptSuccess(s, a, v, n, sc, num) ==
    /\ IF phase = "unlock"
       THEN /\ phase' = "lock"
            /\ stack' = s
            /\ altstack' = <<>>
            /\ vfExec' = CsInit
            /\ nOpCount' = 0
            /\ script' = <<>>
            /\ opNum' = 0
            /\ UNCHANGED <<status, err>>
       ELSE /\ phase' = "done"
            /\ stack' = s
            /\ altstack' = a
            /\ vfExec' = v
            /\ nOpCount' = n
            /\ script' = sc
            /\ opNum' = num
            /\ err' = Verdict(s)
            /\ status' = IF Verdict(s) = "OK" THEN "ok" ELSE "error"

(* scriptSig.IsPushOnly(): the unlock script is rejected before it runs,   *)
(* or it runs; the model lets the unlock script hold only pushes.          *)
CheckPushOnly ==
    /\ phase = "start"
    /\ \/ /\ status' = "error"
          /\ err' = "SIG_PUSHONLY"
          /\ UNCHANGED <<phase, stack, altstack, vfExec, nOpCount, script, opNum>>
       \/ /\ phase' = "unlock"
          /\ UNCHANGED <<stack, altstack, vfExec, nOpCount, script, opNum, status, err>>

(* One iteration of the while loop of EvalScript on opcode op.             *)
Exec(op) ==
    /\ status = "running"
    /\ phase \in {"unlock", "lock"}
    /\ Len(script) < IF phase = "unlock" THEN MaxUnlockLen ELSE MaxLockLen
    /\ phase = "unlock" => op \in PushOps
    /\ LET fExec == CsAllTrue(vfExec)
           n     == NextOpCount(op, fExec)
           r     == LoopBody(op, fExec, n)
           sc    == Append(script, op)
           num   == Len(script)
       IN  \/ /\ r.res = "next"
              /\ StackSizeOK(r.stack, r.alt)
              /\ stack' = r.stack
              /\ altstack' = r.alt
              /\ vfExec' = r.vf
              /\ nOpCount' = n
              /\ script' = sc
              /\ opNum' = num
              /\ UNCHANGED <<phase, status, err>>
           \/ /\ r.res \notin {"next", "success"} \/ ~StackSizeOK(r.stack, r.alt)
              /\ status' = IF r.res = "ABORT" THEN "aborted" ELSE "error"
              /\ err' = IF r.res = "next" THEN "STACK_SIZE" ELSE r.res
              /\ stack' = r.stack
              /\ altstack' = r.alt
              /\ vfExec' = r.vf
              /\ nOpCount' = n
              /\ script' = sc
              /\ opNum' = num
              /\ UNCHANGED phase
           \/ /\ r.res = "success"
              /\ ScriptSuccess(r.stack, r.alt, r.vf, n, sc, num)

(* Fault variant: the end of the script skips the vfExec.empty() check.    *)
EndScriptNoBalanceCheck ==
    /\ status = "running"
    /\ phase \in {"unlock", "lock"}
    /\ ScriptSuccess(stack, altstack, vfExec, nOpCount, script, opNum)

(* The end of the script: a condition stack that is not empty is an        *)
(* unbalanced conditional, else EvalScript returns true.                   *)
EndScript ==
    /\ status = "running"
    /\ phase \in {"unlock", "lock"}
    /\ \/ /\ ~CsEmpty(vfExec)
          /\ status' = "error"
          /\ err' = "UNBALANCED_CONDITIONAL"
          /\ UNCHANGED <<phase, stack, altstack, vfExec, nOpCount, script, opNum>>
       \/ /\ CsEmpty(vfExec)
          /\ ScriptSuccess(stack, altstack, vfExec, nOpCount, script, opNum)

(* VerifyScriptAvm has returned; the program stops here.                  *)
Terminated ==
    /\ status # "running"
    /\ UNCHANGED vars

Next ==
    \/ CheckPushOnly
    \/ \E op \in OpSet : Exec(op)
    \/ EndScript
    \/ Terminated

(* VerifyScriptAvm is one sequential call: nothing in it waits, and each  *)
(* iteration of the loop of EvalScript is a bounded computation, so the    *)
(* thread that runs it takes its next step whenever it has one.            *)
Fairness == WF_vars(Next)

SafetySpec == Init /\ [][Next]_vars

Spec == SafetySpec /\ Fairness

(***************************************************************************)
(* Properties                                                              *)
(***************************************************************************)
Errors == {"UNKNOWN", "OK", "SIG_PUSHONLY", "OP_COUNT", "DISABLED_OPCODE",
           "UNBALANCED_CONDITIONAL", "MINIMALIF", "MINIMALDATA", "VERIFY", "OP_RETURN",
           "INVALID_STACK_OPERATION", "INVALID_ALTSTACK_OPERATION",
           "STACK_SIZE", "EVAL_FALSE", "CLEANSTACK", "ABORT",
           "NEGATIVE_LOCKTIME", "UNSATISFIED_LOCKTIME"}

TypeOK ==
    /\ phase \in {"start", "unlock", "lock", "done"}
    /\ stack \in Seq(Seq(0..255))
    /\ altstack \in Seq(Seq(0..255))
    /\ vfExec \in CsValues
    /\ nOpCount \in 0..(MaxOps + 1)
    /\ script \in Seq(OpSet)
    /\ Len(script) <= MaxUnlockLen \/ Len(script) <= MaxLockLen
    /\ opNum \in Nat
    /\ status \in {"running", "ok", "error", "aborted"}
    /\ err \in Errors

(* VerifyScriptAvm accepts only when the lock script read at most         *)
(* MAX_OPS_PER_SCRIPT opcodes above OP_16, those of branches it skipped    *)
(* included: the count is kept apart from the stack and the condition     *)
(* stack, and a skipped branch must not hide opcodes from the limit.      *)
OpLimitEnforced ==
    status = "ok" => Len(SelectSeq(script, Counted)) <= MaxOps

(* VerifyScriptAvm succeeds only with one true element left and a lock    *)
(* script whose IF/ENDIF are balanced.  OP_RETURN ends EvalScript with    *)
(* success without the unbalanced-conditional check, so this holds only    *)
(* because OP_RETURN needs an empty stack, which the verdict rejects.      *)
VerdictBalanced ==
    status = "ok" =>
        /\ phase = "done"
        /\ CsEmpty(vfExec)
        /\ Len(stack) = 1
        /\ CastToBool(stack[1])
====
