------------------------------- MODULE TxOps -------------------------------
(***************************************************************************)
(* The native introspection cases of the EvalScript switch                 *)
(* (interpreter.cpp 1228-1364): the nullary ones push a field of the       *)
(* transaction, the unary ones read an input or output index from the top  *)
(* of the stack.  The script execution context is always present in       *)
(* VerifyScriptAvm, so CONTEXT_NOT_PRESENT is not reached.                 *)
(***************************************************************************)
EXTENDS Integers, Sequences, StackOps, ByteOps, AvmEncoding

(* The transaction: nVersion, nLockTime, the inputs (prevout txid and n,  *)
(* nSequence, scriptSig) and the outputs (nValue in satoshis,              *)
(* scriptPubKey).  Ids and scripts are byte strings.                       *)
CONSTANTS TxVersion, TxLockTime, TxInputs, TxOutputs

NullaryTxOps == {"OP_TXVERSION", "OP_TXINPUTCOUNT", "OP_TXOUTPUTCOUNT", "OP_TXLOCKTIME"}
InputTxOps   == {"OP_OUTPOINTTXHASH", "OP_OUTPOINTINDEX", "OP_INPUTBYTECODE",
                 "OP_INPUTSEQUENCENUMBER"}
OutputTxOps  == {"OP_OUTPUTVALUE", "OP_OUTPUTBYTECODE"}
TxOpcodes    == NullaryTxOps \cup InputTxOps \cup OutputTxOps

(* The nullary cases: each field through CScriptNum(int64_t).              *)
TxField(op) ==
    CASE op = "OP_TXVERSION"     -> TxVersion
      [] op = "OP_TXINPUTCOUNT"  -> Len(TxInputs)
      [] op = "OP_TXOUTPUTCOUNT" -> Len(TxOutputs)
      [] OTHER                   -> TxLockTime

(* Fault variant: the input index is checked against the outputs.         *)
InputIndexAgainstOutputs(index) == index >= 0 /\ index < Len(TxOutputs)

(* is_valid_input_index and the test of OP_OUTPOINTTXHASH/OP_OUTPOINTINDEX.*)
InputIndexValid(index) == index >= 0 /\ index < Len(TxInputs)

(* is_valid_output_index and the test of OP_OUTPUTVALUE/OP_OUTPUTBYTECODE. *)
OutputIndexValid(index) == index >= 0 /\ index < Len(TxOutputs)

(* What a unary case pushes for a valid index: the prevout's txid bytes or *)
(* n, the scriptSig, nSequence, nValue / SATOSHI (the satoshi count), or   *)
(* the scriptPubKey.                                                        *)
TxItem(op, i) ==
    CASE op = "OP_OUTPOINTTXHASH"      -> TxInputs[i + 1].txid
      [] op = "OP_OUTPOINTINDEX"       -> Serialize(TxInputs[i + 1].n)
      [] op = "OP_INPUTBYTECODE"       -> TxInputs[i + 1].script
      [] op = "OP_INPUTSEQUENCENUMBER" -> Serialize(TxInputs[i + 1].nSequence)
      [] op = "OP_OUTPUTVALUE"         -> Serialize(TxOutputs[i + 1].nValue)
      [] OTHER                         -> TxOutputs[i + 1].script

(* The unary cases: the index is parsed (an exception is UNKNOWN), taken   *)
(* by getint, the element popped, and only then the index and the size of  *)
(* a byte code checked.                                                    *)
UnaryTxOp(op, s) ==
    LET p     == ParseScriptNum(s[Len(s)], MAXIMUM_ITEM_SIZE)
        index == GetInt(p.val, INT32_MAX)
        s1    == SubSeq(s, 1, Len(s) - 1)
        item  == TxItem(op, index)
    IN  CASE p.exc # "none" -> Fail("UNKNOWN", s)
          [] op \in InputTxOps /\ ~InputIndexValid(index) -> Fail("INVALID_TX_INPUT_INDEX", s1)
          [] op \in OutputTxOps /\ ~OutputIndexValid(index) -> Fail("INVALID_TX_OUTPUT_INDEX", s1)
          [] op \in {"OP_INPUTBYTECODE", "OP_OUTPUTBYTECODE"}
             /\ Len(item) > MAX_SCRIPT_ELEMENT_SIZE -> Fail("PUSH_SIZE", s1)
          [] OTHER -> Ok(Append(s1, item))

TxOp(op, s) ==
    CASE op \in NullaryTxOps -> Ok(Append(s, Serialize(TxField(op))))
      [] s = <<>>            -> Fail("INVALID_STACK_OPERATION", s)
      [] OTHER               -> UnaryTxOp(op, s)

=============================================================================
