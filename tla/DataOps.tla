------------------------------ MODULE DataOps ------------------------------
(***************************************************************************)
(* The cases of the EvalScript switch that only transform the main stack: *)
(* stack manipulation, numeric, bitwise, splice and conversion opcodes,   *)
(* the native introspection opcodes, which read the transaction, and the *)
(* hashing and signature opcodes.                                          *)
(* Each maps the stack to an outcome [res, stack].                         *)
(***************************************************************************)
EXTENDS Integers, Sequences, NumOps, ByteOps, TxOps, HashOps, SigOps

DataOpcodes == StackOpcodes \cup NumOpcodes \cup ByteOpcodes \cup TxOpcodes
               \cup HashOpcodes \cup SigOpcodes

(* The switch, restricted to these cases.                                   *)
DataOp(op, s) ==
    CASE op \in StackOpcodes -> StackOp(op, s)
      [] op \in NumOpcodes   -> NumOp(op, s)
      [] op \in TxOpcodes    -> TxOp(op, s)
      [] op \in HashOpcodes  -> HashOp(op, s)
      [] op \in SigOpcodes   -> SigOp(op, s)
      [] OTHER               -> ByteOp(op, s)

=============================================================================
