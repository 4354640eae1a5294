------------------------------ MODULE HashOps ------------------------------
(***************************************************************************)
(* The hashing cases of the EvalScript switch: OP_RIPEMD160 .. OP_HASH256 *)
(* (interpreter.cpp 1002-1027) and the AVM binary opcode OP_HASH_FN       *)
(* (1712-1744), whose operand selects one of four further functions.      *)
(* The primitives themselves (crypto/, not in this repository) are one     *)
(* CONSTANT operator: Digest(alg, bytes) is the digest of bytes under alg, *)
(* of the algorithm's length (20, 32 or 64 bytes; a model scales these).   *)
(* The script context is always present in VerifyScriptAvm, so the        *)
(* CONTEXT_NOT_PRESENT test ahead of OP_HASH_FN is not reached.            *)
(***************************************************************************)
EXTENDS Integers, Sequences, StackOps, AvmEncoding

CONSTANT Digest(_, _)

HashAlgs == {"RIPEMD160", "SHA1", "SHA256", "SHA3_256", "SHA512",
             "SHA512_256", "EAGLESONG"}

HashOpcodes == {"OP_RIPEMD160", "OP_SHA1", "OP_SHA256", "OP_HASH160",
                "OP_HASH256", "OP_HASH_FN"}

(* CHash160 and CHash256 (hash.h): the composites.                         *)
Hash160(v) == Digest("RIPEMD160", Digest("SHA256", v))
Hash256(v) == Digest("SHA256", Digest("SHA256", v))

(* case OP_RIPEMD160 .. OP_HASH256: vchHash written from the top element, *)
(* which is then replaced by it.                                           *)
CryptoHash(op, v) ==
    CASE op = "OP_RIPEMD160" -> Digest("RIPEMD160", v)
      [] op = "OP_SHA1"      -> Digest("SHA1", v)
      [] op = "OP_SHA256"    -> Digest("SHA256", v)
      [] op = "OP_HASH160"   -> Hash160(v)
      [] OTHER               -> Hash256(v)

(* The hashFuncIndex of OP_HASH_FN: 0 SHA3_256, 1 CSHA512, 2 CSHA512_256,  *)
(* 3 EaglesongHash.                                                        *)
HashFnAlg == <<"SHA3_256", "SHA512", "SHA512_256", "EAGLESONG">>

(* Fault variant: the operand is consumed but the data is left in place.   *)
HashFnKeepsData(s) ==
    LET L   == Len(s)
        p   == ParseScriptNum(s[L], MAXIMUM_ITEM_SIZE)
        idx == GetInt(p.val, INT32_MAX)
    IN  CASE p.exc # "none" -> Fail("UNKNOWN", s)
          [] idx < 0 \/ idx > 3 -> Fail("INVALID_AVM_HASH_FUNC", s)
          [] OTHER -> Ok([s EXCEPT ![L] = Digest(HashFnAlg[idx + 1], s[L - 1])])

(* case OP_HASH_FN: (data which -- hash).  The index is parsed (an         *)
(* exception is UNKNOWN) and taken by getint; both operands are popped     *)
(* and the digest of the data pushed.                                      *)
HashFn(s) ==
    LET L   == Len(s)
        p   == ParseScriptNum(s[L], MAXIMUM_ITEM_SIZE)
        idx == GetInt(p.val, INT32_MAX)
    IN  CASE p.exc # "none" -> Fail("UNKNOWN", s)
          [] idx < 0 \/ idx > 3 -> Fail("INVALID_AVM_HASH_FUNC", s)
          [] OTHER -> Ok(Append(SubSeq(s, 1, L - 2), Digest(HashFnAlg[idx + 1], s[L - 1])))

HashOp(op, s) ==
    LET L == Len(s) IN
    CASE op = "OP_HASH_FN" /\ L < 2 -> Fail("INVALID_STACK_OPERATION", s)
      [] op = "OP_HASH_FN"          -> HashFn(s)
      [] L < 1                      -> Fail("INVALID_STACK_OPERATION", s)
      [] OTHER                      -> Ok([s EXCEPT ![L] = CryptoHash(op, s[L])])

=============================================================================
