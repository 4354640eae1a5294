---------------------------- MODULE MC_DataOps -----------------------------
(***************************************************************************)
(* The data opcodes of EvalScript inside the loop, checked against a      *)
(* reference: the stack effects their comments state ("(x1 x2 x3 -- x2 x3 *)
(* x1)" and the like), integer arithmetic on the values the elements      *)
(* denote, and bit strings read as big-endian numbers.  The loop that      *)
(* executes DataOp must take the same steps as the loop that executes     *)
(* RefDataOp.                                                              *)
(***************************************************************************)
EXTENDS Integers, Sequences, CondStack, DataOps

LOCAL SE == INSTANCE SequencesExt

CONSTANTS MaxOps, MaxStackSize, MaxUnlockLen, MaxLockLen, OpSet,
          LOCKTIME_THRESHOLD, SEQUENCE_FINAL

VARIABLES phase, stack, altstack, vfExec, nOpCount, script, opNum, status, err

vars == <<phase, stack, altstack, vfExec, nOpCount, script, opNum, status, err>>

MaxLen == IF MaxUnlockLen > MaxLockLen THEN MaxUnlockLen ELSE MaxLockLen
MatValues == UNION {[1..k -> BOOLEAN] : k \in 0..MaxLen}

(* The stack-effect comments of the permuting cases: how many top          *)
(* elements x1..xk are consumed and which of them come back, in order.     *)
StackEffect ==
    [OP_2DROP |-> [in |-> 2, out |-> <<>>],
     OP_2DUP  |-> [in |-> 2, out |-> <<1, 2, 1, 2>>],
     OP_3DUP  |-> [in |-> 3, out |-> <<1, 2, 3, 1, 2, 3>>],
     OP_2OVER |-> [in |-> 4, out |-> <<1, 2, 3, 4, 1, 2>>],
     OP_2ROT  |-> [in |-> 6, out |-> <<3, 4, 5, 6, 1, 2>>],
     OP_2SWAP |-> [in |-> 4, out |-> <<3, 4, 1, 2>>],
     OP_DROP  |-> [in |-> 1, out |-> <<>>],
     OP_DUP   |-> [in |-> 1, out |-> <<1, 1>>],
     OP_NIP   |-> [in |-> 2, out |-> <<2>>],
     OP_OVER  |-> [in |-> 2, out |-> <<1, 2, 1>>],
     OP_ROT   |-> [in |-> 3, out |-> <<2, 3, 1>>],
     OP_SWAP  |-> [in |-> 2, out |-> <<2, 1>>],
     OP_TUCK  |-> [in |-> 2, out |-> <<2, 1, 2>>]]

(* (xn ... x1 x0 n -- xn ... x1 x0 xn) and (... -- ... x1 x0 xn): x0 is  *)
(* the element under n; an index outside 0..depth-1 is an invalid stack   *)
(* operation once n is consumed.                                           *)
RefPickRoll(op, s) ==
    LET p  == ParseScriptNum(SE!Last(s), MAXIMUM_ITEM_SIZE)
        n  == p.val
        s1 == SE!Front(s)
        xs == SE!Reverse(s1)
    IN  CASE p.exc # "none" -> Fail("UNKNOWN", s)
          [] n < 0 \/ n >= Len(xs) -> Fail("INVALID_STACK_OPERATION", s1)
          [] op = "OP_PICK" -> Ok(Append(s1, xs[n + 1]))
          [] OTHER -> Ok(Append(SE!Reverse(SE!RemoveAt(xs, n + 1)), xs[n + 1]))

(* The reference stack opcodes.  Sizes are pushed in the canonical        *)
(* minimal encoding (the int64_t serializer), not through bigint.          *)
RefStackOp(op, s) ==
    LET L == Len(s) IN
    CASE op \in DOMAIN StackEffect ->
            LET k   == StackEffect[op].in
                out == StackEffect[op].out
                x   == SubSeq(s, L - k + 1, L)
            IN  IF L < k THEN Fail("INVALID_STACK_OPERATION", s)
                ELSE Ok(SubSeq(s, 1, L - k) \o [i \in DOMAIN out |-> x[out[i]]])
      [] op = "OP_DEPTH" -> Ok(Append(s, Serialize(L)))
      [] L = 0 \/ (op \in {"OP_PICK", "OP_ROLL"} /\ L < 2) ->
            Fail("INVALID_STACK_OPERATION", s)
      [] op = "OP_IFDUP" ->
            Ok(IF CastToBool(s[L]) THEN Append(s, s[L]) ELSE s)
      [] op = "OP_SIZE" -> Ok(Append(s, Serialize(Len(s[L]))))
      [] OTHER -> RefPickRoll(op, s)

(* A number in the strict sense of the data model: the canonical encoding *)
(* of the value it denotes.                                                *)
IsNumber(d) == Serialize(Decode(d)) = d

(* Truncated division by its defining property: a = q * b + r, |r| < |b|, *)
(* r zero or of a's sign.                                                  *)
QuotRem(a, b) ==
    LET q == CHOOSE q \in -AbsVal(a)..AbsVal(a) :
                 LET r == a - q * b
                 IN  AbsVal(r) < AbsVal(b) /\ (r = 0 \/ (r < 0) = (a < 0))
    IN  <<q, a - q * b>>

B2I(b) == IF b THEN 1 ELSE 0

NumArity ==
    [op \in NumOpcodes |->
        IF op \in UnaryNumOps THEN 1 ELSE IF op \in BinaryNumOps THEN 2 ELSE 3]

(* The value each numeric opcode computes from its operands x.            *)
RefNumValue(op, x) ==
    LET a == x[1]
        b == IF Len(x) > 1 THEN x[2] ELSE 0
    IN  CASE op = "OP_1ADD" -> a + 1
          [] op = "OP_1SUB" -> a - 1
          [] op = "OP_NEGATE" -> -a
          [] op = "OP_ABS" -> AbsVal(a)
          [] op = "OP_NOT" -> B2I(a = 0)
          [] op = "OP_0NOTEQUAL" -> B2I(a # 0)
          [] op = "OP_ADD" -> a + b
          [] op = "OP_SUB" -> a - b
          [] op = "OP_MUL" -> a * b
          [] op = "OP_DIV" -> QuotRem(a, b)[1]
          [] op = "OP_MOD" -> QuotRem(a, b)[2]
          [] op = "OP_BOOLAND" -> B2I(a # 0 /\ b # 0)
          [] op = "OP_BOOLOR" -> B2I(a # 0 \/ b # 0)
          [] op \in {"OP_NUMEQUAL", "OP_NUMEQUALVERIFY"} -> B2I(a = b)
          [] op = "OP_NUMNOTEQUAL" -> B2I(a # b)
          [] op = "OP_LESSTHAN" -> B2I(a < b)
          [] op = "OP_GREATERTHAN" -> B2I(a > b)
          [] op = "OP_LESSTHANOREQUAL" -> B2I(a <= b)
          [] op = "OP_GREATERTHANOREQUAL" -> B2I(a >= b)
          [] op = "OP_MIN" -> IF a < b THEN a ELSE b
          [] op = "OP_MAX" -> IF a > b THEN a ELSE b
          [] OTHER -> B2I(b <= a /\ a < x[3])

(* (x1 .. xk -- out): operands that are not numbers fail the script,       *)
(* division by zero is an error, the result is pushed canonically.        *)
RefNumOp(op, s) ==
    LET L == Len(s)
        k == NumArity[op]
        e == SubSeq(s, L - k + 1, L)
        x == [i \in 1..k |-> Decode(e[i])]
        t == Append(SubSeq(s, 1, L - k), Serialize(RefNumValue(op, x)))
    IN  CASE L < k -> Fail("INVALID_STACK_OPERATION", s)
          [] \E i \in 1..k : ~IsNumber(e[i]) -> Fail("UNKNOWN", s)
          [] op = "OP_DIV" /\ x[2] = 0 -> Fail("DIV_BY_ZERO", s)
          [] op = "OP_MOD" /\ x[2] = 0 -> Fail("MOD_BY_ZERO", s)
          [] op = "OP_NUMEQUALVERIFY" ->
                IF x[1] = x[2] THEN Ok(SubSeq(s, 1, L - 2))
                ELSE Fail("NUMEQUALVERIFY", t)
          [] OTHER -> Ok(t)

(* A byte string as a big-endian number of 8 * Len(v) bits, and back.     *)
BEValue(v) == LEValue(SE!Reverse(v))
ToBE(n, len) == SE!Reverse([i \in 1..len |-> (n \div 256^(i - 1)) % 256])

(* The fixed-width sign-magnitude encoding of x in w bytes.               *)
FixedWidth(x, w) ==
    [i \in 1..w |-> ((AbsVal(x) \div 256^(i - 1)) % 256)
                    + (IF i = w /\ x < 0 THEN 128 ELSE 0)]

(* The byte opcodes: logic and shifts on the bit string, splice and        *)
(* number conversion by the values the elements denote.  The errors are   *)
(* the code's: too few elements is an invalid stack operation, but OP_EQUAL *)
(* on an empty stack reads stack.at(-1) and ends as UNKNOWN.               *)
RefByteOp(op, s) ==
    LET L  == Len(s)
        v  == s[L - 1]
        w  == s[L]
        n  == Decode(w)
        LL == Len(v)
        t  == SubSeq(s, 1, L - 2)
    IN  CASE L = 0 /\ op \in {"OP_EQUAL", "OP_EQUALVERIFY"} -> Fail("UNKNOWN", s)
          [] L < ByteArity[op] -> Fail("INVALID_STACK_OPERATION", s)
          [] op = "OP_INVERT" -> Ok([s EXCEPT ![L] = ToBE(2^(8 * Len(w)) - 1 - BEValue(w), Len(w))])
          [] op = "OP_REVERSEBYTES" -> Ok([s EXCEPT ![L] = SE!Reverse(w)])
          [] op = "OP_BIN2NUM" -> Ok([s EXCEPT ![L] = Serialize(n)])
          [] op \in {"OP_EQUAL", "OP_EQUALVERIFY"} ->
                CASE op = "OP_EQUAL" -> Ok(Append(t, Serialize(B2I(v = w))))
                  [] v = w -> Ok(t)
                  [] OTHER -> Fail("EQUALVERIFY", Append(t, <<>>))
          [] op \in {"OP_AND", "OP_OR", "OP_XOR"} /\ LL # Len(w) ->
                Fail("INVALID_OPERAND_SIZE", s)
          [] op = "OP_AND" -> Ok(Append(t, ToBE(BEValue(v) & BEValue(w), LL)))
          [] op = "OP_OR"  -> Ok(Append(t, ToBE(BEValue(v) | BEValue(w), LL)))
          [] op = "OP_XOR" -> Ok(Append(t, ToBE(BEValue(v) ^^ BEValue(w), LL)))
          [] op = "OP_CAT" ->
                IF LL + Len(w) > MAX_SCRIPT_ELEMENT_SIZE THEN Fail("PUSH_SIZE", s)
                ELSE Ok(Append(t, v \o w))
          [] ~IsNumber(w) -> Fail("UNKNOWN", s)
          [] op = "OP_SPLIT" ->
                IF n < 0 \/ n > LL THEN Fail("INVALID_SPLIT_RANGE", s)
                ELSE Ok(t \o <<SubSeq(v, 1, n), SubSeq(v, n + 1, LL)>>)
          [] op \in {"OP_LSHIFT", "OP_RSHIFT"} /\ n < 0 ->
                Fail("INVALID_NUMBER_RANGE", s)
          [] op \in {"OP_LSHIFT", "OP_RSHIFT"} /\ n >= 8 * LL -> Ok(Append(t, ToBE(0, LL)))
          [] op = "OP_LSHIFT" -> Ok(Append(t, ToBE((BEValue(v) * 2^n) % 2^(8 * LL), LL)))
          [] op = "OP_RSHIFT" -> Ok(Append(t, ToBE(BEValue(v) \div 2^n, LL)))
          [] n < 0 \/ n > MAX_SCRIPT_ELEMENT_SIZE -> Fail("PUSH_SIZE", s)
          [] Len(Serialize(Decode(v))) > n ->
                Fail("IMPOSSIBLE_ENCODING", Append(t, Serialize(Decode(v))))
          [] OTHER -> Ok(Append(t, IF Len(Serialize(Decode(v))) = n
                                    THEN Serialize(Decode(v))
                                    ELSE FixedWidth(Decode(v), n)))

(* The hash primitives, scaled: 20-byte digests become 1 byte, 32-byte    *)
(* ones 2 and the 64-byte SHA512 3 (all within MAX_SCRIPT_ELEMENT_SIZE, as *)
(* the real ones are within 4000).  Each byte mixes the algorithm, its     *)
(* position and every input byte, so different inputs and algorithms give  *)
(* different digests on the elements of the runs.                          *)
RECURSIVE MCMix(_)
MCMix(v) == IF v = <<>> THEN 0 ELSE (Head(v) + 31 * MCMix(Tail(v))) % 65521
MCDigestLen == [RIPEMD160 |-> 1, SHA1 |-> 1, SHA256 |-> 2, SHA3_256 |-> 2,
                SHA512 |-> 3, SHA512_256 |-> 2, EAGLESONG |-> 2]
MCAlgTag == [RIPEMD160 |-> 11, SHA1 |-> 23, SHA256 |-> 37, SHA3_256 |-> 41,
             SHA512 |-> 53, SHA512_256 |-> 67, EAGLESONG |-> 79]
MCDigest(alg, v) ==
    [i \in 1..MCDigestLen[alg] |-> (MCAlgTag[alg] * i + 7 * Len(v) + MCMix(v)) % 256]

(* Signature verification: one signature in eight verifies for a (key,   *)
(* hash) pair, so both outcomes occur on the elements the scripts push.    *)
MCVerify(pk, hash, sig) == MCMix(sig) % 8 = (MCMix(pk) + MCMix(hash)) % 8

MCAuthPubKey == <<2>>
MCFullScript == <<81, 105>>

(***************************************************************************)
(* The transaction codec, with one-byte hashes and 32-bit fields and      *)
(* two-byte amounts.                                                       *)
(***************************************************************************)
Tx == INSTANCE TxCodec WITH HashLen <- 1, IntLen <- 1, AmountLen <- 2

(* The transaction of the runs: version 2, two inputs, the second with a  *)
(* scriptSig longer than MAX_SCRIPT_ELEMENT_SIZE; an output paying 546,    *)
(* and an OP_RETURN output carrying the auth signature, which verifies.    *)
MCTxInputs ==
    <<[txid |-> <<7>>, n |-> 1, nSequence |-> 255, script |-> <<1, 2>>],
      [txid |-> <<8>>, n |-> 0, nSequence |-> 0, script |-> <<1, 2, 3, 4>>]>>
MCTxOutputs ==
    <<[nValue |-> 546, script |-> <<>>],
      [nValue |-> 0, script |-> <<106, 3, 115, 105, 103, 1, 5>>]>>

(* Spec, native introspection: the nullary opcodes push the version, the  *)
(* input and output counts and the lock time; the unary ones take a        *)
(* non-negative index into the inputs (outputs), fail with                 *)
(* INVALID_TX_INPUT_INDEX (OUTPUT_INDEX) when it is out of range and with  *)
(* PUSH_SIZE for a byte code over MAX_SCRIPT_ELEMENT_SIZE, and push values *)
(* as numbers.  The index is consumed in every case.                       *)
RefTxOp(op, s) ==
    LET L  == Len(s)
        i  == Decode(SE!Last(s))
        xs == IF op \in InputTxOps THEN TxInputs ELSE TxOutputs
        x  == xs[i + 1]
        v  == CASE op = "OP_OUTPOINTTXHASH"      -> x.txid
                [] op = "OP_OUTPOINTINDEX"       -> Serialize(x.n)
                [] op = "OP_INPUTBYTECODE"       -> x.script
                [] op = "OP_INPUTSEQUENCENUMBER" -> Serialize(x.nSequence)
                [] op = "OP_OUTPUTVALUE"         -> Serialize(x.nValue)
                [] OTHER                         -> x.script
    IN  CASE op = "OP_TXVERSION"     -> Ok(Append(s, Serialize(TxVersion)))
          [] op = "OP_TXINPUTCOUNT"  -> Ok(Append(s, Serialize(Len(TxInputs))))
          [] op = "OP_TXOUTPUTCOUNT" -> Ok(Append(s, Serialize(Len(TxOutputs))))
          [] op = "OP_TXLOCKTIME"    -> Ok(Append(s, Serialize(TxLockTime)))
          [] L = 0 -> Fail("INVALID_STACK_OPERATION", s)
          [] ~IsNumber(SE!Last(s)) -> Fail("UNKNOWN", s)
          [] i \notin 0..(Len(xs) - 1) ->
                Fail(IF op \in InputTxOps THEN "INVALID_TX_INPUT_INDEX"
                     ELSE "INVALID_TX_OUTPUT_INDEX", SE!Front(s))
          [] op \in {"OP_INPUTBYTECODE", "OP_OUTPUTBYTECODE"}
             /\ Len(v) > MAX_SCRIPT_ELEMENT_SIZE -> Fail("PUSH_SIZE", SE!Front(s))
          [] OTHER -> Ok(Append(SE!Front(s), v))

(* Spec, hash primitives: Hash160 = RIPEMD160(SHA256(x)) and Hash256 =    *)
(* SHA256(SHA256(x)); each hash opcode replaces the top element by its     *)
(* digest.  OP_HASH_FN (data which -- hash): which 0 = SHA3-256,           *)
(* 1 = SHA-512, 2 = SHA-512/256, 3 = Eaglesong; another number fails with  *)
(* INVALID_AVM_HASH_FUNC.                                                  *)
RefHashChain == [OP_RIPEMD160 |-> <<"RIPEMD160">>, OP_SHA1 |-> <<"SHA1">>,
                 OP_SHA256 |-> <<"SHA256">>, OP_HASH160 |-> <<"SHA256", "RIPEMD160">>,
                 OP_HASH256 |-> <<"SHA256", "SHA256">>]
RefWhich == <<"SHA3_256", "SHA512", "SHA512_256", "EAGLESONG">>

RefHashOp(op, s) ==
    LET L == Len(s) IN
    CASE op = "OP_HASH_FN" /\ L < 2 -> Fail("INVALID_STACK_OPERATION", s)
      [] op = "OP_HASH_FN" /\ ~IsNumber(SE!Last(s)) -> Fail("UNKNOWN", s)
      [] op = "OP_HASH_FN" /\ Decode(SE!Last(s)) \notin 0..3 -> Fail("INVALID_AVM_HASH_FUNC", s)
      [] op = "OP_HASH_FN" ->
            Ok(Append(SubSeq(s, 1, L - 2), Digest(RefWhich[Decode(SE!Last(s)) + 1], s[L - 1])))
      [] L = 0 -> Fail("INVALID_STACK_OPERATION", s)
      [] OTHER -> Ok(Append(SE!Front(s),
                     SE!FoldLeft(LAMBDA acc, alg : Digest(alg, acc), SE!Last(s), RefHashChain[op])))

(* Bitcoin Cash OP_CHECKDATASIG[VERIFY] (sig msg pubkey -- bool): the      *)
(* signature is checked against SHA-256(msg); an empty one is false, a     *)
(* failing non-empty one is SIG_NULLFAIL; the VERIFY form pops a true and  *)
(* fails on a false.                                                       *)
RefDataSigOp(op, s) ==
    LET L  == Len(s)
        x  == SubSeq(s, L - 2, L)
        ok == x[1] # <<>> /\ VerifySignature(x[1], x[3], Digest("SHA256", x[2]))
    IN  CASE L < 3 -> Fail("INVALID_STACK_OPERATION", s)
          [] x[1] # <<>> /\ ~ok -> Fail("SIG_NULLFAIL", s)
          [] op = "OP_CHECKDATASIG" -> Ok(Append(SubSeq(s, 1, L - 3), IF ok THEN <<1>> ELSE <<>>))
          [] ok -> Ok(SubSeq(s, 1, L - 3))
          [] OTHER -> Fail("CHECKDATASIGVERIFY", Append(SubSeq(s, 1, L - 3), <<>>))

(* Spec 4.5, the auth message M: input 0's prevout txid and index (LE32), *)
(* unlock || lock, then value (LE64) and scriptPubKey of every output that *)
(* is not a sig-OP_RETURN.                                                 *)
RefAuthMessage ==
    TxInputs[1].txid \o LEBytes(TxInputs[1].n, 4) \o FullScript
      \o SE!FoldLeft(LAMBDA m, o : IF IsSigOpReturn(o.script) THEN m
                                   ELSE m \o LEBytes(o.nValue, 8) \o o.script,
                     <<>>, TxOutputs)

(* Spec, authorization: with a signature and a key, the key is pushed if  *)
(* the signature verifies against SHA-256(M) (the VERIFY form then pops   *)
(* it), else INVALID_AVM_CHECKAUTHSIGNULL; with only one of them,          *)
(* INVALID_AVM_CHECKAUTHSIG; with neither, false, and the VERIFY form      *)
(* fails.                                                                  *)
RefAuthSigOp(op, s) ==
    CASE HasAuthSig /\ HasAuthPubKey ->
            IF VerifySignature(AuthSig, AuthPubKey, Digest("SHA256", RefAuthMessage))
            THEN Ok(IF op = "OP_CHECKAUTHSIGVERIFY" THEN s ELSE Append(s, AuthPubKey))
            ELSE Fail("INVALID_AVM_CHECKAUTHSIGNULL", s)
      [] HasAuthSig \/ HasAuthPubKey -> Fail("INVALID_AVM_CHECKAUTHSIG", s)
      [] op = "OP_CHECKAUTHSIGVERIFY" -> Fail("INVALID_AVM_CHECKAUTHSIGVERIFY", s)
      [] OTHER -> Ok(Append(s, <<>>))

RefDataOp(op, s) ==
    CASE op \in StackOpcodes -> RefStackOp(op, s)
      [] op \in NumOpcodes   -> RefNumOp(op, s)
      [] op \in TxOpcodes    -> RefTxOp(op, s)
      [] op \in HashOpcodes  -> RefHashOp(op, s)
      [] op \in {"OP_CHECKDATASIG", "OP_CHECKDATASIGVERIFY"} -> RefDataSigOp(op, s)
      [] op \in SigOpcodes   -> RefAuthSigOp(op, s)
      [] OTHER               -> RefByteOp(op, s)

Impl == INSTANCE EvalLoop WITH
    CsInit <- MatInit, CsEmpty <- MatEmpty, CsAllTrue <- MatAllTrue,
    CsPushBack <- MatPushBack, CsPopBack <- MatPopBack,
    CsToggleTop <- MatToggleTop, CsValues <- MatValues,
    DataHandler <- DataOp

Ref == INSTANCE EvalLoop WITH
    CsInit <- MatInit, CsEmpty <- MatEmpty, CsAllTrue <- MatAllTrue,
    CsPushBack <- MatPushBack, CsPopBack <- MatPopBack,
    CsToggleTop <- MatToggleTop, CsValues <- MatValues,
    DataHandler <- RefDataOp

\* the data opcodes are compared step by step: a question of safety only
Spec == Impl!SafetySpec

(* Every step of the interpreter running the data opcodes as the code      *)
(* writes them is a step of the interpreter running the reference: for    *)
(* the stack opcodes the stacktop(-i) offsets, erase/insert positions,     *)
(* paired swaps and the pop before PICK/ROLL's range check; for the        *)
(* numeric ones BN_div/BN_mod signs and the two serializers of getvch; for *)
(* the byte ones the masked carries of RShift/LShift and the sign-bit     *)
(* move of NUM2BIN's padding.                                              *)
RefSpec == Ref!SafetySpec

(* No script makes the interpreter abort: a PICK or ROLL index outside    *)
(* the stack is turned into INVALID_STACK_OPERATION by the range check    *)
(* of interpreter.cpp, which tests sn < 0 for that purpose.                *)
NoAbort == status # "aborted"
(***************************************************************************)
(* The script-number codec on its own, over every element the scripts put *)
(* on either stack: pushes of the edge bytes (zero, the largest positive   *)
(* top byte, the sign bit, all bits) and whatever the opcodes make of them.*)
(***************************************************************************)
CodecStrings == {stack[i] : i \in DOMAIN stack} \cup {altstack[i] : i \in DOMAIN altstack}

(* getvch after a parse gives back exactly the element parsed: a number   *)
(* accepted by the CScriptNum constructor serializes to the same bytes,    *)
(* and what getvch writes is accepted and parses to the same value.       *)
(* Scripts rely on this when they compare numbers with OP_EQUAL.           *)
CodecBijection ==
    \A data \in CodecStrings :
        LET p == ParseScriptNum(data, MAXIMUM_ITEM_SIZE)
            n == Decode(data)
        IN  /\ p.exc = "none" => Serialize(p.val) = data
            /\ ParseScriptNum(Serialize(n), MAXIMUM_ITEM_SIZE) = [exc |-> "none", val |-> n]

(* The two alternatives of CScriptNum write the same bytes: the int64_t   *)
(* serializer and bigint::serialize (through BN_bn2mpi) agree on every     *)
(* value, so a result's encoding does not depend on which alternative     *)
(* the opcode computed it in.                                              *)
SerializersAgree ==
    \A data \in CodecStrings : BigSerialize(Decode(data)) = Serialize(Decode(data))

(* MinimallyEncode (OP_BIN2NUM) turns any byte string into the canonical  *)
(* encoding of the value it denotes, and reports a change exactly when    *)
(* it made one.                                                            *)
MinimallyEncodeCanonical ==
    \A data \in CodecStrings :
        LET r == MinimallyEncode(data)
        IN  /\ r.data = Serialize(Decode(data))
            /\ r.changed = (r.data # data)
(***************************************************************************)
(* The transaction codec on its own, over every transaction of up to two  *)
(* inputs (scriptSig and witness empty or not) and one output, and over   *)
(* every string made from one of their encodings by changing one byte to  *)
(* 0, 1, 2 or 253 or appending a byte.                                     *)
(***************************************************************************)
CodecInput(s, w) ==
    [prevout |-> [hash |-> <<0>>, n |-> 0], scriptSig |-> s, nSequence |-> 0,
     scriptWitness |-> w]
CodecInputs == {CodecInput(s, w) : s \in {<<>>, <<5>>}, w \in {<<>>, <<6>>}}
CodecOutputs == {[nValue |-> v, scriptPubKey |-> s] : v \in {0, 546}, s \in {<<>>, <<7>>}}
SeqsUpTo(S, n) == UNION {[1..k -> S] : k \in 0..n}
CodecTxs ==
    {[nVersion |-> 2, vin |-> vi, vout |-> vo, nLockTime |-> 0] :
        vi \in SeqsUpTo(CodecInputs, 2), vo \in SeqsUpTo(CodecOutputs, 1)}
CodecBytes ==
    UNION {{[b EXCEPT ![i] = v] : i \in DOMAIN b, v \in {0, 1, 2, 253}} \cup {Append(b, 0)} :
           b \in {Tx!SerializeTransaction(t) : t \in CodecTxs}}

(* One transaction written and read back; one string read and written.   *)
RoundTrips(t) ==
    LET b == Tx!SerializeTransaction(t)
    IN  (Tx!UnserializeTransaction(b) = Tx!Parsed(t, Len(b) + 1))
            <=> (t.vin # <<>> \/ t.vout = <<>>)
ParsesCanonically(b) ==
    LET r == Tx!UnserializeTransaction(b)
    IN  r.exc = "none" => Tx!SerializeTransaction(r.tx) = SubSeq(b, 1, r.pos - 1)

(* The two checks over the fixed domains, evaluated once.                  *)
CodecTxsRoundTrip == \A t \in CodecTxs : RoundTrips(t)
CodecBytesCanonical == \A b \in CodecBytes : ParsesCanonically(b)

(* A transaction whose input script, witness and output script are one   *)
(* element the scripts built.                                              *)
StackTx(data) ==
    [nVersion |-> 2, vin |-> <<CodecInput(data, data)>>,
     vout |-> <<[nValue |-> 546, scriptPubKey |-> data]>>, nLockTime |-> 0]

(* SerializeTransaction and UnserializeTransaction are inverse exactly for *)
(* the transactions with an input or without any output: one with no      *)
(* input but an output is written as version, 00, the output count, and   *)
(* the reader takes that count for the flags byte of the extended layout. *)
(* Besides the fixed domain, the top element is tried as the scripts and   *)
(* witness of a transaction (every element on either stack was the top    *)
(* when it was pushed or computed).                                       *)
TxCodecRoundTrip ==
    /\ CodecTxsRoundTrip
    /\ stack # <<>> => RoundTrips(StackTx(stack[Len(stack)]))

(* Whatever bytes UnserializeTransaction accepts, the part it consumed is  *)
(* the canonical encoding of the transaction it returns: a witness flag    *)
(* with only empty witnesses, or an unknown flag, is refused, so no two    *)
(* encodings give one transaction.  Trailing bytes are ignored (the size   *)
(* check of verify_script_avm is commented out).  Besides the fixed        *)
(* domain, the top element is read as a transaction.                       *)
TxParseCanonical ==
    /\ CodecBytesCanonical
    /\ stack # <<>> => ParsesCanonically(stack[Len(stack)])
=============================================================================
