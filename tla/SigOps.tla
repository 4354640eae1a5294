------------------------------ MODULE SigOps -------------------------------
(***************************************************************************)
(* The signature cases of the EvalScript switch: OP_CHECKDATASIG[VERIFY]  *)
(* (interpreter.cpp 1028-1069) and OP_CHECKAUTHSIG[VERIFY] (1071-1110),    *)
(* with the execution context's getAuthSig, getAuthPubKey and             *)
(* getAuthMessage (script_execution_context.h 144-197).                   *)
(*                                                                         *)
(* VerifyScriptAvm runs with SCRIPT_VERIFY_CHECKLOCKTIMEVERIFY as its only *)
(* flag (interpreter.h 109-111): CheckDataSignatureEncoding and            *)
(* CheckPubKeyEncoding test nothing without STRICTENC, DERSIG or LOW_S,    *)
(* so neither can fail and neither is modelled.  Curve arithmetic is the  *)
(* CONSTANT operators VerifySchnorr and VerifyECDSA.                       *)
(***************************************************************************)
EXTENDS Integers, Sequences, StackOps, AvmEncoding, HashOps, TxOps, ScriptCodec

LOCAL SE == INSTANCE SequencesExt

CONSTANTS
    VerifySchnorr(_, _, _),  \* CPubKey::VerifySchnorr(pubkey, hash, sig)
    VerifyECDSA(_, _, _),    \* CPubKey::VerifyECDSA(pubkey, hash, sig)
    AuthPubKey,              \* the authPubKey bytes of the verification call
    FullScript               \* unlock script bytes followed by lock script bytes

SigOpcodes == {"OP_CHECKDATASIG", "OP_CHECKDATASIGVERIFY",
               "OP_CHECKAUTHSIG", "OP_CHECKAUTHSIGVERIFY"}

OP_RETURN_BYTE == 106
SigMarker == <<3, 115, 105, 103>>   \* push of the three bytes "sig"

(* BaseSignatureChecker::VerifySignature: Schnorr iff 64 bytes.            *)
VerifySignature(sig, pk, hash) ==
    IF Len(sig) = 64 THEN VerifySchnorr(pk, hash, sig) ELSE VerifyECDSA(pk, hash, sig)

(* CScript::IsUnspendable.                                                 *)
IsUnspendable(sc) == Len(sc) > 0 /\ sc[1] = OP_RETURN_BYTE

(* IsSigOpReturn reads bytes 2..5 without a length check: a script of one *)
(* to four bytes starting with OP_RETURN is read out of bounds.  The       *)
(* outputs of a model are not of that shape.                               *)
ASSUME \A i \in DOMAIN TxOutputs :
           IsUnspendable(TxOutputs[i].script) => Len(TxOutputs[i].script) >= 5

(* CScript::IsSigOpReturn: OP_RETURN, the "sig" push, then any push.       *)
IsSigOpReturn(sc) ==
    /\ IsUnspendable(sc)
    /\ SubSeq(sc, 2, 5) = SigMarker
    /\ GetScriptOp(sc, 6).ok
    /\ GetScriptOp(sc, 6).opcode <= 78

SigOutputs == {i \in DOMAIN TxOutputs : IsSigOpReturn(TxOutputs[i].script)}

(* getAuthSig: the push of the first sig output.  getAuthPubKey: present  *)
(* when not empty.                                                         *)
HasAuthSig == SigOutputs # {}
AuthSig == GetScriptOp(TxOutputs[SE!Min(SigOutputs)].script, 6).item
HasAuthPubKey == Len(AuthPubKey) > 0

(* writeUint32 / writeUint64: the bytes of x, least significant first.     *)
RECURSIVE LEBytes(_, _)
LEBytes(x, n) == IF n = 0 THEN <<>> ELSE <<x % 256>> \o LEBytes(x \div 256, n - 1)

(* getAuthMessage: input 0's prevout txid and index, the full script, then *)
(* each output that is not a sig output: its value through CScriptNum and *)
(* getint (which saturates at INT_MAX), and its script.                    *)
AuthMessage ==
    LET in0 == TxInputs[1]
        out(i) == IF IsSigOpReturn(TxOutputs[i].script) THEN <<>>
                  ELSE LEBytes(GetInt(TxOutputs[i].nValue, INT32_MAX), 8) \o TxOutputs[i].script
    IN  in0.txid \o LEBytes(in0.n, 4) \o FullScript
          \o SE!FlattenSeq([i \in DOMAIN TxOutputs |-> out(i)])

(* case OP_CHECKDATASIG / OP_CHECKDATASIGVERIFY: (sig message pubkey --    *)
(* bool).  A non-empty signature that does not verify is NULLFAIL.         *)
CheckDataSig(op, s) ==
    LET L   == Len(s)
        sig == s[L - 2]
        ok  == Len(sig) > 0 /\ VerifySignature(sig, s[L], Digest("SHA256", s[L - 1]))
        t   == Append(SubSeq(s, 1, L - 3), IF ok THEN <<1>> ELSE <<>>)
    IN  CASE L < 3 -> Fail("INVALID_STACK_OPERATION", s)
          [] Len(sig) > 0 /\ ~ok -> Fail("SIG_NULLFAIL", s)
          [] op = "OP_CHECKDATASIG" -> Ok(t)
          [] ok -> Ok(SubSeq(t, 1, Len(t) - 1))
          [] OTHER -> Fail("CHECKDATASIGVERIFY", t)

(* Fault variant: the signature is checked against the message itself.    *)
AuthVerifiesUnhashed(msg) == VerifySignature(AuthSig, AuthPubKey, msg)

(* The signature check of OP_CHECKAUTHSIG: SHA256 of the auth message.     *)
AuthVerifies(msg) == VerifySignature(AuthSig, AuthPubKey, Digest("SHA256", msg))

(* case OP_CHECKAUTHSIG / OP_CHECKAUTHSIGVERIFY: with both a signature and *)
(* a key, a verified key is pushed (by either opcode); with only one,      *)
(* INVALID_AVM_CHECKAUTHSIG; with neither, false, or the VERIFY error.     *)
CheckAuthSig(op, s) ==
    CASE HasAuthSig /\ HasAuthPubKey ->
            IF AuthVerifies(AuthMessage) THEN Ok(Append(s, AuthPubKey))
            ELSE Fail("INVALID_AVM_CHECKAUTHSIGNULL", s)
      [] HasAuthSig \/ HasAuthPubKey -> Fail("INVALID_AVM_CHECKAUTHSIG", s)
      [] op = "OP_CHECKAUTHSIGVERIFY" -> Fail("INVALID_AVM_CHECKAUTHSIGVERIFY", s)
      [] OTHER -> Ok(Append(s, <<>>))

SigOp(op, s) ==
    IF op \in {"OP_CHECKDATASIG", "OP_CHECKDATASIGVERIFY"} THEN CheckDataSig(op, s)
    ELSE CheckAuthSig(op, s)

=============================================================================
