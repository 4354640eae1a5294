------------------------------ MODULE TxCodec ------------------------------
(***************************************************************************)
(* The transaction codec the verifier runs on txTo before anything else:  *)
(* verify_script_avm builds a TxInputStream over the caller's bytes and    *)
(* constructs CTransaction(deserialize, stream), i.e.                      *)
(* UnserializeTransaction (transaction.h 203-241); SerializeTransaction    *)
(* (243-270) is its inverse.  A transaction is a record with the fields of *)
(* CMutableTransaction; a witness is one CScript per input (CScriptWitness *)
(* holds a CScript, script.h 704-717).                                     *)
(*                                                                         *)
(* A read either succeeds, giving a value and the next position, or raises *)
(* std::ios_base::failure; every failure is the one outcome "exc", since   *)
(* nothing catches any of them.  Fixed-width fields keep the code's        *)
(* little-endian layout with scaled widths.                                *)
(***************************************************************************)
EXTENDS Integers, Sequences

(* Widths in bytes of a prevout hash (uint256), of the 32-bit integers     *)
(* (nVersion, prevout.n, nSequence, nLockTime) and of an Amount (int64).   *)
CONSTANTS HashLen, IntLen, AmountLen

ASSUME HashLen \in Nat /\ IntLen \in Nat \ {0} /\ AmountLen \in Nat \ {0}

(* The outcome of one read.  A failed read leaves the position past the    *)
(* end, so that every later read of the same LET chain fails too.          *)
Ok(v, p) == [ok |-> TRUE, v |-> v, p |-> p]
Fail(b) == [ok |-> FALSE, v |-> "exc", p |-> Len(b) + 2]

(* TxInputStream::read: nSize bytes from the current position, or "end of *)
(* data".  The null-pointer tests never fire: the buffers are the caller's *)
(* and the stream's own.                                                   *)
ReadBytes(b, p, n) ==
    IF p + n - 1 > Len(b) THEN Fail(b) ELSE Ok(SubSeq(b, p, p + n - 1), p + n)

(* An unsigned little-endian number and its inverse of a given width.      *)
RECURSIVE LeValue(_)
LeValue(bs) == IF bs = <<>> THEN 0 ELSE bs[1] + 256 * LeValue(Tail(bs))

RECURSIVE LeBytes(_, _)
LeBytes(v, w) == IF w = 0 THEN <<>> ELSE <<v % 256>> \o LeBytes(v \div 256, w - 1)

(* A fixed-width integer field.                                            *)
ReadInt(b, p, w) ==
    LET r == ReadBytes(b, p, w)
    IN  IF r.ok THEN Ok(LeValue(r.v), r.p) ELSE r

(* ReadCompactSize: a first byte below 253 is the count itself; 253, 254   *)
(* and 255 announce a 2, 4 or 8 byte count of at least 253.  The model's   *)
(* byte strings are shorter than 253 bytes, so a count of 253 or more is   *)
(* always followed by a failing read: it is the exception at once.         *)
ReadCompactSize(b, p) ==
    IF p > Len(b) \/ b[p] >= 253 THEN Fail(b) ELSE Ok(b[p], p + 1)

WriteCompactSize(n) == <<n>>

(* A CScript (a prevector of bytes): its length, then its bytes.           *)
ReadScript(b, p) ==
    LET n == ReadCompactSize(b, p)
    IN  IF n.ok THEN ReadBytes(b, n.p, n.v) ELSE n

WriteScript(s) == WriteCompactSize(Len(s)) \o s

(* CTxIn's SERIALIZE_METHODS: prevout (hash, n), scriptSig, nSequence.  The *)
(* witness is not part of it.                                              *)
ReadTxIn(b, p) ==
    LET h == ReadBytes(b, p, HashLen)
        n == ReadInt(b, h.p, IntLen)
        s == ReadScript(b, n.p)
        q == ReadInt(b, s.p, IntLen)
    IN  IF q.ok
        THEN Ok([prevout |-> [hash |-> h.v, n |-> n.v], scriptSig |-> s.v,
                 nSequence |-> q.v, scriptWitness |-> <<>>], q.p)
        ELSE Fail(b)

WriteTxIn(in) ==
    in.prevout.hash \o LeBytes(in.prevout.n, IntLen) \o WriteScript(in.scriptSig)
        \o LeBytes(in.nSequence, IntLen)

(* CTxOut's SERIALIZE_METHODS: nValue, scriptPubKey.                       *)
ReadTxOut(b, p) ==
    LET v == ReadInt(b, p, AmountLen)
        s == ReadScript(b, v.p)
    IN  IF s.ok THEN Ok([nValue |-> v.v, scriptPubKey |-> s.v], s.p) ELSE Fail(b)

WriteTxOut(out) == LeBytes(out.nValue, AmountLen) \o WriteScript(out.scriptPubKey)

(* A std::vector<CTxIn> / std::vector<CTxOut>: a count, then its elements. *)
RECURSIVE ReadTxIns(_, _, _)
ReadTxIns(b, p, k) ==
    IF k = 0 THEN Ok(<<>>, p)
    ELSE LET x == ReadTxIn(b, p)
             rest == ReadTxIns(b, x.p, k - 1)
         IN  IF x.ok /\ rest.ok THEN Ok(<<x.v>> \o rest.v, rest.p) ELSE Fail(b)

RECURSIVE ReadTxOuts(_, _, _)
ReadTxOuts(b, p, k) ==
    IF k = 0 THEN Ok(<<>>, p)
    ELSE LET x == ReadTxOut(b, p)
             rest == ReadTxOuts(b, x.p, k - 1)
         IN  IF x.ok /\ rest.ok THEN Ok(<<x.v>> \o rest.v, rest.p) ELSE Fail(b)

ReadVin(b, p) ==
    LET c == ReadCompactSize(b, p)
    IN  IF c.ok THEN ReadTxIns(b, c.p, c.v) ELSE c

ReadVout(b, p) ==
    LET c == ReadCompactSize(b, p)
    IN  IF c.ok THEN ReadTxOuts(b, c.p, c.v) ELSE c

RECURSIVE WriteTxIns(_)
WriteTxIns(vin) == IF vin = <<>> THEN <<>> ELSE WriteTxIn(Head(vin)) \o WriteTxIns(Tail(vin))

RECURSIVE WriteTxOuts(_)
WriteTxOuts(vout) == IF vout = <<>> THEN <<>> ELSE WriteTxOut(Head(vout)) \o WriteTxOuts(Tail(vout))

(* The witness loop: s >> tx.vin[i].scriptWitness.stack for every input.   *)
RECURSIVE ReadWitnesses(_, _, _, _)
ReadWitnesses(b, p, vin, i) ==
    IF i > Len(vin) THEN Ok(vin, p)
    ELSE LET w == ReadScript(b, p)
         IN  IF w.ok
             THEN ReadWitnesses(b, w.p, [vin EXCEPT ![i].scriptWitness = w.v], i + 1)
             ELSE Fail(b)

RECURSIVE WriteWitnesses(_)
WriteWitnesses(vin) ==
    IF vin = <<>> THEN <<>>
    ELSE WriteScript(Head(vin).scriptWitness) \o WriteWitnesses(Tail(vin))

(* Fault variant: only the first input's witness is looked at.            *)
HasWitnessFirstInput(tx) == tx.vin # <<>> /\ tx.vin[1].scriptWitness # <<>>

(* CMutableTransaction::HasWitness / CTransaction::ComputeHasWitness: some *)
(* input's witness is not empty.                                           *)
HasWitness(tx) == \E i \in DOMAIN tx.vin : tx.vin[i].scriptWitness # <<>>

(* Fault variant: only unknown flags are refused, so a witness flag with   *)
(* all witnesses empty is accepted.                                        *)
FlagsRefusedUnknownOnly(flags, tx) == flags \div 2 # 0

(* After the witnesses: "Superfluous witness record" when bit 0 is set and *)
(* every witness read is empty, "Unknown transaction optional data" when   *)
(* any other bit is.                                                       *)
FlagsRefused(flags, tx) ==
    \/ flags % 2 = 1 /\ ~HasWitness(tx)
    \/ flags \div 2 # 0

(* The outcome of deserialising a whole transaction: "none" with the      *)
(* transaction and the position after nLockTime, or the exception.         *)
Parsed(tx, p) == [exc |-> "none", tx |-> tx, pos |-> p]
Thrown == [exc |-> "exc", tx |-> "none", pos |-> 0]

(* The stages of UnserializeTransaction, one per read of the code, each   *)
(* given the outcome of the read before it.  After the witnesses (if any): *)
(* the flag checks, then nLockTime.                                        *)
AfterWitnesses(b, version, vout, flags, wit) ==
    LET lock == ReadInt(b, wit.p, IntLen)
        tx == [nVersion |-> version, vin |-> wit.v, vout |-> vout, nLockTime |-> lock.v]
    IN  CASE ~wit.ok -> Thrown
          [] FlagsRefused(flags, tx) -> Thrown
          [] ~lock.ok -> Thrown
          [] OTHER -> Parsed(tx, lock.p)

(* After vout: flags bit 0 reads one witness per input.                    *)
AfterVout(b, version, vin, flags, vout) ==
    IF ~vout.ok THEN Thrown
    ELSE AfterWitnesses(b, version, vout.v, flags,
                        IF flags % 2 = 1 THEN ReadWitnesses(b, vout.p, vin, 1)
                        ELSE Ok(vin, vout.p))

(* After the second vin of the extended layout: vout follows.             *)
AfterSecondVin(b, version, flags, vin) ==
    IF ~vin.ok THEN Thrown ELSE AfterVout(b, version, vin.v, flags, ReadVout(b, vin.p))

(* After the flags byte: 0 reads nothing more before nLockTime (an empty   *)
(* transaction); any other value reads vin and vout again.                 *)
AfterFlags(b, version, fl) ==
    CASE ~fl.ok -> Thrown
      [] fl.v = 0 -> AfterWitnesses(b, version, <<>>, 0, Ok(<<>>, fl.p))
      [] OTHER -> AfterSecondVin(b, version, fl.v, ReadVin(b, fl.p))

(* After the first vin: an empty one is the dummy of the extended layout   *)
(* or a transaction without inputs, and a flags byte follows; otherwise    *)
(* vout follows.                                                           *)
AfterFirstVin(b, version, vin) ==
    CASE ~vin.ok -> Thrown
      [] vin.v = <<>> -> AfterFlags(b, version, ReadInt(b, vin.p, 1))
      [] OTHER -> AfterVout(b, version, vin.v, 0, ReadVout(b, vin.p))

(* UnserializeTransaction: nVersion, then the first vin.                   *)
UnserializeTransaction(b) ==
    LET ver == ReadInt(b, 1, IntLen)
    IN  IF ver.ok THEN AfterFirstVin(b, ver.v, ReadVin(b, ver.p)) ELSE Thrown

(* SerializeTransaction: the extended layout (an empty vin as dummy, flags *)
(* 1, the witnesses after vout) only when some witness is not empty.       *)
SerializeTransaction(tx) ==
    LET ext == HasWitness(tx)
    IN  LeBytes(tx.nVersion, IntLen)
          \o (IF ext THEN <<0, 1>> ELSE <<>>)
          \o WriteCompactSize(Len(tx.vin)) \o WriteTxIns(tx.vin)
          \o WriteCompactSize(Len(tx.vout)) \o WriteTxOuts(tx.vout)
          \o (IF ext THEN WriteWitnesses(tx.vin) ELSE <<>>)
          \o LeBytes(tx.nLockTime, IntLen)

====
