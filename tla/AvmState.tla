------------------------------ MODULE AvmState ------------------------------
(***************************************************************************)
(* The AVM contract-state layer (ScriptStateContext) driven by the state   *)
(* opcodes of one lock script, followed by the finalisation done by        *)
(* atomicalsconsensus_verify_script_avm: cleanupStateAndBalances and       *)
(* validateFinalStateRestrictions.                                         *)
(*                                                                         *)
(* One step is one AVM opcode executed by EvalScript.  Its arguments are   *)
(* the stack elements it reads, chosen from small sets.  A failing opcode  *)
(* ends the run with a script error and the caller discards every map.     *)
(* Maps are the nlohmann::json objects of the code: a partial function     *)
(* from hex-string keys (AvmEncoding) to values.  A set of delete markers  *)
(* stands for a JSON object whose values are all true.                     *)
(***************************************************************************)
EXTENDS Integers, Sequences, FiniteSets, FiniteSetsExt, Functions, TLC, AvmEncoding, ScriptNum

LOCAL SE == INSTANCE SequencesExt

CONSTANTS
    AtomicalIds,      \* token ids (36-byte refs); Int so that they sort like GetHex
    KeyArgs,          \* byte strings used as keyspaces and key names
    ValueArgs,        \* byte strings stored as values
    NumArgs,          \* minimally encoded script numbers on the stack
    OutputValues,     \* nValue of each output of the transaction, in satoshis
    InitKvStates,     \* contract states the caller may pass in
    InitFtValues,     \* FT amounts the caller may pass in (ft, ftIncoming)
    U64,              \* 2^64: uint64_t balances are kept modulo U64
    IntMax,           \* std::numeric_limits<int>::max(), the getint bound
    MaxStateKeySize,  \* maxStateKeySize of EvalScript (1024)
    OversizedKey,     \* a stack element longer than MaxStateKeySize
    NonMinimal,       \* outcome of parsing a non-minimal number: exception
    NoValue,          \* "nothing pushed"
    MaxScriptOps,     \* bound on the number of state opcodes in one script
    ScriptOpcodes,    \* the AVM opcodes the scripts of a model may contain
    Headers,          \* external.headers: height -> block header record
    CurrentHeight,    \* external.currentHeight
    HeaderArgs,       \* block headers pushed as 80-byte stack elements
    PrevStateHash,    \* prevStateHash, the 32 bytes the caller passes in
    MAX_STATE_FINAL_BYTES, MAX_STATE_UPDATE_BYTES,
    MAX_BALANCES_BYTES, MAX_BALANCES_UPDATE_BYTES

ASSUME IntMax >= Len(OutputValues)
ASSUME \A v \in InitFtValues : 0 < v /\ v < U64

VARIABLES
    kv, kvUpdates, kvDeletes,                 \* _contractState{,Updates,Deletes}
    ft, ftIncoming, ftUpdates, ftAddsSet, ftWithdrawMap,
    nft, nftIncoming, nftUpdates, nftPutsSet, nftWithdrawMap,
    stateHash, \* the state commitment CalculateStateHash returned, or NoValue
    status,   \* "running", "script_error", "ok" or "uncaught" (exception escaped)
    err,      \* the script error or the escaping exception, "none" otherwise
    lastOp,   \* the last opcode, its stack arguments and what it pushed
    opCount,  \* state opcodes executed so far (bounded by MaxScriptOps)
    kv0, ft0, nft0, \* history: the contract state and balances passed in
    written,  \* history: last value put under each (keyspace, key) string pair
    credited, \* history: per id, FT amount credited from incoming
    debited   \* history: per id, FT amount debited by withdrawals

stateVars == <<kv, kvUpdates, kvDeletes, ft, ftIncoming, ftUpdates, ftAddsSet,
               ftWithdrawMap, nft, nftIncoming, nftUpdates, nftPutsSet, nftWithdrawMap>>
historyVars == <<kv0, ft0, nft0, written, credited, debited>>
vars == <<stateVars, stateHash, status, err, lastOp, opCount, historyVars>>

AtomicalRefSize == 36
FtEntryBytes == AtomicalRefSize + 8

PartialFns(S, T) == UNION {[D -> T] : D \in SUBSET S}
Upsert(f, k, v) == (k :> v) @@ f
Erase(f, k) == Restrict(f, DOMAIN f \ {k})
Node(f, k) == IF k \in DOMAIN f THEN f[k] ELSE <<>>
Markers(k) == IF k \in DOMAIN kvDeletes THEN kvDeletes[k] ELSE {}
Bal(f, id) == IF id \in DOMAIN f THEN f[id] ELSE 0

ByteLen(b) == IF b = OversizedKey THEN MaxStateKeySize + 1 ELSE Len(b)

(* A stack element read by a token opcode: a 36-byte ref or a number.     *)
Elem == [t : {"ref"}, id : AtomicalIds] \cup [t : {"num"}, n : NumArgs]

(* CScriptNum(vch, maxIntegerSize).getint(): a 36-byte element is either  *)
(* non-minimal (the constructor throws) or far outside the int range.     *)
IntOutcomes(e) ==
    IF e.t = "num" THEN {GetInt(e.n, IntMax)}
    ELSE {NonMinimal, IntMax, -IntMax - 1}

(***************************************************************************)
(* Size and format validation (StateValidation in script_utils.h).         *)
(***************************************************************************)
KvBytes(m) ==
    MapThenSumSet(LAMBDA s : HexByteCount(s)
        + MapThenSumSet(LAMBDA n : HexByteCount(n) + HexByteCount(m[s][n]), DOMAIN m[s]),
        DOMAIN m)
DeleteBytes(m) ==
    MapThenSumSet(LAMBDA s : HexByteCount(s)
        + MapThenSumSet(LAMBDA n : HexByteCount(n), m[s]), DOMAIN m)
EmptyKeyspaces(m) == {s \in DOMAIN m : DOMAIN m[s] = {}}
EmptyMarkerSets(d) == {s \in DOMAIN d : d[s] = {}}
ZeroBalances(m) == {id \in DOMAIN m : m[id] = 0}

(* The first exception performValidateStateRestrictions throws.           *)
ValidationException(k, ku, kd, f, fu, n, nu) ==
    CASE EmptyKeyspaces(k) # {}                 -> "StateFormatError"
      [] KvBytes(k) > MAX_STATE_FINAL_BYTES     -> "StateSizeLimitError"
      [] EmptyKeyspaces(ku) # {}                -> "StateFormatError"
      [] KvBytes(ku) > MAX_STATE_UPDATE_BYTES   -> "StateUpdateSizeLimitError"
      [] EmptyMarkerSets(kd) # {}               -> "StateDeleteFormatError"
      [] DeleteBytes(kd) > MAX_STATE_UPDATE_BYTES -> "StateDeleteSizeLimitError"
      [] ZeroBalances(f) # {}                   -> "TokenFtBalanceZeroFormatError"
      [] Cardinality(DOMAIN f) * FtEntryBytes > MAX_BALANCES_BYTES
                                                -> "TokenFtBalanceSizeLimitError"
      [] Cardinality(DOMAIN fu) * FtEntryBytes > MAX_BALANCES_UPDATE_BYTES
                                                -> "TokenFtBalanceUpdateSizeLimitError"
      [] Cardinality(n) * AtomicalRefSize > MAX_BALANCES_BYTES
                                                -> "TokenNftBalanceSizeLimitError"
      [] Cardinality(DOMAIN nu) * AtomicalRefSize > MAX_BALANCES_UPDATE_BYTES
                                                -> "TokenNftBalanceUpdateSizeLimitError"
      [] OTHER                                  -> "none"

SizeLimitErrors ==
    {"StateSizeLimitError", "StateUpdateSizeLimitError", "StateDeleteSizeLimitError",
     "TokenFtBalanceSizeLimitError", "TokenFtBalanceUpdateSizeLimitError",
     "TokenNftBalanceSizeLimitError", "TokenNftBalanceUpdateSizeLimitError"}

(***************************************************************************)
(* Cleanup loops erase the current element of a range-for over            *)
(* json::items().  The erase frees the std::map node the loop iterator    *)
(* points to, so advancing it is undefined: after the first erase the     *)
(* loop may go on correctly, stop early, or crash.  An outcome erases the *)
(* first j of the elements to drop, in key order.                         *)
(***************************************************************************)
(* The key order of the loops as a relation on the elements D to drop:  *)
(* hex strings compare as std::string, and a token id's integer order is *)
(* the order of its GetHex string.                                       *)
StrOrder(D) == {p \in D \X D : StrLess(p[1], p[2])}
IdOrder(D) == {p \in D \X D : p[1] < p[2]}
FirstN(D, j, R) == {d \in D : Cardinality({x \in D : <<x, d>> \in R}) < j}
EraseOutcomes(m, D, R) ==
    IF D = {} THEN {[m |-> m, crash |-> FALSE]}
    ELSE {[m |-> Restrict(m, DOMAIN m \ FirstN(D, j, R)), crash |-> FALSE]
            : j \in 1..Cardinality(D)}
         \cup {[m |-> m, crash |-> TRUE]}

(* cleanupKeyspaces on the state, the updates and the deletes, and        *)
(* cleanupEmptyFtTokenBalance: the outcomes of each loop.                 *)
CleanupKeyspaces(m) == EraseOutcomes(m, EmptyKeyspaces(m), StrOrder(EmptyKeyspaces(m)))
CleanupDeleteKeyspaces(d) == EraseOutcomes(d, EmptyMarkerSets(d), StrOrder(EmptyMarkerSets(d)))
CleanupEmptyFtTokenBalance(f) == EraseOutcomes(f, ZeroBalances(f), IdOrder(ZeroBalances(f)))

-----------------------------------------------------------------------------
(***************************************************************************)
(* The state commitment (CalculateStateHash in script_utils.h).  SHA-256  *)
(* is taken to be injective: a hash is its preimage.  Each inner hash is  *)
(* 32 bytes, so the outer preimage is the tuple of the inner ones.  The   *)
(* serialisers walk the json objects in key order (std::map) and         *)
(* concatenate the hex-decoded keys and values with no length prefixes.   *)
(***************************************************************************)
(* SerializeUint32_t / SerializeUint64_t: the bytes, least significant    *)
(* first.                                                                 *)
RECURSIVE SerializeUint(_, _)
SerializeUint(x, n) == IF n = 0 THEN <<>> ELSE <<x % 256>> \o SerializeUint(x \div 256, n - 1)

(* ParseHex(uint288::GetHex()): GetHex prints the bytes most significant  *)
(* first.  A constant table, so that TLC computes it once.                *)
RefBytesTable == [id \in AtomicalIds |-> SE!Reverse(SerializeUint(id, AtomicalRefSize))]
RefBytes(id) == RefBytesTable[id]

(* A range-for over a json object: the keys in std::string order, a token *)
(* id map in the order of the ids' hex strings.                           *)
InKeyOrder(D) == SE!SetToSortSeq(D, StrLess)
InIdOrder(D) == SE!SetToSortSeq(D, LAMBDA x, y : x < y)
Concat(seq, F(_)) == SE!FoldLeft(LAMBDA acc, x : acc \o F(x), <<>>, seq)

(* GetStateDataVectorOnlyStrings on the two-level state objects.          *)
GetStateDataVectorOnlyStrings(m) ==
    Concat(InKeyOrder(DOMAIN m), LAMBDA s :
        ParseHex(s) \o Concat(InKeyOrder(DOMAIN m[s]), LAMBDA n : ParseHex(n) \o ParseHex(m[s][n])))

(* GetStateDataVectorOnly2LevelStringKeysBooleanValue: the keys only.     *)
GetStateDataHashDeletes(d) ==
    Concat(InKeyOrder(DOMAIN d), LAMBDA s :
        ParseHex(s) \o Concat(InKeyOrder(d[s]), LAMBDA n : ParseHex(n)))

(* GetStateDataVectorStringKey{Boolean,Int}Value: the ids, no values.     *)
GetStateDataHashBalance(ids) == Concat(InIdOrder(ids), RefBytes)

(* GetStateDataHashNftWithdraws: id, then the output index as a uint32.   *)
GetStateDataHashNftWithdraws(w) ==
    Concat(InIdOrder(DOMAIN w), LAMBDA id : RefBytes(id) \o SerializeUint(w[id], 4))

(* GetStateDataHashFtWithdraws: id, then per output index (a decimal     *)
(* string key; below 10 its string order is the numeric one) the index   *)
(* and the amount as uint64s.                                            *)
GetStateDataHashFtWithdraws(w) ==
    Concat(InIdOrder(DOMAIN w), LAMBDA id :
        RefBytes(id) \o Concat(InIdOrder(DOMAIN w[id]), LAMBDA i :
                                  SerializeUint(i, 8) \o SerializeUint(w[id][i], 8)))

(* CalculateStateHash: prevHash, then the eleven inner hashes in the      *)
(* order of its AppendVector calls.                                       *)
CalculateStateHash(prevHash, stateFinal, stateUpdates, stateDeletes, ftInc, nftInc, ftBalances, ftBalancesUpdates, nftBalances, nftBalancesUpdates, ftWithdraws, nftWithdraws) ==
    <<prevHash,
      GetStateDataHashBalance(nftInc), GetStateDataHashBalance(DOMAIN ftInc),
      GetStateDataVectorOnlyStrings(stateFinal), GetStateDataVectorOnlyStrings(stateUpdates),
      GetStateDataHashDeletes(stateDeletes),
      GetStateDataHashBalance(nftBalances), GetStateDataHashBalance(DOMAIN ftBalances),
      GetStateDataHashBalance(DOMAIN nftBalancesUpdates),
      GetStateDataHashBalance(DOMAIN ftBalancesUpdates),
      GetStateDataHashNftWithdraws(nftWithdraws), GetStateDataHashFtWithdraws(ftWithdraws)>>

-----------------------------------------------------------------------------
Init ==
    /\ kv \in InitKvStates
    /\ ft \in PartialFns(AtomicalIds, InitFtValues)
    /\ ftIncoming \in PartialFns(AtomicalIds, InitFtValues)
    /\ nft \in SUBSET AtomicalIds
    /\ nftIncoming \in SUBSET AtomicalIds
    /\ kvUpdates = <<>> /\ kvDeletes = <<>>
    /\ ftUpdates = <<>> /\ nftUpdates = <<>>
    /\ ftAddsSet = {} /\ nftPutsSet = {}
    /\ ftWithdrawMap = <<>> /\ nftWithdrawMap = <<>>
    \* the constructor's validation passes (it throws otherwise)
    /\ ValidationException(kv, <<>>, <<>>, ft, <<>>, nft, <<>>) = "none"
    /\ status = "running" /\ err = "none"
    /\ lastOp = [op |-> "none", args |-> <<>>, out |-> NoValue]
    /\ opCount = 0
    /\ stateHash = NoValue
    /\ kv0 = kv /\ ft0 = ft /\ nft0 = nft /\ written = <<>>
    /\ credited = [id \in AtomicalIds |-> 0]
    /\ debited = [id \in AtomicalIds |-> 0]

Running == status = "running"

(* One more opcode of the script; the bound keeps scripts finite.         *)
Step == opCount < MaxScriptOps /\ opCount' = opCount + 1

Fail(e, op, args) ==
    /\ status' = "script_error"
    /\ err' = e
    /\ lastOp' = [op |-> op, args |-> args, out |-> NoValue]
    /\ UNCHANGED <<stateVars, stateHash, historyVars>>

Done(op, args, out) ==
    /\ lastOp' = [op |-> op, args |-> args, out |-> out]
    /\ UNCHANGED stateHash

-----------------------------------------------------------------------------
(***************************************************************************)
(* Key-value opcodes.  put and delete key the objects by HexStrWith00Null  *)
(* of the stack elements, get and exists look them up by HexStr.           *)
(***************************************************************************)

(* Fault variants of contractStatePut: the value hex-encoded with HexStr *)
(* (an empty value becomes ""), and the delete marker left in place.     *)
ContractStatePutPlainHex(ks, kn, v) ==
    LET s == HexStrWith00Null(ks)
        n == HexStrWith00Null(kn)
    IN  /\ kv' = Upsert(kv, s, Upsert(Node(kv, s), n, HexStr(v)))
        /\ kvUpdates' = Upsert(kvUpdates, s, Upsert(Node(kvUpdates, s), n, HexStr(v)))
        /\ kvDeletes' = Upsert(kvDeletes, s, Markers(s) \ {n})
ContractStatePutKeepsMarker(ks, kn, v) ==
    LET s == HexStrWith00Null(ks)
        n == HexStrWith00Null(kn)
        val == HexStrWith00Null(v)
    IN  /\ kv' = Upsert(kv, s, Upsert(Node(kv, s), n, val))
        /\ kvUpdates' = Upsert(kvUpdates, s, Upsert(Node(kvUpdates, s), n, val))
        /\ kvDeletes' = Upsert(kvDeletes, s, Markers(s))

(* ScriptStateContext::contractStatePut, with ensureKeyspaceExists on the *)
(* three objects: the value is set in state and updates, the delete       *)
(* marker erased (the deletes keyspace is created even when it stays      *)
(* empty).                                                                *)
ContractStatePut(ks, kn, v) ==
    LET s == HexStrWith00Null(ks)
        n == HexStrWith00Null(kn)
        val == HexStrWith00Null(v)
    IN  /\ kv' = Upsert(kv, s, Upsert(Node(kv, s), n, val))
        /\ kvUpdates' = Upsert(kvUpdates, s, Upsert(Node(kvUpdates, s), n, val))
        /\ kvDeletes' = Upsert(kvDeletes, s, Markers(s) \ {n})

(* Fault variant of contractStateDelete: the main state is not erased.   *)
ContractStateDeleteKeepsState(ks, kn) ==
    LET s == HexStrWith00Null(ks)
        n == HexStrWith00Null(kn)
    IN  /\ kv' = Upsert(kv, s, Node(kv, s))
        /\ kvUpdates' = Upsert(kvUpdates, s, Erase(Node(kvUpdates, s), n))
        /\ kvDeletes' = Upsert(kvDeletes, s, Markers(s) \cup {n})

(* ScriptStateContext::contractStateDelete.                               *)
ContractStateDelete(ks, kn) ==
    LET s == HexStrWith00Null(ks)
        n == HexStrWith00Null(kn)
    IN  /\ kv' = Upsert(kv, s, Erase(Node(kv, s), n))
        /\ kvUpdates' = Upsert(kvUpdates, s, Erase(Node(kvUpdates, s), n))
        /\ kvDeletes' = Upsert(kvDeletes, s, Markers(s) \cup {n})

(* ScriptStateContext::contractStateGet: the parsed value, or NoValue.    *)
ContractStateGet(ks, kn) ==
    LET s == HexStr(ks)
        n == HexStr(kn)
    IN  IF s \in DOMAIN kv /\ n \in DOMAIN kv[s] THEN ParseHex(kv[s][n]) ELSE NoValue

(* ScriptStateContext::contractStateExists.                               *)
ContractStateExists(ks, kn) ==
    HexStr(ks) \in DOMAIN kv /\ HexStr(kn) \in DOMAIN kv[HexStr(ks)]

KeyOrOversized == KeyArgs \cup {OversizedKey}

(* EvalScript OP_KV_PUT: both keys are size-checked before the put.       *)
KvPut ==
    /\ Running
    /\ "KV_PUT" \in ScriptOpcodes
    /\ Step
    /\ \E ks, kn \in KeyOrOversized, v \in ValueArgs :
        \/ /\ ByteLen(ks) > MaxStateKeySize \/ ByteLen(kn) > MaxStateKeySize
           /\ Fail("INVALID_AVM_STATE_KEY_SIZE", "KV_PUT", <<ks, kn, v>>)
        \/ /\ ByteLen(ks) <= MaxStateKeySize /\ ByteLen(kn) <= MaxStateKeySize
           /\ ContractStatePut(ks, kn, v)
           /\ written' = Upsert(written, <<ks, kn>>, v)
           /\ Done("KV_PUT", <<ks, kn, v>>, NoValue)
           /\ UNCHANGED <<ft, ftIncoming, ftUpdates, ftAddsSet, ftWithdrawMap, nft,
                          nftIncoming, nftUpdates, nftPutsSet, nftWithdrawMap,
                          status, err, kv0, ft0, nft0, credited, debited>>

(* EvalScript OP_KV_DELETE: no size check.                                *)
KvDelete ==
    /\ Running
    /\ "KV_DELETE" \in ScriptOpcodes
    /\ Step
    /\ \E ks, kn \in KeyArgs :
        /\ ContractStateDelete(ks, kn)
        /\ written' = Upsert(written, <<ks, kn>>, NoValue)
        /\ Done("KV_DELETE", <<ks, kn>>, NoValue)
        /\ UNCHANGED <<ft, ftIncoming, ftUpdates, ftAddsSet, ftWithdrawMap, nft,
                       nftIncoming, nftUpdates, nftPutsSet, nftWithdrawMap,
                       status, err, kv0, ft0, nft0, credited, debited>>

(* EvalScript OP_KV_GET: a missing key is a script error.                 *)
KvGet ==
    /\ Running
    /\ "KV_GET" \in ScriptOpcodes
    /\ Step
    /\ \E ks, kn \in KeyArgs :
        \/ /\ ContractStateGet(ks, kn) = NoValue
           /\ Fail("INVALID_AVM_STATE_KEY_NOT_FOUND", "KV_GET", <<ks, kn>>)
        \/ /\ ContractStateGet(ks, kn) # NoValue
           /\ Done("KV_GET", <<ks, kn>>, ContractStateGet(ks, kn))
           /\ UNCHANGED <<stateVars, status, err, historyVars>>

(* EvalScript OP_KV_EXISTS: pushes true or false.                         *)
KvExists ==
    /\ Running
    /\ "KV_EXISTS" \in ScriptOpcodes
    /\ Step
    /\ \E ks, kn \in KeyArgs :
        /\ Done("KV_EXISTS", <<ks, kn>>, ContractStateExists(ks, kn))
        /\ UNCHANGED <<stateVars, status, err, historyVars>>

-----------------------------------------------------------------------------
(***************************************************************************)
(* Token opcodes.  A token id is a 36-byte ref on the stack; any other     *)
(* element fails the size check first.                                     *)
(***************************************************************************)

(* Fault variant of allowedFtBalanceAdd: the ftAddsSet lookup is lost.  *)
AllowedFtBalanceAddAlways(id) == TRUE

(* allowedFtBalanceAdd / allowedNftPut: one add (put) per id per script.  *)
AllowedFtBalanceAdd(id) == id \notin ftAddsSet
AllowedNftPut(id) == id \notin nftPutsSet

(* Fault variant of contractFtBalanceAdd: the balance is set to the       *)
(* incoming amount instead of being increased by it.                      *)
ContractFtBalanceAddOverwrites(id) ==
    /\ id \in DOMAIN ftIncoming
    /\ AllowedFtBalanceAdd(id)
    /\ ftIncoming[id] > 0
    /\ LET amount == ftIncoming[id]
       IN  /\ ftAddsSet' = ftAddsSet \cup {id}
           /\ ft' = Upsert(ft, id, amount)
           /\ ftUpdates' = Upsert(ftUpdates, id, amount)
           /\ credited' = [credited EXCEPT ![id] = @ + amount]

(* contractFtBalanceAdd with performFtBalanceAdd: the whole incoming     *)
(* amount is added to the uint64_t balance, which wraps.                 *)
ContractFtBalanceAdd(id) ==
    /\ id \in DOMAIN ftIncoming
    /\ AllowedFtBalanceAdd(id)
    /\ ftIncoming[id] > 0
    /\ LET amount == ftIncoming[id]
           currentValue == (Bal(ft, id) + amount) % U64
       IN  /\ ftAddsSet' = ftAddsSet \cup {id}
           /\ ft' = Upsert(ft, id, currentValue)
           /\ ftUpdates' = Upsert(ftUpdates, id, currentValue)
           /\ credited' = [credited EXCEPT ![id] = @ + amount]

(* contractNftPut with performNftPut.                                     *)
ContractNftPut(id) ==
    /\ id \in nftIncoming
    /\ AllowedNftPut(id)
    /\ nftPutsSet' = nftPutsSet \cup {id}
    /\ nft' = nft \cup {id}
    /\ nftUpdates' = Upsert(nftUpdates, id, TRUE)

(* Fault variant of contractWithdrawFt: the balance check is lost and    *)
(* the uint64_t subtraction underflows.                                   *)
ContractWithdrawFtNoBalanceCheck(id, index, withdrawAmount) ==
    /\ withdrawAmount > 0
    /\ id \in DOMAIN ft
    /\ LET updatedBalance == ft[id] - withdrawAmount
           row == Node(ftWithdrawMap, id)
       IN  /\ ft' = IF updatedBalance = 0 THEN Erase(ft, id)
                    ELSE Upsert(ft, id, updatedBalance)
           /\ ftUpdates' = Upsert(ftUpdates, id, updatedBalance)
           /\ ftWithdrawMap' = Upsert(ftWithdrawMap, id,
                                 IF index \in DOMAIN row THEN row
                                 ELSE Upsert(row, index, withdrawAmount))
           /\ debited' = [debited EXCEPT ![id] = @ + withdrawAmount]

(* Fault variant of contractWithdrawFt: ftUpdates gets the balance       *)
(* before the withdrawal.                                                 *)
ContractWithdrawFtStaleUpdate(id, index, withdrawAmount) ==
    /\ withdrawAmount > 0
    /\ id \in DOMAIN ft
    /\ withdrawAmount <= ft[id]
    /\ LET updatedBalance == ft[id] - withdrawAmount
           row == Node(ftWithdrawMap, id)
       IN  /\ ft' = IF updatedBalance = 0 THEN Erase(ft, id)
                    ELSE Upsert(ft, id, updatedBalance)
           /\ ftUpdates' = Upsert(ftUpdates, id, ft[id])
           /\ ftWithdrawMap' = Upsert(ftWithdrawMap, id,
                                 IF index \in DOMAIN row THEN row
                                 ELSE Upsert(row, index, withdrawAmount))
           /\ debited' = [debited EXCEPT ![id] = @ + withdrawAmount]

(* contractWithdrawFt: the balance is debited (erased at zero) and the    *)
(* withdraw map records (index, amount) with std::map::insert, which      *)
(* keeps an existing entry for the same index.                            *)
ContractWithdrawFt(id, index, withdrawAmount) ==
    /\ withdrawAmount > 0
    /\ id \in DOMAIN ft
    /\ withdrawAmount <= ft[id]
    /\ LET updatedBalance == ft[id] - withdrawAmount
           row == Node(ftWithdrawMap, id)
       IN  /\ ft' = IF updatedBalance = 0 THEN Erase(ft, id)
                    ELSE Upsert(ft, id, updatedBalance)
           /\ ftUpdates' = Upsert(ftUpdates, id, updatedBalance)
           /\ ftWithdrawMap' = Upsert(ftWithdrawMap, id,
                                 IF index \in DOMAIN row THEN row
                                 ELSE Upsert(row, index, withdrawAmount))
           /\ debited' = [debited EXCEPT ![id] = @ + withdrawAmount]

(* contractWithdrawNft.                                                   *)
ContractWithdrawNft(id, index) ==
    /\ id \in nft
    /\ nft' = nft \ {id}
    /\ nftUpdates' = Upsert(nftUpdates, id, FALSE)
    /\ nftWithdrawMap' = IF id \in DOMAIN nftWithdrawMap THEN nftWithdrawMap
                         ELSE Upsert(nftWithdrawMap, id, index)

(* EvalScript OP_FT_BALANCE_ADD.                                          *)
FtBalanceAdd ==
    /\ Running
    /\ "FT_BALANCE_ADD" \in ScriptOpcodes
    /\ Step
    /\ \E e \in Elem :
        \/ /\ e.t # "ref"
           /\ Fail("INVALID_ATOMICAL_REF_SIZE", "FT_BALANCE_ADD", <<e>>)
        \/ /\ e.t = "ref"
           /\ ~ENABLED ContractFtBalanceAdd(e.id)
           /\ Fail("INVALID_AVM_FT_BALANCE_ADD_INVALID", "FT_BALANCE_ADD", <<e>>)
        \/ /\ e.t = "ref"
           /\ ContractFtBalanceAdd(e.id)
           /\ Done("FT_BALANCE_ADD", <<e>>, NoValue)
           /\ UNCHANGED <<kv, kvUpdates, kvDeletes, ftIncoming, ftWithdrawMap, nft,
                          nftIncoming, nftUpdates, nftPutsSet, nftWithdrawMap,
                          status, err, kv0, ft0, nft0, written, debited>>

(* EvalScript OP_NFT_PUT.                                                 *)
NftPut ==
    /\ Running
    /\ "NFT_PUT" \in ScriptOpcodes
    /\ Step
    /\ \E e \in Elem :
        \/ /\ e.t # "ref"
           /\ Fail("INVALID_ATOMICAL_REF_SIZE", "NFT_PUT", <<e>>)
        \/ /\ e.t = "ref"
           /\ ~ENABLED ContractNftPut(e.id)
           /\ Fail("INVALID_AVM_NFT_PUT_INVALID", "NFT_PUT", <<e>>)
        \/ /\ e.t = "ref"
           /\ ContractNftPut(e.id)
           /\ Done("NFT_PUT", <<e>>, NoValue)
           /\ UNCHANGED <<kv, kvUpdates, kvDeletes, ft, ftIncoming, ftUpdates, ftAddsSet,
                          ftWithdrawMap, nftIncoming, nftWithdrawMap,
                          status, err, historyVars>>

(* The first error OP_FT_WITHDRAW reports for amount vch1, output index   *)
(* vch2 and ref vch3, given the parsed index and amount.                  *)
FtWithdrawCheck(vch3, index, withdrawAmount) ==
    CASE vch3.t # "ref"                     -> "INVALID_ATOMICAL_REF_SIZE"
      [] index = NonMinimal                 -> "UNKNOWN"
      [] index < 0 \/ index >= Len(OutputValues)
                                            -> "INVALID_AVM_WITHDRAW_FT_OUTPUT_INDEX"
      [] withdrawAmount = NonMinimal        -> "UNKNOWN"
      [] withdrawAmount <= 0 \/ withdrawAmount > OutputValues[index + 1]
                                            -> "INVALID_AVM_WITHDRAW_FT_AMOUNT"
      [] OTHER                              -> "none"

(* EvalScript OP_FT_WITHDRAW.                                             *)
FtWithdraw ==
    /\ Running
    /\ "FT_WITHDRAW" \in ScriptOpcodes
    /\ Step
    /\ \E vch1, vch2, vch3 \in Elem :
       \E index \in IntOutcomes(vch2), withdrawAmount \in IntOutcomes(vch1) :
        LET e == FtWithdrawCheck(vch3, index, withdrawAmount)
            args == <<vch1, vch2, vch3>>
        IN
        \/ /\ e # "none"
           /\ Fail(e, "FT_WITHDRAW", args)
        \/ /\ e = "none"
           /\ ~ENABLED ContractWithdrawFt(vch3.id, index, withdrawAmount)
           /\ Fail("INVALID_AVM_WITHDRAW_FT", "FT_WITHDRAW", args)
        \/ /\ e = "none"
           /\ ContractWithdrawFt(vch3.id, index, withdrawAmount)
           /\ Done("FT_WITHDRAW", args, NoValue)
           /\ UNCHANGED <<kv, kvUpdates, kvDeletes, ftIncoming, ftAddsSet, nft,
                          nftIncoming, nftUpdates, nftPutsSet, nftWithdrawMap,
                          status, err, kv0, ft0, nft0, written, credited>>

(* EvalScript OP_NFT_WITHDRAW: vch1 is checked to be a 36-byte ref and    *)
(* then parsed, as the same element, as the output index.                 *)
NftWithdraw ==
    /\ Running
    /\ "NFT_WITHDRAW" \in ScriptOpcodes
    /\ Step
    /\ \E vch1, vch2 \in Elem :
       \E index \in IntOutcomes(vch1) :
        LET args == <<vch1, vch2>>
            e == CASE vch1.t # "ref"                    -> "INVALID_ATOMICAL_REF_SIZE"
                   [] index = NonMinimal                -> "UNKNOWN"
                   [] index < 0 \/ index >= Len(OutputValues)
                                                        -> "INVALID_AVM_WITHDRAW_NFT_OUTPUT_INDEX"
                   [] OTHER                             -> "none"
        IN
        IF e # "none" THEN Fail(e, "NFT_WITHDRAW", args)
        \* uint288(vch2) asserts a 36-byte element (uint256.h, not under src)
        ELSE /\ vch2.t = "ref"
             /\ IF ENABLED ContractWithdrawNft(vch2.id, index)
                THEN /\ ContractWithdrawNft(vch2.id, index)
                     /\ Done("NFT_WITHDRAW", args, NoValue)
                     /\ UNCHANGED <<kv, kvUpdates, kvDeletes, ft, ftIncoming, ftUpdates,
                                    ftAddsSet, ftWithdrawMap, nftIncoming, nftPutsSet,
                                    status, err, historyVars>>
                ELSE Fail("INVALID_AVM_WITHDRAW_NFT", "NFT_WITHDRAW", args)

-----------------------------------------------------------------------------
(***************************************************************************)
(* Token read opcodes.  A kind of 0 reads the contract's own tokens, 1     *)
(* the incoming ones.  The maps are keyed by GetHex of the id, so a scan   *)
(* in key order is a scan in id order; uint288S of the key gives back the  *)
(* id's bytes.                                                             *)
(***************************************************************************)
TokenIds(kind, type) ==
    CASE kind = "FT" /\ type = 0 -> DOMAIN ft
      [] kind = "FT"             -> DOMAIN ftIncoming
      [] type = 0                -> nft
      [] OTHER                   -> nftIncoming

(* CScriptNum(const int64_t &) given the uint64_t balance: values from    *)
(* 2^63 on become negative.                                                *)
Int64Cast(v) == IF v >= U64 \div 2 THEN v - U64 ELSE v

(* getFtItem / getNftItem (and the Incoming ones): the index-th key of a   *)
(* scan of the object, as a set holding that id or nothing.               *)
GetItem(D, index) == {x \in D : Cardinality({y \in D : y < x}) = index}

(* EvalScript OP_FT_COUNT / OP_NFT_COUNT: getint of the kind, then the     *)
(* uint32_t size of the map through CScriptNum(int64_t).                  *)
TokenCount ==
    /\ Running
    /\ Step
    /\ \E op \in {"FT_COUNT", "NFT_COUNT"} \cap ScriptOpcodes, n \in Elem :
       \E type \in IntOutcomes(n) :
        LET kind == IF op = "FT_COUNT" THEN "FT" ELSE "NFT"
        IN  CASE type = NonMinimal   -> Fail("UNKNOWN", op, <<n>>)
              [] type \notin {0, 1}  -> Fail("INVALID_AVM_" \o op \o "_TYPE", op, <<n>>)
              [] OTHER -> /\ Done(op, <<n>>, Serialize(Cardinality(TokenIds(kind, type))))
                          /\ UNCHANGED <<stateVars, status, err, historyVars>>

(* EvalScript OP_FT_BALANCE / OP_NFT_EXISTS (ref vch1, kind vch2) and      *)
(* OP_FT_ITEM / OP_NFT_ITEM (index vch1, kind vch2): the checks in the     *)
(* code's order, both elements popped, the result pushed.  An index not    *)
(* found is reported as an invalid index.                                  *)
TokenRead ==
    /\ Running
    /\ Step
    /\ \E op \in {"FT_BALANCE", "NFT_EXISTS", "FT_ITEM", "NFT_ITEM"} \cap ScriptOpcodes,
          vch1, vch2 \in Elem :
       \E index \in IntOutcomes(vch1), type \in IntOutcomes(vch2) :
        LET args   == <<vch1, vch2>>
            kind   == IF op \in {"FT_BALANCE", "FT_ITEM"} THEN "FT" ELSE "NFT"
            isItem == op \in {"FT_ITEM", "NFT_ITEM"}
            badIdx == "INVALID_AVM_INVALID_" \o kind \o "_ITEM_INDEX"
            item   == GetItem(TokenIds(kind, type), index)
            e == CASE ~isItem /\ vch1.t # "ref"    -> "INVALID_ATOMICAL_REF_SIZE"
                   [] isItem /\ index = NonMinimal -> "UNKNOWN"
                   [] isItem /\ index < 0          -> badIdx
                   [] type = NonMinimal            -> "UNKNOWN"
                   [] type \notin {0, 1}           -> "INVALID_AVM_" \o op \o "_TYPE"
                   [] isItem /\ item = {}          -> badIdx
                   [] OTHER                        -> "none"
            out == CASE op = "FT_BALANCE" ->
                          Serialize(Int64Cast(Bal(IF type = 0 THEN ft ELSE ftIncoming, vch1.id)))
                     [] op = "NFT_EXISTS" ->
                          IF vch1.id \in TokenIds("NFT", type) THEN <<1>> ELSE <<>>
                     [] OTHER -> [t |-> "ref", id |-> CHOOSE x \in item : TRUE]
        IN  IF e # "none" THEN Fail(e, op, args)
            ELSE /\ Done(op, args, out)
                 /\ UNCHANGED <<stateVars, status, err, historyVars>>

-----------------------------------------------------------------------------
(***************************************************************************)
(* Block-info opcodes.  A header is a record of the CBlockHeader fields;   *)
(* the hashes are opaque 32-byte values.  GETBLOCKINFO reads the table     *)
(* validateContractStateExternal built from the caller's headers,          *)
(* DECODEBLOCKINFO deserialises an 80-byte stack element, which always     *)
(* succeeds for 80 bytes.                                                  *)
(***************************************************************************)
BlockElem == Elem \cup [t : {"header"}, h : HeaderArgs]

(* revisedHeight of isAllowedBlockInfoHeight and getCurrentBlockInfo*:     *)
(* height 0 stands for the current height.                                 *)
RevisedHeight(height) == IF height = 0 THEN CurrentHeight ELSE height

(* getBlockInfoDifficulty: 0xffff over the mantissa of nBits, times 256    *)
(* per step of the exponent below 29 (divided per step above), rounded to *)
(* nearest by llround.  Exact as long as the double holds the quotient.   *)
Difficulty(bits) ==
    LET nShift == (bits \div 2^24) % 256
        mant   == bits % 2^24
        num    == 65535 * 256^(IF nShift < 29 THEN 29 - nShift ELSE 0)
        den    == mant * 256^(IF nShift > 29 THEN nShift - 29 ELSE 0)
    IN  (2 * num + den) \div (2 * den)

(* getBlockInfoVersion .. getBlockInfoDifficulty: fields 0..6 of a header, *)
(* numbers through CScriptNum(int64_t).                                    *)
HeaderField(h, field) ==
    CASE field = 0 -> Serialize(h.nVersion)
      [] field = 1 -> h.hashPrevBlock
      [] field = 2 -> h.hashMerkleRoot
      [] field = 3 -> Serialize(h.nTime)
      [] field = 4 -> Serialize(h.nBits)
      [] field = 5 -> Serialize(h.nNonce)
      [] OTHER     -> Serialize(Difficulty(h.nBits))

(* getCurrentBlockInfo*: field 7 is the raw header, field 8 the revised  *)
(* height, the others those of the stored header.                         *)
CurrentBlockInfo(height, blockField) ==
    CASE blockField = 7 -> [t |-> "header", h |-> Headers[height]]
      [] blockField = 8 -> Serialize(height)
      [] OTHER          -> HeaderField(Headers[height], blockField)

(* An exception thrown with `new` is a pointer: EvalScript's catch of      *)
(* std::exception & does not take it and it leaves the verifier.          *)
Escape(e, op, args) ==
    /\ status' = "uncaught"
    /\ err' = e
    /\ lastOp' = [op |-> op, args |-> args, out |-> NoValue]
    /\ UNCHANGED <<stateVars, stateHash, historyVars>>

(* EvalScript OP_GETBLOCKINFO: height vch1 and field vch2 are parsed, the  *)
(* field range-checked, both popped; a height missing from the table makes *)
(* the getter throw InvalidBlockInfoHeight by pointer.                     *)
GetBlockInfo ==
    /\ Running
    /\ "GETBLOCKINFO" \in ScriptOpcodes
    /\ Step
    /\ \E vch1, vch2 \in BlockElem :
       \E heightNumber \in IntOutcomes(vch1), blockField \in IntOutcomes(vch2) :
        LET args   == <<vch1, vch2>>
            \* the int is passed as a uint32_t: a negative one stands for the
            \* height 2^32 + heightNumber, which no key of Headers is
            height == RevisedHeight(heightNumber)
        IN  CASE heightNumber = NonMinimal \/ blockField = NonMinimal ->
                    Fail("UNKNOWN", "GETBLOCKINFO", args)
              [] blockField < 0 \/ blockField > 8 ->
                    Fail("INVALID_AVM_INVALID_BLOCKINFO_ITEM", "GETBLOCKINFO", args)
              [] height \notin DOMAIN Headers ->
                    Escape("InvalidBlockInfoHeight", "GETBLOCKINFO", args)
              [] OTHER ->
                    /\ Done("GETBLOCKINFO", args, CurrentBlockInfo(height, blockField))
                    /\ UNCHANGED <<stateVars, status, err, historyVars>>

(* EvalScript OP_DECODEBLOCKINFO: an 80-byte header vch1 and a field       *)
(* 0..6 vch2.                                                             *)
DecodeBlockInfo ==
    /\ Running
    /\ "DECODEBLOCKINFO" \in ScriptOpcodes
    /\ Step
    /\ \E vch1, vch2 \in BlockElem :
       \E blockField \in IntOutcomes(vch2) :
        LET args == <<vch1, vch2>>
        IN  CASE vch1.t # "header" ->
                    Fail("INVALID_AVM_BLOCK_HEADER_SIZE", "DECODEBLOCKINFO", args)
              [] blockField = NonMinimal ->
                    Fail("UNKNOWN", "DECODEBLOCKINFO", args)
              [] blockField < 0 \/ blockField > 6 ->
                    Fail("INVALID_AVM_INVALID_BLOCKINFO_ITEM", "DECODEBLOCKINFO", args)
              [] OTHER ->
                    /\ Done("DECODEBLOCKINFO", args, HeaderField(vch1.h, blockField))
                    /\ UNCHANGED <<stateVars, status, err, historyVars>>

-----------------------------------------------------------------------------
(***************************************************************************)
(* End of the script and finalisation by the caller.                       *)
(***************************************************************************)

(* VerifyScriptAvm fails (false or empty final stack, or any opcode not   *)
(* modelled here fails); atomicalsconsensus_verify_script_avm returns     *)
(* before touching the state.                                             *)
EvalFalse ==
    /\ Running
    /\ UNCHANGED opCount
    /\ Fail("EVAL_FALSE", "END", <<>>)

(* Fault variant of the commitment: hashed from the maps as they were     *)
(* before cleanupStateAndBalances.                                        *)
FinalStateHashBeforeCleanup(k, ku, kd, f) ==
    CalculateStateHash(PrevStateHash, kv, kvUpdates, kvDeletes, ftIncoming, nftIncoming,
                       ft, ftUpdates, nft, nftUpdates, ftWithdrawMap, nftWithdrawMap)

(* The CalculateStateHash call of atomicalsconsensus_verify_script_avm:   *)
(* the cleaned state objects k, ku, kd and balances f, the incoming maps  *)
(* as the caller passed them, and the other results as the script left    *)
(* them.                                                                  *)
FinalStateHash(k, ku, kd, f) ==
    CalculateStateHash(PrevStateHash, k, ku, kd, ftIncoming, nftIncoming,
                       f, ftUpdates, nft, nftUpdates, ftWithdrawMap, nftWithdrawMap)

(* atomicalsconsensus_verify_script_avm after a successful script:        *)
(* cleanupStateAndBalances, then validateFinalStateRestrictions, whose    *)
(* exceptions are thrown by pointer and escape the catch-by-reference     *)
(* clauses, then the state commitment.  The nft cleanup is the identity   *)
(* here: nft only holds true.  ftIncoming and nftIncoming are not changed *)
(* by the script and passed the same checks in the constructor.           *)
Finalize ==
    /\ Running
    /\ UNCHANGED opCount
    /\ \E ok \in CleanupKeyspaces(kv), ou \in CleanupKeyspaces(kvUpdates),
          od \in CleanupDeleteKeyspaces(kvDeletes), of \in CleanupEmptyFtTokenBalance(ft) :
        LET crash == ok.crash \/ ou.crash \/ od.crash \/ of.crash
            exc == ValidationException(ok.m, ou.m, od.m, of.m, ftUpdates, nft, nftUpdates)
        IN
        \/ /\ crash
           /\ status' = "crashed" /\ err' = "ERASE_DURING_ITERATION"
           /\ UNCHANGED <<stateVars, stateHash>>
        \/ /\ ~crash
           /\ kv' = ok.m /\ kvUpdates' = ou.m /\ kvDeletes' = od.m /\ ft' = of.m
           /\ status' = IF exc = "none" THEN "ok" ELSE "uncaught"
           /\ err' = exc
           /\ stateHash' = IF exc = "none" THEN FinalStateHash(ok.m, ou.m, od.m, of.m)
                           ELSE NoValue
           /\ UNCHANGED <<ftIncoming, ftUpdates, ftAddsSet, ftWithdrawMap, nft,
                          nftIncoming, nftUpdates, nftPutsSet, nftWithdrawMap>>
    /\ lastOp' = [op |-> "END", args |-> <<>>, out |-> NoValue]
    /\ UNCHANGED historyVars

(* The run is over: nothing changes any more.                             *)
Terminated ==
    /\ ~Running
    /\ UNCHANGED vars

Next ==
    \/ KvPut \/ KvDelete \/ KvGet \/ KvExists
    \/ FtBalanceAdd \/ NftPut \/ FtWithdraw \/ NftWithdraw
    \/ TokenCount \/ TokenRead \/ GetBlockInfo \/ DecodeBlockInfo
    \/ EvalFalse \/ Finalize
    \/ Terminated

Spec == Init /\ [][Next]_vars

-----------------------------------------------------------------------------
(***************************************************************************)
(* Properties.                                                             *)
(***************************************************************************)
Statuses == {"running", "script_error", "ok", "uncaught", "crashed"}
KvPairs(m) == UNION {{<<s, n>> : n \in DOMAIN m[s]} : s \in DOMAIN m}
KvEntries(m) == UNION {{<<s, n, m[s][n]>> : n \in DOMAIN m[s]} : s \in DOMAIN m}
DeletePairs(d) == UNION {{<<s, n>> : n \in d[s]} : s \in DOMAIN d}
IsBalanceMap(f) == DOMAIN f \subseteq AtomicalIds /\ \A id \in DOMAIN f : f[id] \in 0..(U64 - 1)

(* Every map has the shape the code gives it: hex-string keys of even     *)
(* length >= 2, token ids as keys of the balance maps, u64 balances.      *)
TypeOK ==
    /\ status \in Statuses
    /\ \A p \in KvPairs(kv) \cup KvPairs(kvUpdates) \cup DeletePairs(kvDeletes) :
          IsHexStr(p[1]) /\ IsHexStr(p[2])
    /\ \A t \in KvEntries(kv) \cup KvEntries(kvUpdates) : IsHexStr(t[3])
    /\ IsBalanceMap(ft) /\ IsBalanceMap(ftIncoming) /\ IsBalanceMap(ftUpdates)
    /\ ftAddsSet \subseteq AtomicalIds /\ nftPutsSet \subseteq AtomicalIds
    /\ nft \subseteq AtomicalIds /\ nftIncoming \subseteq AtomicalIds
    /\ DOMAIN nftUpdates \subseteq AtomicalIds
    /\ \A id \in DOMAIN ftWithdrawMap :
          id \in AtomicalIds /\ DOMAIN ftWithdrawMap[id] \subseteq 0..(Len(OutputValues) - 1)
    /\ credited \in [AtomicalIds -> Nat] /\ debited \in [AtomicalIds -> Nat]

(* The caller recomputes the new contract state by applying kvUpdates and *)
(* kvDeletes to the state it passed in: after any sequence of KV_PUT and  *)
(* KV_DELETE (and the cleanup), replaying the deltas gives exactly kv.    *)
KvDeltasReplay ==
    KvEntries(kv) =
        {t \in KvEntries(kv0) :
            <<t[1], t[2]>> \notin DeletePairs(kvDeletes) \cup KvPairs(kvUpdates)}
        \cup KvEntries(kvUpdates)

(* Spec 8: a deleted (keyspace, key) is in neither the final state nor    *)
(* the updates, whatever order puts and deletes of it came in.            *)
KvDeletesExclusive ==
    DeletePairs(kvDeletes) \cap (KvPairs(kv) \cup KvPairs(kvUpdates)) = {}

(* The caller's replay of the deltas: kvUpdates over what is left of the *)
(* state it passed in once the deletes are applied, with no empty         *)
(* keyspace; ftUpdates over the balances passed in, without zeros; the    *)
(* NFT puts (true) and withdrawals (false) on the NFTs passed in.         *)
ReplayedKv ==
    LET Keep(s) == Node(kvUpdates, s) @@ Restrict(Node(kv0, s), DOMAIN Node(kv0, s) \ Markers(s))
    IN  [s \in {x \in DOMAIN kv0 \cup DOMAIN kvUpdates : DOMAIN Keep(x) # {}} |-> Keep(s)]
ReplayedFt ==
    LET f == ftUpdates @@ ft0
    IN  Restrict(f, {id \in DOMAIN f : f[id] # 0})
ReplayedNft ==
    (nft0 \ {id \in DOMAIN nftUpdates : ~nftUpdates[id]})
        \cup {id \in DOMAIN nftUpdates : nftUpdates[id]}

(* Spec 8, state-hash chaining: when the verifier succeeds, the caller    *)
(* that replays the returned deltas on the state and balances it passed   *)
(* in, and hashes the result with the other returned maps, obtains the    *)
(* newStateHash the verifier returned: the commitment is taken over the   *)
(* cleaned maps, whatever puts, deletes, adds and withdrawals came before.*)
StateHashChaining ==
    status = "ok" =>
        stateHash = CalculateStateHash(PrevStateHash, ReplayedKv, kvUpdates, kvDeletes,
                                       ftIncoming, nftIncoming, ReplayedFt, ftUpdates,
                                       ReplayedNft, nftUpdates, ftWithdrawMap, nftWithdrawMap)

(* KV_GET after KV_PUT of the same stack elements (and no later delete)  *)
(* returns the value put: put keys by HexStrWith00Null, get by HexStr.    *)
KvReadYourWrites ==
    LET p == <<lastOp.args[1], lastOp.args[2]>>
    IN  lastOp.op = "KV_GET" /\ p \in DOMAIN written /\ written[p] # NoValue
          => status = "running" /\ lastOp.out = written[p]

(* Every FT balance equals the balance passed in plus what FT_BALANCE_ADD *)
(* credited minus what FT_WITHDRAW debited, in uint64_t arithmetic.       *)
FtLedger ==
    \A id \in AtomicalIds :
        Bal(ft, id) = (Bal(ft0, id) + credited[id] - debited[id]) % U64

(* Spec 8: each incoming FT is consumed at most once and in full: the    *)
(* credit of an id is its incoming amount if it is in ftAddsSet, else 0.  *)
FtIncomingConsumedOnce ==
    \A id \in AtomicalIds :
        credited[id] = IF id \in ftAddsSet THEN ftIncoming[id] ELSE 0

(* Spec 8: ftUpdates holds the final balance of every touched id (0 when *)
(* it was removed) and every untouched balance is the one passed in.      *)
FtUpdatesConsistent ==
    /\ \A id \in DOMAIN ftUpdates : ftUpdates[id] = Bal(ft, id)
    /\ \A id \in AtomicalIds \ DOMAIN ftUpdates : Bal(ft, id) = Bal(ft0, id)

(* The withdraw intents of an id account for every token FT_WITHDRAW      *)
(* debited from it: what leaves the contract is what is released.         *)
FtWithdrawIntentsMatchDebits ==
    \A id \in AtomicalIds :
        MapThenSumSet(LAMBDA i : Node(ftWithdrawMap, id)[i], DOMAIN Node(ftWithdrawMap, id))
            = debited[id]

(* Spec table: GETBLOCKINFO of a field 0..8 fails, as a script error, when *)
(* the height (0: the current one) is not in external.headers.            *)
GetBlockInfoAsSpecified ==
    [][ LET a      == lastOp'.args
            height == IF a[1].n = 0 THEN CurrentHeight ELSE a[1].n
        IN  lastOp'.op = "GETBLOCKINFO"
            /\ a[1].t = "num" /\ a[2].t = "num" /\ a[2].n \in 0..8
              => status' = IF height \in DOMAIN Headers THEN "running" ELSE "script_error" ]_vars

(* Spec 5: NFT_WITHDRAW with an output index in range and the ref of an   *)
(* NFT the contract owns succeeds.                                        *)
NftWithdrawSucceeds ==
    [][ LET a == lastOp'.args IN
        lastOp'.op = "NFT_WITHDRAW"
        /\ a[1].t = "num" /\ 0 <= a[1].n /\ a[1].n < Len(OutputValues)
        /\ a[2].t = "ref" /\ a[2].id \in nft
          => status' = "running" ]_vars

(* Spec 5: the cleanup pass drops empty keyspaces and zero balances, so  *)
(* finalising a successful script never crashes nor fails a format check. *)
CleanupComplete ==
    /\ status # "crashed"
    /\ status = "uncaught" =>
          err \notin {"StateFormatError", "StateDeleteFormatError", "TokenFtBalanceZeroFormatError"}

(* Spec 5: a size cap exceeded at finalisation is reported as its error   *)
(* code, not as an exception escaping the verifier.                       *)
SizeLimitsReported ==
    status = "uncaught" => err \notin SizeLimitErrors

=============================================================================
