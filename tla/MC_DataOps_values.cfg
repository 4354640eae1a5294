CONSTANTS
    U32 = 16
    NDEBUG = TRUE
    TxVersion = 2
    TxLockTime = 0
    \* OP_CHECKLOCKTIMEVERIFY is not in these runs
    LOCKTIME_THRESHOLD = 500000000
    SEQUENCE_FINAL = 2147483647
    TxInputs <- MCTxInputs
    TxOutputs <- MCTxOutputs
    Digest <- MCDigest
    VerifySchnorr <- MCVerify
    VerifyECDSA <- MCVerify
    AuthPubKey <- MCAuthPubKey
    FullScript <- MCFullScript
    MAX_SCRIPT_ELEMENT_SIZE = 3
    MaxOps = 4
    MaxStackSize = 10
    MaxUnlockLen = 3
    MaxLockLen = 1
    OpSet = {"OP_0", "PUSH_00", "OP_1", "OP_2", "OP_3", "OP_9", "OP_16",
             "OP_1NEGATE", "PUSH_7F", "PUSH_80", "PUSH_FF", "PUSH_0001",
             "PUSH_FF00", "PUSH_0080",
             "OP_1ADD", "OP_1SUB", "OP_NEGATE", "OP_ABS", "OP_NOT",
             "OP_0NOTEQUAL", "OP_ADD", "OP_SUB", "OP_MUL", "OP_DIV", "OP_MOD",
             "OP_BOOLAND", "OP_BOOLOR", "OP_NUMEQUAL", "OP_NUMEQUALVERIFY",
             "OP_NUMNOTEQUAL", "OP_LESSTHAN", "OP_GREATERTHAN",
             "OP_LESSTHANOREQUAL", "OP_GREATERTHANOREQUAL", "OP_MIN", "OP_MAX",
             "OP_WITHIN",
             "OP_AND", "OP_OR", "OP_XOR", "OP_INVERT", "OP_LSHIFT",
             "OP_RSHIFT", "OP_EQUAL", "OP_EQUALVERIFY", "OP_CAT", "OP_SPLIT",
             "OP_REVERSEBYTES", "OP_NUM2BIN", "OP_BIN2NUM",
             "OP_TXVERSION", "OP_TXINPUTCOUNT", "OP_TXOUTPUTCOUNT",
             "OP_TXLOCKTIME", "OP_OUTPOINTTXHASH", "OP_OUTPOINTINDEX",
             "OP_INPUTBYTECODE", "OP_INPUTSEQUENCENUMBER", "OP_OUTPUTVALUE",
             "OP_OUTPUTBYTECODE",
             "OP_RIPEMD160", "OP_SHA1", "OP_SHA256", "OP_HASH160", "OP_HASH256",
             "OP_HASH_FN", "OP_CHECKDATASIG", "OP_CHECKDATASIGVERIFY",
             "OP_CHECKAUTHSIG"}
SPECIFICATION Spec
PROPERTY RefSpec
INVARIANTS
    CodecBijection
    SerializersAgree
    MinimallyEncodeCanonical
    TxCodecRoundTrip
    TxParseCanonical
