CONSTANTS
    U32 = 16
    NDEBUG = FALSE
    TxVersion = 2
    TxLockTime = 0
    \* OP_CHECKLOCKTIMEVERIFY is not in these runs
    LOCKTIME_THRESHOLD = 500000000
    SEQUENCE_FINAL = 2147483647
    TxInputs <- MCTxInputs
    TxOutputs <- MCTxOutputs
    Digest <- MCDigest
    VerifySchnorr <- MCVerify
    VerifyECDSA <- MCVerify
    AuthPubKey <- MCAuthPubKey
    FullScript <- MCFullScript
    MAX_SCRIPT_ELEMENT_SIZE = 2
    MaxOps = 4
    MaxStackSize = 10
    MaxUnlockLen = 2
    MaxLockLen = 1
    OpSet = {"OP_0", "PUSH_00", "OP_1", "OP_2", "OP_1NEGATE",
             "OP_2DROP", "OP_2DUP", "OP_3DUP", "OP_2OVER", "OP_2ROT",
             "OP_2SWAP", "OP_IFDUP", "OP_DEPTH", "OP_DROP", "OP_DUP",
             "OP_NIP", "OP_OVER", "OP_PICK", "OP_ROLL", "OP_ROT",
             "OP_SWAP", "OP_TUCK", "OP_SIZE"}
SPECIFICATION Spec
INVARIANT NoAbort
