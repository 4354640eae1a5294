CONSTANTS
    U32 = 16
    MaxOps = 2
    MaxStackSize = 2
    MaxUnlockLen = 5
    MaxLockLen = 5
    NDEBUG = TRUE
    TxVersion = 2
    TxLockTime = 16
    LOCKTIME_THRESHOLD = 9
    SEQUENCE_FINAL = 15
    TxInputs <- MCLockTx
    TxOutputs <- MCNoTx
    Digest <- MCNoDigest
    VerifySchnorr <- MCNoVerify
    VerifyECDSA <- MCNoVerify
    AuthPubKey <- MCNoTx
    FullScript <- MCNoTx
    MAX_SCRIPT_ELEMENT_SIZE = 2
    OpSet = {"OP_0", "PUSH_00", "PUSH_01", "OP_1", "OP_IF", "OP_NOTIF",
             "OP_ELSE", "OP_ENDIF", "OP_NOP", "OP_VERIFY", "OP_RETURN",
             "OP_TOALTSTACK", "OP_FROMALTSTACK", "OP_2DROP", "OP_2MUL",
             "OP_16", "OP_CHECKLOCKTIMEVERIFY"}
SPECIFICATION Spec
INVARIANTS
    TypeOK
    OpLimitEnforced
    VerdictBalanced
    CondDepth
    PushEncodingRoundTrip
    PushInt64Minimal

    
