CONSTANTS
    ScriptOpcodes <- MCStateOps
    Headers <- MCNoHeaders
    CurrentHeight = 0
    HeaderArgs = {}
    PrevStateHash = PrevStateHash
    MaxScriptOps = 4
    OversizedKey = OversizedKey
    NonMinimal = NonMinimal
    NoValue = NoValue
    AtomicalIds = {}
    KeyArgs <- MCKvKeyArgs
    ValueArgs <- MCKvValueArgs
    InitKvStates <- MCKvInitStates
    NumArgs <- MCNumArgs
    OutputValues <- MCOutputValues
    InitFtValues <- MCInitFtValues
    U64 <- MCU64
    IntMax <- MCIntMax
    MaxStateKeySize <- MCMaxStateKeySize
    MAX_STATE_FINAL_BYTES <- MCMaxStateFinalBytes
    MAX_STATE_UPDATE_BYTES <- MCMaxStateUpdateBytes
    MAX_BALANCES_BYTES <- MCMaxBalancesBytes
    MAX_BALANCES_UPDATE_BYTES <- MCMaxBalancesUpdateBytes
SPECIFICATION Spec
INVARIANT
    KvReadYourWrites
