CONSTANTS
    ScriptOpcodes <- MCBlockOps
    Headers <- MCHeaders
    CurrentHeight <- MCCurrentHeight
    HeaderArgs <- MCHeaderArgs
    PrevStateHash = PrevStateHash
    MaxScriptOps = 1
    OversizedKey = OversizedKey
    NonMinimal = NonMinimal
    NoValue = NoValue
    AtomicalIds = {}
    KeyArgs = {}
    ValueArgs = {}
    InitKvStates <- MCNoKvStates
    NumArgs <- MCBlockNumArgs
    OutputValues <- MCOutputValues
    InitFtValues <- MCInitFtValues
    U64 <- MCU64
    IntMax <- MCIntMax
    MaxStateKeySize <- MCMaxStateKeySize
    MAX_STATE_FINAL_BYTES <- MCMaxStateFinalBytes
    MAX_STATE_UPDATE_BYTES <- MCMaxStateUpdateBytes
    MAX_BALANCES_BYTES <- MCMaxBalancesBytes
    MAX_BALANCES_UPDATE_BYTES <- MCMaxBalancesUpdateBytes
SPECIFICATION Spec
PROPERTY
    GetBlockInfoAsSpecified
