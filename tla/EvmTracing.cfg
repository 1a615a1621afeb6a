CONSTANTS
    Contract = contract
    Addresses = {created}
    Nothing = Nothing
    MaxGas = 12
    MaxEvents = 8
    MaxTxs = 2
SPECIFICATION Spec
INVARIANTS
    StacksFollowFrames
    TracesFollowCalls
    OperationsOfOwnFrame
    StreamedLogsAreWhole
    StateDiffExact
CHECK_DEADLOCK FALSE
