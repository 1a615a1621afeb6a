CONSTANTS
    Addresses = {1, 2}
    Locations = {1, 2}
    Values = {1}
    MaxBlocks = 3
    MaxTxs = 2
    MaxChainTxs = 5
    ShardSize = 2
    MaxPage = 2
    NoAddresses = NoAddresses
    NoTopics = NoTopics
    Filters <- MCFilters
SPECIFICATION Spec
INVARIANTS
    HistoricalState
    AccountPages
    
    LogsFound
CHECK_DEADLOCK FALSE
