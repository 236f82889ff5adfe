SPECIFICATION MCFairSpec
CONSTANTS
    Networks = {testnet, localnet}
    Deployed = {testnet}
    Home = testnet
    Rains = {r1, r2}
    Accounts = {alice}
    None = none
    MaxRefreshes = 2
    MaxEvents = 2
INVARIANTS RoundOfNetwork
PROPERTIES SendsToItsChain PageCatchesUp ChainCatchesUp WritesEnd
