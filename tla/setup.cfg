SPECIFICATION MCSpec
CONSTANTS
    hub1 = hub1  other = other  deployer = deployer  stranger = stranger
    Creators = {deployer, stranger}  Registrants = {stranger}  Targets = {hub1, other}  Hubs = {hub1}
    Breakable = {other}  Deployer = deployer
    Intervals = {1}  Fees = {1}  Caps = {3}  Policies = {0}  Fundings = {3}
    MinInterval = 1  MinFee = 1  BoxMbr = 1
    MaxUpkeeps = 2  MaxRound = 4  MaxFunds = 8
    DeployFee = 2  DeployInterval = 1  DeployFunding = 2  MaxStrangers = 1
    ScriptHorizon = 2  RegisterBy = 1
INVARIANTS EscrowKept FeeAsCharged PickedStaysDue OneUpkeepPerHub
    SetUpUnlessCut
PROPERTIES ServedByPass
