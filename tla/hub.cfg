SPECIFICATION MCSpec
CONSTANTS
    alice = alice  bob = bob  carol = carol  HubCreator = hubCreator
    Algo = algo  NoGate = noGate  CreatorOf <- MCCreatorOf
    Accounts = {alice}  Assets = {gem, coin}  Clean = {coin}  Gates = {alice}
    DrawScan = 2  MinInterval = 1  MaxInterval = 2
    CommitDelay = 1  SeedWindow = 0
    AppBaseMbr = 1  AssetOptInMbr = 2  RainBoxMbr = 2  TicketMbr = 1
    IndexMbr = 1  MbrPayments = {1, 2}
    MaxUint = 7  Supply = 2
    Modes = {0, 1, 2}  Drips = {1, 2}  Intervals = {1}  WaveCaps = {0, 1}
    Amounts = {1, 2}  MaxRains = 3  MaxRound = 4
INVARIANTS TypeOK BoxesFunded
PROPERTIES AllServed
