SPECIFICATION MCBotSpec
CONSTANTS
    bot = bot  bob = bob  HubCreator = hubCreator
    Algo = algo  NoGate = noGate  NoRec = noRec  CreatorOf <- MCCreatorOf
    Accounts <- MCBot  Assets = {}  Clean = {}  Gates = {}
    DrawScan = 2  MinInterval = 1  MaxInterval = 2
    CommitDelay = 1  SeedWindow = 2
    AppBaseMbr = 1  AssetOptInMbr = 1  RainBoxMbr = 1  TicketMbr = 1
    IndexMbr = 1  MbrPayments = {2}
    MaxUint = 9  Supply = 4
    Modes = {1}  Drips = {2}  Intervals = {1}  WaveCaps = {0}
    Amounts = {2}  MaxRains = 1  MaxRound = 7
    Bot = bot  Runs = {run1, run2}  Float = 2  MaxFails = 0
INVARIANT NothingPaidTwice
