SPECIFICATION Spec
CONSTANTS
    alice = alice  bob = bob  carol = carol  HubCreator = hubCreator
    Algo = algo  NoGate = noGate  CreatorOf <- MCCreatorOf
    Accounts = {alice}  Assets = {}  Clean = {}  Gates = {}
    DrawScan = 2  MinInterval = 1  MaxInterval = 2
    CommitDelay = 1  SeedWindow = 0
    AppBaseMbr = 1  AssetOptInMbr = 1  RainBoxMbr = 1  TicketMbr = 1
    IndexMbr = 1  MbrPayments = {2}
    MaxUint = 4  Supply = 3
    Modes = {0}  Drips = {2, 3}  Intervals = {1}  WaveCaps = {0}
    Amounts = {3}  MaxRains = 1  MaxRound = 6
INVARIANT DrawNeverFails
