SPECIFICATION MCSpec
CONSTANTS
    funder = funder  p1 = p1  p2 = p2  stranger = stranger  HubCreator = funder
    minter = minter  token = token  drop = drop  fake = fake
    Algo = algo  NoGate = noGate  CreatorOf <- MCCreatorOf
    Accounts <- MCAccounts  Assets = {token, drop, fake}  Clean = {drop}
    Gates = {minter}
    DrawScan = 4  MinInterval = 1  MaxInterval = 3
    CommitDelay = 1  SeedWindow = 2
    AppBaseMbr = 1  AssetOptInMbr = 1  RainBoxMbr = 1  TicketMbr = 1
    IndexMbr = 1  MbrPayments = {1, 2}
    MaxUint = 9  Supply = 5
    Modes = {0, 1}  Drips = {2, 3}  Intervals = {1, 2, 3}  WaveCaps = {0}
    Amounts = {2, 3}  MaxRains = 8  MaxRound = 9
    Funder = funder  KeyOrder <- MCPlayers  Lottery = 1  Counts = {1, 2}
    Cycles = 2  DrawTries = 2  MaxDeaths = 1
    Prover = funder  Minter = minter  Minted = {drop}  DailyInterval = 3
    DailyDrip = 2  ShortDrip = 2  Fill = 2  MaxProofDeaths = 1
    Guests <- MCPlayers  Nft = token  Prize = drop  Fake = fake
    DemoDrip = 3  DemoInterval = 2  DemoPot = 3
CHECK_DEADLOCK FALSE
INVARIANTS VerdictTrue CadenceKept PassedIfRained DemoTrue
PROPERTY KeysOutliveMoney
