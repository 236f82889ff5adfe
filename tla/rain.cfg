SPECIFICATION MCSpec
CONSTANTS
    alice = alice  bob = bob  carol = carol  HubCreator = hubCreator
    Algo = algo  NoGate = noGate  CreatorOf <- MCCreatorOf
    Accounts <- MCThree  Assets = {}  Clean = {}  Gates = {}
    DrawScan = 2  MinInterval = 1  MaxInterval = 2
    CommitDelay = 1  SeedWindow = 1
    AppBaseMbr = 1  AssetOptInMbr = 1  RainBoxMbr = 1  TicketMbr = 1
    IndexMbr = 1  MbrPayments = {2}
    MaxUint = 7  Supply = 6
    Modes = {0, 1, 2}  Drips = {2, 3}  Intervals = {1}  WaveCaps = {0, 2}
    Amounts = {2, 3}  MaxRains = 1  MaxRound = 7
    WaveCounts = {1, 2}  Horizon <- MCHorizon
SYMMETRY MCSymmetry
INVARIANTS Solvency TicketsAgree IndexesMatch WordsFit
    SecondVisitIsVain StandingTrue ShortfallExact
PROPERTIES CreditOnlyByDrop CreditOnlyLostWhenDue PotFallsByDrop OutcomeFixed
    KeepsTills
