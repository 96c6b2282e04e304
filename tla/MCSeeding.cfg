\* Runs, kills, outsiders and the clock are bounded: the model ends.
CHECK_DEADLOCK FALSE
SPECIFICATION FairSeedSpec
CONSTANTS
    cre = cre
    v1 = v1
    v2 = v2
    p1 = p1
    p2 = p2
    alpha = alpha
    gamma = gamma
    NoKey = NoKey
    Agents = {cre, v1, v2, alpha, gamma}
    Campaigns <- Ids10
    CreatorOf <- OneCreator
    BidIds = {}
    ValidatorLists <- Panels
    MaxValidators = 2
    Amounts = {1}
    Thresholds = {6000}
    Scores = {9000}
    Deadlines <- DeadlinesTo7
    MaxTime = 8
    InitialWallet <- TwelveForCreator
    Clients = {}
    MaxCalls = 0
    Readers = {}
    Scripts = {p1, p2}
    Creator = cre
    V1 = v1
    V2 = v2
    Alpha = alpha
    Gamma = gamma
    GoodScore = 9000
    SeedThreshold = 6000
    SeedAmount = 1
    Soon = 1
    Later = 4
    GivenBases = {1}
    ClockBases = {1}
    Repeated = {"single", "bundle"}
    MaxAttempts = 2
    LastTime = 2
    MaxRuns = 2
    MaxDisturbances = 1
INVARIANTS CompletedMeansSeeded PublishedCampaignsExist
PROPERTIES SeedersEnd
