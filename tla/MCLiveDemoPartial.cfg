\* The clock, the calls and the script are bounded: the model ends.
CHECK_DEADLOCK FALSE
SPECIFICATION DemoSpec
CONSTANTS
    ann = ann
    bob = bob
    cat = cat
    c1 = c1
    r1 = r1
    NoKey = NoKey
    Agents = {ann, bob, cat}
    Campaigns = {c1}
    CreatorOf <- OneCreator
    BidIds = {1}
    ValidatorLists <- BobAndCat
    MaxValidators = 2
    Amounts = {1}
    Thresholds = {5000}
    Scores = {9000}
    Deadlines <- Deadline1
    MaxTime = 2
    InitialWallet <- OneForAnn
    Clients = {ann, bob, cat}
    MaxCalls = 3
    Readers = {}
    Rounds = {r1}
    PayerOf <- AnnPays
    MinValidators = 1
    ClockSkew = 0
    Validators = {bob, cat}
    DemoCampaign = c1
    DemoExecutor = ann
    DemoThreshold = 5000
    DemoRound = r1
INVARIANTS PartialFailureTolerated
