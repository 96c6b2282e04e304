\* The clock, the calls and the rounds are bounded: the model ends.
CHECK_DEADLOCK FALSE
SPECIFICATION ConsensusSpec
CONSTANTS
    ann = ann
    bob = bob
    c1 = c1
    r1 = r1
    r2 = r2
    NoKey = NoKey
    Agents = {ann, bob}
    Campaigns = {c1}
    CreatorOf <- OneCreator
    BidIds = {1}
    ValidatorLists <- AnnAndBob
    MaxValidators = 2
    Amounts = {1}
    Thresholds = {6000}
    Scores = {5999, 6000}
    Deadlines <- Deadline1
    MaxTime = 2
    InitialWallet <- OneForAnn
    Clients = {ann, bob}
    MaxCalls = 1
    Readers = {}
    Rounds = {r1, r2}
    PayerOf <- EachPays
    MinValidators = 1
    ClockSkew = 0
INVARIANTS OutcomeMeansSettled OneSettlementPerCampaign
PROPERTIES DecisionsMirrorProgram
