\* The clock and the calls are bounded: the model ends.
CHECK_DEADLOCK FALSE
SPECIFICATION ClientSpec
CONSTANTS
    ann = ann
    bob = bob
    c1 = c1
    NoKey = NoKey
    Agents = {ann, bob}
    Campaigns = {c1}
    CreatorOf <- OneCreator
    BidIds = {1}
    ValidatorLists <- AnnAndBob
    MaxValidators = 2
    Amounts = {1}
    Thresholds = {4000}
    Scores = {9000}
    Deadlines <- Deadlines12
    MaxTime = 3
    InitialWallet <- OneForAnn
    Clients = {ann}
    MaxCalls = 2
    Readers = {bob}
\* Two explorations in one: a reader beside one call, or retries of a call.
CONSTRAINT CallsOrReads OnlyRetries
INVARIANTS SettlementInFlight LandedCallsLast ScoreReceiptIsOnChain SettleReceiptMeansSettled RetriesLandOnce StaleStatusIsUsable
PROPERTIES ImplementsSettlement
