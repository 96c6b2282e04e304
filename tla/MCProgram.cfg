\* The clock is bounded and nothing is left to do once it stops: the model ends.
CHECK_DEADLOCK FALSE
SPECIFICATION FairSpec
CONSTANTS
    ann = ann
    bob = bob
    c1 = c1
    c2 = c2
    NoKey = NoKey
    Agents = {ann, bob}
    Campaigns = {c1, c2}
    CreatorOf <- TwoCreators
    BidIds = {0, 1}
    ValidatorLists <- OddLists
    MaxValidators = 2
    Amounts = {0, 1}
    Thresholds = {0, 3001, 10001}
    Scores = {3000, 3003, 10001}
    Deadlines <- Deadlines12
    MaxTime = 3
    InitialWallet <- OneEach
CONSTRAINT TwoIfDirect
INVARIANTS
    TypeOK
    AcceptedBidAgreement
    ExpiredRfqHasNoExecutor
    NoEarlyRefund
    PayoutJustified
    EscrowBacked
    TokensConserved
PROPERTIES
    TermsAreFrozen
    BidsLockedByAcceptance
    ImplementsSettlement
    EventuallySettled
