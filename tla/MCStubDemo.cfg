SPECIFICATION FairSpec
CONSTANTS
    PostFetches = {"p1", "p2"}
    MaxAttempts <- MCAttempts
    Uris = {"u1", "u2"}
    Actions = {"like", "repost", "retweet"}
    Engagements <- MCEngagements
    Times = {1}
    Bytes = {202}
    Codes <- MCCodes
    MinEngagements = 4
    PullFetches = {g1}
    MaxReviews = 2
    CheckAnswers <- MCChecks
    Messages <- MCMessages
    MinApprovals = 1
    RequireCiPass = TRUE
    PenaliseDraft = TRUE
    Calls = {j1, j2, j3}
    Campaigns = {c1, c2}
    Executors = {"e1", "e2"}
    Stores = {"s1", "s2"}
    StoreOf <- MCStoreOf
    Validators = {v1}
    WrittenProofs <- MCWritten
    DemoProof <- MCDemoProof
    ThresholdBps = 5000
    MinValidators = 2
CONSTRAINT OneAtATime
INVARIANTS
    RetryDiscipline
    HighScoreIsEarned
    ClaimsAreHeld
PROPERTIES
    ClaimsExclude
    WorkEnds
CHECK_DEADLOCK FALSE
