SPECIFICATION PanelSpec
CONSTANTS
    Pdas = {1, 2, 3}
    CampaignId <- MCCampaignId
    DeadlineUnix <- MCDeadlineUnix
    Amount <- MCAmount
    Listings <- MCListings
    Reviews <- MCReviews
    Queries = {"", "q"}
    Matching <- MCMatching
    PageSizes = {1, 2}
    MaxClients = 2
    MaxEvents = 5
INVARIANTS
    ScoresAreOfTheClient
    LoadingIsForAnAnswer
    CampaignsAreReachable
CHECK_DEADLOCK FALSE
