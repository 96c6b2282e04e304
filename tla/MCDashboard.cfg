\* Up to MaxEvents things the user does, each followed or overtaken by every
\* timer, effect and answer.
SPECIFICATION FairDashSpec
CONSTANTS
    Urls <- MCUrls
    Links <- MCLinks
    DEFAULT_RPC_URL <- MCDefault
    LocalUrls <- MCLocalUrls
    DevnetUrls <- MCDevnetUrls
    None = None
    MaxEvents = 2
INVARIANTS
    ConnectingTracksLatest
    SettlesOnTarget
    TitlesFollowEndpoint
    IndexMatchesScreen
PROPERTY DashboardSettles
\* The dashboard rests when the user does.
CHECK_DEADLOCK FALSE
