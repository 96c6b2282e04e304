\* The README's first step of the dashboard walkthrough.
SPECIFICATION DashSpec
CONSTANTS
    Urls <- MCUrls
    Links <- MCLinks
    DEFAULT_RPC_URL <- MCDefault
    LocalUrls <- MCLocalUrls
    DevnetUrls <- MCDevnetUrls
    None = None
    MaxEvents = 2
PROPERTY PastedEndpointIsUsed
\* The dashboard rests when the user does.
CHECK_DEADLOCK FALSE
