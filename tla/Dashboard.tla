----------------------------- MODULE Dashboard -----------------------------
(***************************************************************************)
(* The dashboard's connection, its campaigns, their metadata and the       *)
(* validator index: frontend-next/app/dashboard/DashboardClient.tsx and    *)
(* ValidatorsPanel.tsx.  React renders, then runs the effects whose        *)
(* dependencies changed; requests answer whenever they do, also after the  *)
(* attempt, effect or tab they belong to is gone.                          *)
(***************************************************************************)
EXTENDS Naturals, Sequences

CONSTANTS
    Urls,           \* RPC endpoints
    Links,          \* the ?rpc= of links to the dashboard, or None
    DEFAULT_RPC_URL,
    LocalUrls, DevnetUrls,   \* those that name localhost, those that name devnet
    None,           \* no URL, no timer
    MaxEvents       \* bound on the user's inputs that start something

ASSUME DashboardAssumption ==
    /\ DEFAULT_RPC_URL \in Urls /\ None \notin Urls
    /\ Links \subseteq Urls \cup {None}
    /\ LocalUrls \cup DevnetUrls \subseteq Urls
    /\ MaxEvents \in Nat

VARIABLES
    rpcFromUrl,   \* ?rpc= in the address bar
    rpcUrl,       \* the text of the endpoint field
    typed,        \* what the user last typed there
    timer,        \* the URL the pending auto-connect timer connects to
    due,          \* effects whose dependencies changed since they last ran
    attempts,     \* one record per connectAndLoad; the last is the current
    connection,   \* the attempt that set connectionRef and poeClient
    connected, connecting, loading,
    loads,        \* one record per loadCampaigns
    shown,        \* the load whose campaigns are on screen, 0 when none are
    metadata,     \* "titles", or "empty"
    fetching,     \* the source the metadata effect is waiting for
    tab,
    job, index,   \* the validator index being built, and the one on screen
    events

effectVars == <<rpcUrl, timer, fetching>>
linkVars == <<attempts, connection, connected, connecting>>
loadVars == <<loads, loading, shown>>
indexVars == <<job, index>>
userVars == <<rpcFromUrl, typed, tab, events>>
dashVars == <<effectVars, due, linkVars, loadVars, metadata, indexVars, userVars>>

-----------------------------------------------------------------------------
(* Helpers *)

Target == IF rpcFromUrl = None THEN DEFAULT_RPC_URL ELSE rpcFromUrl

detectCluster(rpc) ==
    IF rpc \in LocalUrls THEN "local"
    ELSE IF rpc \in DevnetUrls THEN "devnet" ELSE "mainnet"

Current == Len(attempts)

\* The effects to run after the next render; the index effect belongs to
\* the validators tab and goes with it.
Due(effects) ==
    due' = (due \cup effects) \ (IF tab = "validators" THEN {} ELSE {"index"})

ConnectAndLoad(url) ==
    /\ attempts' = Append(attempts, [url |-> url, phase |-> "handshake"])
    /\ connecting' = TRUE
    /\ UNCHANGED <<connection, connected>>

LoadCampaigns(attempt, awaited) ==
    /\ loads' = Append(loads, [via |-> attempt, awaited |-> awaited,
                               phase |-> "loading"])
    /\ loading' = TRUE

NoJob == [client |-> 0, of |-> 0]

AttemptAt(i, phase) == [attempts EXCEPT ![i].phase = phase]

-----------------------------------------------------------------------------
(* The user.  React runs the effects that are due before it handles an input *)
(* event.                                                                    *)

UserMay ==
    /\ due = {}
    /\ events < MaxEvents
    /\ events' = events + 1

\* A link to the dashboard with another ?rpc=.
Navigate(param) ==
    /\ UserMay
    /\ param # rpcFromUrl
    /\ rpcFromUrl' = param
    /\ typed' = None
    /\ Due({"auto"})
    /\ UNCHANGED <<effectVars, linkVars, loadVars, metadata, indexVars, tab>>

\* connectAndLoad depends on rpcUrl, and the auto-connect effect on it.
Type(url) ==
    /\ UserMay
    /\ url # rpcUrl
    /\ rpcUrl' = url
    /\ typed' = url
    /\ Due({"auto", "index"} \cup
           IF detectCluster(url) # detectCluster(rpcUrl) THEN {"metadata"} ELSE {})
    /\ UNCHANGED <<timer, fetching, linkVars, loadVars, metadata, indexVars,
                   rpcFromUrl, tab>>

Click ==
    /\ UserMay
    /\ ~ connecting /\ ~ loading
    /\ ConnectAndLoad(rpcUrl)
    /\ UNCHANGED <<effectVars, due, loadVars, metadata, indexVars,
                   rpcFromUrl, typed, tab>>

Refresh ==
    /\ UserMay
    /\ connected /\ connection # 0 /\ ~ loading
    /\ LoadCampaigns(connection, FALSE)
    /\ UNCHANGED <<effectVars, due, linkVars, shown, metadata, indexVars,
                   rpcFromUrl, typed, tab>>

\* The validators panel is mounted afresh and forgets everything when left.
\* Opening it is not counted, leaving it is.
OpenTab(to) ==
    /\ to # tab
    /\ IF to = "validators" THEN due = {} /\ UNCHANGED events ELSE UserMay
    /\ tab' = to
    /\ due' = IF to = "validators" THEN {"index"} ELSE {}
    /\ job' = NoJob
    /\ index' = NoJob
    /\ UNCHANGED <<effectVars, linkVars, loadVars, metadata, rpcFromUrl, typed>>

-----------------------------------------------------------------------------
(* The effects *)

\* Mutant: the effect puts back what the user typed.
AutoConnectRestoring ==
    IF "auto" \in due
    THEN /\ rpcUrl' = IF rpcUrl = Target /\ typed # None THEN typed ELSE Target
         /\ timer' = IF rpcUrl = Target THEN Target ELSE None
         /\ due' = (IF rpcUrl' # rpcUrl THEN {"auto", "metadata"} ELSE {})
    ELSE /\ UNCHANGED <<rpcUrl, timer>>
         /\ due' = {}

\* The field is reset to the target, which is another change to run effects
\* for, and the timer of the previous run is replaced.
AutoConnect ==
    IF "auto" \in due
    THEN /\ rpcUrl' = Target
         /\ timer' = Target
         /\ due' = (IF rpcUrl # Target THEN {"auto"} ELSE {})
                \cup (IF rpcUrl # Target /\ tab = "validators"
                      THEN {"index"} ELSE {})
                \cup (IF detectCluster(rpcUrl) # detectCluster(Target)
                      THEN {"metadata"} ELSE {})
    ELSE /\ UNCHANGED <<rpcUrl, timer>>
         /\ due' = {}

\* Mutant: a fetch is not cancelled when the cluster changes.
FetchMetadataUncancelled ==
    IF "metadata" \in due
    THEN IF detectCluster(rpcUrl) = "devnet"
         THEN fetching' = "api" /\ UNCHANGED metadata
         ELSE metadata' = "empty" /\ UNCHANGED fetching
    ELSE UNCHANGED <<metadata, fetching>>

FetchMetadata ==
    IF "metadata" \in due
    THEN IF detectCluster(rpcUrl) = "devnet"
         THEN fetching' = "api" /\ UNCHANGED metadata
         ELSE metadata' = "empty" /\ fetching' = "none"
    ELSE UNCHANGED <<metadata, fetching>>

\* Mutant: the old index stays when there is nothing to build one from.
BuildIndexKeepingOld ==
    IF "index" \in due
    THEN IF ~ connected \/ connection = 0 \/ shown = 0
         THEN UNCHANGED index /\ job' = NoJob
         ELSE job' = [client |-> connection, of |-> shown] /\ UNCHANGED index
    ELSE UNCHANGED indexVars

\* A run of the index effect cancels the job of the previous one.
BuildIndex ==
    IF "index" \in due
    THEN IF ~ connected \/ connection = 0 \/ shown = 0
         THEN index' = NoJob /\ job' = NoJob
         ELSE job' = [client |-> connection, of |-> shown] /\ UNCHANGED index
    ELSE UNCHANGED indexVars

RunEffects ==
    /\ due # {}
    /\ AutoConnect
    /\ FetchMetadata
    /\ BuildIndex
    /\ UNCHANGED <<linkVars, loadVars, userVars>>

-----------------------------------------------------------------------------
(* Timers and answers *)

TimerFires ==
    /\ timer # None
    /\ ConnectAndLoad(timer)
    /\ timer' = None
    /\ UNCHANGED <<rpcUrl, fetching, due, loadVars, metadata, indexVars,
                   userVars>>

\* A superseded attempt ends without a trace: its end is no step here.

\* Mutant: the attempt counter is not compared.
HandshakeOkAlways(i) ==
    /\ attempts[i].phase = "handshake"
    /\ attempts' = AttemptAt(i, "loading")
    /\ connection' = i
    /\ connected' = TRUE
    /\ LoadCampaigns(i, TRUE)
    /\ Due({"index"})
    /\ UNCHANGED <<effectVars, connecting, shown, metadata, indexVars, userVars>>

HandshakeOk(i) ==
    /\ attempts[i].phase = "handshake"
    /\ i = Current
    /\ attempts' = AttemptAt(i, "loading")
    /\ connection' = i
    /\ connected' = TRUE
    /\ LoadCampaigns(i, TRUE)
    /\ Due({"index"})
    /\ UNCHANGED <<effectVars, connecting, shown, metadata, indexVars, userVars>>

\* getSlot fails, or does not answer within 8 seconds.
HandshakeFails(i) ==
    /\ attempts[i].phase = "handshake"
    /\ i = Current
    /\ attempts' = AttemptAt(i, "over")
    /\ connected' = FALSE
    /\ connecting' = FALSE
    /\ Due(IF connected THEN {"index"} ELSE {})
    /\ UNCHANGED <<effectVars, connection, loadVars, metadata, indexVars,
                   userVars>>

\* Mutant: an attempt that is over ends the connecting state of a later one.
LoadOverUnguarded(i) ==
    LET load == loads[i] IN
    /\ load.phase = "loading"
    /\ loads' = [loads EXCEPT ![i].phase = "over"]
    /\ loading' = FALSE
    /\ IF load.awaited
       THEN /\ attempts' = AttemptAt(load.via, "over")
            /\ connecting' = FALSE
       ELSE UNCHANGED <<attempts, connecting>>
    /\ UNCHANGED <<effectVars, connection, connected, metadata, indexVars,
                   userVars>>

\* The end of loadCampaigns, and of the attempt that awaits it.
LoadOver(i) ==
    LET load == loads[i] IN
    /\ load.phase = "loading"
    /\ loads' = [loads EXCEPT ![i].phase = "over"]
    /\ loading' = FALSE
    /\ IF load.awaited
       THEN /\ attempts' = AttemptAt(load.via, "over")
            /\ connecting' = (connecting /\ load.via # Current)
       ELSE UNCHANGED <<attempts, connecting>>
    /\ UNCHANGED <<effectVars, connection, connected, metadata, indexVars,
                   userVars>>

\* Possibly without any campaign; no attempt counter is compared.
LoadOk(i) ==
    /\ LoadOver(i)
    /\ shown' \in {i, 0}
    /\ Due({"index"})

LoadFails(i) == LoadOver(i) /\ UNCHANGED <<shown, due>>

MetadataOk ==
    /\ fetching # "none"
    /\ metadata' \in {"titles", "empty"}
    /\ fetching' = "none"
    /\ Due({"index"})
    /\ UNCHANGED <<rpcUrl, timer, linkVars, loadVars, indexVars, userVars>>

\* The API, then the static file; without either there are no titles.
MetadataFails ==
    /\ fetching # "none"
    /\ IF fetching = "api"
       THEN fetching' = "static" /\ UNCHANGED <<metadata, due>>
       ELSE fetching' = "none" /\ metadata' = "empty" /\ Due({"index"})
    /\ UNCHANGED <<rpcUrl, timer, linkVars, loadVars, indexVars, userVars>>

\* Campaigns whose scores cannot be read are left out of the index.
IndexBuilt ==
    /\ job # NoJob
    /\ index' = job
    /\ job' = NoJob
    /\ UNCHANGED <<effectVars, due, linkVars, loadVars, metadata, userVars>>

-----------------------------------------------------------------------------
(* Specification *)

DashInit ==
    /\ rpcFromUrl \in Links
    /\ rpcUrl = Target
    /\ typed = None /\ timer = None
    /\ due = {"auto", "metadata"}
    /\ attempts = << >> /\ connection = 0
    /\ connected = FALSE /\ connecting = FALSE /\ loading = FALSE
    /\ loads = << >> /\ shown = 0
    /\ metadata = "empty" /\ fetching = "none"
    /\ tab = "campaigns" /\ job = NoJob /\ index = NoJob
    /\ events = 0

User ==
    \/ \E param \in Links : Navigate(param)
    \/ \E url \in Urls : Type(url)
    \/ Click
    \/ Refresh
    \/ \E to \in {"campaigns", "validators"} : OpenTab(to)

Handshake(i) == HandshakeOk(i) \/ HandshakeFails(i)

DashNext ==
    \/ User
    \/ RunEffects
    \/ TimerFires
    \/ \E i \in DOMAIN attempts : Handshake(i)
    \/ \E i \in DOMAIN loads : LoadOk(i) \/ LoadFails(i)
    \/ MetadataOk
    \/ MetadataFails
    \/ IndexBuilt

DashSpec == DashInit /\ [][DashNext]_dashVars

SomeHandshake == \E i \in DOMAIN attempts : Handshake(i)

\* React runs effects, timers fire, and the handshake has a timeout.  A load
\* has none, and nothing is assumed of it.
FairDashSpec ==
    /\ DashSpec
    /\ WF_dashVars(RunEffects)
    /\ WF_dashVars(TimerFires)
    /\ WF_dashVars(SomeHandshake)

-----------------------------------------------------------------------------
(* Properties *)

AttemptRecord == [url : Urls, phase : {"handshake", "loading", "over"}]

LoadRecord == [via : 1 .. Len(attempts), awaited : BOOLEAN,
               phase : {"loading", "over"}]

Job == [client : 1 .. Len(attempts), of : 1 .. Len(loads)]

DashTypeOK ==
    /\ rpcFromUrl \in Links /\ rpcUrl \in Urls
    /\ typed \in Urls \cup {None} /\ timer \in Urls \cup {None}
    /\ due \subseteq {"auto", "metadata", "index"}
    /\ attempts \in Seq(AttemptRecord)
    /\ connection \in 0 .. Len(attempts)
    /\ connected \in BOOLEAN /\ connecting \in BOOLEAN /\ loading \in BOOLEAN
    /\ loads \in Seq(LoadRecord)
    /\ shown \in 0 .. Len(loads)
    /\ metadata \in {"titles", "empty"}
    /\ fetching \in {"none", "api", "static"}
    /\ tab \in {"campaigns", "validators"}
    /\ job \in Job \cup {NoJob} /\ index \in Job \cup {NoJob}
    /\ events \in 0 .. MaxEvents

\* The button says "Connecting..." exactly while the latest attempt is under
\* way: an attempt it superseded neither ends nor prolongs it.
ConnectingTracksLatest ==
    connecting <=> Current > 0 /\ attempts[Current].phase # "over"

\* However navigation, typing, clicks, timers and late or lost handshakes
\* interleave, once nothing is pending a connected dashboard uses the
\* endpoint in the address bar, through the client of the latest attempt.
SettlesOnTarget ==
    due = {} /\ timer = None /\ connected /\ ~ connecting
        => connection = Current /\ attempts[connection].url = Target

\* The titles published for devnet follow the endpoint field: once the effects
\* have run, none is shown while the field names another cluster, also not by
\* an answer that comes late.  At rest, campaigns under titles are devnet's if
\* the client in use has loaded them.  Nothing keeps titles off campaigns of
\* an earlier client: its load may answer late and is not guarded, and a
\* handshake that is pending or has failed leaves its campaigns on screen.
TitlesFollowEndpoint ==
    due = {} =>
        /\ detectCluster(rpcUrl) # "devnet" => metadata = "empty"
        /\ timer = None /\ connected /\ ~ connecting /\ metadata = "titles"
                /\ shown # 0 /\ loads[shown].via = connection
            => detectCluster(attempts[loads[shown].via].url) = "devnet"

\* An index that is on screen and not being rebuilt was built with the
\* client in use from the campaigns on screen.
IndexMatchesScreen ==
    due = {} /\ job = NoJob /\ index # NoJob
        => index = [client |-> connection, of |-> shown]

\* The effects feed each other (one sets the field that its own dependency
\* is made from) but come to rest, and so do the timer and the handshake.
DashboardSettles ==
    LET Pending == \/ due # {} \/ timer # None
                   \/ Current > 0 /\ attempts[Current].phase = "handshake"
    IN Pending ~> ~ Pending

\* "Paste an RPC URL and click the button": a click connects to the
\* endpoint the user typed.
PastedEndpointIsUsed ==
    [][Click /\ typed # None => attempts'[Current + 1].url = typed]_dashVars

=============================================================================
