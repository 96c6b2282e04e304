--------------------------- MODULE CampaignsPanel ---------------------------
(***************************************************************************)
(* The campaigns tab of the dashboard, frontend-next/app/dashboard/        *)
(* CampaignsPanel.tsx, fed by loadCampaigns of DashboardClient.tsx through *)
(* the read-only client of frontend-next/lib/sdk.ts.                       *)
(*                                                                         *)
(* The panel filters, sorts, pages and groups the campaigns.  A row keeps  *)
(* its own state, the scores it has read among it, as long as React finds  *)
(* the same key in the same group, whatever becomes of the campaigns and   *)
(* the client around it.  Loads and queries overlap and answer in any      *)
(* order.  Dashboard has how clients come about; here a handshake is a     *)
(* step.  The metadata that a search looks at is taken as loaded; the      *)
(* links to transactions in the rows and what a row makes of its scores    *)
(* (average, verdict) are left out.                                        *)
(***************************************************************************)
EXTENDS Integers, Sequences, FiniteSets

CONSTANTS
    Pdas,           \* campaign accounts, numbered as the RPC node lists them
    CampaignId, DeadlineUnix, Amount, \* of each campaign
    Listings,       \* sets of accounts getProgramAccounts may answer with
    Reviews,        \* lists of scores queryCampaignStatus may answer with
    Queries,        \* search texts; "" is the empty one
    Matching,       \* the campaigns each search text is found in
    PageSizes,      \* 10, 25 and 50 in the code; the least is the default
    MaxClients,     \* bound on the handshakes
    MaxEvents       \* bound on the user's inputs

Statuses == {"open", "settled_success", "settled_refund", "rfq_expired"}
Modes == {"direct", "rfq"}
SortOptions == {"deadline_asc", "deadline_desc", "campaign_newest",
                "campaign_oldest", "amount_desc"}

Accounts == [pda : Pdas, name : {"Campaign", "Other"}, length : Nat,
             status : 0 .. 255, mode : 0 .. 255]

ASSUME PanelAssumption ==
    /\ Pdas \subseteq Nat /\ IsFiniteSet(Pdas)
    /\ CampaignId \in [Pdas -> Nat] /\ DeadlineUnix \in [Pdas -> Int]
    /\ Amount \in [Pdas -> Nat]
    /\ Listings \subseteq SUBSET Accounts
    /\ \A listing \in Listings : \A a, b \in listing : a.pda = b.pda => a = b
    /\ Reviews \subseteq Seq(Nat)
    /\ "" \in Queries /\ Matching \in [Queries -> SUBSET Pdas]
    /\ Matching[""] = Pdas
    /\ PageSizes \subseteq Nat \ {0}
    /\ \E n \in PageSizes : \A m \in PageSizes : n <= m
    /\ MaxClients \in Nat /\ MaxEvents \in Nat

VARIABLES
    client,     \* the number of the client in use, 0 before the first
    connected,
    loads,      \* how many loads each client has under way
    loading,
    campaigns,  \* the campaigns loaded, by their addresses
    view,       \* filters, sorting and page
    rows,       \* the mounted rows
    due,        \* effects whose dependencies changed since they last ran
    events

linkVars == <<client, connected>>
loadVars == <<loads, loading, campaigns>>
panelVars == <<linkVars, loadVars, view, rows, due, events>>

Clients == 1 .. MaxClients

-----------------------------------------------------------------------------
(* The accounts as the client reads them *)

\* Where the fields of a campaign account end: discriminator, id, creator,
\* executor, mint, escrow, amount, task, validators, their number, threshold,
\* deadline, status, creation, bump, mode, RFQ deadline, accepted bid.
Widths == <<8, 8, 32, 32, 32, 32, 8, 32, 32, 1, 2, 8, 1, 8, 1, 1, 8, 8>>

EndOf[i \in 0 .. 18] == IF i = 0 THEN 0 ELSE EndOf[i - 1] + Widths[i]

\* A number that is cut off throws; one byte, or the last three fields of an
\* account from before RFQ campaigns, may be missing altogether.
Readable(account) ==
    /\ account.length >= EndOf[14]
    /\ \A i \in {17, 18} :
          account.length > EndOf[i - 1] => account.length >= EndOf[i]

StatusLabel(code) ==
    CASE code = 1 -> "settled_success"
      [] code = 2 -> "settled_refund"
      [] code = 3 -> "rfq_expired"
      [] OTHER -> "open"

ModeOf(account) ==
    IF account.length > EndOf[15] /\ account.mode = 1 THEN "rfq" ELSE "direct"

Parsed(listing) ==
    LET kept == {a \in listing : a.name = "Campaign" /\ Readable(a)}
    IN  [p \in {a.pda : a \in kept} |->
            LET a == CHOOSE b \in kept : b.pda = p
            IN  [status |-> StatusLabel(a.status), mode |-> ModeOf(a)]]

-----------------------------------------------------------------------------
(* What the panel shows of campaigns cs under the view v *)

MinPageSize == CHOOSE n \in PageSizes : \A m \in PageSizes : n <= m

NewView == [query |-> "", statusFilter |-> "all", modeFilter |-> "all",
            sortBy |-> "campaign_newest", pageSize |-> MinPageSize,
            page |-> 1, collapsed |-> {}]

Filtered(v, cs) ==
    {p \in DOMAIN cs : /\ v.statusFilter \in {"all", cs[p].status}
                       /\ v.modeFilter \in {"all", cs[p].mode}
                       /\ p \in Matching[v.query]}

Rank(sortBy, p) ==
    CASE sortBy = "deadline_desc" -> -DeadlineUnix[p]
      [] sortBy = "campaign_newest" -> -CampaignId[p]
      [] sortBy = "campaign_oldest" -> CampaignId[p]
      [] sortBy = "amount_desc" -> -Amount[p]
      [] OTHER -> DeadlineUnix[p]

\* The list is sorted by id when it is loaded, by a comparison that is never
\* 0: V8's insertion sort turns campaigns of one id (of different creators)
\* round.  The sort of the panel keeps that order.
LoadedBefore(p, q) ==
    \/ CampaignId[p] > CampaignId[q]
    \/ CampaignId[p] = CampaignId[q] /\ p > q

Before(sortBy, p, q) ==
    \/ Rank(sortBy, p) < Rank(sortBy, q)
    \/ Rank(sortBy, p) = Rank(sortBy, q) /\ LoadedBefore(p, q)

Position(v, cs, p) == Cardinality({q \in Filtered(v, cs) : Before(v.sortBy, q, p)})

\* Mutant: the last page counts only when it is full.
FullPages(v, cs) ==
    LET pages == Cardinality(Filtered(v, cs)) \div v.pageSize
    IN  IF pages > 1 THEN pages ELSE 1

TotalPages(v, cs) ==
    LET pages == (Cardinality(Filtered(v, cs)) + v.pageSize - 1) \div v.pageSize
    IN  IF pages > 1 THEN pages ELSE 1

OnPage(v, cs, n) ==
    {p \in Filtered(v, cs) : Position(v, cs, p) \div v.pageSize = n - 1}

\* Mutant: the rows stay on screen while campaigns are loaded.
ShownAlways(v, cs, busy) ==
    {p \in OnPage(v, cs, v.page) : cs[p].status \notin v.collapsed}

Shown(v, cs, busy) ==
    IF busy = TRUE THEN {}
    ELSE {p \in OnPage(v, cs, v.page) : cs[p].status \notin v.collapsed}

-----------------------------------------------------------------------------
(* The rows *)

Unmounted == [group |-> "none"]
Unread == [via |-> 0, list |-> <<>>]

NewRow(status) ==
    [group |-> status, open |-> "no", scores |-> Unread, asked |-> <<>>]

RowRecord ==
    [group : Statuses, open : {"no", "yes"},
     scores : [via : Clients, list : Seq(Nat)] \cup {Unread},
     asked : Seq(Clients)]

\* React keeps the row that has the same key in the same group.
Rendered(old, v, cs, busy) ==
    [p \in Pdas |-> IF p \notin Shown(v, cs, busy) THEN Unmounted
                    ELSE IF old[p].group = cs[p].status THEN old[p]
                    ELSE NewRow(cs[p].status)]

Render(old) == rows' = Rendered(old, view', campaigns', loading')

WithoutAt(s, i) == SubSeq(s, 1, i - 1) \o SubSeq(s, i + 1, Len(s))

\* The effect of an open row without scores queries the client in use;
\* there is one before there are campaigns.
Asking(row) ==
    IF row # Unmounted /\ row.open = "yes" /\ row.scores = Unread
    THEN [row EXCEPT !.asked = Append(row.asked, client)] ELSE row

\* The effects that the change of this step makes due.
Then(effects) ==
    due' = due \cup effects
        \cup IF TotalPages(view', campaigns') # TotalPages(view, campaigns)
             THEN {"clamp"} ELSE {}

-----------------------------------------------------------------------------
(* Clients and loads *)

StartLoad(c) ==
    /\ loads' = [loads EXCEPT ![c] = loads[c] + 1]
    /\ loading' = TRUE
    /\ Render(rows)

\* The handshake of a connection ends well: the new client, and the load that
\* starts at once, are rendered together.
Connects ==
    /\ client < MaxClients
    /\ client' = client + 1
    /\ connected' = TRUE
    /\ UNCHANGED <<campaigns, view, due, events>>
    /\ StartLoad(client + 1)

\* It fails; the previous client and its campaigns stay.
ConnectFails ==
    /\ connected = TRUE
    /\ connected' = FALSE
    /\ UNCHANGED <<client, loadVars, view, rows, due, events>>

\* The end of any load clears the flag that all loads share.
LoadOver(c) ==
    /\ loads[c] > 0
    /\ loads' = [loads EXCEPT ![c] = loads[c] - 1]
    /\ loading' = FALSE

\* The campaigns are new objects, which the rows' effects depend on.
LoadOk(c, listing) ==
    /\ LoadOver(c)
    /\ campaigns' = Parsed(listing)
    /\ UNCHANGED <<linkVars, view, events>>
    /\ Render(rows)
    /\ Then({"read"})

LoadFails(c) ==
    /\ LoadOver(c)
    /\ UNCHANGED <<linkVars, campaigns, view, due, events>>
    /\ Render(rows)

-----------------------------------------------------------------------------
(* Answers to the queries of a row; one that is gone hears nothing. *)

Heard(p, i, scores) ==
    rows' = [rows EXCEPT ![p] = [rows[p] EXCEPT
                !.scores = scores, !.asked = WithoutAt(rows[p].asked, i)]]

QueryOk(p, i, list) ==
    /\ Heard(p, i, [via |-> rows[p].asked[i], list |-> list])
    /\ UNCHANGED <<linkVars, loadVars, view, due, events>>

\* Mutant: nobody catches the error.
QueryFailsUncaught(p, i) ==
    /\ Heard(p, i, rows[p].scores)
    /\ UNCHANGED <<linkVars, loadVars, view, due, events>>

\* No account, no connection: shown as no reviews.
QueryFails(p, i) ==
    /\ Heard(p, i, [via |-> rows[p].asked[i], list |-> <<>>])
    /\ UNCHANGED <<linkVars, loadVars, view, due, events>>

-----------------------------------------------------------------------------
(* Effects *)

\* Mutant: the page stays where it is when there are fewer.
PageKept(v, cs) == v.page

PageClamped(v, cs) == IF v.page > TotalPages(v, cs) THEN TotalPages(v, cs) ELSE v.page

\* The panel's two effects run in this order, after those of the rows.
RunEffects ==
    /\ due # {}
    /\ view' = [view EXCEPT !.page =
                    IF "reset" \in due THEN 1
                    ELSE IF "clamp" \in due THEN PageClamped(view, campaigns)
                    ELSE view.page]
    /\ due' = {}
    /\ UNCHANGED <<linkVars, loadVars, events>>
    /\ Render([p \in Pdas |-> IF "read" \in due THEN Asking(rows[p]) ELSE rows[p]])

-----------------------------------------------------------------------------
(* The user.  React runs the effects that are due before an input event. *)

UserMay ==
    /\ due = {}
    /\ events < MaxEvents
    /\ events' = events + 1

Refresh ==
    /\ UserMay
    /\ connected = TRUE /\ client # 0 /\ loading = FALSE
    /\ UNCHANGED <<linkVars, campaigns, view, due>>
    /\ StartLoad(client)

\* The text of the endpoint field is a dependency of the rows' effects.
EditEndpoint ==
    /\ UserMay
    /\ due' = {"read"}
    /\ UNCHANGED <<linkVars, loadVars, view, rows>>

\* The panel is mounted afresh when the tab is left and opened again.
Revisit ==
    /\ UserMay
    /\ view' = NewView
    /\ due' = {}
    /\ UNCHANGED <<linkVars, loadVars>>
    /\ Render([p \in Pdas |-> Unmounted])

\* An input that changes what the panel shows.
Look(v, effects) ==
    /\ UserMay
    /\ v # view
    /\ view' = v
    /\ UNCHANGED <<linkVars, loadVars>>
    /\ Render(rows)
    /\ Then(effects)

Search(query) == Look([view EXCEPT !.query = query], {"reset"})
FilterStatus(status) == Look([view EXCEPT !.statusFilter = status], {"reset"})
FilterMode(mode) == Look([view EXCEPT !.modeFilter = mode], {"reset"})
SortBy(option) == Look([view EXCEPT !.sortBy = option], {"reset"})
SetPageSize(size) == Look([view EXCEPT !.pageSize = size], {"reset"})

\* The button is there when a filter is set; the page size stays.
ResetFilters ==
    /\ view.query # "" \/ view.statusFilter # "all" \/ view.modeFilter # "all"
    /\ Look([view EXCEPT !.query = "", !.statusFilter = "all",
                         !.modeFilter = "all", !.sortBy = "campaign_newest"],
            {"reset"})

\* Prev, Next and the list of pages, when there is more than one.
GoToPage(n) ==
    /\ loading = FALSE
    /\ n \in 1 .. TotalPages(view, campaigns)
    /\ Look([view EXCEPT !.page = n], {})

\* The header of a group that has rows on the page.
ToggleGroup(status) ==
    /\ loading = FALSE
    /\ \E p \in OnPage(view, campaigns, view.page) : campaigns[p].status = status
    /\ Look([view EXCEPT !.collapsed = IF status \in view.collapsed
                                       THEN view.collapsed \ {status}
                                       ELSE view.collapsed \cup {status}], {})

\* The effect runs with the click.
OpenRow(p) ==
    /\ UserMay
    /\ rows[p] # Unmounted /\ rows[p].open = "no"
    /\ rows' = [rows EXCEPT ![p] = Asking([rows[p] EXCEPT !.open = "yes"])]
    /\ UNCHANGED <<linkVars, loadVars, view, due>>

CloseRow(p) ==
    /\ UserMay
    /\ rows[p] # Unmounted /\ rows[p].open = "yes"
    /\ rows' = [rows EXCEPT ![p] = [rows[p] EXCEPT !.open = "no"]]
    /\ UNCHANGED <<linkVars, loadVars, view, due>>

-----------------------------------------------------------------------------
(* Specification *)

PanelInit ==
    /\ client = 0 /\ connected = FALSE
    /\ loads = [c \in Clients |-> 0] /\ loading = FALSE
    /\ campaigns = [p \in {} |-> 0]
    /\ view = NewView
    /\ rows = [p \in Pdas |-> Unmounted]
    /\ due = {}
    /\ events = 0

Controls ==
    \/ \E query \in Queries : Search(query)
    \/ \E status \in Statuses \cup {"all"} : FilterStatus(status)
    \/ \E mode \in Modes \cup {"all"} : FilterMode(mode)
    \/ \E option \in SortOptions : SortBy(option)
    \/ \E size \in PageSizes : SetPageSize(size)
    \/ ResetFilters
    \/ \E n \in 1 .. TotalPages(view, campaigns) : GoToPage(n)
    \/ \E status \in Statuses : ToggleGroup(status)

LoadStep(c) == LoadFails(c) \/ \E listing \in Listings : LoadOk(c, listing)

QueryStep(p) ==
    /\ rows[p] # Unmounted
    /\ \E i \in DOMAIN rows[p].asked :
          QueryFails(p, i) \/ \E list \in Reviews : QueryOk(p, i, list)

PanelNext ==
    \/ Connects
    \/ ConnectFails
    \/ \E c \in Clients : LoadStep(c)
    \/ \E p \in Pdas : QueryStep(p)
    \/ RunEffects
    \/ Refresh
    \/ EditEndpoint
    \/ Revisit
    \/ Controls
    \/ \E p \in Pdas : OpenRow(p) \/ CloseRow(p)

PanelSpec == PanelInit /\ [][PanelNext]_panelVars

-----------------------------------------------------------------------------
(* Properties *)

View == [query : Queries, statusFilter : Statuses \cup {"all"},
         modeFilter : Modes \cup {"all"}, sortBy : SortOptions,
         pageSize : PageSizes, page : Nat \ {0}, collapsed : SUBSET Statuses]

PanelTypeOK ==
    /\ client \in 0 .. MaxClients
    /\ connected \in BOOLEAN /\ loading \in BOOLEAN
    /\ loads \in [Clients -> Nat]
    /\ \E kept \in SUBSET Pdas :
          campaigns \in [kept -> [status : Statuses, mode : Modes]]
    /\ view \in View
    /\ rows \in [Pdas -> RowRecord \cup {Unmounted}]
    /\ due \subseteq {"read", "clamp", "reset"}
    /\ events \in 0 .. MaxEvents

\* Scores on screen were read through the client in use, and so will those be
\* that a mounted row waits for: though rows outlive loads, loads of an
\* earlier client answer late and nothing cancels a query.
ScoresAreOfTheClient ==
    \A p \in Pdas : rows[p] # Unmounted =>
        /\ rows[p].scores # Unread => rows[p].scores.via = client
        /\ \A i \in DOMAIN rows[p].asked : rows[p].asked[i] = client

\* An open row says "Loading" only while it waits for an answer, whatever
\* opened, closed, failed or replaced its campaign meanwhile.
LoadingIsForAnAnswer ==
    \A p \in Pdas :
        rows[p] # Unmounted /\ rows[p].open = "yes" /\ rows[p].scores = Unread
            => rows[p].asked # <<>> \/ "read" \in due

\* Once the effects have run, every campaign that passes the filters is on
\* exactly one of the pages there are, the panel is on such a page, and it is
\* not an empty one: not after campaigns went away or the filters changed.
CampaignsAreReachable ==
    /\ \A p \in Filtered(view, campaigns) :
          Cardinality({n \in 1 .. TotalPages(view, campaigns) :
                           p \in OnPage(view, campaigns, n)}) = 1
    /\ due = {} =>
          /\ view.page \in 1 .. TotalPages(view, campaigns)
          /\ Filtered(view, campaigns) # {} => OnPage(view, campaigns, view.page) # {}

=============================================================================
