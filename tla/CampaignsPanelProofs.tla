------------------------ MODULE CampaignsPanelProofs ------------------------
(***************************************************************************)
(* Theorems about the campaigns tab, for any campaigns, answers, searches  *)
(* and page sizes.                                                         *)
(***************************************************************************)
EXTENDS CampaignsPanel, FiniteSetTheorems, SequenceTheorems, TLAPS

-----------------------------------------------------------------------------
(* What is loaded and where it is shown *)

LEMMA FinitelyMany == IsFiniteSet(Pdas)
BY PanelAssumption, Zenon

LEMMA EmptyQuery == "" \in Queries
BY PanelAssumption, Zenon

LEMMA Sizes ==
    /\ PageSizes \subseteq Nat \ {0}
    /\ \E n \in PageSizes : \A m \in PageSizes : n <= m
BY PanelAssumption, Zenon

LEMMA ListedAccounts == \A listing \in Listings : listing \subseteq Accounts
<1>1. Listings \subseteq SUBSET Accounts
  BY PanelAssumption, Zenon
<1> QED
  BY <1>1

Loaded == [status : Statuses, mode : Modes]

LoadedType(cs) == \E kept \in SUBSET Pdas : cs \in [kept -> Loaded]

LEMMA ParsedType ==
    ASSUME NEW listing \in Listings
    PROVE  LoadedType(Parsed(listing))
<1> DEFINE kept == {a \in listing : a.name = "Campaign" /\ Readable(a)}
           pdas == {a.pda : a \in kept}
           entry(a) == [status |-> StatusLabel(a.status), mode |-> ModeOf(a)]
<1>1. pdas \in SUBSET Pdas
  <2>1. \A a \in kept : a \in Accounts
    BY ListedAccounts
  <2>2. \A a \in Accounts : a.pda \in Pdas
    BY DEF Accounts
  <2> HIDE DEF kept
  <2> QED
    BY <2>1, <2>2
<1>2. \A a : entry(a) \in Loaded
  BY DEF Loaded, StatusLabel, Statuses, ModeOf, Modes
<1>3. Parsed(listing) = [p \in pdas |-> entry(CHOOSE b \in kept : b.pda = p)]
  BY DEF Parsed
<1> HIDE DEF entry, pdas
<1> QED
  BY <1>1, <1>2, <1>3 DEF LoadedType

LEMMA PageType ==
    ASSUME NEW v \in View, NEW cs, LoadedType(cs)
    PROVE  /\ TotalPages(v, cs) \in Nat \ {0}
           /\ PageClamped(v, cs) \in Nat \ {0}
<1>1. Cardinality(Filtered(v, cs)) \in Nat
  <2>1. Filtered(v, cs) \in SUBSET Pdas
    BY DEF Filtered, LoadedType
  <2>2. IsFiniteSet(Filtered(v, cs))
    BY <2>1, FinitelyMany, FS_Subset
  <2> QED
    BY <2>2, FS_CardinalityType
<1>2. v.pageSize \in Nat \ {0} /\ v.page \in Nat \ {0}
  BY Sizes DEF View
<1>3. (Cardinality(Filtered(v, cs)) + v.pageSize - 1) \div v.pageSize \in Int
  BY <1>1, <1>2
<1>4. TotalPages(v, cs) \in Nat \ {0}
  <2> DEFINE pages == (Cardinality(Filtered(v, cs)) + v.pageSize - 1) \div v.pageSize
  <2>1. PICK n \in Int : n = pages
    BY <1>3
  <2>2. TotalPages(v, cs) = IF n > 1 THEN n ELSE 1
    BY <2>1 DEF TotalPages
  <2> QED
    BY <2>2
<1> QED
  BY <1>2, <1>4 DEF PageClamped

LEMMA MinPageSizeType == MinPageSize \in PageSizes
BY Sizes DEF MinPageSize

LEMMA NewViewType == NewView \in View
<1>1. {} \in SUBSET Statuses
  OBVIOUS
<1>5. "" \in Queries
  BY EmptyQuery
<1> DEFINE pages == Nat \ {0}
<1>2. View = [query : Queries, statusFilter : Statuses \cup {"all"},
              modeFilter : Modes \cup {"all"}, sortBy : SortOptions,
              pageSize : PageSizes, page : pages, collapsed : SUBSET Statuses]
  BY DEF View
<1>3. PICK one \in pages : one = 1
  OBVIOUS
<1>4. NewView = [query |-> "", statusFilter |-> "all", modeFilter |-> "all",
                 sortBy |-> "campaign_newest", pageSize |-> MinPageSize,
                 page |-> one, collapsed |-> {}]
  BY <1>3 DEF NewView
<1> HIDE DEF pages
<1> QED
  BY <1>1, <1>2, <1>4, <1>5, MinPageSizeType DEF SortOptions

-----------------------------------------------------------------------------
(* The invariant of the rows *)

\* A row that reads, and has read, through client c only.
Reads(row, c) ==
    /\ row \in RowRecord
    /\ row.scores # Unread => row.scores.via = c
    /\ row.asked \in Seq({c})

\* A row that says "Loading" waits for an answer.
Waits(row) ==
    row # Unmounted /\ row.open = "yes" /\ row.scores = Unread => row.asked # <<>>

RowsInv ==
    /\ \A p \in Pdas : rows[p] # Unmounted =>
          Reads(rows[p], client) /\ p \in DOMAIN campaigns
    /\ "read" \in due \/ \A p \in Pdas : Waits(rows[p])

\* There is a client before there is a load, and a load before campaigns.
ClientFirst ==
    /\ \A c \in Clients : loads[c] > 0 => client > 0
    /\ DOMAIN campaigns # {} => client > 0

PanelInv == PanelTypeOK /\ RowsInv /\ ClientFirst

LEMMA RowIsNotUnmounted == \A row \in RowRecord : row # Unmounted
<1>1. \A row \in RowRecord : row.group # "none"
  BY DEF RowRecord, Statuses
<1> QED
  BY <1>1 DEF Unmounted

LEMMA NewRowReads ==
    ASSUME NEW status \in Statuses, NEW c
    PROVE  Reads(NewRow(status), c) /\ Waits(NewRow(status))
<1>1. NewRow(status) \in RowRecord
  BY DEF NewRow, RowRecord
<1>2. /\ NewRow(status).scores = Unread /\ NewRow(status).asked = <<>>
      /\ NewRow(status).open = "no"
  BY DEF NewRow
<1> QED
  BY <1>1, <1>2 DEF Reads, Waits

LEMMA ShownCampaign ==
    ASSUME NEW v, NEW cs, LoadedType(cs), NEW busy, NEW p \in Shown(v, cs, busy)
    PROVE  p \in DOMAIN cs /\ busy # TRUE /\ cs[p].status \in Statuses
<1>1. p \in DOMAIN cs /\ busy # TRUE
  BY DEF Shown, OnPage, Filtered
<1> QED
  BY <1>1 DEF LoadedType, Loaded

LEMMA RenderIdle ==
    ASSUME LoadedType(campaigns'), NEW old, NEW c,
           \A p \in Pdas : old[p] # Unmounted => Reads(old[p], c),
           Render(old)
    PROVE  /\ rows' \in [Pdas -> RowRecord \cup {Unmounted}]
           /\ \A p \in Pdas : rows'[p] # Unmounted =>
                 Reads(rows'[p], c) /\ p \in DOMAIN campaigns'
           /\ (\A p \in Pdas : Waits(old[p])) => \A p \in Pdas : Waits(rows'[p])
<1>1. rows' = Rendered(old, view', campaigns', loading')
  BY DEF Render
<1>2. ASSUME NEW p \in Pdas, rows'[p] # Unmounted
      PROVE  /\ Reads(rows'[p], c) /\ p \in DOMAIN campaigns'
             /\ Waits(old[p]) => Waits(rows'[p])
  <2> DEFINE status == campaigns'[p].status
  <2>1. p \in Shown(view', campaigns', loading')
    BY <1>1, <1>2 DEF Rendered
  <2>2. p \in DOMAIN campaigns' /\ status \in Statuses
    BY <2>1, ShownCampaign
  <2>3. rows'[p] = IF old[p].group = status THEN old[p] ELSE NewRow(status)
    BY <1>1, <2>1 DEF Rendered
  <2>4. Unmounted.group \notin Statuses
    BY DEF Unmounted, Statuses
  <2> HIDE DEF status
  <2>5. \/ rows'[p] = old[p] /\ old[p] # Unmounted
        \/ rows'[p] = NewRow(status)
    BY <2>2, <2>3, <2>4
  <2> QED
    BY <2>2, <2>5, NewRowReads
<1>3. Waits(Unmounted)
  BY DEF Waits
<1>4. rows' \in [Pdas -> RowRecord \cup {Unmounted}]
  <2>1. rows' = [p \in Pdas |-> rows'[p]]
    BY <1>1 DEF Rendered
  <2>2. \A p \in Pdas : rows'[p] \in RowRecord \cup {Unmounted}
    BY <1>2 DEF Reads
  <2> QED
    BY <2>1, <2>2
<1> QED
  BY <1>2, <1>3, <1>4

LEMMA RenderBusy ==
    ASSUME LoadedType(campaigns'), loading' = TRUE, NEW old, Render(old)
    PROVE  /\ rows' \in [Pdas -> RowRecord \cup {Unmounted}]
           /\ \A p \in Pdas : rows'[p] = Unmounted
<1>1. rows' = Rendered(old, view', campaigns', loading')
  BY DEF Render
<1>2. \A p \in Pdas : rows'[p] = Unmounted
  BY <1>1, ShownCampaign DEF Rendered
<1>3. rows' = [p \in Pdas |-> rows'[p]]
  BY <1>1 DEF Rendered
<1> QED
  BY <1>2, <1>3

-----------------------------------------------------------------------------
(* Steps *)

LEMMA PanelTyped == PanelTypeOK <=>
    /\ client \in 0 .. MaxClients
    /\ connected \in BOOLEAN /\ loading \in BOOLEAN
    /\ loads \in [Clients -> Nat]
    /\ LoadedType(campaigns)
    /\ view \in View
    /\ rows \in [Pdas -> RowRecord \cup {Unmounted}]
    /\ due \subseteq {"read", "clamp", "reset"}
    /\ events \in 0 .. MaxEvents
BY DEF PanelTypeOK, LoadedType, Loaded

LEMMA ReviewType == Reviews \subseteq Seq(Nat)
BY PanelAssumption, Zenon

LEMMA WithoutAtType ==
    ASSUME NEW S, NEW s \in Seq(S), NEW i \in DOMAIN s
    PROVE  WithoutAt(s, i) \in Seq(S)
<1>1. i \in 1 .. Len(s)
  OBVIOUS
<1>2. SubSeq(s, 1, i - 1) \in Seq(S)
  BY <1>1, SubSeqProperties
<1>3. SubSeq(s, i + 1, Len(s)) \in Seq(S)
  BY <1>1, SubSeqProperties
<1> QED
  BY <1>2, <1>3, ConcatProperties DEF WithoutAt

LEMMA AnsweredRow ==
    ASSUME NEW c \in Clients, NEW row \in RowRecord, Reads(row, c),
           NEW i \in DOMAIN row.asked, NEW list \in Seq(Nat),
           NEW new, new = [row EXCEPT !.scores = [via |-> row.asked[i], list |-> list],
                                      !.asked = WithoutAt(row.asked, i)]
    PROVE  Reads(new, c) /\ Waits(new)
<1>1. row.asked \in Seq({c}) /\ row.asked \in Seq(Clients)
  BY DEF Reads, RowRecord
<1>2. row.asked[i] = c
  BY <1>1
<1> DEFINE rest == WithoutAt(row.asked, i)
           scores == [via |-> c, list |-> list]
<1>3. rest \in Seq({c}) /\ rest \in Seq(Clients)
  BY <1>1, WithoutAtType
<1>4. scores \in [via : Clients, list : Seq(Nat)]
  OBVIOUS
<1>5. scores # Unread
  <2>1. scores.via # Unread.via
    BY DEF Clients, Unread
  <2> QED
    BY <2>1
<1> HIDE DEF rest, scores
<1>6. new = [row EXCEPT !.scores = scores, !.asked = rest]
  BY <1>2 DEF scores, rest
<1>7. new \in RowRecord /\ new.scores = scores /\ new.asked = rest
  BY <1>3, <1>4, <1>6 DEF RowRecord
<1>8. scores.via = c
  BY DEF scores
<1> QED
  BY <1>3, <1>5, <1>7, <1>8 DEF Reads, Waits

LEMMA AskingRow ==
    ASSUME client \in Clients, NEW row \in RowRecord, Reads(row, client)
    PROVE  Reads(Asking(row), client) /\ Waits(Asking(row))
<1> DEFINE more == Append(row.asked, client)
<1>1. row.asked \in Seq({client}) /\ row.asked \in Seq(Clients)
  BY DEF Reads, RowRecord
<1>2. more \in Seq({client}) /\ more \in Seq(Clients) /\ more # <<>>
  BY <1>1
<1> HIDE DEF more
<1>3. CASE row.open = "yes" /\ row.scores = Unread
  <2>1. Asking(row) = [row EXCEPT !.asked = more]
    BY <1>3, RowIsNotUnmounted DEF Asking, more
  <2>2. /\ Asking(row) \in RowRecord /\ Asking(row).asked = more
        /\ Asking(row).scores = row.scores
    BY <1>2, <2>1 DEF RowRecord
  <2> QED
    BY <1>2, <2>2 DEF Reads, Waits
<1>4. CASE ~ (row.open = "yes" /\ row.scores = Unread)
  <2>1. Asking(row) = row
    BY <1>4 DEF Asking
  <2> QED
    BY <1>4, <2>1 DEF Waits
<1> QED
  BY <1>3, <1>4

LEMMA OpenedRow ==
    ASSUME NEW row \in RowRecord, NEW open \in {"no", "yes"}, NEW c, Reads(row, c)
    PROVE  Reads([row EXCEPT !.open = open], c)
<1>1. /\ [row EXCEPT !.open = open] \in RowRecord
      /\ [row EXCEPT !.open = open].scores = row.scores
      /\ [row EXCEPT !.open = open].asked = row.asked
  BY DEF RowRecord
<1> QED
  BY <1>1 DEF Reads

LEMMA ClientNow ==
    ASSUME PanelInv, NEW p \in Pdas, rows[p] # Unmounted
    PROVE  /\ client \in Clients
           /\ rows[p] \in RowRecord /\ Reads(rows[p], client)
           /\ p \in DOMAIN campaigns
<1>1. Reads(rows[p], client) /\ p \in DOMAIN campaigns
  BY DEF PanelInv, RowsInv
<1>2. client > 0 /\ client \in 0 .. MaxClients
  BY <1>1 DEF PanelInv, ClientFirst, PanelTypeOK
<1>3. client \in Clients
  BY <1>2 DEF Clients
<1> QED
  BY <1>1, <1>3 DEF Reads

\* Handshakes and loads that start take all rows away.
LEMMA LoadStarts ==
    ASSUME PanelInv, NEW c \in Clients, StartLoad(c),
           client' \in Clients, connected' \in BOOLEAN, events' \in 0 .. MaxEvents,
           UNCHANGED <<campaigns, view, due>>
    PROVE  PanelInv'
<1>1. LoadedType(campaigns')
  BY PanelTyped DEF PanelInv
<1>2. /\ loading' = TRUE
      /\ loads' = [loads EXCEPT ![c] = loads[c] + 1]
      /\ Render(rows)
  BY DEF StartLoad
<1>3. /\ rows' \in [Pdas -> RowRecord \cup {Unmounted}]
      /\ \A p \in Pdas : rows'[p] = Unmounted
  BY <1>1, <1>2, RenderBusy
<1>4. client' > 0 /\ client' \in 0 .. MaxClients
  <2>1. client' \in 1 .. MaxClients
    BY DEF Clients
  <2> QED
    BY <2>1
<1>5. loads' \in [Clients -> Nat]
  BY <1>2 DEF PanelInv, PanelTypeOK
<1>6. RowsInv'
  BY <1>3 DEF RowsInv, Waits
<1>7. ClientFirst'
  BY <1>4 DEF ClientFirst
<1>8. PanelTypeOK'
  BY <1>1, <1>2, <1>3, <1>4, <1>5, PanelTyped DEF PanelInv, PanelTypeOK, LoadedType, Loaded
<1> QED
  BY <1>6, <1>7, <1>8 DEF PanelInv

LEMMA ConnectsStep ==
    ASSUME PanelInv, Connects
    PROVE  PanelInv'
<1>1. client + 1 \in Clients
  <2>1. client \in 0 .. MaxClients /\ client < MaxClients
    BY DEF PanelInv, PanelTypeOK, Connects
  <2>2. MaxClients \in Nat
    BY PanelAssumption, Zenon
  <2> QED
    BY <2>1, <2>2 DEF Clients
<1>2. events' \in 0 .. MaxEvents
  BY DEF Connects, PanelInv, PanelTypeOK
<1> QED
  BY <1>1, <1>2, LoadStarts DEF Connects

LEMMA RefreshStep ==
    ASSUME PanelInv, Refresh
    PROVE  PanelInv'
<1>1. client \in Clients
  BY DEF Refresh, PanelInv, PanelTypeOK, Clients
<1>2. events' \in 0 .. MaxEvents
  <2>1. MaxEvents \in Nat
    BY PanelAssumption, Zenon
  <2> QED
    BY <2>1 DEF Refresh, UserMay, PanelInv, PanelTypeOK
<1>3. connected \in BOOLEAN
  BY DEF PanelInv, PanelTypeOK
<1> QED
  BY <1>1, <1>2, <1>3, LoadStarts DEF Refresh, linkVars

\* A step that renders rows which go on as they were.
LEMMA RendersRows ==
    ASSUME PanelInv, Render(rows), LoadedType(campaigns'),
           UNCHANGED client,
           DOMAIN campaigns' # {} => client > 0,
           "read" \in due' \/ "read" \notin due
    PROVE  /\ rows' \in [Pdas -> RowRecord \cup {Unmounted}]
           /\ RowsInv'
<1>1. \A p \in Pdas : rows[p] # Unmounted => Reads(rows[p], client)
  BY DEF PanelInv, RowsInv
<1>2. /\ rows' \in [Pdas -> RowRecord \cup {Unmounted}]
      /\ \A p \in Pdas : rows'[p] # Unmounted =>
            Reads(rows'[p], client) /\ p \in DOMAIN campaigns'
      /\ (\A p \in Pdas : Waits(rows[p])) => \A p \in Pdas : Waits(rows'[p])
  BY <1>1, RenderIdle
<1>3. "read" \in due' \/ \A p \in Pdas : Waits(rows'[p])
  BY <1>2 DEF PanelInv, RowsInv
<1> QED
  BY <1>2, <1>3 DEF RowsInv

LEMMA LoadStepInv ==
    ASSUME PanelInv, NEW c \in Clients, LoadStep(c)
    PROVE  PanelInv'
<1>1. /\ loads[c] > 0
      /\ loads' = [loads EXCEPT ![c] = loads[c] - 1]
      /\ loading' = FALSE
      /\ UNCHANGED <<linkVars, view, events>>
      /\ Render(rows)
      /\ due \subseteq due' /\ due' \subseteq due \cup {"read", "clamp"}
  BY DEF LoadStep, LoadFails, LoadOk, LoadOver, Then
<1>2. client > 0
  BY <1>1 DEF PanelInv, ClientFirst
<1>3. LoadedType(campaigns')
  <2>1. CASE \E listing \in Listings : LoadOk(c, listing)
    BY <2>1, ParsedType DEF LoadOk
  <2>2. CASE LoadFails(c)
    BY <2>2, PanelTyped DEF LoadFails, PanelInv
  <2> QED
    BY <2>1, <2>2 DEF LoadStep
<1>4. UNCHANGED client
  BY <1>1 DEF linkVars
<1>5. "read" \in due' \/ "read" \notin due
  BY <1>1
<1>6. /\ rows' \in [Pdas -> RowRecord \cup {Unmounted}]
      /\ RowsInv'
  BY <1>1, <1>2, <1>3, <1>4, <1>5, RendersRows
<1>7. loads' \in [Clients -> Nat]
  BY <1>1 DEF PanelInv, PanelTypeOK
<1>8. ClientFirst'
  BY <1>2, <1>4 DEF ClientFirst
<1>9. /\ client' \in 0 .. MaxClients /\ connected' \in BOOLEAN
      /\ loading' \in BOOLEAN /\ view' \in View /\ events' \in 0 .. MaxEvents
      /\ due' \subseteq {"read", "clamp", "reset"}
  BY <1>1 DEF PanelInv, PanelTypeOK, linkVars
<1>10. PanelTypeOK'
  BY <1>3, <1>6, <1>7, <1>9 DEF PanelTypeOK, LoadedType, Loaded
<1> QED
  BY <1>6, <1>8, <1>10 DEF PanelInv

LEMMA ConnectFailsStep ==
    ASSUME PanelInv, ConnectFails \/ UNCHANGED panelVars
    PROVE  PanelInv'
<1>1. /\ UNCHANGED <<client, loadVars, view, rows, due, events>>
      /\ connected' \in BOOLEAN
  BY DEF ConnectFails, panelVars, linkVars, PanelInv, PanelTypeOK
<1>2. PanelTypeOK'
  BY <1>1 DEF PanelInv, PanelTypeOK, loadVars
<1> QED
  BY <1>1, <1>2 DEF PanelInv, RowsInv, ClientFirst, loadVars

\* A step that changes one row only.
LEMMA OneRow ==
    ASSUME PanelInv, NEW p \in Pdas, NEW row, rows[p] # Unmounted,
           Reads(row, client), Waits(rows[p]) => Waits(row),
           rows' = [rows EXCEPT ![p] = row],
           events' \in 0 .. MaxEvents,
           UNCHANGED <<linkVars, loadVars, view, due>>
    PROVE  PanelInv'
<1>1. \A q \in Pdas : rows'[q] = IF q = p THEN row ELSE rows[q]
  BY DEF PanelInv, PanelTypeOK
<1>2. row \in RowRecord /\ p \in DOMAIN campaigns
  BY ClientNow DEF Reads
<1>3. rows' \in [Pdas -> RowRecord \cup {Unmounted}]
  BY <1>2 DEF PanelInv, PanelTypeOK
<1>4. UNCHANGED <<client, connected, loads, loading, campaigns, view, due>>
  BY DEF linkVars, loadVars
<1>5. \A q \in Pdas : rows'[q] # Unmounted =>
          Reads(rows'[q], client) /\ q \in DOMAIN campaigns
  BY <1>1, <1>2 DEF PanelInv, RowsInv
<1>6. "read" \in due \/ \A q \in Pdas : Waits(rows'[q])
  BY <1>1 DEF PanelInv, RowsInv
<1>7. RowsInv'
  BY <1>4, <1>5, <1>6 DEF RowsInv
<1>8. ClientFirst'
  BY <1>4 DEF PanelInv, ClientFirst
<1>9. PanelTypeOK'
  BY <1>3, <1>4 DEF PanelInv, PanelTypeOK
<1> QED
  BY <1>7, <1>8, <1>9 DEF PanelInv

LEMMA QueryStepInv ==
    ASSUME PanelInv, NEW p \in Pdas, QueryStep(p)
    PROVE  PanelInv'
<1>1. PICK i \in DOMAIN rows[p].asked, list \in Reviews \cup {<<>>} :
          /\ Heard(p, i, [via |-> rows[p].asked[i], list |-> list])
          /\ UNCHANGED <<linkVars, loadVars, view, due, events>>
  BY DEF QueryStep, QueryOk, QueryFails
<1>2. list \in Seq(Nat)
  <2>1. <<>> \in Seq(Nat)
    OBVIOUS
  <2>2. list \in Reviews => list \in Seq(Nat)
    BY ReviewType
  <2> QED
    BY <2>1, <2>2
<1>3. rows[p] # Unmounted
  BY DEF QueryStep
<1>4. client \in Clients /\ rows[p] \in RowRecord /\ Reads(rows[p], client)
  BY <1>3, ClientNow
<1> DEFINE new == [rows[p] EXCEPT
                      !.scores = [via |-> rows[p].asked[i], list |-> list],
                      !.asked = WithoutAt(rows[p].asked, i)]
<1>5. rows' = [rows EXCEPT ![p] = new]
  BY <1>1 DEF Heard
<1>6. Reads(new, client) /\ Waits(new)
  BY <1>2, <1>4, AnsweredRow
<1>7. events' \in 0 .. MaxEvents
  BY <1>1 DEF PanelInv, PanelTypeOK
<1> HIDE DEF new
<1> QED
  BY <1>1, <1>3, <1>5, <1>6, <1>7, OneRow

LEMMA EventsType ==
    ASSUME PanelInv, UserMay
    PROVE  events' \in 0 .. MaxEvents /\ due = {}
<1>1. MaxEvents \in Nat
  BY PanelAssumption, Zenon
<1> QED
  BY <1>1 DEF UserMay, PanelInv, PanelTypeOK

LEMMA RowClicked ==
    ASSUME PanelInv, NEW p \in Pdas, OpenRow(p) \/ CloseRow(p)
    PROVE  PanelInv'
<1>1. rows[p] # Unmounted /\ UserMay /\ UNCHANGED <<linkVars, loadVars, view, due>>
  BY DEF OpenRow, CloseRow
<1>2. client \in Clients /\ rows[p] \in RowRecord /\ Reads(rows[p], client)
  BY <1>1, ClientNow
<1>3. events' \in 0 .. MaxEvents
  BY <1>1, EventsType
<1>4. CASE OpenRow(p)
  <2> DEFINE open == [rows[p] EXCEPT !.open = "yes"]
             new == Asking(open)
  <2>1. Reads(open, client)
    BY <1>2, OpenedRow
  <2>2. Reads(new, client) /\ Waits(new)
    <3> HIDE DEF open
    <3>1. open \in RowRecord
      BY <2>1 DEF Reads
    <3> QED
      BY <1>2, <2>1, <3>1, AskingRow
  <2>3. rows' = [rows EXCEPT ![p] = new]
    BY <1>4 DEF OpenRow
  <2> HIDE DEF new
  <2> QED
    BY <1>1, <1>3, <2>2, <2>3, OneRow
<1>5. CASE CloseRow(p)
  <2> DEFINE new == [rows[p] EXCEPT !.open = "no"]
  <2>1. Reads(new, client)
    BY <1>2, OpenedRow
  <2>2. Waits(new)
    BY <1>2 DEF Waits, RowRecord
  <2>3. rows' = [rows EXCEPT ![p] = new]
    BY <1>5 DEF CloseRow
  <2> HIDE DEF new
  <2> QED
    BY <1>1, <1>3, <2>1, <2>2, <2>3, OneRow
<1> QED
  BY <1>4, <1>5

\* A step that changes the view, the effects due and what is rendered.
LEMMA ViewStep ==
    ASSUME PanelInv, UNCHANGED <<linkVars, loadVars>>,
           view' \in View, due' \subseteq {"read", "clamp", "reset"},
           events' \in 0 .. MaxEvents,
           rows' \in [Pdas -> RowRecord \cup {Unmounted}],
           RowsInv'
    PROVE  PanelInv'
<1>1. UNCHANGED <<client, connected, loads, loading, campaigns>>
  BY DEF linkVars, loadVars
<1>2. ClientFirst'
  BY <1>1 DEF PanelInv, ClientFirst
<1>3. PanelTypeOK'
  BY <1>1 DEF PanelInv, PanelTypeOK
<1> QED
  BY <1>2, <1>3 DEF PanelInv

LEMMA LookStep ==
    ASSUME PanelInv, NEW v \in View, NEW effects \in SUBSET {"reset"},
           Look(v, effects)
    PROVE  PanelInv'
<1>1. /\ UNCHANGED <<linkVars, loadVars>> /\ view' = v /\ Render(rows)
      /\ due' \subseteq due \cup effects \cup {"clamp"}
      /\ UserMay
  BY DEF Look, Then
<1>2. events' \in 0 .. MaxEvents /\ due = {}
  BY <1>1, EventsType
<1>3. LoadedType(campaigns') /\ UNCHANGED <<client, campaigns>>
  BY <1>1, PanelTyped DEF PanelInv, loadVars, linkVars
<1>4. "read" \notin due
  BY <1>2
<1>5. DOMAIN campaigns' # {} => client > 0
  BY <1>3 DEF PanelInv, ClientFirst
<1>6. /\ rows' \in [Pdas -> RowRecord \cup {Unmounted}]
      /\ RowsInv'
  BY <1>1, <1>3, <1>4, <1>5, RendersRows
<1> QED
  BY <1>1, <1>2, <1>6, ViewStep

LEMMA RunEffectsStep ==
    ASSUME PanelInv, RunEffects
    PROVE  PanelInv'
<1> DEFINE old == [p \in Pdas |-> IF "read" \in due THEN Asking(rows[p]) ELSE rows[p]]
           page == IF "reset" \in due THEN 1
                   ELSE IF "clamp" \in due THEN PageClamped(view, campaigns)
                   ELSE view.page
<1>1. /\ view' = [view EXCEPT !.page = page] /\ due' = {}
      /\ UNCHANGED <<linkVars, loadVars, events>> /\ Render(old)
  BY DEF RunEffects
<1>2. view \in View /\ LoadedType(campaigns)
  BY PanelTyped DEF PanelInv
<1>3. page \in Nat \ {0}
  BY <1>2, PageType DEF View
<1>4. view' \in View
  <2> DEFINE pages == Nat \ {0}
  <2>1. page \in pages
    BY <1>3
  <2> HIDE DEF pages, page
  <2> QED
    BY <1>1, <1>2, <2>1 DEF View, pages
<1>5. ASSUME NEW p \in Pdas
      PROVE  /\ old[p] # Unmounted => Reads(old[p], client)
             /\ Waits(old[p])
  <2>1. CASE rows[p] = Unmounted
    <3>1. old[p] = Unmounted
      BY <2>1 DEF Asking
    <3> QED
      BY <3>1 DEF Waits
  <2>2. CASE rows[p] # Unmounted
    <3>1. client \in Clients /\ rows[p] \in RowRecord /\ Reads(rows[p], client)
      BY <2>2, ClientNow
    <3>2. CASE "read" \in due
      <4>1. old[p] = Asking(rows[p])
        BY <3>2
      <4> QED
        BY <3>1, <4>1, AskingRow
    <3>3. CASE "read" \notin due
      <4>1. old[p] = rows[p] /\ Waits(rows[p])
        BY <3>3 DEF PanelInv, RowsInv
      <4> QED
        BY <3>1, <4>1
    <3> QED
      BY <3>2, <3>3
  <2> QED
    BY <2>1, <2>2
<1> HIDE DEF old
<1>6. LoadedType(campaigns') /\ UNCHANGED <<client, campaigns>>
  BY <1>1, <1>2 DEF loadVars, linkVars
<1>7. /\ rows' \in [Pdas -> RowRecord \cup {Unmounted}]
      /\ \A p \in Pdas : rows'[p] # Unmounted =>
            Reads(rows'[p], client) /\ p \in DOMAIN campaigns'
      /\ \A p \in Pdas : Waits(rows'[p])
  BY <1>1, <1>5, <1>6, RenderIdle
<1>8. RowsInv'
  BY <1>6, <1>7 DEF RowsInv
<1>9. events' \in 0 .. MaxEvents /\ due' \subseteq {"read", "clamp", "reset"}
  BY <1>1 DEF PanelInv, PanelTypeOK
<1> QED
  BY <1>1, <1>4, <1>7, <1>8, <1>9, ViewStep

LEMMA RevisitStep ==
    ASSUME PanelInv, Revisit
    PROVE  PanelInv'
<1> DEFINE old == [p \in Pdas |-> Unmounted]
<1>1. /\ UserMay /\ view' = NewView /\ due' = {}
      /\ UNCHANGED <<linkVars, loadVars>> /\ Render(old)
  BY DEF Revisit
<1>2. LoadedType(campaigns') /\ UNCHANGED <<client, campaigns>>
  BY <1>1, PanelTyped DEF PanelInv, loadVars, linkVars
<1>3. \A p \in Pdas : old[p] = Unmounted /\ Waits(old[p])
  BY DEF Waits
<1> HIDE DEF old
<1>4. /\ rows' \in [Pdas -> RowRecord \cup {Unmounted}]
      /\ \A p \in Pdas : rows'[p] # Unmounted =>
            Reads(rows'[p], client) /\ p \in DOMAIN campaigns'
      /\ \A p \in Pdas : Waits(rows'[p])
  BY <1>1, <1>2, <1>3, RenderIdle
<1>5. RowsInv'
  BY <1>2, <1>4 DEF RowsInv
<1> QED
  BY <1>1, <1>4, <1>5, EventsType, NewViewType, ViewStep

LEMMA EditEndpointStep ==
    ASSUME PanelInv, EditEndpoint
    PROVE  PanelInv'
<1>1. /\ UserMay /\ due' = {"read"}
      /\ UNCHANGED <<linkVars, loadVars, view, rows>>
  BY DEF EditEndpoint
<1>2. RowsInv'
  BY <1>1 DEF PanelInv, RowsInv, linkVars, loadVars
<1>3. view' \in View /\ rows' \in [Pdas -> RowRecord \cup {Unmounted}]
  BY <1>1 DEF PanelInv, PanelTypeOK
<1> QED
  BY <1>1, <1>2, <1>3, EventsType, ViewStep

LEMMA ControlsStep ==
    ASSUME PanelInv, Controls
    PROVE  PanelInv'
<1>1. view \in View /\ LoadedType(campaigns)
  BY PanelTyped DEF PanelInv
<1> DEFINE pages == Nat \ {0}
<1>2. View = [query : Queries, statusFilter : Statuses \cup {"all"},
              modeFilter : Modes \cup {"all"}, sortBy : SortOptions,
              pageSize : PageSizes, page : pages, collapsed : SUBSET Statuses]
  BY DEF View
<1> HIDE DEF pages
<1>3. ASSUME NEW query \in Queries, Search(query)
      PROVE  PanelInv'
  BY <1>1, <1>2, <1>3, LookStep DEF Search
<1>4. ASSUME NEW status \in Statuses \cup {"all"}, FilterStatus(status)
      PROVE  PanelInv'
  BY <1>1, <1>2, <1>4, LookStep DEF FilterStatus
<1>5. ASSUME NEW mode \in Modes \cup {"all"}, FilterMode(mode)
      PROVE  PanelInv'
  BY <1>1, <1>2, <1>5, LookStep DEF FilterMode
<1>6. ASSUME NEW option \in SortOptions, SortBy(option)
      PROVE  PanelInv'
  BY <1>1, <1>2, <1>6, LookStep DEF SortBy
<1>7. ASSUME NEW size \in PageSizes, SetPageSize(size)
      PROVE  PanelInv'
  BY <1>1, <1>2, <1>7, LookStep DEF SetPageSize
<1>8. ASSUME ResetFilters
      PROVE  PanelInv'
  <2> DEFINE v == [view EXCEPT !.query = "", !.statusFilter = "all",
                               !.modeFilter = "all", !.sortBy = "campaign_newest"]
  <2>1. v \in View
    BY <1>1, <1>2, EmptyQuery DEF SortOptions
  <2> QED
    BY <1>8, <2>1, LookStep DEF ResetFilters
<1>9. ASSUME NEW n \in 1 .. TotalPages(view, campaigns), GoToPage(n)
      PROVE  PanelInv'
  <2>1. TotalPages(view, campaigns) \in Nat \ {0}
    BY <1>1, PageType
  <2>2. n \in pages
    BY <2>1 DEF pages
  <2>3. PICK m \in pages : m = n
    BY <2>2
  <2>4. [view EXCEPT !.page = m] \in View
    BY <1>1, <1>2
  <2> QED
    BY <1>9, <2>3, <2>4, LookStep DEF GoToPage
<1>10. ASSUME NEW status \in Statuses, ToggleGroup(status)
       PROVE  PanelInv'
  <2> DEFINE collapsed == IF status \in view.collapsed
                          THEN view.collapsed \ {status}
                          ELSE view.collapsed \cup {status}
  <2>1. collapsed \in SUBSET Statuses
    BY <1>1, <1>2
  <2> HIDE DEF collapsed
  <2>2. [view EXCEPT !.collapsed = collapsed] \in View
    BY <1>1, <1>2, <2>1
  <2>3. Look([view EXCEPT !.collapsed = collapsed], {})
    BY <1>10 DEF ToggleGroup, collapsed
  <2> QED
    BY <2>2, <2>3, LookStep
<1> QED
  BY <1>3, <1>4, <1>5, <1>6, <1>7, <1>8, <1>9, <1>10 DEF Controls

-----------------------------------------------------------------------------
(* Theorems *)

LEMMA PanelInvInit == PanelInit => PanelInv
<1> SUFFICES ASSUME PanelInit PROVE PanelInv
  OBVIOUS
<1>1. client \in 0 .. MaxClients /\ events \in 0 .. MaxEvents
  <2>1. MaxClients \in Nat
    BY PanelAssumption, Zenon
  <2>2. MaxEvents \in Nat
    BY PanelAssumption, Zenon
  <2> QED
    BY <2>1, <2>2 DEF PanelInit
<1>2. LoadedType(campaigns) /\ DOMAIN campaigns = {}
  BY DEF PanelInit, LoadedType
<1>3. rows \in [Pdas -> RowRecord \cup {Unmounted}]
  BY DEF PanelInit
<1>4. PanelTypeOK
  BY <1>1, <1>2, <1>3, NewViewType, PanelTyped DEF PanelInit
<1>5. RowsInv
  BY DEF PanelInit, RowsInv, Waits
<1>6. ClientFirst
  BY <1>2 DEF PanelInit, ClientFirst
<1> QED
  BY <1>4, <1>5, <1>6 DEF PanelInv

LEMMA PanelInvStep == PanelInv /\ [PanelNext]_panelVars => PanelInv'
BY ConnectsStep, ConnectFailsStep, LoadStepInv, QueryStepInv, RunEffectsStep,
   RefreshStep, EditEndpointStep, RevisitStep, ControlsStep, RowClicked
   DEF PanelNext

LEMMA PanelInvHolds == PanelSpec => []PanelInv
BY PanelInvInit, PanelInvStep, PTL DEF PanelSpec

\* The panel keeps its shape: pages are positive, rows belong to a group,
\* campaigns are those of the listing, whatever accounts the endpoint lists.
THEOREM PanelTypeCorrect == PanelSpec => []PanelTypeOK
<1>1. PanelInv => PanelTypeOK
  BY DEF PanelInv
<1> QED
  BY <1>1, PanelInvHolds, PTL

\* No row shows, or will show, scores that were read through another client
\* than the one in use, however loads, queries, handshakes and clicks overlap.
THEOREM ScoresAreAlwaysOfTheClient == PanelSpec => []ScoresAreOfTheClient
<1>1. PanelInv => ScoresAreOfTheClient
  BY DEF PanelInv, RowsInv, Reads, ScoresAreOfTheClient
<1> QED
  BY <1>1, PanelInvHolds, PTL

\* A row says "Loading" only while it waits for an answer or its effect is due.
THEOREM LoadingIsAlwaysForAnAnswer == PanelSpec => []LoadingIsForAnAnswer
<1>1. PanelInv => LoadingIsForAnAnswer
  BY DEF PanelInv, RowsInv, Waits, LoadingIsForAnAnswer
<1> QED
  BY <1>1, PanelInvHolds, PTL

-----------------------------------------------------------------------------
(* Pages *)

\* Integer division, as the provers need it.
LEMMA QuotientIs ==
    ASSUME NEW i \in Int, NEW s \in Nat \ {0}, NEW k \in Int,
           k * s <= i, i < (k + 1) * s
    PROVE  i \div s = k
<1>1. PICK q \in Int : q = i \div s
  OBVIOUS
<1>2. q * s <= i /\ i < (q + 1) * s
  BY <1>1
<1>3. k * s < (q + 1) * s /\ q * s < (k + 1) * s
  BY <1>2
<1>4. k < q + 1
  BY <1>3
<1>5. q < k + 1
  BY <1>3
<1> QED
  BY <1>1, <1>4, <1>5

LEMMA QuotientBounds ==
    ASSUME NEW i \in Int, NEW s \in Nat \ {0}
    PROVE  /\ i \div s \in Int
           /\ (i \div s) * s <= i /\ i < ((i \div s) + 1) * s
OBVIOUS

LEMMA FilteredType ==
    ASSUME NEW v, NEW cs, LoadedType(cs)
    PROVE  /\ Filtered(v, cs) \subseteq Pdas
           /\ IsFiniteSet(Filtered(v, cs))
           /\ Cardinality(Filtered(v, cs)) \in Nat
<1>1. Filtered(v, cs) \in SUBSET Pdas
  BY DEF Filtered, LoadedType
<1> QED
  BY <1>1, FinitelyMany, FS_Subset, FS_CardinalityType

LEMMA Numbers ==
    \A p \in Pdas : /\ p \in Nat /\ CampaignId[p] \in Nat
                    /\ DeadlineUnix[p] \in Int /\ Amount[p] \in Nat
<1>1. /\ Pdas \subseteq Nat /\ CampaignId \in [Pdas -> Nat]
      /\ DeadlineUnix \in [Pdas -> Int] /\ Amount \in [Pdas -> Nat]
  BY PanelAssumption, Zenon
<1> QED
  BY <1>1

\* The order on the page is a strict total order.
LEMMA TotalOrder ==
    ASSUME NEW sortBy, NEW p \in Pdas, NEW q \in Pdas, NEW r \in Pdas
    PROVE  /\ ~ Before(sortBy, p, p)
           /\ Before(sortBy, p, q) /\ Before(sortBy, q, r) => Before(sortBy, p, r)
           /\ p # q => Before(sortBy, p, q) \/ Before(sortBy, q, p)
<1>1. \A x \in Pdas : Rank(sortBy, x) \in Int
  BY Numbers DEF Rank
<1>2. \A x \in Pdas : x \in Nat /\ CampaignId[x] \in Nat
  BY Numbers
<1> QED
  BY <1>1, <1>2 DEF Before, LoadedBefore

Ahead(v, cs, p) == {q \in Filtered(v, cs) : Before(v.sortBy, q, p)}

LEMMA PositionGrows ==
    ASSUME NEW v, NEW cs, LoadedType(cs),
           NEW p \in Filtered(v, cs), NEW q \in Filtered(v, cs),
           Before(v.sortBy, p, q)
    PROVE  Position(v, cs, p) # Position(v, cs, q)
<1>1. Ahead(v, cs, p) \in SUBSET Ahead(v, cs, q)
  BY FilteredType, TotalOrder DEF Ahead
<1>2. p \in Ahead(v, cs, q) /\ p \notin Ahead(v, cs, p)
  BY FilteredType, TotalOrder DEF Ahead
<1>3. IsFiniteSet(Ahead(v, cs, q))
  <2>1. Ahead(v, cs, q) \in SUBSET Filtered(v, cs)
    BY DEF Ahead
  <2> QED
    BY <2>1, FilteredType, FS_Subset
<1>4. Cardinality(Ahead(v, cs, p)) # Cardinality(Ahead(v, cs, q))
  BY <1>1, <1>2, <1>3, FS_Subset
<1> QED
  BY <1>4 DEF Position, Ahead

LEMMA PositionType ==
    ASSUME NEW v, NEW cs, LoadedType(cs), NEW p \in Filtered(v, cs)
    PROVE  Position(v, cs, p) \in 0 .. Cardinality(Filtered(v, cs)) - 1
<1> DEFINE F == Filtered(v, cs)
<1>1. Ahead(v, cs, p) \in SUBSET (F \ {p})
  BY FilteredType, TotalOrder DEF Ahead
<1>2. IsFiniteSet(F \ {p}) /\ Cardinality(F \ {p}) = Cardinality(F) - 1
  BY FilteredType, FS_RemoveElement
<1>3. /\ IsFiniteSet(Ahead(v, cs, p))
      /\ Cardinality(Ahead(v, cs, p)) <= Cardinality(F) - 1
  BY <1>1, <1>2, FS_Subset
<1>4. Cardinality(Ahead(v, cs, p)) \in Nat /\ Cardinality(F) \in Nat
  BY <1>3, FS_CardinalityType, FilteredType
<1>5. Cardinality(Ahead(v, cs, p)) \in 0 .. Cardinality(F) - 1
  BY <1>3, <1>4
<1> QED
  BY <1>5 DEF Position, Ahead

\* The positions of the campaigns that pass the filters have no gap.
LEMMA EveryPosition ==
    ASSUME NEW v, NEW cs, LoadedType(cs),
           NEW i \in 0 .. Cardinality(Filtered(v, cs)) - 1
    PROVE  \E p \in Filtered(v, cs) : Position(v, cs, p) = i
<1> DEFINE F == Filtered(v, cs)
           N == Cardinality(F)
           f == [p \in F |-> Position(v, cs, p)]
<1>1. IsFiniteSet(F) /\ N \in Nat /\ F \subseteq Pdas
  BY FilteredType
<1>2. f \in [F -> 0 .. N - 1]
  BY PositionType
<1>3. ASSUME NEW p \in F, NEW q \in F, p # q
      PROVE  f[p] # f[q]
  BY <1>1, <1>3, TotalOrder, PositionGrows
<1> HIDE DEF f, F
<1>4. f \in Injection(F, 0 .. N - 1)
  BY <1>2, <1>3 DEF Injection, IsInjective
<1>5. IsFiniteSet(0 .. N - 1) /\ Cardinality(0 .. N - 1) = N
  <2>1. PICK b \in Int : b = N - 1
    BY <1>1
  <2>2. IsFiniteSet(0 .. b) /\ Cardinality(0 .. b) = IF 0 > b THEN 0 ELSE b - 0 + 1
    BY FS_Interval
  <2>. QED
    BY <1>1, <2>1, <2>2
<1>6. f \in Surjection(F, 0 .. N - 1)
  BY <1>4, <1>5, FS_Injection
<1>7. \E p \in F : f[p] = i
  BY <1>6 DEF Surjection, F
<1> QED
  BY <1>7 DEF f, F

LEMMA PagesEnough ==
    ASSUME NEW N \in Nat, NEW s \in Nat \ {0}, NEW k \in Nat
    PROVE  k * s < N <=> k + 1 <= (N + s - 1) \div s
<1>1. PICK q \in Int : q = (N + s - 1) \div s
  OBVIOUS
<1>2. q * s <= N + s - 1 /\ N + s - 1 < (q + 1) * s
  BY <1>1
<1>3. ASSUME k * s < N PROVE k + 1 <= q
  <2>1. (k + 1) * s < (q + 1) * s
    BY <1>2, <1>3
  <2> QED
    BY <2>1
<1>4. ASSUME k + 1 <= q PROVE k * s < N
  <2>1. (k + 1) * s <= q * s
    BY <1>4
  <2> QED
    BY <1>2, <2>1
<1> QED
  BY <1>1, <1>3, <1>4

\* Every campaign that passes the filters is on one page, every page has one.
LEMMA PagesPartition ==
    ASSUME NEW v \in View, NEW cs, LoadedType(cs)
    PROVE  /\ \A p \in Filtered(v, cs) :
                 Cardinality({n \in 1 .. TotalPages(v, cs) :
                                  p \in OnPage(v, cs, n)}) = 1
           /\ Filtered(v, cs) # {} =>
                 \A n \in 1 .. TotalPages(v, cs) : OnPage(v, cs, n) # {}
<1> DEFINE F == Filtered(v, cs)
           N == Cardinality(F)
           s == v.pageSize
<1>1. IsFiniteSet(F) /\ N \in Nat
  BY FilteredType
<1>2. s \in Nat \ {0}
  BY Sizes DEF View
<1>3. TotalPages(v, cs) \in Nat \ {0}
  BY PageType
<1>4. \A k \in Nat : k * s < N => k + 1 <= TotalPages(v, cs)
  <2> TAKE k \in Nat
  <2> HAVE k * s < N
  <2>1. PICK q \in Int : q = (N + s - 1) \div s
    BY <1>1, <1>2
  <2>2. k + 1 <= q
    BY <1>1, <1>2, <2>1, PagesEnough
  <2>3. TotalPages(v, cs) = IF q > 1 THEN q ELSE 1
    BY <2>1 DEF TotalPages
  <2> QED
    BY <2>2, <2>3
<1>5. N > 0 => \A k \in Nat : k + 1 <= TotalPages(v, cs) => k * s < N
  <2> HAVE N > 0
  <2> TAKE k \in Nat
  <2> HAVE k + 1 <= TotalPages(v, cs)
  <2>1. PICK q \in Int : q = (N + s - 1) \div s
    BY <1>1, <1>2
  <2>2. TotalPages(v, cs) = IF q > 1 THEN q ELSE 1
    BY <2>1 DEF TotalPages
  <2>3. k + 1 <= q \/ k = 0
    BY <2>2
  <2> QED
    BY <1>1, <1>2, <2>1, <2>3, PagesEnough
<1>6. ASSUME NEW p \in F
      PROVE  Cardinality({n \in 1 .. TotalPages(v, cs) : p \in OnPage(v, cs, n)}) = 1
  <2> DEFINE i == Position(v, cs, p)
  <2>1. i \in Nat /\ i < N
    <3>1. i \in 0 .. N - 1
      BY <1>6, PositionType
    <3> QED
      BY <1>1, <3>1
  <2>2. PICK k \in Int : k = i \div s
    BY <1>2, <2>1
  <2>3. k * s <= i /\ i < (k + 1) * s
    BY <1>2, <2>1, <2>2
  <2>4. k \in Nat
    BY <1>2, <2>1, <2>3
  <2>5. k * s < N
    BY <1>1, <1>2, <2>1, <2>3, <2>4
  <2>6. k + 1 \in 1 .. TotalPages(v, cs)
    BY <1>3, <1>4, <2>4, <2>5
  <2>7. \A n \in 1 .. TotalPages(v, cs) : p \in OnPage(v, cs, n) <=> n = k + 1
    <3>1. \A n : p \in OnPage(v, cs, n) <=> k = n - 1
      BY <1>6, <2>2 DEF OnPage
    <3> QED
      BY <1>3, <2>4, <3>1
  <2>8. {n \in 1 .. TotalPages(v, cs) : p \in OnPage(v, cs, n)} = {k + 1}
    BY <2>6, <2>7
  <2> QED
    BY <2>8, FS_Singleton
<1>7. ASSUME F # {}, NEW n \in 1 .. TotalPages(v, cs)
      PROVE  OnPage(v, cs, n) # {}
  <2>1. N > 0
    BY <1>1, <1>7, FS_EmptySet
  <2>2. n - 1 \in Nat /\ (n - 1) + 1 <= TotalPages(v, cs)
    BY <1>3, <1>7
  <2>3. (n - 1) * s < N
    BY <1>5, <2>1, <2>2
  <2>4. PICK i \in Nat : i = (n - 1) * s
    BY <1>2, <2>2
  <2>5. i \in 0 .. N - 1
    BY <1>1, <2>3, <2>4
  <2>6. PICK p \in F : Position(v, cs, p) = i
    BY <2>5, EveryPosition
  <2>7. i \div s = n - 1
    <3>1. i < ((n - 1) + 1) * s
      BY <1>2, <2>2, <2>4
    <3> QED
      BY <1>2, <2>2, <2>4, <3>1, QuotientIs
  <2> QED
    BY <2>6, <2>7 DEF OnPage
<1> QED
  BY <1>6, <1>7

-----------------------------------------------------------------------------
(* The page the panel is on *)

\* It exists, unless an effect that brings the panel back is due.
PageInv ==
    view.page > TotalPages(view, campaigns) => "reset" \in due \/ "clamp" \in due

LEMMA TotalPagesSame ==
    ASSUME NEW v \in View, NEW n, NEW cs
    PROVE  TotalPages([v EXCEPT !.page = n], cs) = TotalPages(v, cs)
<1> DEFINE w == [v EXCEPT !.page = n]
<1>1. /\ w.statusFilter = v.statusFilter /\ w.modeFilter = v.modeFilter
      /\ w.query = v.query /\ w.pageSize = v.pageSize
  BY DEF View
<1> HIDE DEF w
<1>2. Filtered(w, cs) = Filtered(v, cs)
  BY <1>1 DEF Filtered
<1>3. TotalPages(w, cs) = TotalPages(v, cs)
  BY <1>1, <1>2 DEF TotalPages
<1> QED
  BY <1>3 DEF w

\* A change after which the effects of Then are due.
LEMMA PageFollows ==
    ASSUME PageInv, NEW effects, Then(effects),
           "reset" \in effects \/ view'.page = view.page
    PROVE  PageInv'
<1>1. /\ due \subseteq due' /\ effects \subseteq due'
      /\ TotalPages(view', campaigns') # TotalPages(view, campaigns) => "clamp" \in due'
  BY DEF Then
<1>2. CASE "reset" \in effects
  BY <1>1, <1>2 DEF PageInv
<1>3. CASE view'.page = view.page /\ TotalPages(view', campaigns') # TotalPages(view, campaigns)
  BY <1>1, <1>3 DEF PageInv
<1>4. CASE view'.page = view.page /\ TotalPages(view', campaigns') = TotalPages(view, campaigns)
  BY <1>1, <1>4 DEF PageInv
<1> QED
  BY <1>2, <1>3, <1>4

\* A step that leaves the campaigns and what is seen of them alone.
LEMMA PageKeeps ==
    ASSUME PageInv, UNCHANGED <<campaigns, view>>, due \subseteq due'
    PROVE  PageInv'
BY DEF PageInv

LEMMA LoadPage ==
    ASSUME PageInv, NEW c, LoadStep(c)
    PROVE  PageInv'
<1>1. CASE LoadFails(c)
  BY <1>1, PageKeeps DEF LoadFails
<1>2. ASSUME NEW listing \in Listings, LoadOk(c, listing)
      PROVE  PageInv'
  BY <1>2, PageFollows DEF LoadOk
<1> QED
  BY <1>1, <1>2 DEF LoadStep

LEMMA EffectsPage ==
    ASSUME PanelInv, PageInv, RunEffects
    PROVE  PageInv'
<1>1. view \in View /\ LoadedType(campaigns) /\ due \subseteq {"read", "clamp", "reset"}
  BY PanelTyped DEF PanelInv
<1>2. PICK n : /\ view' = [view EXCEPT !.page = n]
               /\ n = IF "reset" \in due THEN 1
                      ELSE IF "clamp" \in due THEN PageClamped(view, campaigns)
                      ELSE view.page
  BY DEF RunEffects
<1>3. view'.page = n
  BY <1>1, <1>2 DEF View
<1>4. UNCHANGED campaigns
  BY DEF RunEffects, loadVars
<1>5. TotalPages(view', campaigns') = TotalPages(view, campaigns)
  BY <1>1, <1>2, <1>4, TotalPagesSame
<1>6. TotalPages(view, campaigns) \in Nat \ {0} /\ view.page \in Nat
  BY <1>1, PageType DEF View
<1>7. ~ (n > TotalPages(view, campaigns))
  BY <1>2, <1>6 DEF PageInv, PageClamped
<1> QED
  BY <1>3, <1>5, <1>7 DEF PageInv

LEMMA RevisitPage ==
    ASSUME PanelInv, Revisit
    PROVE  PageInv'
<1>1. view' = NewView /\ UNCHANGED campaigns
  BY DEF Revisit, loadVars
<1>2. LoadedType(campaigns)
  BY PanelTyped DEF PanelInv
<1>3. TotalPages(NewView, campaigns) \in Nat \ {0}
  BY <1>2, NewViewType, PageType
<1>4. NewView.page = 1
  BY DEF NewView
<1> QED
  BY <1>1, <1>3, <1>4 DEF PageInv

LEMMA ControlsPage ==
    ASSUME PanelInv, PageInv, Controls
    PROVE  PageInv'
<1>1. view \in View /\ LoadedType(campaigns)
  BY PanelTyped DEF PanelInv
<1>2. ASSUME NEW v, Look(v, {"reset"})
      PROVE  PageInv'
  BY <1>2, PageFollows DEF Look
<1>3. ASSUME NEW n \in 1 .. TotalPages(view, campaigns), GoToPage(n)
      PROVE  PageInv'
  <2>1. view' = [view EXCEPT !.page = n] /\ UNCHANGED campaigns
    BY <1>3 DEF GoToPage, Look, loadVars
  <2>2. view'.page = n
    BY <1>1, <2>1 DEF View
  <2>3. TotalPages(view', campaigns') = TotalPages(view, campaigns)
    BY <1>1, <2>1, TotalPagesSame
  <2>4. TotalPages(view, campaigns) \in Nat
    BY <1>1, PageType
  <2>5. ~ (n > TotalPages(view, campaigns))
    BY <1>3, <2>4
  <2> QED
    BY <2>2, <2>3, <2>5 DEF PageInv
<1>4. ASSUME NEW status \in Statuses, ToggleGroup(status)
      PROVE  PageInv'
  <2>1. PICK x : Look([view EXCEPT !.collapsed = x], {})
    BY <1>4 DEF ToggleGroup
  <2>2. view'.page = view.page
    BY <1>1, <2>1 DEF Look, View
  <2> QED
    BY <2>1, <2>2, PageFollows DEF Look
<1> QED
  BY <1>2, <1>3, <1>4
  DEF Controls, Search, FilterStatus, FilterMode, SortBy, SetPageSize, ResetFilters

LEMMA PageInvInit == PanelInit => PageInv
<1> SUFFICES ASSUME PanelInit PROVE PageInv
  OBVIOUS
<1>1. view = NewView /\ LoadedType(campaigns)
  BY DEF PanelInit, LoadedType
<1>2. TotalPages(view, campaigns) \in Nat \ {0} /\ view.page = 1
  BY <1>1, NewViewType, PageType DEF NewView
<1> QED
  BY <1>2 DEF PageInv

LEMMA PageInvStep == PanelInv /\ PageInv /\ [PanelNext]_panelVars => PageInv'
<1> SUFFICES ASSUME PanelInv, PageInv, [PanelNext]_panelVars
             PROVE  PageInv'
  OBVIOUS
<1>1. CASE Connects \/ ConnectFails \/ Refresh \/ UNCHANGED panelVars
  BY <1>1, PageKeeps DEF Connects, ConnectFails, Refresh, panelVars, loadVars
<1>2. ASSUME NEW p \in Pdas, QueryStep(p) \/ OpenRow(p) \/ CloseRow(p)
      PROVE  PageInv'
  BY <1>2, PageKeeps
  DEF QueryStep, QueryOk, QueryFails, OpenRow, CloseRow, loadVars
<1>3. CASE EditEndpoint
  BY <1>3, PageKeeps DEF EditEndpoint, UserMay, loadVars
<1> QED
  BY <1>1, <1>2, <1>3, LoadPage, EffectsPage, RevisitPage, ControlsPage DEF PanelNext

\* Once the effects have run the panel is on a page that exists and that has
\* campaigns if any page has, and no campaign that passes the filters is left
\* out or shown twice, for every number of campaigns and every page size.
THEOREM CampaignsAreAlwaysReachable == PanelSpec => []CampaignsAreReachable
<1>1. PanelInv /\ PageInv => CampaignsAreReachable
  <2> SUFFICES ASSUME PanelInv, PageInv PROVE CampaignsAreReachable
    OBVIOUS
  <2>1. view \in View /\ LoadedType(campaigns)
    BY PanelTyped DEF PanelInv
  <2>2. TotalPages(view, campaigns) \in Nat \ {0} /\ view.page \in Nat \ {0}
    BY <2>1, PageType DEF View
  <2>3. due = {} => view.page \in 1 .. TotalPages(view, campaigns)
    BY <2>2 DEF PageInv
  <2> QED
    BY <2>1, <2>3, PagesPartition DEF CampaignsAreReachable
<1> QED
  BY <1>1, PageInvInit, PageInvStep, PanelInvHolds, PTL DEF PanelSpec

=============================================================================
