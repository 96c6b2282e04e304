-------------------------- MODULE MCCampaignsPanel --------------------------
EXTENDS CampaignsPanel, TLC

MCCampaignId == <<2, 1, 1>>
MCDeadlineUnix == <<5, 5, 4>>
MCAmount == <<1, 2, 2>>

Account(p, status, mode, length) ==
    [pda |-> p, name |-> "Campaign", length |-> length, status |-> status,
     mode |-> mode]

\* Three campaigns, one from before RFQ campaigns; one of them settled since,
\* one not readable, and an account of another kind.
MCListings ==
    {{Account(1, 0, 0, 254), Account(2, 0, 0, 237), Account(3, 0, 1, 254)},
     {Account(1, 1, 0, 254), Account(2, 0, 0, 200),
      [Account(3, 3, 1, 254) EXCEPT !.name = "Other"]}}

MCReviews == {<<>>, <<5150>>}

MCMatching == "" :> {1, 2, 3} @@ "q" :> {3}
=============================================================================
