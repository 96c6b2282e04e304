------------------------ MODULE MCProofOfEngagement ------------------------
(***************************************************************************)
(* A small instance of the on-chain program for TLC.                       *)
(***************************************************************************)
EXTENDS ProofOfEngagement, TLC

CONSTANTS ann, bob, c1, c2

\* Who creates the campaigns, and the tokens the keys start with.
TwoCreators == c1 :> ann @@ c2 :> bob
OneEach == [k \in Keys |-> IF k \in {ann, bob} THEN 1 ELSE 0]

\* The validator lists creators register and pass as arguments: two plain
\* ones, one with a duplicate, an empty one and one longer than MaxValidators.
OddLists == {<<bob>>, <<ann, bob>>, <<bob, bob>>, <<>>, <<ann, bob, ann>>}

\* Every deadline leaves the clock one more tick.
Deadlines12 == {1, 2}

\* Two campaigns side by side are direct ones of one deadline: they share
\* nothing but wallets.  An RFQ, or a second deadline, is one campaign's.  No
\* tick, settlement or refund leads out of this.
TwoIfDirect ==
    \/ campaign[c2] = NoCampaign /\ vset[c2] = << >>
    \/ \A c \in Campaigns : CampaignExists(c) =>
          campaign[c].mode = "direct" /\ campaign[c].deadline_unix = 1
=============================================================================
