---------------------- MODULE ProofOfEngagementProofs ----------------------
(***************************************************************************)
(* Theorems about the on-chain program, for every set of wallets,          *)
(* campaigns, bids, validator lists, amounts and deadlines.                *)
(***************************************************************************)
EXTENDS ProofOfEngagement, FiniteSetTheorems, TLAPS

\* Records of the two account kinds, as the provers need them.
LEMMA AccountFacts ==
    /\ NoCampaign.status = "none"
    /\ NoBid.status = "none"
    /\ NoCampaign \notin CampaignAccount
    /\ NoBid \notin BidAccount
    /\ \A a \in CampaignAccount : a.status # "none"
    /\ \A a \in BidAccount : a.status # "none"
BY DEF NoCampaign, NoBid, CampaignAccount, BidAccount

LEMMA NewCampaignType ==
    ASSUME NEW mode \in {"direct", "rfq"}, NEW executor \in Keys,
           NEW args \in CampaignArgs, NEW rfqDeadline \in Deadlines \cup {0}
    PROVE  NewCampaign(mode, executor, args, rfqDeadline) \in CampaignAccount
<1>1. args.validators \in Seq(Agents)
  BY ArgumentsAssumption DEF CampaignArgs
<1>2. Len(args.validators) \in Nat
  BY <1>1
<1>. QED
  BY <1>2 DEF NewCampaign, CampaignAccount, CampaignArgs

-----------------------------------------------------------------------------
(* Type correctness *)

LEMMA TypeInit == Init => TypeOK
BY KeysAssumption, ClockAssumption
DEF Init, TypeOK, Keys

LEMMA FundEscrowType ==
    ASSUME TypeOK, NEW c \in Campaigns, NEW args \in CampaignArgs,
           NEW registered, MayCreate(c, args, registered),
           FundEscrow(c, args.amount)
    PROVE  /\ wallet' \in [Keys -> Nat]
           /\ escrow' \in [Campaigns -> Nat]
<1>1. args.amount \in Nat
  BY ArgumentsAssumption DEF CampaignArgs
<1>2. CreatorOf[c] \in Keys
  BY KeysAssumption DEF Keys
<1>3. wallet[CreatorOf[c]] - args.amount \in Nat
  BY <1>1, <1>2 DEF TypeOK, MayCreate
<1>. QED
  BY <1>1, <1>2, <1>3 DEF FundEscrow, TypeOK

LEMMA TypeStep == TypeOK /\ [Next]_vars => TypeOK'
<1>. SUFFICES ASSUME TypeOK, [Next]_vars PROVE TypeOK'
  OBVIOUS
<1>1. ASSUME NEW authority \in Agents, InitializeConfig(authority)
      PROVE  TypeOK'
  BY <1>1 DEF InitializeConfig, TypeOK, Keys
<1>2. ASSUME NEW c \in Campaigns, NEW validators \in ValidatorLists,
             CreateValidatorSet(c, validators)
      PROVE  TypeOK'
  BY <1>2 DEF CreateValidatorSet, MayRegister, TypeOK
<1>3. ASSUME NEW c \in Campaigns, NEW args \in CampaignArgs,
             NEW executor \in Keys, CreateCampaign(c, args, executor)
      PROVE  TypeOK'
  <2>1. NewCampaign("direct", executor, args, 0) \in CampaignAccount
    BY NewCampaignType
  <2>2. wallet' \in [Keys -> Nat] /\ escrow' \in [Campaigns -> Nat]
    BY <1>3, FundEscrowType DEF CreateCampaign
  <2>. QED
    BY <1>3, <2>1, <2>2 DEF CreateCampaign, TypeOK
<1>4. ASSUME NEW c \in Campaigns, NEW args \in CampaignArgs,
             NEW rfqDeadline \in Deadlines,
             CreateCampaignRfq(c, args, rfqDeadline)
      PROVE  TypeOK'
  <2>1. NewCampaign("rfq", NoKey, args, rfqDeadline) \in CampaignAccount
    BY NewCampaignType DEF Keys
  <2>2. wallet' \in [Keys -> Nat] /\ escrow' \in [Campaigns -> Nat]
    BY <1>4, FundEscrowType DEF CreateCampaignRfq, MayOpenRfq
  <2>. QED
    BY <1>4, <2>1, <2>2 DEF CreateCampaignRfq, MayOpenRfq, TypeOK
<1>5. ASSUME NEW c \in Campaigns, NEW bidder \in Agents, NEW id \in BidIds,
             NEW amount \in Amounts, SubmitBid(c, bidder, id, amount)
      PROVE  TypeOK'
  <2>1. [status |-> "open", amount |-> amount] \in BidAccount
    BY DEF BidAccount
  <2>. QED
    BY <1>5, <2>1 DEF SubmitBid, MayBid, TypeOK
<1>6. ASSUME NEW c \in Campaigns, NEW bidder \in Agents, NEW id \in BidIds,
             WithdrawBid(c, bidder, id)
      PROVE  TypeOK'
  <2>1. bid[c][bidder][id] \in BidAccount
    BY <1>6, AccountFacts DEF WithdrawBid, MayWithdraw, TypeOK
  <2>2. [bid[c][bidder][id] EXCEPT !.status = "withdrawn"] \in BidAccount
    BY <2>1 DEF BidAccount
  <2>. QED
    BY <1>6, <2>2 DEF WithdrawBid, MayWithdraw, TypeOK
<1>7. ASSUME NEW c \in Campaigns, NEW bidder \in Agents, NEW id \in BidIds,
             AcceptBid(c, bidder, id)
      PROVE  TypeOK'
  <2>1. bid[c][bidder][id] \in BidAccount
    BY <1>7, AccountFacts DEF AcceptBid, MayAccept, TypeOK
  <2>2. [bid[c][bidder][id] EXCEPT !.status = "accepted"] \in BidAccount
    BY <2>1 DEF BidAccount
  <2>3. campaign[c] \in CampaignAccount
    BY <1>7, AccountFacts DEF AcceptBid, MayAccept, AwaitingBid, IsOpen, TypeOK
  <2>4. [campaign[c] EXCEPT !.executor = bidder, !.accepted_bid_id = id]
            \in CampaignAccount
    BY <2>3 DEF CampaignAccount, Keys
  <2>. QED
    BY <1>7, <2>2, <2>4 DEF AcceptBid, MayAccept, TypeOK
<1>8. ASSUME NEW c \in Campaigns, ExpireRfq(c)
      PROVE  TypeOK'
  <2>1. campaign[c] \in CampaignAccount
    BY <1>8, AccountFacts DEF ExpireRfq, MayExpire, AwaitingBid, IsOpen, TypeOK
  <2>2. [campaign[c] EXCEPT !.status = "rfq_expired"] \in CampaignAccount
    BY <2>1 DEF CampaignAccount
  <2>. QED
    BY <1>8, <2>2 DEF ExpireRfq, MayExpire, TypeOK
<1>9. ASSUME NEW c \in Campaigns, NEW validator \in Agents,
             NEW scoreBps \in Scores,
             SubmitValidatorScore(c, validator, scoreBps)
      PROVE  TypeOK'
  BY <1>9 DEF SubmitValidatorScore, MayScore, TypeOK
<1>10. ASSUME NEW c \in Campaigns, NEW used \in SUBSET Agents,
              SettleSuccess(c, used)
       PROVE  TypeOK'
  <2>1. campaign[c] \in CampaignAccount
    BY <1>10, AccountFacts DEF SettleSuccess, MaySettle, IsOpen, TypeOK
  <2>2. [campaign[c] EXCEPT !.status = "settled_success"] \in CampaignAccount
    BY <2>1 DEF CampaignAccount
  <2>3. campaign[c].executor \in Keys
    BY <2>1 DEF CampaignAccount
  <2>. QED
    BY <1>10, <2>2, <2>3 DEF SettleSuccess, MaySettle, TypeOK
<1>11. ASSUME NEW c \in Campaigns, SettleTimeoutRefund(c)
       PROVE  TypeOK'
  <2>1. campaign[c] \in CampaignAccount
    BY <1>11, AccountFacts
    DEF SettleTimeoutRefund, RefundAllowed, IsOpen, TypeOK
  <2>2. [campaign[c] EXCEPT !.status = "settled_refund"] \in CampaignAccount
    BY <2>1 DEF CampaignAccount
  <2>3. CreatorOf[c] \in Keys
    BY KeysAssumption DEF Keys
  <2>. QED
    BY <1>11, <2>2, <2>3 DEF SettleTimeoutRefund, TypeOK
<1>12. ASSUME NEW from \in Agents, NEW c \in Campaigns, NEW amount \in Amounts,
              Donate(from, c, amount)
       PROVE  TypeOK'
  <2>1. amount \in Nat /\ from \in Keys
    BY ArgumentsAssumption DEF Keys
  <2>2. wallet[from] - amount \in Nat /\ escrow[c] + amount \in Nat
    BY <1>12, <2>1 DEF Donate, TypeOK
  <2>. QED
    BY <1>12, <2>1, <2>2 DEF Donate, TypeOK
<1>13. CASE Tick
  BY <1>13, ClockAssumption DEF Tick, TypeOK
<1>14. CASE UNCHANGED vars
  BY <1>14 DEF vars, TypeOK
<1>. QED
  BY <1>1, <1>2, <1>3, <1>4, <1>5, <1>6, <1>7, <1>8, <1>9, <1>10, <1>11,
     <1>12, <1>13, <1>14
  DEF Next, CampaignSetup, Bidding, Settlement

\* Every reachable state is well typed: no instruction overdraws a token
\* account, or writes a field outside its range.
THEOREM TypeCorrect == Spec => []TypeOK
<1>. QED
  BY TypeInit, TypeStep, PTL DEF Spec

-----------------------------------------------------------------------------
(* The inductive invariant *)

LEMMA InvariantInit == Init => InductiveInvariant
<1>. SUFFICES ASSUME Init PROVE InductiveInvariant
  OBVIOUS
<1>1. \A c \in Campaigns : campaign[c] = NoCampaign /\ Scored(c) = {}
  BY DEF Init, Scored
<1>2. \A c \in Campaigns, b \in Agents, i \in BidIds : bid[c][b][i] = NoBid
  BY DEF Init
<1>3. AcceptedBidAgreement
  BY <1>1, <1>2, AccountFacts DEF AcceptedBidAgreement, CampaignExists
<1>. QED
  BY <1>1, <1>3, AccountFacts
  DEF InductiveInvariant, EscrowBacked, Pending, ExpiredAfterWindow,
      NoEarlyRefund, SetIsRegistered, ScoresBelongToValidators,
      PayoutJustified, CampaignExists

\* Whether a payout is justified depends on a campaign's terms, its
\* validators and its scores only.
LEMMA JustifiedFrame ==
    ASSUME NEW d \in Campaigns,
           campaign'[d].mode = campaign[d].mode,
           campaign'[d].executor = campaign[d].executor,
           campaign'[d].threshold_bps = campaign[d].threshold_bps,
           vset'[d] = vset[d], score'[d] = score[d]
    PROVE  Justified(d)' <=> Justified(d)
<1>1. Scored(d)' = Scored(d)
  BY DEF Scored
<1>2. \A v \in Agents : Listed(d, v)' <=> Listed(d, v)
  BY DEF Listed
<1>3. {v \in Scored(d) : Listed(d, v)}' = {v \in Scored(d) : Listed(d, v)}
  BY <1>1, <1>2 DEF Scored
<1>4. \A used \in SUBSET Agents : ThresholdMet(d, used)' <=> ThresholdMet(d, used)
  BY DEF ThresholdMet, ScoreInputs
<1>5. {v \in Scored(d) : Listed(d, v)} \subseteq Agents
  BY DEF Scored
<1>. QED
  BY <1>3, <1>4, <1>5 DEF Justified

LEMMA PayoutFrame ==
    ASSUME PayoutJustified,
           \A d \in Campaigns : campaign'[d].status = "settled_success" =>
               /\ campaign'[d] = campaign[d]
               /\ vset'[d] = vset[d]
               /\ score'[d] = score[d]
    PROVE  PayoutJustified'
<1>. SUFFICES ASSUME NEW d \in Campaigns,
                     campaign'[d].status = "settled_success"
              PROVE  Justified(d)'
  BY DEF PayoutJustified
<1>. QED
  BY JustifiedFrame DEF PayoutJustified

\* Steps that leave the accounts of the campaigns alone keep the parts of
\* the invariant that do not mention the clock or the escrow.
LEMMA FrameStep ==
    ASSUME InductiveInvariant,
           campaign' = campaign, bid' = bid, vset' = vset, score' = score
    PROVE  /\ AcceptedBidAgreement'
           /\ SetIsRegistered'
           /\ ScoresBelongToValidators'
           /\ PayoutJustified'
<1>1. PayoutJustified'
  BY PayoutFrame DEF InductiveInvariant
<1>. QED
  BY <1>1
  DEF InductiveInvariant, AcceptedBidAgreement, SetIsRegistered,
      ScoresBelongToValidators, CampaignExists, Scored, Listed

\* Nothing about a campaign changes when only other campaigns are written.
LEMMA InvariantStep == TypeOK /\ InductiveInvariant /\ [Next]_vars
                           => InductiveInvariant'
<1>. SUFFICES ASSUME TypeOK, InductiveInvariant, [Next]_vars
              PROVE  InductiveInvariant'
  OBVIOUS
<1>. USE AccountFacts
<1>1. ASSUME NEW authority \in Agents, InitializeConfig(authority)
      PROVE  InductiveInvariant'
  BY <1>1, FrameStep
  DEF InitializeConfig, InductiveInvariant, EscrowBacked, Pending,
      ExpiredAfterWindow, NoEarlyRefund
<1>2. ASSUME NEW c \in Campaigns, NEW validators \in ValidatorLists,
             CreateValidatorSet(c, validators)
      PROVE  InductiveInvariant'
  <2>1. ~ CampaignExists(c) /\ Scored(c) = {}
    BY <1>2
      DEF CreateValidatorSet, MayRegister, InductiveInvariant, SetIsRegistered,
          ScoresBelongToValidators
  <2>2. SetIsRegistered' /\ ScoresBelongToValidators'
    BY <1>2, <2>1
    DEF CreateValidatorSet, MayRegister, InductiveInvariant, SetIsRegistered,
        TypeOK, ScoresBelongToValidators, CampaignExists, Listed, Scored
  <2>3. PayoutJustified'
    BY <1>2, <2>1, PayoutFrame
    DEF CreateValidatorSet, MayRegister, InductiveInvariant, TypeOK,
        CampaignExists
  <2>. QED
    BY <1>2, <2>2, <2>3
    DEF CreateValidatorSet, MayRegister, InductiveInvariant, EscrowBacked,
        Pending, AcceptedBidAgreement, ExpiredAfterWindow, NoEarlyRefund,
        CampaignExists
<1>3. ASSUME NEW c \in Campaigns, NEW args \in CampaignArgs,
             NEW executor \in Keys, NEW mode \in {"direct", "rfq"},
             NEW rfqDeadline \in Deadlines \cup {0},
             mode = "rfq" => executor = NoKey,
             MayCreate(c, args, vset[c]),
             FundEscrow(c, args.amount),
             campaign' = [campaign EXCEPT ![c] =
                             NewCampaign(mode, executor, args, rfqDeadline)],
             UNCHANGED <<now, config, vset, bid, score>>
      PROVE  InductiveInvariant'
  <2>1. ~ CampaignExists(c) /\ Scored(c) = {}
    BY <1>3 DEF MayCreate, CampaignExists, InductiveInvariant,
                ScoresBelongToValidators
  <2>2. /\ campaign'[c].status = "open"
        /\ campaign'[c].mode = mode
        /\ campaign'[c].executor = executor
        /\ campaign'[c].amount = args.amount
        /\ CampaignExists(c)'
    BY <1>3 DEF NewCampaign, TypeOK, CampaignExists
  <2>3. \A d \in Campaigns \ {c} : campaign'[d] = campaign[d]
    BY <1>3 DEF TypeOK
  <2>4. args.amount \in Nat
    BY ArgumentsAssumption DEF CampaignArgs
  <2>5. EscrowBacked'
    BY <1>3, <2>2, <2>3, <2>4
    DEF FundEscrow, InductiveInvariant, EscrowBacked, Pending, TypeOK
  <2>6. AcceptedBidAgreement'
    BY <1>3, <2>1, <2>2, <2>3
    DEF InductiveInvariant, AcceptedBidAgreement, CampaignExists
  <2>7. ExpiredAfterWindow' /\ NoEarlyRefund'
    BY <1>3, <2>2, <2>3
    DEF InductiveInvariant, ExpiredAfterWindow, NoEarlyRefund
  <2>8. SetIsRegistered' /\ ScoresBelongToValidators'
    BY <1>3, <2>1, <2>2, <2>3
    DEF MayCreate, InductiveInvariant, SetIsRegistered, CampaignExists,
        ScoresBelongToValidators, Listed, Scored
  <2>9. PayoutJustified'
    BY <1>3, <2>2, <2>3, PayoutFrame DEF InductiveInvariant
  <2>. QED
    BY <2>5, <2>6, <2>7, <2>8, <2>9 DEF InductiveInvariant
<1>4. ASSUME NEW c \in Campaigns, NEW bidder \in Agents, NEW id \in BidIds,
             NEW amount \in Amounts, SubmitBid(c, bidder, id, amount)
      PROVE  InductiveInvariant'
  <2>1. \A d \in Campaigns, b \in Agents, i \in BidIds :
            bid'[d][b][i].status = "accepted" <=>
                bid[d][b][i].status = "accepted"
    BY <1>4 DEF SubmitBid, MayBid, TypeOK
  <2>2. AcceptedBidAgreement'
    BY <1>4, <2>1
    DEF SubmitBid, MayBid, InductiveInvariant, AcceptedBidAgreement,
        CampaignExists
  <2>3. PayoutJustified'
    BY <1>4, PayoutFrame DEF SubmitBid, InductiveInvariant
  <2>. QED
    BY <1>4, <2>2, <2>3
    DEF SubmitBid, InductiveInvariant, EscrowBacked, Pending, ExpiredAfterWindow,
        NoEarlyRefund, SetIsRegistered, ScoresBelongToValidators,
        CampaignExists, Scored, Listed
<1>5. ASSUME NEW c \in Campaigns, NEW bidder \in Agents, NEW id \in BidIds,
             WithdrawBid(c, bidder, id)
      PROVE  InductiveInvariant'
  <2>1. \A d \in Campaigns, b \in Agents, i \in BidIds :
            bid'[d][b][i].status = "accepted" <=>
                bid[d][b][i].status = "accepted"
    BY <1>5 DEF WithdrawBid, MayWithdraw, TypeOK, BidAccount
  <2>2. AcceptedBidAgreement'
    BY <1>5, <2>1
    DEF WithdrawBid, MayWithdraw, InductiveInvariant, AcceptedBidAgreement,
        CampaignExists
  <2>3. PayoutJustified'
    BY <1>5, PayoutFrame DEF WithdrawBid, InductiveInvariant
  <2>. QED
    BY <1>5, <2>2, <2>3
    DEF WithdrawBid, InductiveInvariant, EscrowBacked, Pending, ExpiredAfterWindow,
        NoEarlyRefund, SetIsRegistered, ScoresBelongToValidators,
        CampaignExists, Scored, Listed
<1>6. ASSUME NEW c \in Campaigns, NEW bidder \in Agents, NEW id \in BidIds,
             AcceptBid(c, bidder, id)
      PROVE  InductiveInvariant'
  <2>1. /\ campaign[c] \in CampaignAccount
        /\ campaign[c].status = "open"
        /\ campaign[c].mode = "rfq"
        /\ campaign[c].executor = NoKey
    BY <1>6 DEF AcceptBid, MayAccept, AwaitingBid, IsOpen, TypeOK
  <2>2. campaign'[c] = [campaign[c] EXCEPT !.executor = bidder,
                                          !.accepted_bid_id = id]
    BY <1>6 DEF AcceptBid, MayAccept, TypeOK
  <2>3. /\ campaign'[c].status = "open"
        /\ campaign'[c].mode = "rfq"
        /\ campaign'[c].executor = bidder
        /\ campaign'[c].accepted_bid_id = id
        /\ campaign'[c].amount = campaign[c].amount
    BY <2>1, <2>2 DEF CampaignAccount
  <2>4. \A d \in Campaigns \ {c} : campaign'[d] = campaign[d]
    BY <1>6 DEF AcceptBid, MayAccept, TypeOK
  <2>5. CampaignExists(c) /\ CampaignExists(c)'
    BY <2>1, <2>3 DEF CampaignExists
  <2>6. AcceptedBidAgreement'
    <3>1. \A b \in Agents, i \in BidIds :
              bid[c][b][i].status # "accepted"
      <4>1. {a \in Agents \X BidIds :
                bid[c][a[1]][a[2]].status = "accepted"} = {}
        BY <2>1, <2>5 DEF InductiveInvariant, AcceptedBidAgreement
      <4>2. \A a \in Agents \X BidIds :
                bid[c][a[1]][a[2]].status # "accepted"
        BY <4>1
      <4>3. \A b \in Agents, i \in BidIds :
                <<b, i>> \in Agents \X BidIds
        OBVIOUS
      <4>. QED
        BY <4>2, <4>3
    <3>2. \A b \in Agents, i \in BidIds :
              bid'[c][b][i].status = "accepted" <=> b = bidder /\ i = id
      BY <1>6, <3>1 DEF AcceptBid, MayAccept, TypeOK, BidAccount
    <3>3. \A d \in Campaigns \ {c} : bid'[d] = bid[d]
      BY <1>6 DEF AcceptBid, MayAccept, TypeOK
    <3>4. bidder # NoKey
      BY KeysAssumption
    <3>5. {a \in Agents \X BidIds : bid'[c][a[1]][a[2]].status = "accepted"}
              = {<<bidder, id>>}
      BY <3>2
    <3>6. \A d \in Campaigns \ {c} : CampaignExists(d)' <=> CampaignExists(d)
      BY <2>4 DEF CampaignExists
    <3>. QED
      BY <2>3, <2>4, <2>5, <3>3, <3>4, <3>5, <3>6
      DEF InductiveInvariant, AcceptedBidAgreement
  <2>7. ScoresBelongToValidators' /\ SetIsRegistered'
    <3>1. \A d \in Campaigns : CampaignExists(d)' <=> CampaignExists(d)
      BY <2>4, <2>5 DEF CampaignExists
    <3>2. \A d \in Campaigns : Scored(d)' = Scored(d)
      BY <1>6 DEF AcceptBid, MayAccept, Scored
    <3>3. \A d \in Campaigns, v \in Agents : Listed(d, v)' <=> Listed(d, v)
      BY <1>6 DEF AcceptBid, MayAccept, Listed
    <3>4. \A d \in Campaigns : Scored(d) \subseteq Agents
      BY DEF Scored
    <3>5. SetIsRegistered'
      BY <1>6, <3>1
        DEF AcceptBid, MayAccept, InductiveInvariant, SetIsRegistered
    <3>6. ScoresBelongToValidators'
      BY <3>1, <3>2, <3>3, <3>4
      DEF InductiveInvariant, ScoresBelongToValidators
    <3>. QED
      BY <3>5, <3>6
  <2>8. PayoutJustified'
    BY <1>6, <2>3, <2>4, PayoutFrame DEF AcceptBid, InductiveInvariant
  <2>. QED
    BY <1>6, <2>1, <2>3, <2>4, <2>6, <2>7, <2>8
    DEF AcceptBid, MayAccept, InductiveInvariant, EscrowBacked, Pending,
        ExpiredAfterWindow, NoEarlyRefund
<1>7. ASSUME NEW c \in Campaigns, NEW status \in
                 {"rfq_expired", "settled_success", "settled_refund"},
             Pending(c),
             campaign' = [campaign EXCEPT ![c].status = status],
             UNCHANGED <<now, config, vset, bid, score>>,
             \A d \in Campaigns \ {c} : escrow'[d] = escrow[d],
             status = "rfq_expired" =>
                 ExpireRfq(c) /\ escrow' = escrow,
             status = "settled_success" =>
                 \E used \in SUBSET Agents : SettleSuccess(c, used),
             status = "settled_refund" => SettleTimeoutRefund(c)
      PROVE  InductiveInvariant'
  <2>1. campaign[c] \in CampaignAccount
    BY <1>7 DEF Pending, TypeOK
  <2>2. campaign'[c] = [campaign[c] EXCEPT !.status = status]
    BY <1>7 DEF TypeOK
  <2>3. /\ campaign'[c].status = status
        /\ campaign'[c].mode = campaign[c].mode
        /\ campaign'[c].executor = campaign[c].executor
        /\ campaign'[c].accepted_bid_id = campaign[c].accepted_bid_id
        /\ campaign'[c].amount = campaign[c].amount
        /\ campaign'[c].threshold_bps = campaign[c].threshold_bps
        /\ campaign'[c].deadline_unix = campaign[c].deadline_unix
        /\ campaign'[c].rfq_deadline_unix = campaign[c].rfq_deadline_unix
    BY <2>1, <2>2 DEF CampaignAccount
  <2>4. \A d \in Campaigns \ {c} : campaign'[d] = campaign[d]
    BY <1>7 DEF TypeOK
  <2>5. CampaignExists(c) /\ CampaignExists(c)'
    BY <1>7, <2>1, <2>3 DEF CampaignExists
  <2>6. EscrowBacked'
    BY <1>7, <2>3, <2>4
    DEF InductiveInvariant, EscrowBacked, Pending
  <2>7. AcceptedBidAgreement'
    BY <1>7, <2>3, <2>4, <2>5
    DEF InductiveInvariant, AcceptedBidAgreement, CampaignExists
  <2>8. ExpiredAfterWindow'
    BY <1>7, <2>3, <2>4
    DEF InductiveInvariant, ExpiredAfterWindow, ExpireRfq, MayExpire,
        AwaitingBid
  <2>9. NoEarlyRefund'
    BY <1>7, <2>3, <2>4
    DEF InductiveInvariant, NoEarlyRefund, ExpiredAfterWindow,
        SettleTimeoutRefund, RefundAllowed
  <2>10. SetIsRegistered' /\ ScoresBelongToValidators'
    BY <1>7, <2>4, <2>5
    DEF InductiveInvariant, SetIsRegistered, ScoresBelongToValidators,
        CampaignExists, Scored, Listed
  <2>11. PayoutJustified'
    <3>1. \A d \in Campaigns \ {c} :
              campaign'[d].status = "settled_success" => Justified(d)'
      BY <1>7, <2>4, JustifiedFrame DEF InductiveInvariant, PayoutJustified
    <3>2. ASSUME status = "settled_success" PROVE Justified(c)'
      <4>1. PICK used \in SUBSET Agents : SettleSuccess(c, used)
        BY <1>7, <3>2
      <4>2. used \in SUBSET {v \in Scored(c) : Listed(c, v)}
        BY <4>1
          DEF SettleSuccess, MaySettle, InductiveInvariant,
              ScoresBelongToValidators
      <4>3. Justified(c)
        BY <4>1, <4>2 DEF SettleSuccess, MaySettle, Justified
      <4>. QED
        BY <1>7, <2>3, <4>3, JustifiedFrame
    <3>. QED
      BY <2>3, <3>1, <3>2 DEF PayoutJustified
  <2>. QED
    BY <2>6, <2>7, <2>8, <2>9, <2>10, <2>11 DEF InductiveInvariant
<1>8. ASSUME NEW c \in Campaigns, NEW validator \in Agents,
             NEW scoreBps \in Scores,
             SubmitValidatorScore(c, validator, scoreBps)
      PROVE  InductiveInvariant'
  <2>1. \A d \in Campaigns \ {c} : score'[d] = score[d]
    BY <1>8 DEF SubmitValidatorScore, MayScore, TypeOK
  <2>2. Scored(c)' \subseteq Scored(c) \cup {validator}
    BY <1>8 DEF SubmitValidatorScore, MayScore, TypeOK, Scored
  <2>3. CampaignExists(c) /\ Listed(c, validator)
    BY <1>8 DEF SubmitValidatorScore, MayScore, IsOpen, CampaignExists
  <2>4. ScoresBelongToValidators'
    BY <1>8, <2>1, <2>2, <2>3
    DEF SubmitValidatorScore, MayScore, InductiveInvariant,
        ScoresBelongToValidators, CampaignExists, Listed, Scored
  <2>5. PayoutJustified'
    BY <1>8, <2>1, PayoutFrame
    DEF SubmitValidatorScore, MayScore, IsOpen, InductiveInvariant
  <2>. QED
    BY <1>8, <2>4, <2>5
    DEF SubmitValidatorScore, MayScore, InductiveInvariant, EscrowBacked,
        Pending, AcceptedBidAgreement, ExpiredAfterWindow, NoEarlyRefund,
        SetIsRegistered, CampaignExists
<1>9. ASSUME NEW from \in Agents, NEW c \in Campaigns, NEW amount \in Amounts,
             Donate(from, c, amount)
      PROVE  InductiveInvariant'
  <2>1. EscrowBacked'
    <3>1. amount \in Nat
      BY ArgumentsAssumption
    <3>2. \A d \in Campaigns : escrow'[d] >= escrow[d]
      BY <1>9, <3>1 DEF Donate, TypeOK
    <3>3. \A d \in Campaigns : Pending(d) => campaign[d].amount \in Nat
      BY ArgumentsAssumption DEF Pending, TypeOK, CampaignAccount
    <3>4. \A d \in Campaigns : escrow[d] \in Nat /\ escrow'[d] \in Nat
      BY <1>9, <3>1 DEF Donate, TypeOK
    <3>. QED
      BY <1>9, <3>2, <3>3, <3>4
      DEF Donate, InductiveInvariant, EscrowBacked, Pending
  <2>. QED
    BY <1>9, <2>1, FrameStep
    DEF Donate, InductiveInvariant, ExpiredAfterWindow, NoEarlyRefund
<1>10. CASE Tick
  <2>1. \A d \in Campaigns : CampaignExists(d) =>
            /\ campaign[d].deadline_unix \in Nat
            /\ campaign[d].rfq_deadline_unix \in Nat
    <3>1. Deadlines \subseteq Nat
      BY ClockAssumption
    <3>2. SUFFICES ASSUME NEW d \in Campaigns, CampaignExists(d)
                   PROVE  /\ campaign[d].deadline_unix \in Nat
                          /\ campaign[d].rfq_deadline_unix \in Nat
      OBVIOUS
    <3>3. campaign[d] \in CampaignAccount
      BY <3>2 DEF TypeOK, CampaignExists
    <3>4. /\ campaign[d].deadline_unix \in Deadlines
          /\ campaign[d].rfq_deadline_unix \in Deadlines \cup {0}
      BY <3>3 DEF CampaignAccount
    <3>5. \A time \in Deadlines \cup {0} : time \in Nat
      BY <3>1
    <3>. QED
      BY <3>4, <3>5
  <2>2. now' > now /\ now \in Nat /\ now' \in Nat
    BY <1>10, ClockAssumption DEF Tick, TypeOK
  <2>3. ExpiredAfterWindow' /\ NoEarlyRefund'
    BY <1>10, <2>1, <2>2
    DEF Tick, InductiveInvariant, ExpiredAfterWindow, NoEarlyRefund,
        CampaignExists
  <2>. QED
    BY <1>10, <2>3, FrameStep
    DEF Tick, InductiveInvariant, EscrowBacked, Pending
<1>11. CASE UNCHANGED vars
  BY <1>11, FrameStep
  DEF vars, InductiveInvariant, EscrowBacked, Pending, ExpiredAfterWindow,
      NoEarlyRefund
<1>12. ASSUME NEW c \in Campaigns, CampaignSetup(c)
       PROVE  InductiveInvariant'
  BY <1>2, <1>3, <1>12
  DEF CampaignSetup, CreateCampaign, CreateCampaignRfq, MayOpenRfq, Keys
<1>13. ASSUME NEW c \in Campaigns, Bidding(c)
       PROVE  InductiveInvariant'
  <2>1. CASE ExpireRfq(c)
    BY <1>7, <2>1 DEF ExpireRfq, MayExpire, AwaitingBid, IsOpen, Pending
  <2>. QED
    BY <1>4, <1>5, <1>6, <1>13, <2>1 DEF Bidding
<1>14. ASSUME NEW c \in Campaigns, Settlement(c)
       PROVE  InductiveInvariant'
  <2>1. ASSUME NEW used \in SUBSET Agents, SettleSuccess(c, used)
        PROVE  InductiveInvariant'
    BY <1>7, <2>1 DEF SettleSuccess, MaySettle, IsOpen, Pending, TypeOK
  <2>2. CASE SettleTimeoutRefund(c)
    BY <1>7, <2>2
    DEF SettleTimeoutRefund, RefundAllowed, IsOpen, Pending, TypeOK
  <2>. QED
    BY <1>8, <1>14, <2>1, <2>2 DEF Settlement
<1>. QED
  BY <1>1, <1>9, <1>10, <1>11, <1>12, <1>13, <1>14 DEF Next

\* Every reachable state satisfies the inductive invariant: no interleaving
\* of instructions replaces a validator set, scores as an outsider or breaks
\* the agreement between the campaign, bid and escrow accounts.
THEOREM InvariantHolds == Spec => []InductiveInvariant
<1>. QED
  BY TypeInit, TypeStep, InvariantInit, InvariantStep, PTL DEF Spec

\* A pending campaign's escrow holds what the creator promised.
THEOREM EscrowIsBacked == Spec => []EscrowBacked
<1>1. InductiveInvariant => EscrowBacked
  BY DEF InductiveInvariant
<1>. QED
  BY <1>1, InvariantHolds, PTL

\* Campaign and bid accounts name the same accepted bid, and only one.
THEOREM AcceptedBidAgrees == Spec => []AcceptedBidAgreement
<1>1. InductiveInvariant => AcceptedBidAgreement
  BY DEF InductiveInvariant
<1>. QED
  BY <1>1, InvariantHolds, PTL

\* expire_rfq never hits a campaign whose creator accepted a bid.
THEOREM ExpiryIsExclusive == Spec => []ExpiredRfqHasNoExecutor
<1>1. InductiveInvariant => ExpiredRfqHasNoExecutor
  BY DEF InductiveInvariant, ExpiredAfterWindow, ExpiredRfqHasNoExecutor
<1>. QED
  BY <1>1, InvariantHolds, PTL

\* No refund before the deadline that applies to the campaign.
THEOREM RefundIsTimely == Spec => []NoEarlyRefund
<1>1. InductiveInvariant => NoEarlyRefund
  BY DEF InductiveInvariant
<1>. QED
  BY <1>1, InvariantHolds, PTL

\* An executor was paid only on scores of listed validators that reach the
\* threshold.
THEOREM PayoutIsJustified == Spec => []PayoutJustified
<1>1. InductiveInvariant => PayoutJustified
  BY DEF InductiveInvariant
<1>. QED
  BY <1>1, InvariantHolds, PTL

-----------------------------------------------------------------------------
(* What no step may change *)

\* The creating instructions write only accounts that did not exist.
LEMMA TermsStep ==
    TypeOK /\ InductiveInvariant /\ [Next]_vars
        => [\A c \in Campaigns : KeepsTerms(c)]_vars
<1>. SUFFICES ASSUME TypeOK, InductiveInvariant, Next, NEW d \in Campaigns
              PROVE  KeepsTerms(d)
  BY DEF vars, KeepsTerms
<1>. USE AccountFacts
<1>. USE DEF KeepsTerms, TermsOf, CampaignExists, Settled, Scored
<1>1. CASE /\ campaign' = campaign
           /\ vset' = vset
           /\ score' = score
  BY <1>1
<1>2. ASSUME NEW c \in Campaigns, NEW validators \in ValidatorLists,
             CreateValidatorSet(c, validators)
      PROVE  KeepsTerms(d)
  <2>1. ~ CampaignExists(c)
    BY <1>2
      DEF CreateValidatorSet, MayRegister, InductiveInvariant, SetIsRegistered
  <2>. QED
    BY <1>2, <2>1 DEF CreateValidatorSet, MayRegister, TypeOK
<1>3. ASSUME NEW c \in Campaigns, campaign[c] = NoCampaign,
             \A e \in Campaigns \ {c} : campaign'[e] = campaign[e],
             vset' = vset, score' = score
      PROVE  KeepsTerms(d)
  BY <1>3
<1>4. ASSUME NEW c \in Campaigns, NEW bidder \in Agents, NEW id \in BidIds,
             AcceptBid(c, bidder, id)
      PROVE  KeepsTerms(d)
  <2>1. /\ campaign[c] \in CampaignAccount
        /\ campaign[c].status = "open"
        /\ campaign[c].executor = NoKey
    BY <1>4 DEF AcceptBid, MayAccept, AwaitingBid, IsOpen, TypeOK
  <2>2. /\ campaign'[c] = [campaign[c] EXCEPT !.executor = bidder,
                                              !.accepted_bid_id = id]
        /\ \A e \in Campaigns \ {c} : campaign'[e] = campaign[e]
    BY <1>4 DEF AcceptBid, MayAccept, TypeOK
  <2>3. /\ campaign'[c].mode = campaign[c].mode
        /\ campaign'[c].amount = campaign[c].amount
        /\ campaign'[c].threshold_bps = campaign[c].threshold_bps
        /\ campaign'[c].deadline_unix = campaign[c].deadline_unix
        /\ campaign'[c].rfq_deadline_unix = campaign[c].rfq_deadline_unix
        /\ campaign'[c].validator_set_hash = campaign[c].validator_set_hash
        /\ campaign'[c].validator_count = campaign[c].validator_count
    BY <2>1, <2>2 DEF CampaignAccount
  <2>4. vset' = vset /\ score' = score
    BY <1>4 DEF AcceptBid, MayAccept
  <2>5. CASE d = c
    BY <2>1, <2>3, <2>4, <2>5
  <2>6. CASE d # c
    BY <2>2, <2>4, <2>6
  <2>. QED
    BY <2>5, <2>6
<1>5. ASSUME NEW c \in Campaigns, Pending(c), NEW status,
             campaign' = [campaign EXCEPT ![c].status = status],
             vset' = vset, score' = score
      PROVE  KeepsTerms(d)
  <2>1. campaign[c] \in CampaignAccount
    BY <1>5 DEF Pending, TypeOK
  <2>2. /\ campaign'[c] = [campaign[c] EXCEPT !.status = status]
        /\ \A e \in Campaigns \ {c} : campaign'[e] = campaign[e]
    BY <1>5 DEF TypeOK
  <2>. QED
    BY <1>5, <2>1, <2>2 DEF Pending, CampaignAccount
<1>6. ASSUME NEW c \in Campaigns, NEW validator \in Agents,
             NEW scoreBps \in Scores,
             SubmitValidatorScore(c, validator, scoreBps)
      PROVE  KeepsTerms(d)
  BY <1>6 DEF SubmitValidatorScore, MayScore, TypeOK
<1>7. ASSUME NEW c \in Campaigns, CampaignSetup(c) PROVE KeepsTerms(d)
  <2>1. ASSUME NEW args, NEW executor, CreateCampaign(c, args, executor)
        PROVE  KeepsTerms(d)
    BY <1>3, <2>1 DEF CreateCampaign, MayCreate, TypeOK
  <2>2. ASSUME NEW args, NEW rfqDeadline, CreateCampaignRfq(c, args, rfqDeadline)
        PROVE  KeepsTerms(d)
    BY <1>3, <2>2 DEF CreateCampaignRfq, MayOpenRfq, MayCreate, TypeOK
  <2>. QED
    BY <1>2, <1>7, <2>1, <2>2 DEF CampaignSetup
<1>8. ASSUME NEW c \in Campaigns, Bidding(c) PROVE KeepsTerms(d)
  <2>1. ASSUME NEW bidder, NEW id, NEW amount, SubmitBid(c, bidder, id, amount)
        PROVE  KeepsTerms(d)
    BY <1>1, <2>1 DEF SubmitBid, MayBid
  <2>2. ASSUME NEW bidder, NEW id, WithdrawBid(c, bidder, id)
        PROVE  KeepsTerms(d)
    BY <1>1, <2>2 DEF WithdrawBid, MayWithdraw
  <2>3. CASE ExpireRfq(c)
    BY <1>5, <2>3 DEF ExpireRfq, MayExpire, AwaitingBid, IsOpen, Pending
  <2>. QED
    BY <1>4, <1>8, <2>1, <2>2, <2>3 DEF Bidding
<1>9. ASSUME NEW c \in Campaigns, Settlement(c) PROVE KeepsTerms(d)
  <2>1. ASSUME NEW used, SettleSuccess(c, used) PROVE KeepsTerms(d)
    BY <1>5, <2>1 DEF SettleSuccess, MaySettle, IsOpen, Pending
  <2>2. CASE SettleTimeoutRefund(c)
    BY <1>5, <2>2 DEF SettleTimeoutRefund, RefundAllowed, IsOpen, Pending
  <2>. QED
    BY <1>6, <1>9, <2>1, <2>2 DEF Settlement
<1>. QED
  BY <1>1, <1>7, <1>8, <1>9 DEF Next, InitializeConfig, Donate, Tick

\* The terms of a campaign, its executor once known, its scores and its
\* settled account are never rewritten.
THEOREM TermsNeverChange == Spec => TermsAreFrozen
<1>. QED
  BY TypeCorrect, InvariantHolds, TermsStep, PTL DEF Spec, TermsAreFrozen

LEMMA LockStep ==
    TypeOK /\ [Next]_vars => [\A c \in Campaigns : KeepsLockedBids(c)]_vars
<1>. SUFFICES ASSUME TypeOK, Next, NEW d \in Campaigns
              PROVE  KeepsLockedBids(d)
  BY DEF vars, KeepsLockedBids
<1>. USE DEF KeepsLockedBids
<1>1. CASE bid' = bid
  BY <1>1
<1>2. ASSUME NEW c \in Campaigns, NEW bidder \in Agents, NEW id \in BidIds,
             campaign[c].executor = NoKey,
             \E account : bid' = [bid EXCEPT ![c][bidder][id] = account]
      PROVE  KeepsLockedBids(d)
  BY <1>2 DEF TypeOK
<1>3. ASSUME NEW c \in Campaigns, Bidding(c) PROVE KeepsLockedBids(d)
  <2>1. ASSUME NEW bidder \in Agents, NEW id \in BidIds, NEW amount,
               SubmitBid(c, bidder, id, amount)
        PROVE  KeepsLockedBids(d)
    BY <1>2, <2>1 DEF SubmitBid, MayBid, AwaitingBid
  <2>2. ASSUME NEW bidder \in Agents, NEW id \in BidIds,
               WithdrawBid(c, bidder, id)
        PROVE  KeepsLockedBids(d)
    BY <1>2, <2>2 DEF WithdrawBid, MayWithdraw
  <2>3. ASSUME NEW bidder \in Agents, NEW id \in BidIds,
               AcceptBid(c, bidder, id)
        PROVE  KeepsLockedBids(d)
    BY <1>2, <2>3 DEF AcceptBid, MayAccept, AwaitingBid
  <2>4. CASE ExpireRfq(c)
    BY <1>1, <2>4 DEF ExpireRfq, MayExpire
  <2>. QED
    BY <1>3, <2>1, <2>2, <2>3, <2>4 DEF Bidding
<1>4. ASSUME NEW c \in Campaigns, CampaignSetup(c) \/ Settlement(c)
      PROVE  KeepsLockedBids(d)
  BY <1>1, <1>4
  DEF CampaignSetup, CreateValidatorSet, MayRegister, CreateCampaign,
      CreateCampaignRfq, MayOpenRfq, Settlement, SubmitValidatorScore, MayScore,
      SettleSuccess, MaySettle, SettleTimeoutRefund
<1>. QED
  BY <1>1, <1>3, <1>4 DEF Next, InitializeConfig, Donate, Tick

\* Accepting a bid locks every bid of the campaign.
THEOREM AcceptanceLocksBids == Spec => BidsLockedByAcceptance
<1>. QED
  BY TypeCorrect, LockStep, PTL DEF Spec, BidsLockedByAcceptance

-----------------------------------------------------------------------------
(* The refinement of Settlement *)

LEMMA RefinementInit == Init => Escrow!Init
BY AccountFacts
DEF Init, Escrow!Init, DealOf, ExecutorOf, CampaignExists

\* A step that writes one campaign account changes the mapped state of that
\* campaign only.
LEMMA MappedStep ==
    ASSUME NEW c \in Campaigns,
           \A d \in Campaigns \ {c} : campaign'[d] = campaign[d]
    PROVE  /\ [d \in Campaigns |-> DealOf(d)']
                  = [[d \in Campaigns |-> DealOf(d)] EXCEPT ![c] = DealOf(c)']
           /\ [d \in Campaigns |-> ExecutorOf(d)']
                  = [[d \in Campaigns |-> ExecutorOf(d)]
                        EXCEPT ![c] = ExecutorOf(c)']
<1>1. \A d \in Campaigns \ {c} :
          DealOf(d)' = DealOf(d) /\ ExecutorOf(d)' = ExecutorOf(d)
  BY DEF DealOf, ExecutorOf, CampaignExists
<1>. QED
  BY <1>1

\* The abstract outcome of the two settling instructions.
LEMMA PayOutStep ==
    ASSUME TypeOK, NEW c \in Campaigns, Pending(c),
           NEW status \in {"settled_success", "settled_refund"},
           NEW payee \in Keys,
           campaign' = [campaign EXCEPT ![c].status = status],
           escrow' = [escrow EXCEPT ![c] = 0],
           wallet' = [wallet EXCEPT ![payee] = @ + escrow[c]]
    PROVE  Escrow!PayOut(c, payee, IF status = "settled_success"
                                     THEN "paid" ELSE "refunded")
<1>1. campaign[c] \in CampaignAccount
  BY AccountFacts DEF Pending, TypeOK
<1>2. /\ campaign'[c] = [campaign[c] EXCEPT !.status = status]
      /\ \A d \in Campaigns \ {c} : campaign'[d] = campaign[d]
  BY DEF TypeOK
<1>3. campaign'[c].status = status /\ campaign'[c].executor = campaign[c].executor
  BY <1>1, <1>2 DEF CampaignAccount
<1>4. DealOf(c) = "pending"
  BY DEF DealOf, Pending
<1>5. DealOf(c)' = IF status = "settled_success" THEN "paid" ELSE "refunded"
  BY <1>3 DEF DealOf
<1>6. ExecutorOf(c)' = ExecutorOf(c)
  BY <1>1, <1>3, AccountFacts DEF ExecutorOf, CampaignExists
<1>7. [d \in Campaigns |-> ExecutorOf(d)'] = [d \in Campaigns |-> ExecutorOf(d)]
  BY <1>2, <1>6, MappedStep
<1>. QED
  BY <1>2, <1>4, <1>5, <1>7, MappedStep DEF Escrow!PayOut

\* The creation of a campaign, whatever list of validators it is checked
\* against, funds the abstract escrow.
LEMMA FundStep ==
    ASSUME TypeOK, NEW c \in Campaigns, NEW args \in CampaignArgs,
           NEW executor \in Keys, NEW mode, NEW rfqDeadline, NEW registered,
           MayCreate(c, args, registered),
           FundEscrow(c, args.amount),
           campaign' = [campaign EXCEPT ![c] =
                           NewCampaign(mode, executor, args, rfqDeadline)]
    PROVE  Escrow!Next
<1>. USE AccountFacts
<1>1. campaign[c] = NoCampaign
  BY DEF MayCreate
<1>2. /\ campaign'[c].status = "open"
      /\ campaign'[c].executor = executor
      /\ campaign'[c] # NoCampaign
  BY DEF NewCampaign, TypeOK
<1>3. \A d \in Campaigns \ {c} : campaign'[d] = campaign[d]
  BY DEF TypeOK
<1>4. /\ DealOf(c) = "none"
      /\ DealOf(c)' = "pending"
      /\ ExecutorOf(c)' = executor
  BY <1>1, <1>2 DEF DealOf, ExecutorOf, CampaignExists
<1>5. Escrow!Fund(c, args.amount, executor)
  BY <1>3, <1>4, MappedStep DEF Escrow!Fund, MayCreate, FundEscrow
<1>6. args.amount \in Amounts
  BY DEF CampaignArgs
<1>. QED
  BY <1>5, <1>6 DEF Escrow!Next

LEMMA RefinementStep ==
    TypeOK /\ InductiveInvariant /\ [Next]_vars
        => [Escrow!Next]_(Escrow!vars)
<1>. SUFFICES ASSUME TypeOK, InductiveInvariant, [Next]_vars
              PROVE  Escrow!Next \/ UNCHANGED Escrow!vars
  OBVIOUS
<1>. USE AccountFacts
<1>1. CASE campaign' = campaign /\ escrow' = escrow /\ wallet' = wallet
  BY <1>1 DEF Escrow!vars, DealOf, ExecutorOf, CampaignExists
<1>2. ASSUME NEW c \in Campaigns, NEW args \in CampaignArgs,
             NEW executor \in Keys, NEW mode, NEW rfqDeadline,
             MayCreate(c, args, vset[c]),
             FundEscrow(c, args.amount),
             campaign' = [campaign EXCEPT ![c] =
                             NewCampaign(mode, executor, args, rfqDeadline)]
      PROVE  Escrow!Next
  BY <1>2, FundStep
<1>3. ASSUME NEW c \in Campaigns, NEW bidder \in Agents, NEW id \in BidIds,
             AcceptBid(c, bidder, id)
      PROVE  Escrow!Next
  <2>1. /\ campaign[c] \in CampaignAccount
        /\ campaign[c].status = "open"
        /\ campaign[c].executor = NoKey
    BY <1>3 DEF AcceptBid, MayAccept, AwaitingBid, IsOpen, TypeOK
  <2>2. campaign'[c] = [campaign[c] EXCEPT !.executor = bidder,
                                          !.accepted_bid_id = id]
    BY <1>3 DEF AcceptBid, MayAccept, TypeOK
  <2>3. campaign'[c].status = "open" /\ campaign'[c].executor = bidder
    BY <2>1, <2>2 DEF CampaignAccount
  <2>4. \A d \in Campaigns \ {c} : campaign'[d] = campaign[d]
    BY <1>3 DEF AcceptBid, MayAccept, TypeOK
  <2>5. /\ DealOf(c) = "pending" /\ DealOf(c)' = "pending"
        /\ ExecutorOf(c) = NoKey /\ ExecutorOf(c)' = bidder
    BY <2>1, <2>3 DEF DealOf, ExecutorOf, CampaignExists
  <2>6. [d \in Campaigns |-> DealOf(d)'] = [d \in Campaigns |-> DealOf(d)]
    BY <2>4, <2>5, MappedStep
  <2>7. Escrow!NameExecutor(c, bidder)
    BY <1>3, <2>4, <2>5, <2>6, MappedStep
      DEF Escrow!NameExecutor, AcceptBid, MayAccept
  <2>. QED
    BY <2>7 DEF Escrow!Next, Keys
<1>4. ASSUME NEW c \in Campaigns, NEW used, SettleSuccess(c, used)
      PROVE  Escrow!Next
  <2>1. campaign[c] \in CampaignAccount
    BY <1>4 DEF SettleSuccess, MaySettle, IsOpen, TypeOK
  <2>2. /\ campaign[c].executor \in Keys
        /\ ExecutorOf(c) = campaign[c].executor
    BY <2>1 DEF CampaignAccount, ExecutorOf, CampaignExists
  <2>3. Escrow!PayOut(c, ExecutorOf(c), "paid")
    BY <1>4, <2>2, PayOutStep DEF SettleSuccess, MaySettle, IsOpen, Pending
  <2>4. Escrow!Pay(c)
    BY <2>3 DEF Escrow!Pay
  <2>. QED
    BY <2>4 DEF Escrow!Next
<1>5. ASSUME NEW c \in Campaigns, SettleTimeoutRefund(c)
      PROVE  Escrow!Next
  <2>1. CreatorOf[c] \in Keys
    BY KeysAssumption DEF Keys
  <2>2. Escrow!PayOut(c, CreatorOf[c], "refunded")
    BY <1>5, <2>1, PayOutStep
    DEF SettleTimeoutRefund, RefundAllowed, IsOpen, Pending
  <2>3. Escrow!Refund(c)
    BY <2>2 DEF Escrow!Refund
  <2>. QED
    BY <2>3 DEF Escrow!Next
<1>6. ASSUME NEW c \in Campaigns, ExpireRfq(c)
      PROVE  UNCHANGED Escrow!vars
  <2>1. /\ campaign[c] \in CampaignAccount
        /\ campaign[c].status = "open"
    BY <1>6 DEF ExpireRfq, MayExpire, AwaitingBid, IsOpen, TypeOK
  <2>2. /\ campaign'[c] = [campaign[c] EXCEPT !.status = "rfq_expired"]
        /\ \A d \in Campaigns \ {c} : campaign'[d] = campaign[d]
    BY <1>6 DEF ExpireRfq, MayExpire, TypeOK
  <2>3. /\ campaign'[c].status = "rfq_expired"
        /\ campaign'[c].executor = campaign[c].executor
    BY <2>1, <2>2 DEF CampaignAccount
  <2>4. DealOf(c)' = DealOf(c) /\ ExecutorOf(c)' = ExecutorOf(c)
    BY <2>1, <2>3 DEF DealOf, ExecutorOf, CampaignExists
  <2>. QED
    BY <1>6, <2>2, <2>4, MappedStep DEF ExpireRfq, MayExpire, Escrow!vars
<1>7. ASSUME NEW from \in Agents, NEW c \in Campaigns, NEW amount \in Amounts,
             Donate(from, c, amount)
      PROVE  Escrow!Next
  <2>1. DealOf(c) # "none"
    <3>1. campaign[c] \in CampaignAccount
      BY <1>7 DEF Donate, TypeOK
    <3>. QED
      BY <3>1 DEF DealOf, CampaignAccount
  <2>2. /\ [d \in Campaigns |-> DealOf(d)'] = [d \in Campaigns |-> DealOf(d)]
        /\ [d \in Campaigns |-> ExecutorOf(d)']
              = [d \in Campaigns |-> ExecutorOf(d)]
    BY <1>7 DEF Donate, DealOf, ExecutorOf, CampaignExists
  <2>3. Escrow!TopUp(c, amount, from)
    BY <1>7, <2>1, <2>2 DEF Donate, Escrow!TopUp
  <2>. QED
    BY <2>3 DEF Escrow!Next, Keys
<1>8. ASSUME NEW c \in Campaigns, CampaignSetup(c)
      PROVE  Escrow!Next \/ UNCHANGED Escrow!vars
  <2>1. ASSUME NEW validators, CreateValidatorSet(c, validators)
        PROVE  Escrow!Next \/ UNCHANGED Escrow!vars
    BY <1>1, <2>1 DEF CreateValidatorSet, MayRegister
  <2>2. ASSUME NEW args \in CampaignArgs, NEW executor \in Keys,
               CreateCampaign(c, args, executor)
        PROVE  Escrow!Next
    BY <1>2, <2>2 DEF CreateCampaign
  <2>3. ASSUME NEW args \in CampaignArgs, NEW rfqDeadline,
               CreateCampaignRfq(c, args, rfqDeadline)
        PROVE  Escrow!Next
    BY <1>2, <2>3 DEF CreateCampaignRfq, MayOpenRfq, Keys
  <2>. QED
    BY <1>8, <2>1, <2>2, <2>3 DEF CampaignSetup
<1>9. ASSUME NEW c \in Campaigns, Bidding(c)
      PROVE  Escrow!Next \/ UNCHANGED Escrow!vars
  BY <1>1, <1>3, <1>6, <1>9
    DEF Bidding, SubmitBid, MayBid, WithdrawBid, MayWithdraw
<1>10. ASSUME NEW c \in Campaigns, Settlement(c)
       PROVE  Escrow!Next \/ UNCHANGED Escrow!vars
  BY <1>1, <1>4, <1>5, <1>10 DEF Settlement, SubmitValidatorScore, MayScore
<1>11. CASE \/ \E authority \in Agents : InitializeConfig(authority)
            \/ Tick
            \/ UNCHANGED vars
  BY <1>1, <1>11 DEF InitializeConfig, Tick, vars
<1>. QED
  BY <1>7, <1>8, <1>9, <1>10, <1>11 DEF Next

\* The program implements the abstract escrow: every instruction is a step
\* of Settlement or changes nothing Settlement can see.
THEOREM ProgramImplementsSettlement == Spec => ImplementsSettlement
<1>1. Init => Escrow!Init
  BY RefinementInit
<1>. QED
  BY <1>1, TypeCorrect, InvariantHolds, RefinementStep, PTL
  DEF Spec, ImplementsSettlement, Escrow!Spec

-----------------------------------------------------------------------------
(* Induction: the library's rules take an operator, which no installed     *)
(* prover can instantiate; a set of the cases in which the claim holds     *)
(* does as well.                                                           *)

LEMMA LeastNatural ==
    ASSUME NEW T \in SUBSET Nat, T # {}
    PROVE  \E m \in T : \A n \in T : m <= n
<1> DEFINE R == OpToRel(<, Nat)
<1>1. IsWellFoundedOn(R, Nat)
  BY NatLessThanWellFounded
<1>2. PICK m \in T : \A n \in T : <<n, m>> \notin R
  <2> HIDE DEF R
  <2> QED
    BY <1>1, WFMin, Zenon
<1>3. \A n \in T : ~ (n < m)
  BY <1>2 DEF OpToRel
<1> QED
  BY <1>3

LEMMA InductionOnNat ==
    ASSUME NEW Q, 0 \in Q, \A n \in Nat : n \in Q => n + 1 \in Q
    PROVE  Nat \subseteq Q
<1> SUFFICES ASSUME Nat \ Q # {}
             PROVE  FALSE
  OBVIOUS
<1>1. PICK m \in Nat \ Q : \A n \in Nat \ Q : m <= n
  BY LeastNatural
<1>2. m - 1 \in Nat /\ m - 1 \in Q
  BY <1>1
<1> QED
  BY <1>2

\* A claim about finite sets holds for S if it holds for every subset of S
\* that it holds for without any one element.
LEMMA InductionOnSubsets ==
    ASSUME NEW S, IsFiniteSet(S), NEW Q,
           \A T \in SUBSET S : (\A x \in T : T \ {x} \in Q) => T \in Q
    PROVE  S \in Q
<1> DEFINE Bad == {T \in SUBSET S : T \notin Q}
           R == StrictSubsetOrdering(S)
<1> SUFFICES ASSUME Bad # {}
             PROVE  FALSE
  OBVIOUS
<1>1. IsWellFoundedOn(R, FiniteSubsetsOf(S)) /\ Bad \subseteq FiniteSubsetsOf(S)
  BY FS_StrictSubsetOrderingWellFounded, FS_FiniteSubsetsOfFinite
<1>2. PICK M \in Bad : \A T \in Bad : <<T, M>> \notin R
  <2> HIDE DEF Bad, R
  <2> QED
    BY <1>1, WFMin, Zenon
<1>3. \A x \in M : M \ {x} \in Q
  <2> SUFFICES ASSUME NEW x \in M
               PROVE  M \ {x} \in Q
    OBVIOUS
  <2>1. <<M \ {x}, M>> \in R
    BY DEF StrictSubsetOrdering
  <2> QED
    BY <1>2, <2>1
<1> QED
  BY <1>3

-----------------------------------------------------------------------------
(* Sums *)

Pick(s) == CHOOSE x \in s : TRUE

\* g is the sum of f on the sets of D.
SumsOn(g, f, D) ==
    g = [s \in D |-> IF s = {} THEN 0 ELSE f[Pick(s)] + g[s \ {Pick(s)}]]

LEMMA SumUnfolds ==
    ASSUME NEW f, NEW S
    PROVE  SumFunctionOnSet(f, S) = (CHOOSE g : SumsOn(g, f, SUBSET S))[S]
BY Zenon DEF SumFunctionOnSet, FoldFunctionOnSet, MapThenFoldSet, SumsOn, Pick

LEMMA SumsExist ==
    ASSUME NEW f, NEW S, IsFiniteSet(S)
    PROVE  \E g : SumsOn(g, f, SUBSET S)
<1> DEFINE Upto(n) == {s \in SUBSET S : Cardinality(s) <= n}
           Q == {n \in Nat : \E g : SumsOn(g, f, Upto(n))}
<1>1. \A s \in SUBSET S : IsFiniteSet(s) /\ Cardinality(s) \in Nat
  BY FS_Subset, FS_CardinalityType
<1>2. 0 \in Q
  <2>1. \A s \in Upto(0) : s = {}
    BY <1>1, FS_EmptySet
  <2>2. SumsOn([s \in Upto(0) |-> 0], f, Upto(0))
    BY <2>1 DEF SumsOn
  <2> QED
    BY <2>2
<1>3. ASSUME NEW n \in Nat, n \in Q
      PROVE  n + 1 \in Q
  <2>1. PICK g : SumsOn(g, f, Upto(n))
    BY <1>3
  <2> DEFINE h == [s \in Upto(n + 1) |->
                      IF s = {} THEN 0 ELSE f[Pick(s)] + g[s \ {Pick(s)}]]
  <2>2. ASSUME NEW s \in Upto(n + 1), s # {}
        PROVE  Pick(s) \in s /\ s \ {Pick(s)} \in Upto(n)
    <3>1. Pick(s) \in s
      BY <2>2 DEF Pick
    <3>2. Cardinality(s \ {Pick(s)}) = Cardinality(s) - 1
      BY <1>1, <3>1, FS_RemoveElement
    <3> QED
      BY <1>1, <3>1, <3>2
  <2>3. \A s \in Upto(n) : s \in Upto(n + 1) /\ h[s] = g[s]
    <3>1. \A s \in Upto(n) : s \in Upto(n + 1)
      BY <1>1
    <3>2. \A s \in Upto(n) :
             g[s] = IF s = {} THEN 0 ELSE f[Pick(s)] + g[s \ {Pick(s)}]
      BY <2>1, Zenon DEF SumsOn
    <3> QED
      BY <3>1, <3>2, Zenon
  <2>4. SumsOn(h, f, Upto(n + 1))
    BY <2>2, <2>3, Zenon DEF SumsOn
  <2> QED
    BY <2>4
<1>4. Cardinality(S) \in Q
  <2> HIDE DEF Q
  <2> QED
    BY <1>1, <1>2, <1>3, InductionOnNat
<1>5. Upto(Cardinality(S)) = SUBSET S
  BY FS_Subset
<1> QED
  BY <1>4, <1>5

\* The sum of f on a set depends on nothing but f's values there.
LEMMA SumsAgree ==
    ASSUME NEW S, IsFiniteSet(S), NEW T, T \subseteq S,
           NEW f, NEW e, \A x \in T : f[x] = e[x]
    PROVE  \A g, h : SumsOn(g, f, SUBSET S) /\ SumsOn(h, e, SUBSET T)
                        => g[T] = h[T]
<1> SUFFICES ASSUME NEW g, SumsOn(g, f, SUBSET S),
                    NEW h, SumsOn(h, e, SUBSET T)
             PROVE  g[T] = h[T]
  OBVIOUS
<1> DEFINE Q == {s \in SUBSET T : g[s] = h[s]}
<1>1. ASSUME NEW s \in SUBSET T, \A x \in s : s \ {x} \in Q
      PROVE  s \in Q
  <2>1. s = {} => g[s] = h[s]
    BY DEF SumsOn
  <2>2. s # {} => Pick(s) \in s
    BY DEF Pick
  <2>3. s # {} => g[s] = h[s]
    BY <1>1, <2>2 DEF SumsOn
  <2> QED
    BY <2>1, <2>3
<1>2. IsFiniteSet(T)
  BY FS_Subset
<1>3. T \in Q
  <2> HIDE DEF Q
  <2> QED
    BY <1>1, <1>2, InductionOnSubsets
<1> QED
  BY <1>3

LEMMA SumAgrees ==
    ASSUME NEW S, IsFiniteSet(S), NEW f, NEW e, \A x \in S : f[x] = e[x]
    PROVE  SumFunctionOnSet(f, S) = SumFunctionOnSet(e, S)
<1> DEFINE g == CHOOSE g : SumsOn(g, f, SUBSET S)
           h == CHOOSE h : SumsOn(h, e, SUBSET S)
<1>1. SumsOn(g, f, SUBSET S) /\ SumsOn(h, e, SUBSET S)
  BY SumsExist
<1>2. SumFunctionOnSet(f, S) = g[S] /\ SumFunctionOnSet(e, S) = h[S]
  BY SumUnfolds
<1>3. g[S] = h[S]
  <2> HIDE DEF g, h
  <2>1. S \subseteq S
    OBVIOUS
  <2>2. \A gg, hh : SumsOn(gg, f, SUBSET S) /\ SumsOn(hh, e, SUBSET S)
                        => gg[S] = hh[S]
    BY <2>1, SumsAgree
  <2> QED
    BY <1>1, <2>2, Zenon
<1> QED
  BY <1>2, <1>3, Zenon

LEMMA SumRecursion ==
    ASSUME NEW S, IsFiniteSet(S), NEW f
    PROVE  SumFunctionOnSet(f, S) =
               IF S = {} THEN 0
               ELSE f[Pick(S)] + SumFunctionOnSet(f, S \ {Pick(S)})
<1> DEFINE g == CHOOSE g : SumsOn(g, f, SUBSET S)
           T == S \ {Pick(S)}
           h == CHOOSE h : SumsOn(h, f, SUBSET T)
<1>1. SumsOn(g, f, SUBSET S)
  BY SumsExist
<1>2. SumsOn(h, f, SUBSET T)
  <2>1. IsFiniteSet(T)
    BY FS_RemoveElement
  <2> QED
    BY <2>1, SumsExist
<1>3. g[T] = h[T]
  <2> HIDE DEF g, h
  <2>1. T \subseteq S /\ \A x \in T : f[x] = f[x]
    OBVIOUS
  <2> HIDE DEF T
  <2>2. \A gg, hh : SumsOn(gg, f, SUBSET S) /\ SumsOn(hh, f, SUBSET T)
                        => gg[T] = hh[T]
    BY <2>1, SumsAgree
  <2> QED
    BY <1>1, <1>2, <2>2, Zenon
<1>4. g[S] = IF S = {} THEN 0 ELSE f[Pick(S)] + g[T]
  <2> HIDE DEF g, h
  <2> QED
    BY <1>1 DEF SumsOn
<1>5. SumFunctionOnSet(f, S) = g[S] /\ SumFunctionOnSet(f, T) = h[T]
  BY SumUnfolds
<1> HIDE DEF g, h
<1> QED
  BY <1>3, <1>4, <1>5

LEMMA SumIsInt ==
    ASSUME NEW S, IsFiniteSet(S), NEW f, \A x \in S : f[x] \in Int
    PROVE  SumFunctionOnSet(f, S) \in Int
<1> DEFINE Q == {T \in SUBSET S : SumFunctionOnSet(f, T) \in Int}
<1>1. ASSUME NEW T \in SUBSET S, \A x \in T : T \ {x} \in Q
      PROVE  T \in Q
  <2>1. IsFiniteSet(T) /\ (T # {} => Pick(T) \in T)
    BY FS_Subset DEF Pick
  <2>2. T # {} => SumFunctionOnSet(f, T \ {Pick(T)}) \in Int /\ f[Pick(T)] \in Int
    BY <1>1, <2>1
  <2>3. SumFunctionOnSet(f, T) =
            IF T = {} THEN 0
            ELSE f[Pick(T)] + SumFunctionOnSet(f, T \ {Pick(T)})
    BY <2>1, SumRecursion, Zenon
  <2> QED
    BY <2>2, <2>3
<1>2. S \in Q
  <2> HIDE DEF Q
  <2> QED
    BY <1>1, InductionOnSubsets
<1> QED
  BY <1>2

\* Any element can be taken out first.
LEMMA SumTakeOut ==
    ASSUME NEW S, IsFiniteSet(S), NEW f, \A x \in S : f[x] \in Int
    PROVE  \A x \in S : SumFunctionOnSet(f, S) =
                            f[x] + SumFunctionOnSet(f, S \ {x})
<1> DEFINE Sum(T) == SumFunctionOnSet(f, T)
           Q == {T \in SUBSET S : \A x \in T : Sum(T) = f[x] + Sum(T \ {x})}
<1>1. ASSUME NEW T \in SUBSET S, \A x \in T : T \ {x} \in Q
      PROVE  T \in Q
  <2> SUFFICES ASSUME NEW x \in T
               PROVE  Sum(T) = f[x] + Sum(T \ {x})
    OBVIOUS
  <2> DEFINE y == Pick(T)
             Both == T \ {x, y}
  <2>1. y \in T /\ Sum(T) = f[y] + Sum(T \ {y})
    BY FS_Subset, SumRecursion DEF Pick
  <2>2. CASE x = y
    BY <2>1, <2>2
  <2>3. CASE x # y
    <3>1. (T \ {x}) \ {y} = Both /\ (T \ {y}) \ {x} = Both
      OBVIOUS
    <3>2. Sum(T \ {y}) = f[x] + Sum(Both)
      BY <1>1, <2>1, <2>3, <3>1
    <3>3. Sum(T \ {x}) = f[y] + Sum(Both)
      BY <1>1, <2>1, <2>3, <3>1
    <3>4. Sum(Both) \in Int /\ f[x] \in Int /\ f[y] \in Int
      BY <2>1, FS_Subset, SumIsInt
    <3> HIDE DEF Sum, y, Both
    <3> QED
      BY <2>1, <3>2, <3>3, <3>4
  <2> QED
    BY <2>2, <2>3
<1>2. S \in Q
  <2> HIDE DEF Q
  <2> QED
    BY <1>1, InductionOnSubsets
<1> QED
  BY <1>2

\* One value changes and the sum changes with it.
LEMMA SumChange ==
    ASSUME NEW S, IsFiniteSet(S), NEW f \in [S -> Int], NEW x \in S, NEW v \in Int
    PROVE  SumFunction([f EXCEPT ![x] = v]) = SumFunction(f) - f[x] + v
<1> DEFINE e == [f EXCEPT ![x] = v]
           rest == SumFunctionOnSet(f, S \ {x})
<1>1. e \in [S -> Int] /\ e[x] = v /\ \A y \in S \ {x} : e[y] = f[y]
  OBVIOUS
<1>2. SumFunction(f) = SumFunctionOnSet(f, S) /\ SumFunction(e) = SumFunctionOnSet(e, S)
  BY <1>1, Zenon DEF SumFunction
<1>3. rest = SumFunctionOnSet(e, S \ {x}) /\ rest \in Int
  <2>1. IsFiniteSet(S \ {x})
    BY FS_RemoveElement
  <2> QED
    BY <1>1, <2>1, SumAgrees, SumIsInt
<1>4. SumFunctionOnSet(f, S) = f[x] + rest
  BY SumTakeOut
<1>5. SumFunctionOnSet(e, S) = v + rest
  <2> HIDE DEF e
  <2>1. \A y \in S : e[y] \in Int
    BY <1>1
  <2>2. SumFunctionOnSet(e, S) = e[x] + SumFunctionOnSet(e, S \ {x})
    BY <2>1, SumTakeOut
  <2> QED
    BY <1>1, <1>3, <2>2
<1>6. f[x] \in Int
  OBVIOUS
<1>7. SumFunction(e) = SumFunction(f) - f[x] + v
  <2> HIDE DEF e, rest
  <2> QED
    BY <1>2, <1>3, <1>4, <1>5, <1>6
<1> QED
  BY <1>7

LEMMA EmptySum ==
    ASSUME NEW S, IsFiniteSet(S)
    PROVE  SumFunction([x \in S |-> 0]) = 0
<1> DEFINE f == [x \in S |-> 0]
           Q == {T \in SUBSET S : SumFunctionOnSet(f, T) = 0}
<1>1. ASSUME NEW T \in SUBSET S, \A x \in T : T \ {x} \in Q
      PROVE  T \in Q
  <2>1. IsFiniteSet(T) /\ (T # {} => Pick(T) \in T)
    BY FS_Subset DEF Pick
  <2>2. T # {} => SumFunctionOnSet(f, T \ {Pick(T)}) = 0 /\ f[Pick(T)] = 0
    BY <1>1, <2>1
  <2>3. SumFunctionOnSet(f, T) =
            IF T = {} THEN 0
            ELSE f[Pick(T)] + SumFunctionOnSet(f, T \ {Pick(T)})
    BY <2>1, SumRecursion, Zenon
  <2> QED
    BY <2>2, <2>3
<1>2. S \in Q
  <2> HIDE DEF Q
  <2> QED
    BY <1>1, InductionOnSubsets
<1>3. DOMAIN f = S
  OBVIOUS
<1>4. SumFunctionOnSet(f, S) = 0
  BY <1>2
<1> QED
  BY <1>3, <1>4, Zenon DEF SumFunction

\* A sum of numbers below b is below b times their number.
LEMMA SumBelow ==
    ASSUME NEW S, IsFiniteSet(S), S # {}, NEW b \in Int,
           NEW f, \A x \in S : f[x] \in Int /\ f[x] < b
    PROVE  SumFunctionOnSet(f, S) < b * Cardinality(S)
<1> DEFINE Sum(T) == SumFunctionOnSet(f, T)
           Q == {T \in SUBSET S : T # {} => Sum(T) < b * Cardinality(T)}
<1>1. ASSUME NEW T \in SUBSET S, \A x \in T : T \ {x} \in Q
      PROVE  T \in Q
  <2> SUFFICES ASSUME T # {}
               PROVE  Sum(T) < b * Cardinality(T)
    OBVIOUS
  <2> DEFINE x == Pick(T)
             U == T \ {x}
  <2>1. x \in T /\ IsFiniteSet(T) /\ f[x] \in Int /\ f[x] < b
    BY FS_Subset DEF Pick
  <2>2. Sum(T) = f[x] + Sum(U)
    BY <2>1, SumRecursion
  <2>3. /\ IsFiniteSet(U) /\ Cardinality(U) \in Nat
        /\ Cardinality(T) = Cardinality(U) + 1
        /\ Sum(U) \in Int
    <3>1. IsFiniteSet(U) /\ Cardinality(U) = Cardinality(T) - 1
      BY <2>1, FS_RemoveElement
    <3>2. Cardinality(U) \in Nat /\ Cardinality(T) \in Nat
      BY <2>1, <3>1, FS_CardinalityType
    <3>3. \A y \in U : f[y] \in Int
      OBVIOUS
    <3> QED
      BY <3>1, <3>2, <3>3, SumIsInt
  <2>4. U = {} => Sum(U) = 0 /\ Cardinality(U) = 0
    BY SumRecursion, FS_EmptySet
  <2>5. U # {} => Sum(U) < b * Cardinality(U)
    BY <1>1, <2>1
  <2> DEFINE k == b * Cardinality(U)
             v == f[x]
  <2>6. b * Cardinality(T) = k + b /\ k \in Int
    BY <2>3
  <2>7. U = {} => k = 0 /\ Sum(U) = 0
    BY <2>4
  <2>8. Sum(T) = v + Sum(U) /\ v \in Int /\ v < b /\ Sum(U) \in Int
    BY <2>1, <2>2, <2>3
  <2>9. U # {} => Sum(U) < k
    BY <2>5
  <2> HIDE DEF Sum, x, U, v, k
  <2> QED
    BY <2>6, <2>7, <2>8, <2>9
<1>2. S \in Q
  <2> HIDE DEF Q
  <2> QED
    BY <1>1, InductionOnSubsets
<1> QED
  BY <1>2

-----------------------------------------------------------------------------
(* Tokens *)

\* An escrow that nobody has funded is empty: tokens reach it only when its
\* campaign is created, and later.
EmptyUntilFunded == \A c \in Campaigns : ~ CampaignExists(c) => escrow[c] = 0

\* Tokens go from one wallet to one escrow, or back.
Moves(k, c, a) ==
    /\ wallet' = [wallet EXCEPT ![k] = wallet[k] - a]
    /\ escrow' = [escrow EXCEPT ![c] = escrow[c] + a]

TokensMove ==
    \/ \E k \in Keys, c \in Campaigns, a \in Int : Moves(k, c, a)
    \/ UNCHANGED <<wallet, escrow>>

LEMMA FundingMoves ==
    ASSUME TypeOK, EmptyUntilFunded, NEW c \in Campaigns,
           NEW args \in CampaignArgs, NEW registered,
           MayCreate(c, args, registered), FundEscrow(c, args.amount)
    PROVE  TokensMove
<1>1. args.amount \in Nat
  BY ArgumentsAssumption DEF CampaignArgs
<1>2. CreatorOf[c] \in Keys
  BY KeysAssumption DEF Keys
<1>3. escrow[c] = 0
  BY DEF EmptyUntilFunded, CampaignExists, MayCreate
<1>4. escrow[c] + args.amount = args.amount /\ args.amount \in Int
  BY <1>1, <1>3
<1>5. Moves(CreatorOf[c], c, args.amount)
  BY <1>4 DEF FundEscrow, Moves
<1>. QED
  BY <1>2, <1>4, <1>5 DEF TokensMove

LEMMA PayingMoves ==
    ASSUME TypeOK, NEW c \in Campaigns, NEW k \in Keys,
           wallet' = [wallet EXCEPT ![k] = @ + escrow[c]],
           escrow' = [escrow EXCEPT ![c] = 0]
    PROVE  TokensMove
<1>1. escrow[c] \in Nat /\ wallet[k] \in Nat
  BY DEF TypeOK
<1>2. -escrow[c] \in Int /\ wallet[k] - (-escrow[c]) = wallet[k] + escrow[c]
                         /\ escrow[c] + (-escrow[c]) = 0
  BY <1>1
<1>3. Moves(k, c, -escrow[c])
  BY <1>2 DEF Moves
<1>. QED
  BY <1>2, <1>3 DEF TokensMove

LEMMA MoveStep ==
    ASSUME TypeOK, EmptyUntilFunded, [Next]_vars
    PROVE  TokensMove
<1>1. ASSUME NEW c \in Campaigns, NEW args \in CampaignArgs, NEW executor \in Keys,
             CreateCampaign(c, args, executor)
      PROVE  TokensMove
  BY <1>1, FundingMoves DEF CreateCampaign
<1>2. ASSUME NEW c \in Campaigns, NEW args \in CampaignArgs,
             NEW rfqDeadline \in Deadlines, CreateCampaignRfq(c, args, rfqDeadline)
      PROVE  TokensMove
  BY <1>2, FundingMoves DEF CreateCampaignRfq
<1>3. ASSUME NEW c \in Campaigns, NEW used \in SUBSET Agents, SettleSuccess(c, used)
      PROVE  TokensMove
  <2>1. campaign[c].executor \in Keys
    BY <1>3, AccountFacts
    DEF SettleSuccess, MaySettle, IsOpen, TypeOK, CampaignAccount
  <2>. QED
    BY <1>3, <2>1, PayingMoves DEF SettleSuccess
<1>4. ASSUME NEW c \in Campaigns, SettleTimeoutRefund(c)
      PROVE  TokensMove
  <2>1. CreatorOf[c] \in Keys
    BY KeysAssumption DEF Keys
  <2>. QED
    BY <1>4, <2>1, PayingMoves DEF SettleTimeoutRefund
<1>5. ASSUME NEW from \in Agents, NEW c \in Campaigns, NEW amount \in Amounts,
             Donate(from, c, amount)
      PROVE  TokensMove
  <2>1. from \in Keys /\ amount \in Int
    BY ArgumentsAssumption DEF Keys
  <2>2. Moves(from, c, amount)
    BY <1>5 DEF Donate, Moves
  <2>. QED
    BY <2>1, <2>2 DEF TokensMove
<1>6. CASE UNCHANGED <<wallet, escrow>>
  BY <1>6 DEF TokensMove
<1>. QED
  BY <1>1, <1>2, <1>3, <1>4, <1>5, <1>6
  DEF Next, CampaignSetup, Bidding, Settlement, InitializeConfig,
      CreateValidatorSet, SubmitBid, WithdrawBid, AcceptBid, ExpireRfq,
      SubmitValidatorScore, Tick, vars

\* Campaigns stay, so only the funding of a new one fills its escrow.
LEMMA EmptyFrame ==
    ASSUME TypeOK, EmptyUntilFunded, NEW c \in Campaigns,
           NEW account, account.status # "none",
           campaign' = [campaign EXCEPT ![c] = account],
           \A d \in Campaigns \ {c} : escrow'[d] = escrow[d]
    PROVE  EmptyUntilFunded'
BY AccountFacts DEF EmptyUntilFunded, CampaignExists, TypeOK

LEMMA EmptyStep ==
    ASSUME TypeOK, EmptyUntilFunded, [Next]_vars
    PROVE  EmptyUntilFunded'
<1>. USE AccountFacts
<1>1. ASSUME NEW c \in Campaigns, NEW args \in CampaignArgs, NEW executor \in Keys,
             CreateCampaign(c, args, executor)
      PROVE  EmptyUntilFunded'
  <2>1. NewCampaign("direct", executor, args, 0).status = "open"
    BY DEF NewCampaign
  <2>. QED
    BY <1>1, <2>1, EmptyFrame DEF CreateCampaign, FundEscrow, TypeOK
<1>2. ASSUME NEW c \in Campaigns, NEW args \in CampaignArgs,
             NEW rfqDeadline \in Deadlines, CreateCampaignRfq(c, args, rfqDeadline)
      PROVE  EmptyUntilFunded'
  <2>1. NewCampaign("rfq", NoKey, args, rfqDeadline).status = "open"
    BY DEF NewCampaign
  <2>. QED
    BY <1>2, <2>1, EmptyFrame DEF CreateCampaignRfq, FundEscrow, TypeOK
<1>3. ASSUME NEW c \in Campaigns, NEW bidder \in Agents, NEW id \in BidIds,
             AcceptBid(c, bidder, id)
      PROVE  EmptyUntilFunded'
  <2>1. [campaign[c] EXCEPT !.executor = bidder, !.accepted_bid_id = id].status
            = "open"
    BY <1>3 DEF AcceptBid, MayAccept, AwaitingBid, IsOpen, TypeOK, CampaignAccount
  <2>. QED
    BY <1>3, <2>1, EmptyFrame DEF AcceptBid
<1>4. ASSUME NEW c \in Campaigns, ExpireRfq(c)
      PROVE  EmptyUntilFunded'
  <2>1. [campaign[c] EXCEPT !.status = "rfq_expired"].status = "rfq_expired"
    BY <1>4 DEF ExpireRfq, MayExpire, AwaitingBid, IsOpen, TypeOK, CampaignAccount
  <2>. QED
    BY <1>4, <2>1, EmptyFrame DEF ExpireRfq
<1>5. ASSUME NEW c \in Campaigns, NEW used \in SUBSET Agents, SettleSuccess(c, used)
      PROVE  EmptyUntilFunded'
  <2>1. [campaign[c] EXCEPT !.status = "settled_success"].status = "settled_success"
    BY <1>5 DEF SettleSuccess, MaySettle, IsOpen, TypeOK, CampaignAccount
  <2>. QED
    BY <1>5, <2>1, EmptyFrame DEF SettleSuccess, TypeOK
<1>6. ASSUME NEW c \in Campaigns, SettleTimeoutRefund(c)
      PROVE  EmptyUntilFunded'
  <2>1. [campaign[c] EXCEPT !.status = "settled_refund"].status = "settled_refund"
    BY <1>6 DEF SettleTimeoutRefund, RefundAllowed, IsOpen, TypeOK, CampaignAccount
  <2>. QED
    BY <1>6, <2>1, EmptyFrame DEF SettleTimeoutRefund, TypeOK
<1>7. ASSUME NEW from \in Agents, NEW c \in Campaigns, NEW amount \in Amounts,
             Donate(from, c, amount)
      PROVE  EmptyUntilFunded'
  BY <1>7 DEF Donate, EmptyUntilFunded, CampaignExists, TypeOK
<1>8. CASE UNCHANGED <<campaign, escrow>>
  BY <1>8 DEF EmptyUntilFunded, CampaignExists
<1>. QED
  BY <1>1, <1>2, <1>3, <1>4, <1>5, <1>6, <1>7, <1>8
  DEF Next, CampaignSetup, Bidding, Settlement, InitializeConfig,
      CreateValidatorSet, SubmitBid, WithdrawBid, SubmitValidatorScore, Tick, vars

LEMMA MoveKeepsTotal ==
    ASSUME IsFiniteSet(Agents), IsFiniteSet(Campaigns), TypeOK, TokensMove
    PROVE  SumFunction(wallet') + SumFunction(escrow')
               = SumFunction(wallet) + SumFunction(escrow)
<1>1. CASE UNCHANGED <<wallet, escrow>>
  BY <1>1
<1>2. ASSUME NEW k \in Keys, NEW c \in Campaigns, NEW a \in Int, Moves(k, c, a)
      PROVE  SumFunction(wallet') + SumFunction(escrow')
                 = SumFunction(wallet) + SumFunction(escrow)
  <2>1. IsFiniteSet(Keys)
    BY FS_AddElement DEF Keys
  <2>2. wallet \in [Keys -> Int] /\ escrow \in [Campaigns -> Int]
    BY DEF TypeOK
  <2>3. wallet[k] \in Int /\ escrow[c] \in Int
    BY <2>2
  <2> DEFINE w == wallet[k] - a
             e == escrow[c] + a
  <2>4. w \in Int /\ e \in Int
    BY <2>3
  <2>5. SumFunction(wallet) \in Int /\ SumFunction(escrow) \in Int
    BY <2>1, <2>2, SumIsInt DEF SumFunction
  <2>6. SumFunction([wallet EXCEPT ![k] = w]) = SumFunction(wallet) - wallet[k] + w
    <3> HIDE DEF w
    <3>. QED
      BY <2>1, <2>2, <2>4, SumChange
  <2>7. SumFunction([escrow EXCEPT ![c] = e]) = SumFunction(escrow) - escrow[c] + e
    <3> HIDE DEF e
    <3>. QED
      BY <2>2, <2>4, SumChange
  <2>8. wallet' = [wallet EXCEPT ![k] = w] /\ escrow' = [escrow EXCEPT ![c] = e]
    BY <1>2 DEF Moves
  <2>. QED
    BY <2>3, <2>5, <2>6, <2>7, <2>8
<1>. QED
  BY <1>1, <1>2 DEF TokensMove

LEMMA TokensInit ==
    ASSUME IsFiniteSet(Agents), IsFiniteSet(Campaigns), Init
    PROVE  EmptyUntilFunded /\ TokensConserved
<1>1. EmptyUntilFunded
  BY DEF Init, EmptyUntilFunded
<1>2. SumFunction(escrow) = 0
  BY EmptySum DEF Init
<1>3. SumFunction(wallet) \in Int
  <2>1. IsFiniteSet(Keys)
    BY FS_AddElement DEF Keys
  <2>. QED
    BY <2>1, TypeInit, SumIsInt DEF SumFunction, TypeOK
<1>. QED
  BY <1>1, <1>2, <1>3 DEF TokensConserved, Init

\* No instruction creates or destroys tokens, however many wallets, campaigns
\* and gifts there are (create, settle, refund and the token program's
\* transfer): what the wallets and the escrows hold together is what the
\* wallets held at first.
THEOREM TokensAreConserved ==
    ASSUME IsFiniteSet(Agents), IsFiniteSet(Campaigns)
    PROVE  Spec => []TokensConserved
<1> DEFINE Inv == EmptyUntilFunded /\ TokensConserved
<1>1. Init => Inv
  BY TokensInit
<1>2. TypeOK /\ Inv /\ [Next]_vars => Inv'
  BY EmptyStep, MoveStep, MoveKeepsTotal DEF TokensConserved
<1>. QED
  BY <1>1, <1>2, TypeInit, TypeStep, PTL DEF Spec

-----------------------------------------------------------------------------
(* Averages *)

LEMMA QuotientBelow ==
    ASSUME NEW s \in Int, NEW n \in Nat, n > 0, NEW b \in Int, s < b * n
    PROVE  s \div n < b
<1>1. s = n * (s \div n) + (s % n) /\ s \div n \in Int /\ s % n \in 0 .. n - 1
  OBVIOUS
<1>2. n * (s \div n) < n * b
  BY <1>1
<1>. QED
  BY <1>1, <1>2

\* compute_average_score_bps never exceeds the best of the scores.
LEMMA AverageReached ==
    ASSUME NEW used, IsFiniteSet(used), used # {},
           NEW inputs \in [used -> Int], NEW b \in Int,
           AverageScoreBps(inputs) >= b
    PROVE  \E v \in used : inputs[v] >= b
<1>. SUFFICES ASSUME \A v \in used : inputs[v] < b
              PROVE  FALSE
  OBVIOUS
<1>1. SumFunction(inputs) < b * Cardinality(used)
  BY SumBelow DEF SumFunction
<1>2. SumFunction(inputs) \in Int
  BY SumIsInt DEF SumFunction
<1>3. Cardinality(used) \in Nat /\ Cardinality(used) > 0
  BY FS_CardinalityType, FS_EmptySet
<1>4. SumFunction(inputs) \div Cardinality(used) < b
  BY <1>1, <1>2, <1>3, QuotientBelow
<1>5. SumFunction(inputs) \div Cardinality(used) \in Int
  BY <1>2, <1>3
<1>. QED
  BY <1>4, <1>5 DEF AverageScoreBps

\* The executor is never paid against the judgement of all validators:
\* somebody on the registered list gave a score that reaches the threshold
\* by itself, whichever scores the caller of settle_success picked.
Supported(c) ==
    \E v \in Scored(c) : Listed(c, v) /\ score[c][v] >= campaign[c].threshold_bps

PayoutsSupported ==
    \A c \in Campaigns : campaign[c].status = "settled_success" => Supported(c)

THEOREM PayoutIsSupported ==
    ASSUME IsFiniteSet(Agents)
    PROVE  Spec => []PayoutsSupported
<1>1. ASSUME TypeOK, PayoutJustified, NEW c \in Campaigns,
             campaign[c].status = "settled_success"
      PROVE  Supported(c)
  <2>1. PICK used \in SUBSET {v \in Scored(c) : Listed(c, v)} : ThresholdMet(c, used)
    BY <1>1 DEF PayoutJustified, Justified
  <2>2. used \subseteq Agents /\ IsFiniteSet(used) /\ used # {}
    BY <2>1, FS_Subset DEF Scored, ThresholdMet
  <2>3. ASSUME NEW v \in Agents
        PROVE  score[c][v] \in Int
    <3>1. score[c][v] \in Scores \/ score[c][v] = -1
      BY <1>1 DEF TypeOK, NoScore
    <3>2. \A s \in Scores : s \in Int
      BY ArgumentsAssumption
    <3>. QED
      BY <3>1, <3>2
  <2>4. ScoreInputs(c, used) \in [used -> Int]
    BY <2>2, <2>3 DEF ScoreInputs
  <2>5. campaign[c].threshold_bps \in Int
    <3>1. campaign[c] \in CampaignAccount
      BY <1>1, AccountFacts DEF TypeOK
    <3>2. campaign[c].threshold_bps \in Nat
      BY <3>1, ArgumentsAssumption DEF CampaignAccount
    <3>. QED
      BY <3>2
  <2>6. PICK v \in used : ScoreInputs(c, used)[v] >= campaign[c].threshold_bps
    BY <2>1, <2>2, <2>4, <2>5, AverageReached DEF ThresholdMet
  <2>. QED
    BY <2>1, <2>6 DEF ScoreInputs, Supported
<1>2. TypeOK /\ PayoutJustified => PayoutsSupported
  BY <1>1 DEF PayoutsSupported
<1>. QED
  BY <1>2, TypeCorrect, PayoutIsJustified, PTL

=============================================================================
