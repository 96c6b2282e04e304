------------------------- MODULE ProofOfEngagement -------------------------
(***************************************************************************)
(* The on-chain program contracts/programs/proof-of-engagement.  A creator *)
(* puts tokens in a campaign's escrow; validators of a registered set      *)
(* score the executor's work; anyone may then pay the escrow to the        *)
(* executor (the average score reaches the threshold) or, after the        *)
(* deadline, back to the creator.  In RFQ mode the executor is chosen      *)
(* among bidders first.                                                    *)
(*                                                                         *)
(* Every instruction is one action, because a Solana transaction is        *)
(* atomic: a failed require! rolls everything back.  An account of the     *)
(* program lives at an address derived from its seeds, so the accounts are *)
(* functions of those seeds and "init" is the guard that none exists yet.  *)
(***************************************************************************)
EXTENDS Integers, FiniteSets, Sequences, FiniteSetsExt

CONSTANTS
    Agents,          \* wallets: creators, bidders, validators, callers
    NoKey,           \* Pubkey::default(), a key no wallet can sign for
    Campaigns,       \* campaign addresses, derived from creator and id
    CreatorOf,       \* the creator in the seeds of each campaign address
    BidIds,          \* the ids bidders choose
    ValidatorLists,  \* the lists a creator may register
    MaxValidators,   \* MAX_VALIDATORS, 16 in the program
    Amounts,         \* token amounts passed as arguments
    Thresholds,      \* threshold_bps arguments
    Scores,          \* score_bps arguments
    Deadlines,       \* unix times passed as arguments
    MaxTime,         \* bound on the chain's clock
    InitialWallet    \* each key's tokens of the configured mint

Keys == Agents \cup {NoKey}

BPS_DENOMINATOR == 10000

ASSUME KeysAssumption ==
    /\ NoKey \notin Agents
    /\ CreatorOf \in [Campaigns -> Agents]
    /\ InitialWallet \in [Keys -> Nat]

ASSUME ArgumentsAssumption ==
    /\ ValidatorLists \subseteq Seq(Agents)
    /\ Amounts \subseteq Nat
    /\ Thresholds \subseteq Nat
    /\ Scores \subseteq Nat
    /\ BidIds \subseteq Nat

\* Every deadline the model uses passes before the clock stops.
ASSUME ClockAssumption ==
    /\ MaxTime \in Nat
    /\ Deadlines \subseteq 0 .. MaxTime - 1

VARIABLES
    now,        \* Clock::unix_timestamp
    config,     \* authority in the config account, NoKey before it exists
    vset,       \* validators registered for a campaign, << >> for no account
    campaign,   \* campaign accounts
    bid,        \* bid accounts, by campaign, bidder and bid id
    score,      \* score accounts, by campaign and validator
    escrow,     \* tokens in each campaign's escrow token account
    wallet      \* tokens each key holds outside the escrows

vars == <<now, config, vset, campaign, bid, score, escrow, wallet>>

-----------------------------------------------------------------------------
(* Accounts *)

NoCampaign == [status |-> "none"]
NoBid == [status |-> "none"]
NoScore == -1

\* canonical_validator_hash sorts the keys before hashing: it depends only
\* on how often each key occurs.  (SHA-256 is taken to be injective.)
CanonicalHash(list) ==
    [v \in Agents |-> Cardinality({i \in DOMAIN list : list[i] = v})]

CampaignAccount ==
    [status : {"open", "settled_success", "settled_refund", "rfq_expired"},
     mode : {"direct", "rfq"},
     executor : Keys,
     amount : Amounts,
     validator_set_hash : {CanonicalHash(list) : list \in ValidatorLists},
     validator_count : Nat,
     threshold_bps : Thresholds,
     deadline_unix : Deadlines,
     rfq_deadline_unix : Deadlines \cup {0},
     accepted_bid_id : BidIds \cup {0}]

BidAccount == [status : {"open", "withdrawn", "accepted"}, amount : Amounts]


TypeOK ==
    /\ now \in 0 .. MaxTime
    /\ config \in Keys
    /\ vset \in [Campaigns -> ValidatorLists \cup {<< >>}]
    /\ campaign \in [Campaigns -> CampaignAccount \cup {NoCampaign}]
    /\ bid \in [Campaigns -> [Agents -> [BidIds -> BidAccount \cup {NoBid}]]]
    /\ score \in [Campaigns -> [Agents -> Scores \cup {NoScore}]]
    /\ escrow \in [Campaigns -> Nat]
    /\ wallet \in [Keys -> Nat]

Init ==
    /\ now = 0
    /\ config = NoKey
    /\ vset = [c \in Campaigns |-> << >>]
    /\ campaign = [c \in Campaigns |-> NoCampaign]
    /\ bid = [c \in Campaigns |-> [b \in Agents |-> [i \in BidIds |-> NoBid]]]
    /\ score = [c \in Campaigns |-> [v \in Agents |-> NoScore]]
    /\ escrow = [c \in Campaigns |-> 0]
    /\ wallet = InitialWallet

-----------------------------------------------------------------------------
(* Set-up *)

\* The config account is created once, by whoever comes first.  Tokens of
\* mints other than config.usdc_mint never enter an escrow and are left out.
InitializeConfig(authority) ==
    /\ config = NoKey
    /\ config' = authority
    /\ UNCHANGED <<now, vset, campaign, bid, score, escrow, wallet>>

\* Mutant: init_if_needed in place of init.
MayReplaceSet(c, validators) ==
    /\ validators # << >>
    /\ Len(validators) <= MaxValidators

MayRegister(c, validators) ==
    /\ validators # << >>
    /\ Len(validators) <= MaxValidators
    /\ vset[c] = << >>

CreateValidatorSet(c, validators) ==
    /\ MayRegister(c, validators)
    /\ vset' = [vset EXCEPT ![c] = validators]
    /\ UNCHANGED <<now, config, campaign, bid, score, escrow, wallet>>

\* What a creator passes; the hash and the count are those of the list the
\* creator believes to be registered.
CampaignArgs ==
    [amount : Amounts, threshold_bps : Thresholds, deadline_unix : Deadlines,
     validators : ValidatorLists]

\* Mutant: the creator's balance is not checked.
MayCreateUnfunded(c, args, registered) ==
    /\ config # NoKey
    /\ campaign[c] = NoCampaign
    /\ args.amount > 0
    /\ Len(args.validators) > 0
    /\ args.threshold_bps \in 1 .. BPS_DENOMINATOR
    /\ args.deadline_unix > now
    /\ registered # << >>
    /\ Len(registered) = Len(args.validators)
    /\ CanonicalHash(registered) = CanonicalHash(args.validators)

\* The checks create_campaign and create_campaign_rfq share, against the
\* list registered for the campaign; the constraint on the creator's token
\* account (SPL transfer) is included.
MayCreate(c, args, registered) ==
    /\ config # NoKey
    /\ campaign[c] = NoCampaign
    /\ args.amount > 0
    /\ Len(args.validators) > 0
    /\ args.threshold_bps > 0
    /\ args.threshold_bps <= BPS_DENOMINATOR
    /\ args.deadline_unix > now
    /\ registered # << >>
    /\ Len(registered) = Len(args.validators)
    /\ CanonicalHash(registered) = CanonicalHash(args.validators)
    /\ wallet[CreatorOf[c]] >= args.amount

MayOpenRfq(args, rfqDeadline) ==
    /\ rfqDeadline > now
    /\ rfqDeadline < args.deadline_unix

NewCampaign(mode, executor, args, rfqDeadline) ==
    [status |-> "open",
     mode |-> mode,
     executor |-> executor,
     amount |-> args.amount,
     validator_set_hash |-> CanonicalHash(args.validators),
     validator_count |-> Len(args.validators),
     threshold_bps |-> args.threshold_bps,
     deadline_unix |-> args.deadline_unix,
     rfq_deadline_unix |-> rfqDeadline,
     accepted_bid_id |-> 0]

FundEscrow(c, amount) ==
    /\ wallet' = [wallet EXCEPT ![CreatorOf[c]] = @ - amount]
    /\ escrow' = [escrow EXCEPT ![c] = amount]

CreateCampaign(c, args, executor) ==
    /\ MayCreate(c, args, vset[c])
    /\ FundEscrow(c, args.amount)
    /\ campaign' = [campaign EXCEPT ![c] =
                        NewCampaign("direct", executor, args, 0)]
    /\ UNCHANGED <<now, config, vset, bid, score>>

CreateCampaignRfq(c, args, rfqDeadline) ==
    /\ MayCreate(c, args, vset[c])
    /\ MayOpenRfq(args, rfqDeadline)
    /\ FundEscrow(c, args.amount)
    /\ campaign' = [campaign EXCEPT ![c] =
                        NewCampaign("rfq", NoKey, args, rfqDeadline)]
    /\ UNCHANGED <<now, config, vset, bid, score>>

-----------------------------------------------------------------------------
(* Bidding *)

IsOpen(c) == campaign[c].status = "open"

\* An open RFQ campaign whose creator has accepted nobody yet.
AwaitingBid(c) ==
    /\ IsOpen(c)
    /\ campaign[c].mode = "rfq"
    /\ campaign[c].executor = NoKey

MayBid(c, bidder, id, amount) ==
    /\ AwaitingBid(c)
    /\ now < campaign[c].rfq_deadline_unix
    /\ amount > 0
    /\ bid[c][bidder][id] = NoBid

SubmitBid(c, bidder, id, amount) ==
    /\ MayBid(c, bidder, id, amount)
    /\ bid' = [bid EXCEPT ![c][bidder][id] =
                   [status |-> "open", amount |-> amount]]
    /\ UNCHANGED <<now, config, vset, campaign, score, escrow, wallet>>

\* Mutant: a losing bid can be withdrawn after another was accepted.
MayWithdrawAnytime(c, bidder, id) == bid[c][bidder][id].status = "open"

\* No status or time is checked: a bid can be withdrawn after expiry too.
MayWithdraw(c, bidder, id) ==
    /\ bid[c][bidder][id].status = "open"
    /\ campaign[c].executor = NoKey

WithdrawBid(c, bidder, id) ==
    /\ MayWithdraw(c, bidder, id)
    /\ bid' = [bid EXCEPT ![c][bidder][id].status = "withdrawn"]
    /\ UNCHANGED <<now, config, vset, campaign, score, escrow, wallet>>

\* Mutant: no check that the executor is still unset.
MayAcceptAgain(c, bidder, id) ==
    /\ IsOpen(c)
    /\ campaign[c].mode = "rfq"
    /\ bid[c][bidder][id].status = "open"

\* Signed by the campaign's creator.  No deadline is checked here.
MayAccept(c, bidder, id) ==
    /\ AwaitingBid(c)
    /\ bid[c][bidder][id].status = "open"

AcceptBid(c, bidder, id) ==
    /\ MayAccept(c, bidder, id)
    /\ campaign' = [campaign EXCEPT ![c].executor = bidder,
                                    ![c].accepted_bid_id = id]
    /\ bid' = [bid EXCEPT ![c][bidder][id].status = "accepted"]
    /\ UNCHANGED <<now, config, vset, score, escrow, wallet>>

\* Mutant: expiry of a campaign whose bid was accepted.
MayExpireAccepted(c) ==
    /\ IsOpen(c)
    /\ campaign[c].mode = "rfq"
    /\ now > campaign[c].rfq_deadline_unix

MayExpire(c) ==
    /\ AwaitingBid(c)
    /\ now > campaign[c].rfq_deadline_unix

ExpireRfq(c) ==
    /\ MayExpire(c)
    /\ campaign' = [campaign EXCEPT ![c].status = "rfq_expired"]
    /\ UNCHANGED <<now, config, vset, bid, score, escrow, wallet>>

-----------------------------------------------------------------------------
(* Scoring and settlement *)

Listed(c, validator) == \E i \in DOMAIN vset[c] : vset[c][i] = validator

\* Mutant: any wallet may score.
MayScoreOutsider(c, validator, scoreBps) ==
    /\ scoreBps <= BPS_DENOMINATOR
    /\ IsOpen(c)
    /\ now <= campaign[c].deadline_unix
    /\ score[c][validator] = NoScore

MayScore(c, validator, scoreBps) ==
    /\ scoreBps <= BPS_DENOMINATOR
    /\ IsOpen(c)
    /\ now <= campaign[c].deadline_unix
    /\ CanonicalHash(vset[c]) = campaign[c].validator_set_hash
    /\ Len(vset[c]) = campaign[c].validator_count
    /\ Listed(c, validator)
    /\ score[c][validator] = NoScore

SubmitValidatorScore(c, validator, scoreBps) ==
    /\ MayScore(c, validator, scoreBps)
    /\ score' = [score EXCEPT ![c][validator] = scoreBps]
    /\ UNCHANGED <<now, config, vset, campaign, bid, escrow, wallet>>

Scored(c) == {v \in Agents : score[c][v] # NoScore}

\* The scores in the accounts of the validators in "used".
ScoreInputs(c, used) == [v \in used |-> score[c][v]]

\* compute_average_score_bps.
AverageScoreBps(inputs) ==
    SumFunction(inputs) \div Cardinality(DOMAIN inputs)

ThresholdMet(c, used) ==
    /\ used # {}
    /\ AverageScoreBps(ScoreInputs(c, used)) >= campaign[c].threshold_bps

\* The score accounts are those the caller passes.  Passing one twice is
\* rejected, so a successful call names a set of validators.
MaySettle(c, used) ==
    /\ IsOpen(c)
    /\ campaign[c].mode = "rfq" => campaign[c].executor # NoKey
    /\ used \subseteq Scored(c)
    /\ ThresholdMet(c, used)

\* Mutant: campaign.amount is paid and the escrow's surplus is lost.
SettleSuccessAmount(c, used) ==
    /\ MaySettle(c, used)
    /\ escrow' = [escrow EXCEPT ![c] = 0]
    /\ wallet' = [wallet EXCEPT ![campaign[c].executor] =
                      @ + campaign[c].amount]
    /\ campaign' = [campaign EXCEPT ![c].status = "settled_success"]
    /\ UNCHANGED <<now, config, vset, bid, score>>

SettleSuccess(c, used) ==
    /\ MaySettle(c, used)
    /\ escrow' = [escrow EXCEPT ![c] = 0]
    /\ wallet' = [wallet EXCEPT ![campaign[c].executor] = @ + escrow[c]]
    /\ campaign' = [campaign EXCEPT ![c].status = "settled_success"]
    /\ UNCHANGED <<now, config, vset, bid, score>>

\* Mutants: a refund at the deadline itself, and none after expire_rfq.
RefundAtDeadline(c) ==
    \/ campaign[c].status = "rfq_expired"
    \/ IsOpen(c) /\ now >= campaign[c].deadline_unix

RefundOpenOnly(c) == IsOpen(c) /\ now > campaign[c].deadline_unix

RefundAllowed(c) ==
    \/ campaign[c].status = "rfq_expired"
    \/ IsOpen(c) /\ now > campaign[c].deadline_unix

\* Mutants: the status is not written, and only campaign.amount is returned.
RefundKeepsStatus(c) ==
    /\ RefundAllowed(c)
    /\ escrow' = [escrow EXCEPT ![c] = 0]
    /\ wallet' = [wallet EXCEPT ![CreatorOf[c]] = @ + escrow[c]]
    /\ UNCHANGED <<now, config, vset, campaign, bid, score>>

RefundAmount(c) ==
    /\ RefundAllowed(c)
    /\ escrow' = [escrow EXCEPT ![c] = @ - campaign[c].amount]
    /\ wallet' = [wallet EXCEPT ![CreatorOf[c]] = @ + campaign[c].amount]
    /\ campaign' = [campaign EXCEPT ![c].status = "settled_refund"]
    /\ UNCHANGED <<now, config, vset, bid, score>>

SettleTimeoutRefund(c) ==
    /\ RefundAllowed(c)
    /\ escrow' = [escrow EXCEPT ![c] = 0]
    /\ wallet' = [wallet EXCEPT ![CreatorOf[c]] = @ + escrow[c]]
    /\ campaign' = [campaign EXCEPT ![c].status = "settled_refund"]
    /\ UNCHANGED <<now, config, vset, bid, score>>

-----------------------------------------------------------------------------
(* The environment *)

\* The SPL token program lets anyone pay into an existing token account.
Donate(from, c, amount) ==
    /\ campaign[c] # NoCampaign
    /\ amount > 0
    /\ wallet[from] >= amount
    /\ wallet' = [wallet EXCEPT ![from] = @ - amount]
    /\ escrow' = [escrow EXCEPT ![c] = @ + amount]
    /\ UNCHANGED <<now, config, vset, campaign, bid, score>>

Tick ==
    /\ now < MaxTime
    /\ now' = now + 1
    /\ UNCHANGED <<config, vset, campaign, bid, score, escrow, wallet>>

-----------------------------------------------------------------------------
(* Specification *)

CampaignSetup(c) ==
    \/ \E validators \in ValidatorLists : CreateValidatorSet(c, validators)
    \/ \E args \in CampaignArgs, executor \in Keys :
          CreateCampaign(c, args, executor)
    \/ \E args \in CampaignArgs, rfqDeadline \in Deadlines :
          CreateCampaignRfq(c, args, rfqDeadline)

Bidding(c) ==
    \/ \E bidder \in Agents, id \in BidIds :
          \/ \E amount \in Amounts : SubmitBid(c, bidder, id, amount)
          \/ WithdrawBid(c, bidder, id)
          \/ AcceptBid(c, bidder, id)
    \/ ExpireRfq(c)

Settlement(c) ==
    \/ \E validator \in Agents, scoreBps \in Scores :
          SubmitValidatorScore(c, validator, scoreBps)
    \/ \E used \in SUBSET Agents : SettleSuccess(c, used)
    \/ SettleTimeoutRefund(c)

Next ==
    \/ \E authority \in Agents : InitializeConfig(authority)
    \/ \E c \in Campaigns : CampaignSetup(c) \/ Bidding(c) \/ Settlement(c)
    \/ \E from \in Agents, c \in Campaigns, amount \in Amounts :
          Donate(from, c, amount)
    \/ Tick

Spec == Init /\ [][Next]_vars

\* The chain's clock advances, and for every campaign somebody keeps asking
\* for the refund: triggerTimeoutRefund needs no authority, and the scripts
\* call it in a loop until it succeeds.
FairSpec ==
    /\ Spec
    /\ WF_vars(Tick)
    /\ \A c \in Campaigns : WF_vars(SettleTimeoutRefund(c))

-----------------------------------------------------------------------------
(* Properties *)

CampaignExists(c) == campaign[c] # NoCampaign
Settled(c) == campaign[c].status \in {"settled_success", "settled_refund"}
Pending(c) == campaign[c].status \in {"open", "rfq_expired"}

\* Until a campaign is settled its escrow holds at least what its creator
\* promised, whatever happens to other campaigns (lib.rs: the escrow moves
\* only in the two settle instructions).
EscrowBacked ==
    \A c \in Campaigns : Pending(c) => escrow[c] >= campaign[c].amount

\* No instruction creates or destroys tokens.
TokensConserved ==
    SumFunction(wallet) + SumFunction(escrow) = SumFunction(InitialWallet)

\* The executor and accepted_bid_id of an RFQ campaign and the status of
\* its bids are written to different accounts: they always name the same
\* bid, and no second bid is ever accepted (accept_bid against
\* withdraw_bid, expire_rfq and another accept_bid).
AcceptedBidAgreement ==
    \A c \in Campaigns :
        {a \in Agents \X BidIds : bid[c][a[1]][a[2]].status = "accepted"} =
            IF CampaignExists(c) /\ campaign[c].mode = "rfq"
                                 /\ campaign[c].executor # NoKey
              THEN {<<campaign[c].executor, campaign[c].accepted_bid_id>>}
              ELSE {}

\* A bidder the creator accepted cannot lose the campaign to expire_rfq,
\* however the two calls race after the bidding window.
ExpiredRfqHasNoExecutor ==
    \A c \in Campaigns :
        campaign[c].status = "rfq_expired" => campaign[c].executor = NoKey

\* The creator is refunded only when the execution deadline has passed, or
\* when the bidding window has passed and nobody was chosen.
NoEarlyRefund ==
    \A c \in Campaigns :
        campaign[c].status = "settled_refund" =>
            \/ now > campaign[c].deadline_unix
            \/ /\ campaign[c].mode = "rfq"
               /\ campaign[c].executor = NoKey
               /\ now > campaign[c].rfq_deadline_unix

Justified(c) ==
    /\ \E used \in SUBSET {v \in Scored(c) : Listed(c, v)} :
          ThresholdMet(c, used)
    /\ campaign[c].mode = "rfq" => campaign[c].executor # NoKey

\* Whenever the executor was paid, the chain still shows why: scores of
\* validators on the registered list whose average reaches the threshold,
\* and, for an RFQ campaign, an executor that was chosen.
PayoutJustified ==
    \A c \in Campaigns :
        campaign[c].status = "settled_success" => Justified(c)

\* What makes these invariants inductive: a campaign is created after its
\* validator set, scores are written only to campaigns and by validators of
\* that set, and an RFQ is marked expired only after its window.
SetIsRegistered == \A c \in Campaigns : CampaignExists(c) => vset[c] # << >>

ScoresBelongToValidators ==
    \A c \in Campaigns : \A v \in Scored(c) : CampaignExists(c) /\ Listed(c, v)

ExpiredAfterWindow ==
    \A c \in Campaigns :
        campaign[c].status = "rfq_expired" =>
            /\ campaign[c].mode = "rfq"
            /\ campaign[c].executor = NoKey
            /\ now > campaign[c].rfq_deadline_unix

\* The inductive invariant of the proofs.  A validator set that could be
\* replaced, or a score written by an outsider or before the campaign
\* exists, would break it long before an escrow is paid.
InductiveInvariant ==
    /\ EscrowBacked
    /\ AcceptedBidAgreement
    /\ ExpiredAfterWindow
    /\ NoEarlyRefund
    /\ SetIsRegistered
    /\ ScoresBelongToValidators
    /\ PayoutJustified

\* What the parties rely on never changes after creation: the money, the
\* threshold, the validators and the deadlines.  An executor, once known,
\* stays, a score is never revised, and a settled account is never written.
TermsOf(c) ==
    <<campaign[c].mode, campaign[c].amount, campaign[c].threshold_bps,
      campaign[c].deadline_unix, campaign[c].rfq_deadline_unix,
      campaign[c].validator_set_hash, campaign[c].validator_count, vset[c]>>

KeepsTerms(c) ==
    /\ CampaignExists(c) => TermsOf(c)' = TermsOf(c)
    /\ CampaignExists(c) /\ campaign[c].executor # NoKey =>
          campaign'[c].executor = campaign[c].executor
    /\ \A v \in Scored(c) : score'[c][v] = score[c][v]
    /\ Settled(c) => campaign'[c] = campaign[c]

TermsAreFrozen == [][\A c \in Campaigns : KeepsTerms(c)]_vars

\* From the moment a bid is accepted all bids of the campaign are locked:
\* the losers can no longer be withdrawn, accepted or joined by new ones.
KeepsLockedBids(c) ==
    CampaignExists(c) /\ campaign[c].mode = "rfq"
                      /\ campaign[c].executor # NoKey => bid'[c] = bid[c]

BidsLockedByAcceptance == [][\A c \in Campaigns : KeepsLockedBids(c)]_vars

\* The program implements the escrow's abstract promise.
DealOf(c) ==
    CASE campaign[c].status = "none" -> "none"
      [] campaign[c].status \in {"open", "rfq_expired"} -> "pending"
      [] campaign[c].status = "settled_success" -> "paid"
      [] campaign[c].status = "settled_refund" -> "refunded"

ExecutorOf(c) == IF CampaignExists(c) THEN campaign[c].executor ELSE NoKey

Escrow == INSTANCE Settlement WITH
    deal <- [c \in Campaigns |-> DealOf(c)],
    executor <- [c \in Campaigns |-> ExecutorOf(c)],
    pot <- escrow

\* Every step of the program is a step of Settlement or invisible to it.
ImplementsSettlement == Escrow!Spec

\* No escrow is locked for ever: every campaign that was created is settled
\* in the end, also an RFQ campaign that is expired, never expired, or has
\* its winning bid accepted after the deadline (under FairSpec).
EventuallySettled == Escrow!Resolves

=============================================================================
