-------------------------- MODULE PoeClientProofs --------------------------
(***************************************************************************)
(* Theorems about the SDK client composed with the program, for every set  *)
(* of clients, readers and calls.                                          *)
(***************************************************************************)
EXTENDS PoeClient, ProofOfEngagementProofs

-----------------------------------------------------------------------------
(* A landed transaction is one step of the program, or creates at once *)

CreatesAtOnce ==
    \E c \in Campaigns, args \in CampaignArgs, mode \in {"direct", "rfq"},
       executor \in Keys, rfqDeadline \in Deadlines \cup {0} :
          /\ mode = "rfq" => executor = NoKey
          /\ CreateAtOnce(c, args, NewCampaign(mode, executor, args, rfqDeadline))

ProgramStep == [Next]_vars \/ CreatesAtOnce

LEMMA RunIsProgramStep ==
    ASSUME NEW payer \in Agents, NEW a \in Agents,
           NEW request \in Requests(a), Run(payer, request)
    PROVE  ProgramStep
<1>. USE DEF ProgramStep, Next, Bidding, Settlement
<1>. USE DEF Requests, CreateCampaignCalls, CreateCampaignRfqCalls,
         SubmitBidCalls, WithdrawBidCalls, AcceptBidCalls, ExpireRfqCalls,
         SubmitScoreCalls, SettleSuccessCalls, TimeoutRefundCalls,
         DelegateCalls, UndelegateCalls
<1>0. request.c \in Campaigns
  OBVIOUS
<1>1. CASE request.op = "createCampaign"
  <2>1. request \in CreateCampaignCalls(a)
    BY <1>1
  <2>2. CreateAtOnce(request.c, request.args,
            NewCampaign("direct", request.executor, request.args, 0))
    BY <1>1 DEF Run
  <2>3. CreatesAtOnce
    BY <1>0, <2>1, <2>2 DEF CreatesAtOnce
  <2>. QED
    BY <2>3
<1>2. CASE request.op = "createCampaignRfq"
  <2>1. request \in CreateCampaignRfqCalls(a)
    BY <1>2
  <2>2. CreateAtOnce(request.c, request.args,
            NewCampaign("rfq", NoKey, request.args, request.rfqDeadline))
    BY <1>2 DEF Run
  <2>3. CreatesAtOnce
    BY <1>0, <2>1, <2>2 DEF CreatesAtOnce, Keys
  <2>. QED
    BY <2>3
<1>3. CASE request.op = "submitBid"
  BY <1>0, <1>3 DEF Run
<1>4. CASE request.op = "withdrawBid"
  BY <1>0, <1>4 DEF Run
<1>5. CASE request.op = "acceptBid"
  BY <1>0, <1>5 DEF Run
<1>6. CASE request.op = "expireRfq"
  BY <1>0, <1>6 DEF Run
<1>7. CASE request.op = "submitValidatorScoreEr"
  BY <1>0, <1>7 DEF Run
<1>8. CASE request.op = "triggerSettleSuccess"
  BY <1>0, <1>8 DEF Run
<1>9. CASE request.op = "triggerTimeoutRefund"
  BY <1>0, <1>9 DEF Run
<1>10. CASE request.op \in {"delegateCampaign", "undelegateCampaign"}
  BY <1>10 DEF Run
<1>. QED
  BY <1>1, <1>2, <1>3, <1>4, <1>5, <1>6, <1>7, <1>8, <1>9, <1>10 DEF Run

-----------------------------------------------------------------------------
(* The program's invariants survive the batched creation *)

LEMMA CreatesAtOnceFacts ==
    ASSUME TypeOK, CreatesAtOnce
    PROVE  \E c \in Campaigns, args \in CampaignArgs :
              /\ campaign[c] = NoCampaign
              /\ vset[c] = << >>
              /\ args.validators # << >>
              /\ args.amount \in Nat
              /\ vset' = [vset EXCEPT ![c] = args.validators]
              /\ wallet' \in [Keys -> Nat]
              /\ escrow' = [escrow EXCEPT ![c] = args.amount]
              /\ campaign'[c] \in CampaignAccount
              /\ campaign' = [campaign EXCEPT ![c] = campaign'[c]]
              /\ campaign'[c].status = "open"
              /\ campaign'[c].amount = args.amount
              /\ campaign'[c].mode = "rfq" => campaign'[c].executor = NoKey
              /\ UNCHANGED <<now, config, bid, score>>
<1>1. PICK c \in Campaigns, args \in CampaignArgs, mode \in {"direct", "rfq"},
           executor \in Keys, rfqDeadline \in Deadlines \cup {0} :
         /\ mode = "rfq" => executor = NoKey
         /\ CreateAtOnce(c, args,
                NewCampaign(mode, executor, args, rfqDeadline))
  BY DEF CreatesAtOnce
<1>. DEFINE account == NewCampaign(mode, executor, args, rfqDeadline)
<1>2. account \in CampaignAccount
  BY NewCampaignType
<1>3. /\ account.status = "open"
      /\ account.mode = mode
      /\ account.executor = executor
      /\ account.amount = args.amount
  BY DEF NewCampaign
<1>4. /\ campaign' = [campaign EXCEPT ![c] = account]
      /\ campaign[c] = NoCampaign
      /\ vset[c] = << >>
      /\ args.validators # << >>
      /\ vset' = [vset EXCEPT ![c] = args.validators]
      /\ escrow' = [escrow EXCEPT ![c] = args.amount]
      /\ UNCHANGED <<now, config, bid, score>>
  BY <1>1
  DEF CreateAtOnce, MayCreateAtOnce, MayRegister, MayCreate, FundEscrow
<1>5. args.amount \in Nat
  BY ArgumentsAssumption DEF CampaignArgs
<1>6. wallet' \in [Keys -> Nat]
  BY <1>1, FundEscrowType DEF CreateAtOnce, MayCreateAtOnce
<1>7. campaign'[c] = account
  BY <1>4 DEF TypeOK
<1>. HIDE DEF account
<1>8. campaign'[c].mode = "rfq" => campaign'[c].executor = NoKey
  BY <1>1, <1>3, <1>7
<1>. QED
  BY <1>2, <1>3, <1>4, <1>5, <1>6, <1>7, <1>8

LEMMA ProgramTypeStep == TypeOK /\ ProgramStep => TypeOK'
<1>. SUFFICES ASSUME TypeOK, CreatesAtOnce PROVE TypeOK'
  BY TypeStep DEF ProgramStep
<1>1. PICK c \in Campaigns, args \in CampaignArgs :
         /\ args.amount \in Nat
         /\ vset' = [vset EXCEPT ![c] = args.validators]
         /\ wallet' \in [Keys -> Nat]
         /\ escrow' = [escrow EXCEPT ![c] = args.amount]
         /\ campaign'[c] \in CampaignAccount
         /\ campaign' = [campaign EXCEPT ![c] = campaign'[c]]
         /\ UNCHANGED <<now, config, bid, score>>
  BY CreatesAtOnceFacts
<1>2. vset' \in [Campaigns -> ValidatorLists \cup {<< >>}]
  BY <1>1 DEF TypeOK, CampaignArgs
<1>3. campaign' \in [Campaigns -> CampaignAccount \cup {NoCampaign}]
  BY <1>1 DEF TypeOK
<1>. QED
  BY <1>1, <1>2, <1>3 DEF TypeOK

LEMMA ProgramInvariantStep ==
    TypeOK /\ InductiveInvariant /\ ProgramStep => InductiveInvariant'
<1>. SUFFICES ASSUME TypeOK, InductiveInvariant, CreatesAtOnce
              PROVE  InductiveInvariant'
  BY InvariantStep DEF ProgramStep
<1>. USE AccountFacts
<1>1. PICK c \in Campaigns, args \in CampaignArgs :
         /\ campaign[c] = NoCampaign
         /\ args.validators # << >>
         /\ args.amount \in Nat
         /\ vset' = [vset EXCEPT ![c] = args.validators]
         /\ escrow' = [escrow EXCEPT ![c] = args.amount]
         /\ campaign'[c] \in CampaignAccount
         /\ campaign' = [campaign EXCEPT ![c] = campaign'[c]]
         /\ campaign'[c].status = "open"
         /\ campaign'[c].amount = args.amount
         /\ campaign'[c].mode = "rfq" => campaign'[c].executor = NoKey
         /\ UNCHANGED <<now, config, bid, score>>
  BY CreatesAtOnceFacts
<1>2. /\ \A d \in Campaigns \ {c} : /\ campaign'[d] = campaign[d]
                                    /\ vset'[d] = vset[d]
                                    /\ escrow'[d] = escrow[d]
      /\ vset'[c] = args.validators
      /\ escrow'[c] = args.amount
  BY <1>1 DEF TypeOK
<1>3. ~ CampaignExists(c) /\ CampaignExists(c)' /\ Scored(c) = {}
  BY <1>1 DEF CampaignExists, InductiveInvariant, ScoresBelongToValidators
<1>4. EscrowBacked'
  BY <1>1, <1>2 DEF InductiveInvariant, EscrowBacked, Pending
<1>5. AcceptedBidAgreement'
  BY <1>1, <1>2, <1>3
  DEF InductiveInvariant, AcceptedBidAgreement, CampaignExists
<1>6. ExpiredAfterWindow' /\ NoEarlyRefund'
  BY <1>1, <1>2 DEF InductiveInvariant, ExpiredAfterWindow, NoEarlyRefund
<1>7. SetIsRegistered' /\ ScoresBelongToValidators'
  BY <1>1, <1>2, <1>3
  DEF InductiveInvariant, SetIsRegistered, CampaignExists,
      ScoresBelongToValidators, Listed, Scored
<1>8. PayoutJustified'
  BY <1>1, <1>2, PayoutFrame DEF InductiveInvariant
<1>. QED
  BY <1>4, <1>5, <1>6, <1>7, <1>8 DEF InductiveInvariant

LEMMA ProgramTermsStep ==
    ASSUME TypeOK, InductiveInvariant, ProgramStep, NEW d \in Campaigns
    PROVE  KeepsTerms(d)
<1>1. CASE [Next]_vars
  BY <1>1, TermsStep DEF vars, KeepsTerms, TermsOf, CampaignExists, Scored,
                         Settled
<1>2. CASE CreatesAtOnce
  <2>1. PICK c \in Campaigns, args \in CampaignArgs :
           /\ campaign[c] = NoCampaign
           /\ vset' = [vset EXCEPT ![c] = args.validators]
           /\ campaign' = [campaign EXCEPT ![c] = campaign'[c]]
           /\ UNCHANGED <<now, config, bid, score>>
    BY <1>2, CreatesAtOnceFacts
  <2>2. d # c => campaign'[d] = campaign[d] /\ vset'[d] = vset[d]
    BY <2>1 DEF TypeOK
  <2>. QED
    BY <2>1, <2>2, AccountFacts
    DEF KeepsTerms, TermsOf, CampaignExists, Settled, Scored
<1>. QED
  BY <1>1, <1>2 DEF ProgramStep

-----------------------------------------------------------------------------
(* A settlement stays possible until the campaign is settled *)

\* The ways a campaign's status moves, and the clock.
StatusMoves(c) ==
    /\ IsOpen(c) =>
          \/ IsOpen(c)'
          \/ Settled(c)'
          \/ /\ campaign'[c].status = "rfq_expired"
             /\ campaign[c].mode = "rfq"
             /\ campaign[c].executor = NoKey
    /\ campaign[c].status = "rfq_expired" =>
          campaign'[c].status = "rfq_expired" \/ Settled(c)'
    /\ now' >= now

LEMMA StatusStep ==
    ASSUME TypeOK, ProgramStep, NEW c \in Campaigns PROVE StatusMoves(c)
<1>. USE AccountFacts
<1>. USE DEF StatusMoves, IsOpen, Settled
<1>0. now \in Int
  BY DEF TypeOK
<1>1. ASSUME campaign'[c] = campaign[c], now' >= now PROVE StatusMoves(c)
  BY <1>1
<1>2. ASSUME NEW d \in Campaigns, campaign[d] = NoCampaign,
             \A e \in Campaigns \ {d} : campaign'[e] = campaign[e],
             now' = now
      PROVE  StatusMoves(c)
  BY <1>0, <1>2
<1>3. ASSUME NEW d \in Campaigns,
             NEW status \in {"settled_success", "settled_refund"},
             campaign[d] # NoCampaign,
             campaign' = [campaign EXCEPT ![d].status = status],
             now' = now
      PROVE  StatusMoves(c)
  <2>1. campaign[d] \in CampaignAccount
    BY <1>3 DEF TypeOK
  <2>2. campaign'[d].status = status
    BY <1>3, <2>1 DEF TypeOK, CampaignAccount
  <2>3. c # d => campaign'[c] = campaign[c]
    BY <1>3 DEF TypeOK
  <2>. QED
    BY <1>0, <1>3, <2>2, <2>3
<1>4. ASSUME NEW d \in Campaigns, ExpireRfq(d) PROVE StatusMoves(c)
  <2>1. /\ campaign[d] \in CampaignAccount
        /\ campaign[d].mode = "rfq"
        /\ campaign[d].executor = NoKey
        /\ now' = now
        /\ campaign' = [campaign EXCEPT ![d].status = "rfq_expired"]
    BY <1>4 DEF ExpireRfq, MayExpire, AwaitingBid, TypeOK
  <2>2. campaign'[d].status = "rfq_expired"
    BY <2>1 DEF TypeOK, CampaignAccount
  <2>3. c # d => campaign'[c] = campaign[c]
    BY <2>1 DEF TypeOK
  <2>. QED
    BY <1>0, <2>1, <2>2, <2>3
<1>5. ASSUME NEW d \in Campaigns, NEW bidder \in Agents, NEW id \in BidIds,
             AcceptBid(d, bidder, id)
      PROVE  StatusMoves(c)
  <2>1. /\ campaign[d] \in CampaignAccount
        /\ campaign[d].status = "open"
        /\ now' = now
        /\ campaign' = [campaign EXCEPT ![d].executor = bidder,
                                        ![d].accepted_bid_id = id]
    BY <1>5 DEF AcceptBid, MayAccept, AwaitingBid, TypeOK
  <2>2. campaign'[d] = [campaign[d] EXCEPT !.executor = bidder,
                                           !.accepted_bid_id = id]
    BY <2>1 DEF TypeOK
  <2>6. campaign[d] \in CampaignAccount /\ campaign[d].status = "open"
    BY <2>1
  <2>3. campaign'[d].status = "open"
    BY <2>2, <2>6 DEF CampaignAccount
  <2>4. CASE c = d
    BY <1>0, <2>1, <2>3, <2>4
  <2>5. CASE c # d
    <3>1. campaign'[c] = campaign[c]
      BY <2>1, <2>5 DEF TypeOK
    <3>. QED
      BY <1>0, <1>1, <2>1, <3>1
  <2>. QED
    BY <2>4, <2>5
<1>6. ASSUME NEW d \in Campaigns, CampaignSetup(d) PROVE StatusMoves(c)
  BY <1>0, <1>1, <1>2, <1>6
  DEF CampaignSetup, CreateValidatorSet, CreateCampaign, CreateCampaignRfq,
      MayCreate, TypeOK
<1>7. ASSUME NEW d \in Campaigns, Bidding(d) PROVE StatusMoves(c)
  BY <1>0, <1>1, <1>4, <1>5, <1>7 DEF Bidding, SubmitBid, WithdrawBid
<1>8. ASSUME NEW d \in Campaigns, Settlement(d) PROVE StatusMoves(c)
  <2>1. ASSUME NEW used, SettleSuccess(d, used) PROVE StatusMoves(c)
    BY <1>3, <2>1 DEF SettleSuccess, MaySettle
  <2>2. CASE SettleTimeoutRefund(d)
    BY <1>3, <2>2 DEF SettleTimeoutRefund, RefundAllowed
  <2>3. ASSUME NEW v, NEW scoreBps, SubmitValidatorScore(d, v, scoreBps)
        PROVE  StatusMoves(c)
    BY <1>0, <1>1, <2>3 DEF SubmitValidatorScore
  <2>. QED
    BY <1>8, <2>1, <2>2, <2>3 DEF Settlement
<1>9. CASE Next
  BY <1>0, <1>1, <1>6, <1>7, <1>8, <1>9
  DEF Next, InitializeConfig, Donate, Tick
<1>10. CASE UNCHANGED vars
  BY <1>0, <1>1, <1>10 DEF vars
<1>11. CASE CreatesAtOnce
  <2>1. PICK d \in Campaigns, args \in CampaignArgs :
           /\ campaign[d] = NoCampaign
           /\ campaign' = [campaign EXCEPT ![d] = campaign'[d]]
           /\ UNCHANGED <<now, config, bid, score>>
    BY <1>11, CreatesAtOnceFacts
  <2>. QED
    BY <1>2, <2>1 DEF TypeOK
<1>. QED
  BY <1>9, <1>10, <1>11 DEF ProgramStep

\* The heart of the matter: nobody can make a possible settlement
\* impossible, except by settling.
LEMMA SettlementStays ==
    ASSUME TypeOK, InductiveInvariant, ProgramStep, NEW c \in Campaigns
    PROVE  /\ Settled(c) => Settled(c)'
           /\ \A used \in SUBSET Agents :
                 MaySettle(c, used) => MaySettle(c, used)' \/ Settled(c)'
           /\ RefundAllowed(c) => RefundAllowed(c)' \/ Settled(c)'
<1>1. KeepsTerms(c) /\ StatusMoves(c)
  BY ProgramTermsStep, StatusStep
<1>2. Settled(c) => Settled(c)'
  BY <1>1 DEF KeepsTerms, Settled
<1>3. ASSUME NEW used \in SUBSET Agents, MaySettle(c, used), ~ Settled(c)'
      PROVE  MaySettle(c, used)'
  <2>1. CampaignExists(c)
    BY <1>3, AccountFacts DEF MaySettle, IsOpen, CampaignExists
  <2>2. campaign[c].mode = "rfq" => campaign'[c].executor # NoKey
    BY <1>1, <1>3, <2>1 DEF MaySettle, KeepsTerms
  <2>3. IsOpen(c)'
    BY <1>1, <1>3 DEF StatusMoves, MaySettle
  <2>4. /\ campaign'[c].mode = campaign[c].mode
        /\ campaign'[c].threshold_bps = campaign[c].threshold_bps
    BY <1>1, <2>1 DEF KeepsTerms, TermsOf
  <2>5. \A v \in used : score'[c][v] = score[c][v]
    BY <1>1, <1>3 DEF KeepsTerms, MaySettle
  <2>6. used \subseteq Scored(c)'
    BY <1>3, <2>5 DEF MaySettle, Scored
  <2>7. ScoreInputs(c, used)' = ScoreInputs(c, used)
    BY <2>5 DEF ScoreInputs
  <2>8. ThresholdMet(c, used)'
    BY <1>3, <2>4, <2>7 DEF ThresholdMet, MaySettle
  <2>. QED
    BY <2>2, <2>3, <2>4, <2>6, <2>8 DEF MaySettle
<1>4. ASSUME RefundAllowed(c), ~ Settled(c)' PROVE RefundAllowed(c)'
  <2>1. CASE campaign[c].status = "rfq_expired"
    BY <1>1, <1>4, <2>1 DEF StatusMoves, RefundAllowed
  <2>2. CASE IsOpen(c) /\ now > campaign[c].deadline_unix
    <3>1. campaign[c] \in CampaignAccount /\ CampaignExists(c)
      BY <2>2, AccountFacts DEF IsOpen, CampaignExists, TypeOK
    <3>2. campaign'[c].deadline_unix = campaign[c].deadline_unix
      BY <1>1, <3>1 DEF KeepsTerms, TermsOf
    <3>3. \A t \in Deadlines : t \in Int
      BY ClockAssumption
    <3>7. campaign[c].deadline_unix \in Deadlines
      BY <3>1 DEF CampaignAccount
    <3>4. campaign[c].deadline_unix \in Int /\ now \in Int
      BY <3>3, <3>7 DEF TypeOK
    <3>5. now' \in Int
      BY ProgramTypeStep DEF TypeOK
    <3>6. now' > campaign'[c].deadline_unix
      BY <1>1, <2>2, <3>2, <3>4, <3>5 DEF StatusMoves
    <3>. QED
      BY <1>1, <1>4, <2>2, <3>6 DEF StatusMoves, RefundAllowed, IsOpen
  <2>. QED
    BY <1>4, <2>1, <2>2 DEF RefundAllowed
<1>. QED
  BY <1>2, <1>3, <1>4

-----------------------------------------------------------------------------
(* One call *)

LEMMA CallFacts ==
    ASSUME CallsTyped, NEW id \in CallIds
    PROVE  /\ id \in Clients \X (1 .. MaxCalls)
           /\ id[1] \in Clients /\ id[1] \in Agents
           /\ id[2] \in 1 .. Len(call[id[1]])
           /\ call[id[1]] \in Seq(UNION {CallRecord(a) : a \in Clients})
           /\ \E a \in Clients : ACall(id) \in CallRecord(a)
<1>1. id \in Clients \X (1 .. MaxCalls) /\ id[2] <= Len(call[id[1]])
  BY DEF CallIds
<1>2. id[1] \in Clients /\ id[2] \in 1 .. MaxCalls
  BY <1>1
<1>3. call[id[1]] \in Seq(UNION {CallRecord(a) : a \in Clients})
  BY <1>2 DEF CallsTyped
<1>4. id[2] \in 1 .. Len(call[id[1]])
  BY <1>1, <1>2, <1>3, ClientAssumption
<1>5. ACall(id) \in UNION {CallRecord(a) : a \in Clients}
  BY <1>3, <1>4 DEF ACall
<1>. QED
  BY <1>1, <1>2, <1>3, <1>4, <1>5, ClientAssumption

LEMMA RequestFacts ==
    ASSUME NEW a \in Agents, NEW request \in Requests(a)
    PROVE  /\ request.c \in Campaigns
           /\ request.op = "triggerSettleSuccess" =>
                 request.used \in SUBSET Agents
BY DEF Requests, CreateCampaignCalls, CreateCampaignRfqCalls,
       SubmitBidCalls, WithdrawBidCalls, AcceptBidCalls, ExpireRfqCalls,
       SubmitScoreCalls, SettleSuccessCalls, TimeoutRefundCalls,
       DelegateCalls, UndelegateCalls

LEMMA MayRunSettlement ==
    ASSUME NEW payer, NEW request
    PROVE  /\ request.op = "triggerSettleSuccess" =>
                 /\ MayRun(payer, request) <=> MaySettle(request.c, request.used)
                 /\ MayRun(payer, request)' <=> MaySettle(request.c, request.used)'
           /\ request.op = "triggerTimeoutRefund" =>
                 /\ MayRun(payer, request) <=> RefundAllowed(request.c)
                 /\ MayRun(payer, request)' <=> RefundAllowed(request.c)'
BY DEF MayRun

LEMMA SettlementSettles ==
    ASSUME TypeOK, NEW payer, NEW request, request.c \in Campaigns,
           request.op \in {"triggerSettleSuccess", "triggerTimeoutRefund"},
           Run(payer, request)
    PROVE  Settled(request.c)'
<1>. DEFINE c == request.c
<1>1. \E status \in {"settled_success", "settled_refund"} :
         campaign' = [campaign EXCEPT ![c].status = status]
  BY DEF Run, SettleSuccess, SettleTimeoutRefund
<1>2. campaign[c] \in CampaignAccount
  BY AccountFacts DEF Run, SettleSuccess, SettleTimeoutRefund, MaySettle,
                      RefundAllowed, IsOpen, TypeOK
<1>. QED
  BY <1>1, <1>2 DEF Settled, TypeOK, CampaignAccount

\* A call that the step leaves alone stays safe.
LEMMA OtherCallStep ==
    ASSUME TypeOK, InductiveInvariant, CallsTyped, ProgramStep,
           NEW id \in CallIds, SafeCall(id), ACall(id)' = ACall(id)
    PROVE  SafeCall(id)'
<1>. DEFINE request == ACall(id).request
<1>1. PICK a \in Agents : ACall(id) \in CallRecord(a)
  BY CallFacts, ClientAssumption
<1>2. request \in Requests(a)
  BY <1>1 DEF CallRecord
<1>3. /\ request.c \in Campaigns
      /\ request.op = "triggerSettleSuccess" => request.used \in SUBSET Agents
  BY <1>2, RequestFacts
<1>4. ACall(id)'.request = request
  OBVIOUS
<1>5. Settled(request.c) => Settled(request.c)'
  BY <1>3, SettlementStays
<1>6. ASSUME SettleCall(id), MayRun(id[1], request)
      PROVE  MayRun(id[1], request)' \/ Settled(request.c)'
  <2>1. CASE request.op = "triggerSettleSuccess"
    BY <1>3, <1>6, <2>1, MayRunSettlement, SettlementStays
  <2>2. CASE request.op = "triggerTimeoutRefund"
    BY <1>3, <1>6, <2>2, MayRunSettlement, SettlementStays
  <2>. QED
    BY <1>6, <2>1, <2>2 DEF SettleCall
<1>. QED
  BY <1>5, <1>6 DEF SafeCall, SettleCall, InBlock

-----------------------------------------------------------------------------
(* How the list of calls changes *)

SomeCall == UNION {CallRecord(a) : a \in Clients}

\* One call is updated in place.
LEMMA CallUpdate ==
    ASSUME CallsTyped, NEW id \in CallIds, NEW x \in SomeCall,
           call' = [call EXCEPT ![id[1]] = [call[id[1]] EXCEPT ![id[2]] = x]]
    PROVE  /\ CallsTyped'
           /\ CallIds' = CallIds
           /\ ACall(id)' = x
           /\ \A other \in CallIds \ {id} : ACall(other)' = ACall(other)
<1>. DEFINE a == id[1]
            n == id[2]
            S == call[a]
            T == [S EXCEPT ![n] = x]
<1>1. /\ a \in Clients /\ n \in 1 .. Len(S) /\ S \in Seq(SomeCall)
      /\ id \in Clients \X (1 .. MaxCalls)
  BY CallFacts DEF SomeCall
<1>2. /\ T \in Seq(SomeCall)
      /\ Len(T) = Len(S)
      /\ T[n] = x
      /\ \A i \in 1 .. Len(S) : i # n => T[i] = S[i]
  BY <1>1
<1>3. call \in [Clients -> Seq(SomeCall)]
  BY DEF CallsTyped, SomeCall
<1>4. call' = [call EXCEPT ![a] = T]
  OBVIOUS
<1>. HIDE DEF T
<1>5. call'[a] = T /\ \A b \in Clients \ {a} : call'[b] = call[b]
  BY <1>1, <1>3, <1>4
<1>6. call' \in [Clients -> Seq(SomeCall)]
  BY <1>1, <1>2, <1>3, <1>4
<1>7. CallsTyped'
  BY <1>6 DEF CallsTyped, SomeCall, CallRecord, Requests,
              CreateCampaignCalls, CreateCampaignRfqCalls, SubmitBidCalls,
              WithdrawBidCalls, AcceptBidCalls, ExpireRfqCalls,
              SubmitScoreCalls, SettleSuccessCalls, TimeoutRefundCalls,
              DelegateCalls, UndelegateCalls
<1>8. \A b \in Clients : Len(call'[b]) = Len(call[b])
  BY <1>2, <1>5
<1>9. CallIds' = CallIds
  BY <1>8 DEF CallIds
<1>10. ACall(id)' = x
  BY <1>2, <1>5 DEF ACall
<1>11. ASSUME NEW other \in CallIds \ {id}
       PROVE  ACall(other)' = ACall(other)
  <2>1. /\ other \in Clients \X (1 .. MaxCalls)
        /\ other[1] \in Clients
        /\ other[2] \in 1 .. Len(call[other[1]])
    BY CallFacts
  <2>2. CASE other[1] # a
    BY <1>5, <2>1, <2>2 DEF ACall
  <2>3. CASE other[1] = a /\ other[2] # n
    BY <1>2, <1>5, <2>1, <2>3 DEF ACall
  <2>4. other = <<other[1], other[2]>> /\ id = <<a, n>>
    BY <1>1, <2>1
  <2>5. other[1] # a \/ other[2] # n
    BY <2>4
  <2>. QED
    BY <2>2, <2>3, <2>5
<1>. QED
  BY <1>7, <1>9, <1>10, <1>11

LEMMA TxUpdate ==
    ASSUME CallsTyped, NEW id \in CallIds,
           NEW outcome \in {"ok", "failed", "dropped"}, SetTx(id, outcome)
    PROVE  /\ CallsTyped'
           /\ CallIds' = CallIds
           /\ ACall(id)' = [ACall(id) EXCEPT !.tx = outcome]
           /\ \A other \in CallIds \ {id} : ACall(other)' = ACall(other)
<1>. DEFINE x == [ACall(id) EXCEPT !.tx = outcome]
<1>1. PICK a \in Clients : ACall(id) \in CallRecord(a)
  BY CallFacts
<1>2. x \in CallRecord(a)
  BY <1>1 DEF CallRecord
<1>3. x \in SomeCall
  BY <1>2 DEF SomeCall
<1>4. call' = [call EXCEPT ![id[1]] = [call[id[1]] EXCEPT ![id[2]] = x]]
  BY DEF SetTx, ACall
<1>. QED
  BY <1>3, <1>4, CallUpdate

LEMMA PhaseUpdate ==
    ASSUME CallsTyped, NEW id \in CallIds,
           NEW phase \in {"receipt", "threw"},
           call' = [call EXCEPT ![id[1]][id[2]].phase = phase]
    PROVE  /\ CallsTyped'
           /\ CallIds' = CallIds
           /\ ACall(id)' = [ACall(id) EXCEPT !.phase = phase]
           /\ \A other \in CallIds \ {id} : ACall(other)' = ACall(other)
<1>. DEFINE x == [ACall(id) EXCEPT !.phase = phase]
<1>1. PICK a \in Clients : ACall(id) \in CallRecord(a)
  BY CallFacts
<1>2. x \in CallRecord(a)
  BY <1>1 DEF CallRecord
<1>3. x \in SomeCall
  BY <1>2 DEF SomeCall
<1>4. call' = [call EXCEPT ![id[1]] = [call[id[1]] EXCEPT ![id[2]] = x]]
  BY DEF ACall
<1>. QED
  BY <1>3, <1>4, CallUpdate

\* A new call is appended.
LEMMA CallAppend ==
    ASSUME CallsTyped, NEW a \in Clients, NEW request \in Requests(a),
           NEW tx \in {"none", "inflight"},
           NEW phase \in {"confirming", "threw"},
           Start(a, request, tx, phase)
    PROVE  /\ CallsTyped'
           /\ \A id \in CallIds' :
                 \/ id \in CallIds /\ ACall(id)' = ACall(id)
                 \/ /\ id[1] = a
                    /\ ACall(id)' =
                          [request |-> request, tx |-> tx, phase |-> phase]
           /\ \A id \in CallIds : id \in CallIds' /\ ACall(id)' = ACall(id)
           /\ \E id \in CallIds' :
                 /\ id = <<a, Len(call[a]) + 1>>
                 /\ ACall(id)' =
                       [request |-> request, tx |-> tx, phase |-> phase]
<1>. DEFINE x == [request |-> request, tx |-> tx, phase |-> phase]
            S == call[a]
            T == Append(S, x)
<1>1. x \in CallRecord(a)
  BY DEF CallRecord
<1>2. x \in SomeCall
  BY <1>1 DEF SomeCall
<1>3. call \in [Clients -> Seq(SomeCall)]
  BY DEF CallsTyped, SomeCall
<1>4. call' = [call EXCEPT ![a] = T]
  BY DEF Start
<1>. HIDE DEF x
<1>5. /\ S \in Seq(SomeCall)
      /\ T \in Seq(SomeCall)
      /\ Len(T) = Len(S) + 1
      /\ T[Len(S) + 1] = x
      /\ \A i \in 1 .. Len(S) : T[i] = S[i]
  BY <1>2, <1>3
<1>. HIDE DEF T
<1>6. call'[a] = T /\ \A b \in Clients \ {a} : call'[b] = call[b]
  BY <1>3, <1>4
<1>7. call' \in [Clients -> Seq(SomeCall)]
  BY <1>3, <1>4, <1>5
<1>8. CallsTyped'
  BY <1>7 DEF CallsTyped, SomeCall, CallRecord, Requests,
              CreateCampaignCalls, CreateCampaignRfqCalls, SubmitBidCalls,
              WithdrawBidCalls, AcceptBidCalls, ExpireRfqCalls,
              SubmitScoreCalls, SettleSuccessCalls, TimeoutRefundCalls,
              DelegateCalls, UndelegateCalls
<1>9. ASSUME NEW id \in CallIds'
      PROVE  \/ id \in CallIds /\ ACall(id)' = ACall(id)
             \/ id[1] = a /\ ACall(id)' = x
  <2>1. /\ id \in Clients \X (1 .. MaxCalls)
        /\ id[2] <= Len(call'[id[1]])
    BY <1>9 DEF CallIds
  <2>2. id[1] \in Clients /\ id[2] \in 1 .. MaxCalls
    BY <2>1
  <2>3. id[2] \in Int /\ id[2] >= 1
    BY <2>2, ClientAssumption
  <2>4. CASE id[1] # a
    BY <1>6, <2>1, <2>2, <2>4 DEF CallIds, ACall
  <2>5. CASE id[1] = a /\ id[2] <= Len(S)
    <3>1. id[2] \in 1 .. Len(S)
      BY <1>5, <2>3, <2>5
    <3>. QED
      BY <1>5, <1>6, <2>1, <2>5, <3>1 DEF CallIds, ACall
  <2>6. CASE id[1] = a /\ id[2] > Len(S)
    <3>1. id[2] = Len(S) + 1
      BY <1>5, <1>6, <2>1, <2>3, <2>6
    <3>. QED
      BY <1>5, <1>6, <2>6, <3>1 DEF ACall
  <2>7. Len(S) \in Int
    BY <1>5
  <2>. QED
    BY <2>3, <2>4, <2>5, <2>6, <2>7
<1>10. ASSUME NEW id \in CallIds
       PROVE  id \in CallIds' /\ ACall(id)' = ACall(id)
  <2>1. /\ id \in Clients \X (1 .. MaxCalls)
        /\ id[1] \in Clients
        /\ id[2] \in 1 .. Len(call[id[1]])
    BY CallFacts
  <2>2. CASE id[1] # a
    BY <1>6, <2>1, <2>2 DEF CallIds, ACall
  <2>3. CASE id[1] = a
    <3>1. id[2] <= Len(call'[a]) /\ T[id[2]] = S[id[2]]
      BY <1>5, <1>6, <2>1, <2>3
    <3>. QED
      BY <1>6, <2>1, <2>3, <3>1 DEF CallIds, ACall
  <2>. QED
    BY <2>2, <2>3
<1>11. \E id \in CallIds' : id = <<a, Len(S) + 1>> /\ ACall(id)' = x
  <2>1. Len(S) < MaxCalls /\ Len(S) \in Nat
    BY <1>5 DEF Start
  <2>2. Len(S) + 1 \in 1 .. MaxCalls
    BY <2>1, ClientAssumption
  <2>. DEFINE k == Len(S) + 1
              new == <<a, k>>
  <2>3. k <= Len(call'[a]) /\ call'[a][k] = x
    BY <1>5, <1>6, <2>1
  <2>4. a \in Clients
    BY DEF Start
  <2>5. /\ new \in Clients \X (1 .. MaxCalls)
        /\ new[1] = a /\ new[2] = k
    BY <2>2, <2>4
  <2>6. PICK id : id = new
    OBVIOUS
  <2>7. id \in CallIds' /\ ACall(id)' = x
    <3>. HIDE DEF new, k
    <3>. QED
      BY <2>3, <2>5, <2>6 DEF CallIds, ACall
  <2>. QED
    BY <2>6, <2>7
<1>. QED
  BY <1>8, <1>9, <1>10, <1>11 DEF x

-----------------------------------------------------------------------------
(* The client's invariant *)

ClientInv ==
    /\ TypeOK
    /\ InductiveInvariant
    /\ CallsTyped
    /\ SettlementInFlight

LEMMA ClientStepIsProgramStep ==
    ASSUME CallsTyped, [ClientNext]_clientVars PROVE ProgramStep
<1>1. ASSUME NEW id \in CallIds, Land(id) PROVE ProgramStep
  <2>1. PICK a \in Clients : ACall(id) \in CallRecord(a)
    BY CallFacts
  <2>2. ACall(id).request \in Requests(a)
    BY <2>1 DEF CallRecord
  <2>3. a \in Agents /\ id[1] \in Agents
    BY CallFacts, ClientAssumption
  <2>. QED
    BY <1>1, <2>2, <2>3, RunIsProgramStep DEF Land
<1>. QED
  BY <1>1
  DEF ClientNext, clientVars, Foreign, Send, Reject, CallStep, LandFailed,
      Drop, Confirm, ConfirmTimeout, ReaderStep, ReadCampaign,
      ReadValidatorSet, ReadScore, ProgramStep

\* A call whose transaction is changed by the step.
LEMMA LandSafe ==
    ASSUME TypeOK, CallsTyped, NEW id \in CallIds, SafeCall(id),
           Land(id) \/ LandFailed(id) \/ Drop(id)
    PROVE  SafeCall(id)'
<1>. DEFINE request == ACall(id).request
<1>1. PICK a \in Clients : ACall(id) \in CallRecord(a)
  BY CallFacts
<1>2. request \in Requests(a) /\ a \in Agents
  BY <1>1, ClientAssumption DEF CallRecord
<1>3. PICK c \in Campaigns : c = request.c
  BY <1>2, RequestFacts
<1>4. ~ InBlock(id) /\ ACall(id).phase # "receipt"
  BY DEF Land, LandFailed, Drop, InBlock, SafeCall
<1>5. ASSUME NEW outcome \in {"ok", "failed", "dropped"}, SetTx(id, outcome),
             SettleCall(id) /\ outcome # "dropped" => Settled(c)'
      PROVE  SafeCall(id)'
  <2>1. ACall(id)' = [ACall(id) EXCEPT !.tx = outcome]
    BY <1>5, TxUpdate
  <2>2. /\ ACall(id)'.request = request
        /\ ACall(id)'.phase = ACall(id).phase
        /\ ACall(id)'.tx = outcome
    BY <1>1, <2>1 DEF CallRecord
  <2>. QED
    BY <1>3, <1>4, <1>5, <2>2 DEF SafeCall, InBlock, SettleCall
<1>6. CASE Land(id)
  <2>0. Run(id[1], request)
    BY <1>6 DEF Land
  <2>1. SettleCall(id) => Settled(c)'
    BY <1>3, <2>0, SettlementSettles DEF SettleCall
  <2>. QED
    BY <1>5, <1>6, <2>1 DEF Land
<1>7. CASE LandFailed(id)
  <2>1. SettleCall(id) => Settled(c)
    BY <1>3, <1>7 DEF LandFailed, SafeCall
  <2>2. SettleCall(id) => Settled(c)'
    BY <1>7, <2>1 DEF LandFailed, vars, Settled
  <2>. QED
    BY <1>5, <1>7, <2>2 DEF LandFailed
<1>8. CASE Drop(id)
  BY <1>5, <1>8 DEF Drop
<1>. QED
  BY <1>6, <1>7, <1>8

LEMMA ConfirmSafe ==
    ASSUME CallsTyped, NEW id \in CallIds, SafeCall(id),
           Confirm(id) \/ ConfirmTimeout(id)
    PROVE  SafeCall(id)'
<1>1. PICK a \in Clients : ACall(id) \in CallRecord(a)
  BY CallFacts
<1>0. PICK request : request = ACall(id).request
  OBVIOUS
<1>2. PICK phase \in {"receipt", "threw"} :
         /\ call' = [call EXCEPT ![id[1]][id[2]].phase = phase]
         /\ phase = "receipt" => InBlock(id)
  BY DEF Confirm, ConfirmTimeout, Answer
<1>3. ACall(id)' = [ACall(id) EXCEPT !.phase = phase]
  BY <1>2, PhaseUpdate
<1>4. /\ ACall(id)'.request = request
      /\ ACall(id)'.phase = phase
      /\ ACall(id)'.tx = ACall(id).tx
  BY <1>0, <1>1, <1>3 DEF CallRecord
<1>5. SettleCall(id)' = SettleCall(id) /\ InBlock(id)' = InBlock(id)
  BY <1>0, <1>4 DEF SettleCall, InBlock
<1>6. UNCHANGED vars
  BY DEF Confirm, ConfirmTimeout
<1>7. Settled(request.c)' = Settled(request.c)
  BY <1>6 DEF vars, Settled
<1>8. SettleCall(id) => MayRun(id[1], request)' = MayRun(id[1], request)
  BY <1>0, <1>6
  DEF vars, MayRun, SettleCall, MaySettle, RefundAllowed, IsOpen, Scored,
      ThresholdMet, ScoreInputs, AverageScoreBps
<1>. QED
  BY <1>0, <1>2, <1>4, <1>5, <1>7, <1>8 DEF SafeCall

LEMMA StartSafe ==
    ASSUME ClientInv, NEW a \in Clients, NEW request \in Requests(a),
           Send(a, request) \/ Reject(a, request)
    PROVE  CallsTyped' /\ SettlementInFlight'
<1>0. UNCHANGED vars
  BY DEF Send, Reject
<1>1. ProgramStep
  BY <1>0 DEF ProgramStep
<1>2. PICK tx \in {"none", "inflight"}, phase \in {"confirming", "threw"} :
         /\ Start(a, request, tx, phase)
         /\ tx = "inflight" /\ Preflighted(request) => MayRun(a, request)
  BY DEF Send, Reject
<1>3. /\ CallsTyped'
      /\ \A id \in CallIds' :
            \/ id \in CallIds /\ ACall(id)' = ACall(id)
            \/ /\ id[1] = a
               /\ ACall(id)' = [request |-> request, tx |-> tx, phase |-> phase]
  BY <1>2, CallAppend DEF ClientInv
<1>4. ASSUME NEW id \in CallIds' PROVE SafeCall(id)'
  <2>1. CASE id \in CallIds /\ ACall(id)' = ACall(id)
    BY <1>1, <2>1, OtherCallStep DEF ClientInv, SettlementInFlight
  <2>2. CASE /\ id[1] = a
             /\ ACall(id)' = [request |-> request, tx |-> tx, phase |-> phase]
    <3>1. /\ ACall(id)'.request = request
          /\ ACall(id)'.tx = tx
          /\ ACall(id)'.phase = phase
      BY <2>2
    <3>2. ~ InBlock(id)'
      BY <3>1 DEF InBlock
    <3>3. /\ SettleCall(id)' => Preflighted(request)
          /\ SettleCall(id)' =>
                request.op \in {"triggerSettleSuccess", "triggerTimeoutRefund"}
      BY <3>1 DEF SettleCall, Preflighted
    <3>4. SettleCall(id)' => MayRun(a, request)' = MayRun(a, request)
      BY <1>0, <3>3
      DEF vars, MayRun, MaySettle, RefundAllowed, IsOpen, Scored,
          ThresholdMet, ScoreInputs, AverageScoreBps
    <3>. QED
      BY <1>2, <2>2, <3>1, <3>2, <3>3, <3>4 DEF SafeCall
  <2>. QED
    BY <1>3, <2>1, <2>2
<1>. QED
  BY <1>3, <1>4 DEF SettlementInFlight

LEMMA ClientInvInit == ClientInit => ClientInv
<1>. SUFFICES ASSUME ClientInit PROVE ClientInv
  OBVIOUS
<1>1. TypeOK /\ InductiveInvariant
  BY TypeInit, InvariantInit DEF ClientInit
<1>2. CallsTyped
  BY DEF ClientInit, CallsTyped
<1>3. CallIds = {}
  BY DEF ClientInit, CallIds
<1>. QED
  BY <1>1, <1>2, <1>3 DEF ClientInv, SettlementInFlight

LEMMA ClientInvStep == ClientInv /\ [ClientNext]_clientVars => ClientInv'
<1>. SUFFICES ASSUME ClientInv, [ClientNext]_clientVars PROVE ClientInv'
  OBVIOUS
<1>1. ProgramStep
  BY ClientStepIsProgramStep DEF ClientInv
<1>2. TypeOK' /\ InductiveInvariant'
  BY <1>1, ProgramTypeStep, ProgramInvariantStep DEF ClientInv
<1>3. ASSUME UNCHANGED call PROVE CallsTyped' /\ SettlementInFlight'
  <2>1. CallsTyped'
    BY <1>3 DEF ClientInv, CallsTyped, CallRecord, Requests,
                CreateCampaignCalls, CreateCampaignRfqCalls, SubmitBidCalls,
                WithdrawBidCalls, AcceptBidCalls, ExpireRfqCalls,
                SubmitScoreCalls, SettleSuccessCalls, TimeoutRefundCalls,
                DelegateCalls, UndelegateCalls
  <2>2. CallIds' = CallIds
    BY <1>3 DEF CallIds
  <2>3. \A id \in CallIds : ACall(id)' = ACall(id)
    BY <1>3 DEF ACall
  <2>. QED
    BY <1>1, <2>1, <2>2, <2>3, OtherCallStep DEF ClientInv, SettlementInFlight
<1>4. ASSUME NEW a \in Clients, NEW request \in Requests(a),
             Send(a, request) \/ Reject(a, request)
      PROVE  CallsTyped' /\ SettlementInFlight'
  BY <1>4, StartSafe
<1>5. ASSUME NEW id \in CallIds, CallStep(id)
      PROVE  CallsTyped' /\ SettlementInFlight'
  <2>1. /\ CallsTyped'
        /\ CallIds' = CallIds
        /\ \A other \in CallIds \ {id} : ACall(other)' = ACall(other)
    <3>1. CASE Land(id) \/ LandFailed(id) \/ Drop(id)
      BY <3>1, TxUpdate DEF ClientInv, Land, LandFailed, Drop
    <3>2. CASE Confirm(id) \/ ConfirmTimeout(id)
      BY <3>2, PhaseUpdate DEF ClientInv, Confirm, ConfirmTimeout, Answer
    <3>. QED
      BY <1>5, <3>1, <3>2 DEF CallStep
  <2>2. SafeCall(id)'
    BY <1>5, LandSafe, ConfirmSafe
    DEF ClientInv, SettlementInFlight, CallStep
  <2>3. \A other \in CallIds \ {id} : SafeCall(other)'
    BY <1>1, <2>1, OtherCallStep DEF ClientInv, SettlementInFlight
  <2>. QED
    BY <2>1, <2>2, <2>3 DEF SettlementInFlight
<1>6. CallsTyped' /\ SettlementInFlight'
  BY <1>3, <1>4, <1>5
  DEF ClientNext, clientVars, Foreign, ReaderStep, ReadCampaign,
      ReadValidatorSet, ReadScore
<1>. QED
  BY <1>2, <1>6 DEF ClientInv

\* Every behaviour of the client and the program keeps ClientInv.
THEOREM ClientInvariant == ClientSpec => []ClientInv
<1>. QED
  BY ClientInvInit, ClientInvStep, PTL DEF ClientSpec

\* The program's invariants hold with the batched creation of the SDK as
\* well: one transaction that registers the validators and creates the
\* campaign opens no way around them.
THEOREM ProgramInvariantUnderClients == ClientSpec => []InductiveInvariant
<1>1. ClientInv => InductiveInvariant
  BY DEF ClientInv
<1>. QED
  BY <1>1, ClientInvariant, PTL

\* What the preflight of a settlement found stays true until somebody
\* settles the campaign, whoever else acts in between.
THEOREM SettlementInFlightHolds == ClientSpec => []SettlementInFlight
<1>1. ClientInv => SettlementInFlight
  BY DEF ClientInv
<1>. QED
  BY <1>1, ClientInvariant, PTL

\* A receipt of triggerSettleSuccess or triggerTimeoutRefund means that the
\* campaign is settled, even though confirmTransaction's error is ignored.
THEOREM SettleReceiptMeansSettledHolds ==
    ClientSpec => []SettleReceiptMeansSettled
<1>1. ClientInv => SettleReceiptMeansSettled
  BY DEF ClientInv, SettlementInFlight, SafeCall, SettleReceiptMeansSettled
<1>. QED
  BY <1>1, ClientInvariant, PTL

-----------------------------------------------------------------------------
(* What no step of the program takes back, besides the terms *)

BidKept(c, b, i) ==
    /\ bid[c][b][i] # NoBid =>
          /\ bid'[c][b][i] # NoBid
          /\ bid'[c][b][i].amount = bid[c][b][i].amount
    /\ bid[c][b][i].status = "withdrawn" => bid'[c][b][i].status = "withdrawn"

\* The executor is known, or never will be.
Decided(c) == campaign[c].mode = "direct" \/ campaign[c].executor # NoKey

CampaignKept(c) ==
    CampaignExists(c) =>
        /\ CampaignExists(c)'
        /\ Decided(c) =>
              /\ campaign'[c].executor = campaign[c].executor
              /\ campaign'[c].accepted_bid_id = campaign[c].accepted_bid_id
        /\ campaign[c].status = "rfq_expired" =>
              campaign'[c].status \in {"rfq_expired", "settled_refund"}

Lasting(c) ==
    /\ \A b \in Agents, i \in BidIds : BidKept(c, b, i)
    /\ CampaignKept(c)

LEMMA BidWritten ==
    ASSUME TypeOK, NEW c \in Campaigns, NEW b \in Agents, NEW i \in BidIds,
           NEW account \in BidAccount, NEW d \in Campaigns,
           bid' = [bid EXCEPT ![c][b][i] = account],
           \/ bid[c][b][i] = NoBid
           \/ /\ account.amount = bid[c][b][i].amount
              /\ bid[c][b][i].status = "open"
    PROVE  \A b2 \in Agents, i2 \in BidIds : BidKept(d, b2, i2)
<1>. TAKE b2 \in Agents, i2 \in BidIds
<1>1. CASE d = c /\ b2 = b /\ i2 = i
  <2>1. bid'[c][b][i] = account
    BY DEF TypeOK
  <2>. QED
    BY <1>1, <2>1, AccountFacts DEF BidKept
<1>2. CASE ~ (d = c /\ b2 = b /\ i2 = i)
  <2>1. bid'[d][b2][i2] = bid[d][b2][i2]
    BY <1>2 DEF TypeOK
  <2>. QED
    BY <2>1 DEF BidKept
<1>. QED
  BY <1>1, <1>2

LEMMA BiddingKeepsBids ==
    ASSUME TypeOK, NEW c \in Campaigns, Bidding(c), NEW d \in Campaigns
    PROVE  \A b \in Agents, i \in BidIds : BidKept(d, b, i)
<1>1. ASSUME NEW b \in Agents, NEW i \in BidIds, NEW amount \in Amounts,
             SubmitBid(c, b, i, amount)
      PROVE  \A b2 \in Agents, i2 \in BidIds : BidKept(d, b2, i2)
  <2>1. [status |-> "open", amount |-> amount] \in BidAccount
    BY DEF BidAccount
  <2>. QED
    BY <1>1, <2>1, BidWritten DEF SubmitBid, MayBid
<1>2. ASSUME NEW b \in Agents, NEW i \in BidIds,
             NEW status \in {"withdrawn", "accepted"},
             bid[c][b][i].status = "open",
             bid' = [bid EXCEPT ![c][b][i].status = status]
      PROVE  \A b2 \in Agents, i2 \in BidIds : BidKept(d, b2, i2)
  <2>1. bid[c][b][i] \in BidAccount
    BY <1>2, AccountFacts DEF TypeOK
  <2>2. PICK account : account = [bid[c][b][i] EXCEPT !.status = status]
    OBVIOUS
  <2>3. account \in BidAccount /\ account.amount = bid[c][b][i].amount
    BY <2>1, <2>2 DEF BidAccount
  <2>4. bid' = [bid EXCEPT ![c][b][i] = account]
    BY <1>2, <2>2
  <2>5. bid[c][b][i].status = "open"
    BY <1>2
  <2>. QED
    BY <2>3, <2>4, <2>5, BidWritten
<1>3. CASE ExpireRfq(c)
  BY <1>3 DEF ExpireRfq, BidKept
<1>. QED
  BY <1>1, <1>2, <1>3
  DEF Bidding, WithdrawBid, MayWithdraw, AcceptBid, MayAccept

\* Only bidding writes bids.
LEMMA BidsLast ==
    ASSUME TypeOK, ProgramStep, NEW d \in Campaigns
    PROVE  \A b \in Agents, i \in BidIds : BidKept(d, b, i)
<1>1. ASSUME bid' = bid PROVE \A b \in Agents, i \in BidIds : BidKept(d, b, i)
  BY <1>1 DEF BidKept
<1>2. ASSUME NEW c \in Campaigns, CampaignSetup(c) \/ Settlement(c)
      PROVE  bid' = bid
  BY <1>2
  DEF CampaignSetup, CreateValidatorSet, CreateCampaign, CreateCampaignRfq,
      Settlement, SubmitValidatorScore, SettleSuccess, SettleTimeoutRefund
<1>3. CASE CreatesAtOnce
  BY <1>1, <1>3, CreatesAtOnceFacts
<1>4. CASE UNCHANGED vars
  BY <1>1, <1>4 DEF vars
<1>5. CASE Next
  BY <1>1, <1>2, <1>5, BiddingKeepsBids DEF Next, InitializeConfig, Donate, Tick
<1>. QED
  BY <1>3, <1>4, <1>5 DEF ProgramStep

LEMMA CampaignsLast ==
    ASSUME TypeOK, ProgramStep, NEW d \in Campaigns
    PROVE  CampaignKept(d)
<1>. USE AccountFacts
<1>. USE DEF CampaignKept, CampaignExists, Decided
<1>1. ASSUME campaign'[d] = campaign[d] PROVE CampaignKept(d)
  BY <1>1
<1>2. ASSUME NEW c \in Campaigns, campaign[c] = NoCampaign,
             \A e \in Campaigns \ {c} : campaign'[e] = campaign[e]
      PROVE  CampaignKept(d)
  BY <1>2
<1>3. ASSUME NEW c \in Campaigns,
             NEW status \in {"settled_success", "settled_refund", "rfq_expired"},
             campaign[c].status \in {"open", "rfq_expired"},
             campaign[c].status = "rfq_expired" => status = "settled_refund",
             campaign' = [campaign EXCEPT ![c].status = status]
      PROVE  CampaignKept(d)
  <2>1. campaign[c] \in CampaignAccount
    BY <1>3 DEF TypeOK
  <2>2. campaign'[c] = [campaign[c] EXCEPT !.status = status]
    BY <1>3 DEF TypeOK
  <2>3. /\ campaign'[c].status = status
        /\ campaign'[c].executor = campaign[c].executor
        /\ campaign'[c].accepted_bid_id = campaign[c].accepted_bid_id
    BY <2>1, <2>2 DEF CampaignAccount
  <2>4. campaign[c].status = "rfq_expired" => status = "settled_refund"
    BY <1>3
  <2>5. CASE d = c
    BY <2>3, <2>4, <2>5
  <2>6. CASE d # c
    <3>1. campaign'[d] = campaign[d]
      BY <1>3, <2>6 DEF TypeOK
    <3>. QED
      BY <1>1, <3>1
  <2>. QED
    BY <2>5, <2>6
<1>4. ASSUME NEW c \in Campaigns, NEW b \in Agents, NEW i \in BidIds,
             AcceptBid(c, b, i)
      PROVE  CampaignKept(d)
  <2>1. /\ campaign[c] \in CampaignAccount
        /\ campaign[c].status = "open"
        /\ campaign[c].mode = "rfq" /\ campaign[c].executor = NoKey
    BY <1>4 DEF AcceptBid, MayAccept, AwaitingBid, IsOpen, TypeOK
  <2>2. /\ campaign'[c] = [campaign[c] EXCEPT !.executor = b,
                                              !.accepted_bid_id = i]
        /\ \A e \in Campaigns \ {c} : campaign'[e] = campaign[e]
    BY <1>4 DEF AcceptBid, TypeOK
  <2>3. campaign'[c].status = "open"
    BY <2>1, <2>2 DEF CampaignAccount
  <2>4. CASE d = c
    BY <2>1, <2>3, <2>4
  <2>5. CASE d # c
    BY <1>1, <2>2, <2>5
  <2>. QED
    BY <2>4, <2>5
<1>. HIDE DEF CampaignKept, CampaignExists, Decided
<1>5. ASSUME NEW c \in Campaigns, CampaignSetup(c) PROVE CampaignKept(d)
  <2>1. campaign' = campaign \/ (campaign[c] = NoCampaign
           /\ \A e \in Campaigns \ {c} : campaign'[e] = campaign[e])
    BY <1>5 DEF CampaignSetup, CreateValidatorSet, CreateCampaign,
                CreateCampaignRfq, MayCreate, TypeOK
  <2>. QED
    BY <1>1, <1>2, <2>1
<1>6. ASSUME NEW c \in Campaigns, Bidding(c) PROVE CampaignKept(d)
  <2>1. CASE ExpireRfq(c)
    <3>1. PICK status \in {"settled_success", "settled_refund", "rfq_expired"} :
             /\ campaign[c].status = "open"
             /\ campaign' = [campaign EXCEPT ![c].status = status]
      BY <2>1 DEF ExpireRfq, MayExpire, AwaitingBid, IsOpen
    <3>. QED
      BY <1>3, <3>1
  <2>2. ASSUME NEW b, NEW i, NEW amount,
               SubmitBid(c, b, i, amount) \/ WithdrawBid(c, b, i)
        PROVE  CampaignKept(d)
    BY <1>1, <2>2 DEF SubmitBid, WithdrawBid
  <2>. QED
    BY <1>4, <1>6, <2>1, <2>2 DEF Bidding
<1>7. ASSUME NEW c \in Campaigns, Settlement(c) PROVE CampaignKept(d)
  <2>1. ASSUME NEW used, SettleSuccess(c, used) PROVE CampaignKept(d)
    <3>1. PICK status \in {"settled_success", "settled_refund", "rfq_expired"} :
             /\ campaign[c].status = "open"
             /\ campaign' = [campaign EXCEPT ![c].status = status]
      BY <2>1 DEF SettleSuccess, MaySettle, IsOpen
    <3>. QED
      BY <1>3, <3>1
  <2>2. CASE SettleTimeoutRefund(c)
    <3>1. /\ campaign[c].status \in {"open", "rfq_expired"}
          /\ campaign' = [campaign EXCEPT ![c].status = "settled_refund"]
      BY <2>2 DEF SettleTimeoutRefund, RefundAllowed, IsOpen
    <3>. QED
      BY <1>3, <3>1
  <2>3. ASSUME NEW v, NEW scoreBps, SubmitValidatorScore(c, v, scoreBps)
        PROVE  CampaignKept(d)
    BY <1>1, <2>3 DEF SubmitValidatorScore
  <2>. QED
    BY <1>7, <2>1, <2>2, <2>3 DEF Settlement
<1>8. CASE CreatesAtOnce
  <2>1. PICK c \in Campaigns :
           /\ campaign[c] = NoCampaign
           /\ campaign' = [campaign EXCEPT ![c] = campaign'[c]]
    BY <1>8, CreatesAtOnceFacts
  <2>. QED
    BY <1>2, <2>1 DEF TypeOK
<1>9. CASE UNCHANGED vars
  BY <1>1, <1>9 DEF vars
<1>10. CASE Next
  BY <1>1, <1>5, <1>6, <1>7, <1>10 DEF Next, InitializeConfig, Donate, Tick
<1>. QED
  BY <1>8, <1>9, <1>10 DEF ProgramStep

-----------------------------------------------------------------------------
(* The effect of a landed call *)

\* Effect, and what makes it last.
LastingEffect(a, request) ==
    /\ Effect(a, request)
    /\ request.op = "acceptBid" => CampaignExists(request.c)
    /\ request.op = "createCampaign" => campaign[request.c].mode = "direct"

LEMMA EffectLasts ==
    ASSUME TypeOK, InductiveInvariant, ProgramStep,
           NEW a \in Agents, NEW b \in Agents, NEW request \in Requests(b),
           LastingEffect(a, request)
    PROVE  LastingEffect(a, request)'
<1>. DEFINE c == request.c
<1>. USE DEF Requests, CreateCampaignCalls, CreateCampaignRfqCalls,
         SubmitBidCalls, WithdrawBidCalls, AcceptBidCalls, ExpireRfqCalls,
         SubmitScoreCalls, SettleSuccessCalls, TimeoutRefundCalls,
         DelegateCalls, UndelegateCalls
<1>0. c \in Campaigns
  OBVIOUS
<1>1. KeepsTerms(c) /\ CampaignKept(c)
  BY <1>0, ProgramTermsStep, CampaignsLast
<1>2. \A x \in Agents, i \in BidIds : BidKept(c, x, i)
  BY <1>0, BidsLast
<1>3. CASE request.op \in {"createCampaign", "createCampaignRfq"}
  BY <1>1, <1>3 DEF LastingEffect, Effect, KeepsTerms, TermsOf, CampaignKept, Decided
<1>4. CASE request.op \in {"submitBid", "withdrawBid"}
  <2>1. request.id \in BidIds
    BY <1>4
  <2>. QED
    BY <1>2, <1>4, <2>1 DEF LastingEffect, Effect, BidKept
<1>5. CASE request.op = "acceptBid"
  <2>1. request.bidder \in Agents /\ request.bidder # NoKey
    BY <1>5, KeysAssumption
  <2>. QED
    BY <1>1, <1>5, <2>1 DEF LastingEffect, Effect, CampaignKept, Decided
<1>6. CASE request.op = "expireRfq"
  BY <1>1, <1>6, AccountFacts
  DEF LastingEffect, Effect, CampaignKept, CampaignExists, KeepsTerms, Settled
<1>7. CASE request.op = "submitValidatorScoreEr"
  <2>1. request.scoreBps \in Nat
    BY <1>7, ArgumentsAssumption
  <2>2. score[c][a] = request.scoreBps
    BY <1>7 DEF LastingEffect, Effect
  <2>3. a \in Scored(c)
    BY <2>1, <2>2 DEF Scored, NoScore
  <2>4. score'[c][a] = request.scoreBps
    BY <1>1, <2>2, <2>3 DEF KeepsTerms
  <2>. QED
    BY <1>7, <2>4 DEF LastingEffect, Effect
<1>8. CASE request.op \in {"triggerSettleSuccess", "triggerTimeoutRefund"}
  BY <1>1, <1>8 DEF LastingEffect, Effect, KeepsTerms, Settled
<1>9. CASE request.op \in {"delegateCampaign", "undelegateCampaign"}
  BY <1>9 DEF LastingEffect, Effect
<1>. QED
  BY <1>3, <1>4, <1>5, <1>6, <1>7, <1>8, <1>9

LEMMA CreatedAtOnce ==
    ASSUME TypeOK, NEW c \in Campaigns, NEW args \in CampaignArgs,
           NEW mode \in {"direct", "rfq"}, NEW executor \in Keys,
           NEW rfqDeadline \in Deadlines \cup {0},
           CreateAtOnce(c, args, NewCampaign(mode, executor, args, rfqDeadline))
    PROVE  /\ CampaignExists(c)'
           /\ vset'[c] = args.validators
           /\ campaign'[c].amount = args.amount
           /\ campaign'[c].threshold_bps = args.threshold_bps
           /\ campaign'[c].deadline_unix = args.deadline_unix
           /\ campaign'[c].executor = executor
           /\ campaign'[c].mode = mode
<1>1. PICK account \in CampaignAccount :
         account = NewCampaign(mode, executor, args, rfqDeadline)
  BY NewCampaignType
<1>2. /\ account.amount = args.amount
      /\ account.threshold_bps = args.threshold_bps
      /\ account.deadline_unix = args.deadline_unix
      /\ account.executor = executor
      /\ account.mode = mode
  BY <1>1 DEF NewCampaign
<1>3. campaign'[c] = account /\ vset'[c] = args.validators
  BY <1>1 DEF CreateAtOnce, TypeOK
<1>4. CampaignExists(c)'
  BY <1>3, AccountFacts DEF CampaignExists
<1>. QED
  BY <1>2, <1>3, <1>4

LEMMA EffectHappens ==
    ASSUME TypeOK, NEW a \in Agents, NEW b \in Agents,
           NEW request \in Requests(b), Run(a, request)
    PROVE  LastingEffect(a, request)'
<1>. DEFINE c == request.c
<1>. USE DEF Requests, CreateCampaignCalls, CreateCampaignRfqCalls,
         SubmitBidCalls, WithdrawBidCalls, AcceptBidCalls, ExpireRfqCalls,
         SubmitScoreCalls, SettleSuccessCalls, TimeoutRefundCalls,
         DelegateCalls, UndelegateCalls
<1>. USE DEF LastingEffect, Effect
<1>0. c \in Campaigns
  OBVIOUS
<1>1. CASE request.op = "createCampaign"
  <2>1. request \in CreateCampaignCalls(b)
    BY <1>1
  <2>2. /\ CampaignExists(c)'
        /\ vset'[c] = request.args.validators
        /\ campaign'[c].amount = request.args.amount
        /\ campaign'[c].threshold_bps = request.args.threshold_bps
        /\ campaign'[c].deadline_unix = request.args.deadline_unix
        /\ campaign'[c].executor = request.executor
        /\ campaign'[c].mode = "direct"
    BY <1>0, <1>1, <2>1, CreatedAtOnce DEF Run
  <2>. QED
    BY <1>1, <2>2
<1>2. CASE request.op = "createCampaignRfq"
  <2>1. request \in CreateCampaignRfqCalls(b)
    BY <1>2
  <2>2. /\ CampaignExists(c)'
        /\ vset'[c] = request.args.validators
        /\ campaign'[c].amount = request.args.amount
        /\ campaign'[c].threshold_bps = request.args.threshold_bps
        /\ campaign'[c].deadline_unix = request.args.deadline_unix
    BY <1>0, <1>2, <2>1, CreatedAtOnce DEF Run, Keys
  <2>. QED
    BY <1>2, <2>2
<1>3. CASE request.op = "submitBid"
  <2>1. request \in SubmitBidCalls
    BY <1>3
  <2>2. bid'[c][a][request.id] = [status |-> "open", amount |-> request.amount]
    BY <1>3, <2>1 DEF Run, SubmitBid, TypeOK
  <2>. QED
    BY <1>3, <2>2, AccountFacts
<1>4. CASE request.op = "withdrawBid"
  <2>1. request \in WithdrawBidCalls
    BY <1>4
  <2>4. PICK i \in BidIds : i = request.id
    BY <2>1
  <2>5. /\ bid[c][a][i].status = "open"
        /\ bid' = [bid EXCEPT ![c][a][i].status = "withdrawn"]
    BY <1>4, <2>4 DEF Run, WithdrawBid, MayWithdraw
  <2>6. bid[c][a][i] \in BidAccount
    BY <1>0, <2>5, AccountFacts DEF TypeOK
  <2>7. bid'[c][a][i] = [bid[c][a][i] EXCEPT !.status = "withdrawn"]
    <3>1. PICK account : account = [bid[c][a][i] EXCEPT !.status = "withdrawn"]
      OBVIOUS
    <3>2. bid' = [bid EXCEPT ![c][a][i] = account]
      BY <2>5, <3>1
    <3>3. bid'[c][a][i] = account
      BY <1>0, <3>2 DEF TypeOK
    <3>. QED
      BY <3>1, <3>3
  <2>2. /\ bid[c][a][request.id] \in BidAccount
        /\ bid'[c][a][request.id] =
              [bid[c][a][request.id] EXCEPT !.status = "withdrawn"]
    BY <2>4, <2>6, <2>7
  <2>3. bid'[c][a][request.id].status = "withdrawn"
    BY <2>2 DEF BidAccount
  <2>. QED
    BY <1>4, <2>3
<1>5. CASE request.op = "acceptBid"
  <2>1. /\ campaign[c] \in CampaignAccount
        /\ campaign'[c] = [campaign[c] EXCEPT !.executor = request.bidder,
                                              !.accepted_bid_id = request.id]
    BY <1>0, <1>5, AccountFacts
    DEF Run, AcceptBid, MayAccept, AwaitingBid, IsOpen, TypeOK
  <2>2. campaign[c].status # "none"
    BY <2>1, AccountFacts
  <2>3. /\ campaign'[c].executor = request.bidder
        /\ campaign'[c].accepted_bid_id = request.id
        /\ campaign'[c].status = campaign[c].status
    BY <2>1 DEF CampaignAccount
  <2>4. CampaignExists(c)'
    BY <2>2, <2>3, AccountFacts DEF CampaignExists
  <2>. QED
    BY <1>5, <2>3, <2>4
<1>6. ASSUME NEW status, campaign[c] # NoCampaign,
             campaign' = [campaign EXCEPT ![c].status = status]
      PROVE  campaign'[c].status = status
  <2>1. campaign[c] \in CampaignAccount
    BY <1>0, <1>6 DEF TypeOK
  <2>2. campaign'[c] = [campaign[c] EXCEPT !.status = status]
    BY <1>0, <1>6 DEF TypeOK
  <2>. QED
    BY <2>1, <2>2 DEF CampaignAccount
<1>7. CASE request.op = "expireRfq"
  <2>1. campaign'[c].status = "rfq_expired"
    BY <1>6, <1>7, AccountFacts DEF Run, ExpireRfq, MayExpire, AwaitingBid, IsOpen
  <2>. QED
    BY <1>7, <2>1
<1>8. CASE request.op = "submitValidatorScoreEr"
  <2>1. score'[c][a] = request.scoreBps
    BY <1>0, <1>8 DEF Run, SubmitValidatorScore, TypeOK
  <2>. QED
    BY <1>8, <2>1
<1>9. CASE request.op = "triggerSettleSuccess"
  <2>1. campaign'[c].status = "settled_success"
    BY <1>6, <1>9, AccountFacts DEF Run, SettleSuccess, MaySettle, IsOpen
  <2>. QED
    BY <1>9, <2>1
<1>10. CASE request.op = "triggerTimeoutRefund"
  <2>1. campaign'[c].status = "settled_refund"
    BY <1>6, <1>10, AccountFacts
    DEF Run, SettleTimeoutRefund, RefundAllowed, IsOpen
  <2>. QED
    BY <1>10, <2>1
<1>11. CASE request.op \in {"delegateCampaign", "undelegateCampaign"}
  BY <1>11
<1>. QED
  BY <1>1, <1>2, <1>3, <1>4, <1>5, <1>7, <1>8, <1>9, <1>10, <1>11

\* What has been done cannot be done again.
LEMMA NotTwice ==
    ASSUME NEW a \in Agents, NEW b \in Agents, NEW request \in Requests(b),
           LastingEffect(a, request), Run(a, request)
    PROVE  WritesNothing(request)
<1>. USE DEF Requests, CreateCampaignCalls, CreateCampaignRfqCalls,
         SubmitBidCalls, WithdrawBidCalls, AcceptBidCalls, ExpireRfqCalls,
         SubmitScoreCalls, SettleSuccessCalls, TimeoutRefundCalls,
         DelegateCalls, UndelegateCalls
<1>. USE DEF LastingEffect, Effect, Run
<1>1. request.op \notin {"createCampaign", "createCampaignRfq"}
  BY DEF CreateAtOnce, MayCreateAtOnce, MayCreate, CampaignExists
<1>2. request.op # "submitBid"
  BY DEF SubmitBid, MayBid
<1>3. request.op # "withdrawBid"
  BY DEF WithdrawBid, MayWithdraw
<1>4. request.op # "acceptBid"
  BY KeysAssumption DEF AcceptBid, MayAccept, AwaitingBid
<1>5. request.op # "expireRfq"
  BY DEF ExpireRfq, MayExpire, AwaitingBid, IsOpen
<1>6. request.op # "submitValidatorScoreEr"
  <2>1. SUFFICES ASSUME request.op = "submitValidatorScoreEr" PROVE FALSE
    OBVIOUS
  <2>2. request.scoreBps \in Nat
    BY <2>1, ArgumentsAssumption
  <2>. QED
    BY <2>1, <2>2 DEF SubmitValidatorScore, MayScore, NoScore
<1>7. request.op # "triggerSettleSuccess"
  BY DEF SettleSuccess, MaySettle, IsOpen
<1>8. request.op # "triggerTimeoutRefund"
  BY DEF SettleTimeoutRefund, RefundAllowed, IsOpen
<1>. QED
  BY <1>1, <1>2, <1>3, <1>4, <1>5, <1>6, <1>7, <1>8 DEF WritesNothing

-----------------------------------------------------------------------------
(* The calls *)

\* Its effect lasts if it landed, and a score's receipt says that it did.
LandedCall(id) ==
    /\ ACall(id).tx = "ok" => LastingEffect(id[1], ACall(id).request)
    /\ /\ ACall(id).request.op = "submitValidatorScoreEr"
       /\ ACall(id).phase = "receipt"
       => ACall(id).tx = "ok"

LandedCalls == \A id \in CallIds : LandedCall(id)

EffectsInv == ClientInv /\ LandedCalls /\ RetriesLandOnce

LEMMA CallTyped ==
    ASSUME CallsTyped, NEW id \in CallIds
    PROVE  /\ id[1] \in Agents
           /\ \E b \in Agents : ACall(id).request \in Requests(b)
           /\ \E b \in Clients : ACall(id) \in CallRecord(b)
<1>1. PICK b \in Clients : ACall(id) \in CallRecord(b)
  BY CallFacts
<1>2. ACall(id).request \in Requests(b)
  BY <1>1 DEF CallRecord
<1>. QED
  BY <1>1, <1>2, CallFacts, ClientAssumption

LEMMA OtherCallLasts ==
    ASSUME TypeOK, InductiveInvariant, CallsTyped, ProgramStep,
           NEW id \in CallIds, LandedCall(id), ACall(id)' = ACall(id)
    PROVE  LandedCall(id)'
<1>1. PICK b \in Agents : ACall(id).request \in Requests(b)
  BY CallTyped
<1>2. PICK request \in Requests(b) : request = ACall(id).request
  BY <1>1
<1>3. id[1] \in Agents
  BY CallTyped
<1>4. LastingEffect(id[1], request) => LastingEffect(id[1], request)'
  BY <1>3, EffectLasts
<1>. QED
  BY <1>2, <1>4 DEF LandedCall

\* The call that a step of CallStep is about.
LEMMA ItsCallLasts ==
    ASSUME EffectsInv, NEW id \in CallIds, CallStep(id)
    PROVE  /\ LandedCall(id)'
           /\ ACall(id)'.request = ACall(id).request
           /\ ACall(id)'.tx = "ok" => ACall(id).tx = "ok" \/ Land(id)
<1>. USE DEF EffectsInv, ClientInv
<1>1. /\ id[1] \in Agents
      /\ \E b \in Agents : ACall(id).request \in Requests(b)
  BY CallTyped
<1>2. PICK record : /\ record = ACall(id)
                  /\ \E b \in Clients : record \in CallRecord(b)
  BY CallTyped
<1>10. PICK b \in Agents : record.request \in Requests(b)
  BY <1>1, <1>2
<1>3. PICK request \in Requests(b) : request = record.request
  BY <1>10
<1>4. LandedCall(id)
  BY DEF LandedCalls
<1>5. ASSUME NEW outcome \in {"ok", "failed", "dropped"}, SetTx(id, outcome),
             record.tx = "inflight",
             outcome = "ok" => LastingEffect(id[1], request)'
      PROVE  /\ LandedCall(id)'
             /\ ACall(id)'.request = request
             /\ ACall(id)'.tx = outcome
  <2>1. ACall(id)' = [record EXCEPT !.tx = outcome]
    BY <1>2, <1>5, TxUpdate
  <2>2. /\ ACall(id)'.request = request
        /\ ACall(id)'.phase = record.phase
        /\ ACall(id)'.tx = outcome
    BY <1>2, <1>3, <2>1 DEF CallRecord
  <2>. QED
    BY <1>2, <1>3, <1>4, <1>5, <2>2 DEF LandedCall
<1>6. CASE Land(id)
  <2>1. Run(id[1], request) /\ SetTx(id, "ok") /\ record.tx = "inflight"
    BY <1>2, <1>3, <1>6 DEF Land
  <2>2. LastingEffect(id[1], request)'
    BY <1>1, <2>1, EffectHappens
  <2>. QED
    BY <1>2, <1>3, <1>5, <1>6, <2>1, <2>2
<1>7. CASE LandFailed(id)
  <2>1. SetTx(id, "failed") /\ record.tx = "inflight"
    BY <1>2, <1>7 DEF LandFailed
  <2>. QED
    BY <1>2, <1>3, <1>5, <2>1
<1>8. CASE Drop(id)
  <2>1. SetTx(id, "dropped") /\ record.tx = "inflight"
    BY <1>2, <1>8 DEF Drop
  <2>. QED
    BY <1>2, <1>3, <1>5, <2>1
<1>9. CASE Confirm(id) \/ ConfirmTimeout(id)
  <2>1. PICK phase \in {"receipt", "threw"} :
           /\ call' = [call EXCEPT ![id[1]][id[2]].phase = phase]
           /\ phase = "receipt" =>
                 InBlock(id) /\ phase = Answer(id)
    BY <1>9 DEF Confirm, ConfirmTimeout, Answer
  <2>2. ACall(id)' = [record EXCEPT !.phase = phase]
    BY <1>2, <2>1, PhaseUpdate
  <2>3. /\ ACall(id)'.request = request
        /\ ACall(id)'.phase = phase
        /\ ACall(id)'.tx = record.tx
    BY <1>2, <1>3, <2>2 DEF CallRecord
  <2>4. phase = "receipt" /\ request.op = "submitValidatorScoreEr" =>
           record.tx = "ok"
    BY <1>2, <1>3, <2>1 DEF InBlock, Answer
  <2>5. UNCHANGED vars
    BY <1>9 DEF Confirm, ConfirmTimeout
  <2>6. LastingEffect(id[1], request) => LastingEffect(id[1], request)'
    <3>1. ProgramStep
      BY <2>5 DEF ProgramStep
    <3>. QED
      BY <1>1, <3>1, EffectLasts
  <2>. QED
    BY <1>2, <1>3, <1>4, <2>3, <2>4, <2>6 DEF LandedCall
<1>. QED
  BY <1>6, <1>7, <1>8, <1>9 DEF CallStep

\* A call that lands repeats none that landed before.
LEMMA LandsOnce ==
    ASSUME EffectsInv, NEW id \in CallIds, Land(id),
           NEW other \in CallIds \ {id}, other[1] = id[1],
           ACall(other).tx = "ok", ACall(other).request = ACall(id).request
    PROVE  WritesNothing(ACall(id).request)
<1>1. /\ id[1] \in Agents
      /\ \E b \in Agents : ACall(id).request \in Requests(b)
  BY CallTyped DEF EffectsInv, ClientInv
<1>2. Run(id[1], ACall(id).request)
  BY DEF Land
<1>3. LastingEffect(id[1], ACall(id).request)
  BY DEF EffectsInv, LandedCalls, LandedCall
<1>. QED
  BY <1>1, <1>2, <1>3, NotTwice

\* RetriesLandOnce, without the order of the two calls.
LEMMA OncePair ==
    ASSUME RetriesLandOnce, NEW id \in CallIds, NEW id2 \in CallIds,
           id # id2, id[1] = id2[1], ACall(id).tx = "ok", ACall(id2).tx = "ok",
           ACall(id).request = ACall(id2).request
    PROVE  WritesNothing(ACall(id).request)
BY DEF RetriesLandOnce

LEMMA CallStepOnce ==
    ASSUME EffectsInv, NEW id \in CallIds, CallStep(id)
    PROVE  RetriesLandOnce'
<1>1. /\ CallIds' = CallIds
      /\ \A other \in CallIds \ {id} : ACall(other)' = ACall(other)
  BY TxUpdate, PhaseUpdate
  DEF EffectsInv, ClientInv, CallStep, Land, LandFailed, Drop, Confirm,
      ConfirmTimeout, Answer
<1>2. /\ ACall(id)'.request = ACall(id).request
      /\ ACall(id)'.tx = "ok" => ACall(id).tx = "ok" \/ Land(id)
  BY ItsCallLasts
<1>3. SUFFICES ASSUME NEW i \in CallIds, NEW j \in CallIds, i # j, i[1] = j[1],
                      ACall(i)'.tx = "ok", ACall(j)'.tx = "ok",
                      ACall(i)'.request = ACall(j)'.request
               PROVE  WritesNothing(ACall(i)'.request)
  BY <1>1 DEF RetriesLandOnce, WritesNothing
<1>4. ACall(i)'.request = ACall(i).request /\ ACall(j)'.request = ACall(j).request
  BY <1>1, <1>2
<1>5. CASE ACall(i).tx = "ok" /\ ACall(j).tx = "ok"
  BY <1>3, <1>4, <1>5, OncePair DEF EffectsInv
<1>6. CASE i = id /\ Land(id) /\ ACall(j).tx = "ok"
  <2>1. j \in CallIds \ {id} /\ j[1] = id[1] /\ ACall(j).request = ACall(id).request
    BY <1>3, <1>4, <1>6
  <2>. QED
    BY <1>4, <1>6, <2>1, LandsOnce
<1>7. CASE j = id /\ Land(id) /\ ACall(i).tx = "ok"
  <2>1. i \in CallIds \ {id} /\ i[1] = id[1] /\ ACall(i).request = ACall(id).request
    BY <1>3, <1>4, <1>7
  <2>. QED
    BY <1>4, <1>7, <2>1, LandsOnce
<1>. QED
  BY <1>1, <1>2, <1>3, <1>5, <1>6, <1>7

\* Nothing happens to the calls.
LEMMA QuietEffects ==
    ASSUME EffectsInv, ProgramStep, UNCHANGED call
    PROVE  LandedCalls' /\ RetriesLandOnce'
<1>1. CallIds' = CallIds
  BY DEF CallIds
<1>2. \A id \in CallIds : ACall(id)' = ACall(id)
  BY DEF ACall
<1>3. LandedCalls'
  BY <1>1, <1>2, OtherCallLasts DEF EffectsInv, ClientInv, LandedCalls
<1>4. RetriesLandOnce'
  BY <1>1, <1>2 DEF EffectsInv, RetriesLandOnce, WritesNothing
<1>. QED
  BY <1>3, <1>4

LEMMA StartEffects ==
    ASSUME EffectsInv, NEW a \in Clients, NEW request \in Requests(a),
           Send(a, request) \/ Reject(a, request)
    PROVE  LandedCalls' /\ RetriesLandOnce'
<1>1. UNCHANGED vars
  BY DEF Send, Reject
<1>2. ProgramStep
  BY <1>1 DEF ProgramStep
<1>3. PICK tx \in {"none", "inflight"}, phase \in {"confirming", "threw"} :
         Start(a, request, tx, phase)
  BY DEF Send, Reject
<1>4. \A id \in CallIds' :
         \/ id \in CallIds /\ ACall(id)' = ACall(id)
         \/ ACall(id)' = [request |-> request, tx |-> tx, phase |-> phase]
  BY <1>3, CallAppend DEF EffectsInv, ClientInv
<1>5. \A id \in CallIds' :
         \/ id \in CallIds /\ ACall(id)' = ACall(id)
         \/ ACall(id)'.tx # "ok" /\ ACall(id)'.phase # "receipt"
  BY <1>4
<1>6. LandedCalls'
  <2>1. SUFFICES ASSUME NEW id \in CallIds' PROVE LandedCall(id)'
    BY DEF LandedCalls
  <2>2. CASE id \in CallIds /\ ACall(id)' = ACall(id)
    BY <1>2, <2>2, OtherCallLasts DEF EffectsInv, ClientInv, LandedCalls
  <2>3. CASE ACall(id)'.tx # "ok" /\ ACall(id)'.phase # "receipt"
    BY <2>3 DEF LandedCall
  <2>. QED
    BY <1>5, <2>2, <2>3
<1>7. RetriesLandOnce'
  <2>1. SUFFICES ASSUME NEW i \in CallIds', NEW j \in CallIds', i # j, i[1] = j[1],
                        ACall(i)'.tx = "ok", ACall(j)'.tx = "ok",
                        ACall(i)'.request = ACall(j)'.request
                 PROVE  WritesNothing(ACall(i)'.request)
    BY DEF RetriesLandOnce, WritesNothing
  <2>2. /\ i \in CallIds /\ ACall(i)' = ACall(i)
        /\ j \in CallIds /\ ACall(j)' = ACall(j)
    BY <1>5, <2>1
  <2>. QED
    BY <2>1, <2>2, OncePair DEF EffectsInv
<1>. QED
  BY <1>6, <1>7

-----------------------------------------------------------------------------
(* Theorems *)

LEMMA EffectsInvInit == ClientInit => EffectsInv
<1>. SUFFICES ASSUME ClientInit PROVE EffectsInv
  OBVIOUS
<1>1. CallIds = {}
  BY DEF ClientInit, CallIds
<1>. QED
  BY <1>1, ClientInvInit DEF EffectsInv, LandedCalls, RetriesLandOnce

LEMMA EffectsInvStep ==
    EffectsInv /\ [ClientNext]_clientVars => EffectsInv'
<1>. SUFFICES ASSUME EffectsInv, [ClientNext]_clientVars PROVE EffectsInv'
  OBVIOUS
<1>1. ClientInv'
  BY ClientInvStep DEF EffectsInv
<1>2. ProgramStep
  BY ClientStepIsProgramStep DEF EffectsInv, ClientInv
<1>3. ASSUME NEW id \in CallIds, CallStep(id)
      PROVE  LandedCalls' /\ RetriesLandOnce'
  <2>1. /\ CallIds' = CallIds
        /\ \A other \in CallIds \ {id} : ACall(other)' = ACall(other)
    BY <1>3, TxUpdate, PhaseUpdate
    DEF EffectsInv, ClientInv, CallStep, Land, LandFailed, Drop, Confirm,
        ConfirmTimeout, Answer
  <2>2. \A other \in CallIds \ {id} : LandedCall(other)'
    BY <1>2, <2>1, OtherCallLasts DEF EffectsInv, ClientInv, LandedCalls
  <2>3. LandedCall(id)'
    BY <1>3, ItsCallLasts
  <2>. QED
    BY <1>3, <2>1, <2>2, <2>3, CallStepOnce DEF LandedCalls
<1>4. LandedCalls' /\ RetriesLandOnce'
  BY <1>2, <1>3, StartEffects, QuietEffects
  DEF ClientNext, clientVars, Foreign, ReaderStep, ReadCampaign,
      ReadValidatorSet, ReadScore
<1>. QED
  BY <1>1, <1>4 DEF EffectsInv

LEMMA EffectsInvHolds == ClientSpec => []EffectsInv
<1>. QED
  BY EffectsInvInit, EffectsInvStep, PTL DEF ClientSpec

\* What a landed call did is never undone or overwritten: not by the same
\* client, another one or anybody who uses the program without it.
THEOREM LandedCallsAlwaysLast == ClientSpec => []LandedCallsLast
<1>1. EffectsInv => LandedCallsLast
  BY DEF EffectsInv, LandedCalls, LandedCall, LastingEffect, LandedCallsLast
<1>. QED
  BY <1>1, EffectsInvHolds, PTL

\* A request that is retried after a timeout executes at most once, also
\* when both transactions are included.
THEOREM RetriesNeverLandTwice == ClientSpec => []RetriesLandOnce
<1>1. EffectsInv => RetriesLandOnce
  BY DEF EffectsInv
<1>. QED
  BY <1>1, EffectsInvHolds, PTL

LEMMA EffectsMeanScores == EffectsInv => ScoreReceiptIsOnChain
BY DEF EffectsInv, LandedCalls, LandedCall, LastingEffect, Effect,
       ScoreReceiptIsOnChain

\* A receipt of submitValidatorScoreEr means that this score is recorded.
THEOREM ScoreReceiptsAreTrue == ClientSpec => []ScoreReceiptIsOnChain
<1>. QED
  BY EffectsMeanScores, EffectsInvHolds, PTL

-----------------------------------------------------------------------------
(* A status assembled from stale reads *)

\* How what a reader found relates to the chain as it is now.
AccountHolds(c, account) ==
    /\ CampaignExists(c)
    /\ campaign[c].mode = account.mode
    /\ campaign[c].threshold_bps = account.threshold_bps
    /\ account.executor # NoKey => campaign[c].executor # NoKey
    /\ account.status = "rfq_expired" => RefundAllowed(c) \/ Settled(c)

ScoresHold(c, scores) ==
    \A v \in Agents : scores[v] # NoScore => score[c][v] = scores[v]

ViewHolds(r) ==
    view[r] # NoView =>
        /\ view[r] \in ViewRecord
        /\ AccountHolds(view[r].c, view[r].account)
        /\ ScoresHold(view[r].c, view[r].scores)

ViewsInv ==
    /\ view \in [Readers -> ViewRecord \cup {NoView}]
    /\ \A r \in Readers : ViewHolds(r)

LEMMA FindingsLast ==
    ASSUME TypeOK, InductiveInvariant, ProgramStep, NEW c \in Campaigns
    PROVE  /\ \A account : AccountHolds(c, account) => AccountHolds(c, account)'
           /\ \A scores : ScoresHold(c, scores) => ScoresHold(c, scores)'
<1>1. KeepsTerms(c) /\ CampaignKept(c)
  BY ProgramTermsStep, CampaignsLast
<1>2. /\ Settled(c) => Settled(c)'
      /\ RefundAllowed(c) => RefundAllowed(c)' \/ Settled(c)'
  BY SettlementStays
<1>3. ASSUME NEW account, AccountHolds(c, account) PROVE AccountHolds(c, account)'
  BY <1>1, <1>2, <1>3 DEF AccountHolds, KeepsTerms, TermsOf, CampaignKept
<1>4. ASSUME NEW scores, ScoresHold(c, scores) PROVE ScoresHold(c, scores)'
  BY <1>1, <1>4 DEF ScoresHold, KeepsTerms, Scored
<1>. QED
  BY <1>3, <1>4

LEMMA OtherViewHolds ==
    ASSUME TypeOK, InductiveInvariant, ProgramStep, NEW r \in Readers,
           ViewHolds(r), view'[r] = view[r]
    PROVE  ViewHolds(r)'
<1>. SUFFICES ASSUME view[r] # NoView PROVE ViewHolds(r)'
  BY DEF ViewHolds
<1>1. /\ view[r] \in ViewRecord
      /\ AccountHolds(view[r].c, view[r].account)
      /\ ScoresHold(view[r].c, view[r].scores)
  BY DEF ViewHolds
<1>2. PICK c \in Campaigns : c = view[r].c
  BY <1>1 DEF ViewRecord
<1>3. PICK account, scores : account = view[r].account /\ scores = view[r].scores
  OBVIOUS
<1>4. AccountHolds(c, account)' /\ ScoresHold(c, scores)'
  BY <1>1, <1>2, <1>3, FindingsLast
<1>5. view'[r].c = c /\ view'[r].account = account /\ view'[r].scores = scores
  BY <1>2, <1>3
<1>6. (view[r] \in ViewRecord)'
  BY <1>1 DEF ViewRecord, CampaignAccount
<1>7. (AccountHolds(view[r].c, view[r].account))'
  BY <1>4, <1>5 DEF AccountHolds
<1>8. (ScoresHold(view[r].c, view[r].scores))'
  BY <1>4, <1>5 DEF ScoresHold
<1>. QED
  BY <1>6, <1>7, <1>8 DEF ViewHolds

\* A read gives its reader a record that agrees with the chain.
TruthfulRecord(x) ==
    /\ x \in ViewRecord
    /\ AccountHolds(x.c, x.account)
    /\ ScoresHold(x.c, x.scores)

LEMMA CampaignReadIsTruthful ==
    ASSUME TypeOK, NEW r \in Readers, NEW c \in Campaigns, ReadCampaign(r, c)
    PROVE  \E x : view' = [view EXCEPT ![r] = x] /\ TruthfulRecord(x)
<1>. DEFINE none == [v \in Agents |-> NoScore]
            x == [step |-> "campaign", c |-> c, account |-> campaign[c],
                  pending |-> {}, scores |-> none]
<1>1. view' = [view EXCEPT ![r] = x] /\ campaign[c] # NoCampaign
  BY DEF ReadCampaign
<1>2. campaign[c] \in CampaignAccount
  BY <1>1 DEF TypeOK
<1>3. none \in [Agents -> Scores \cup {NoScore}]
  OBVIOUS
<1>4. x \in ViewRecord
  <2>. HIDE DEF none
  <2>. QED
    BY <1>2, <1>3 DEF ViewRecord
<1>5. AccountHolds(c, campaign[c])
  BY <1>1 DEF AccountHolds, CampaignExists, RefundAllowed
<1>6. ScoresHold(c, none)
  BY DEF ScoresHold
<1>7. x.c = c /\ x.account = campaign[c] /\ x.scores = none
  OBVIOUS
<1>8. AccountHolds(x.c, x.account) /\ ScoresHold(x.c, x.scores)
  <2>. HIDE DEF x, none
  <2>. QED
    BY <1>5, <1>6, <1>7
<1>. QED
  BY <1>1, <1>4, <1>8 DEF TruthfulRecord

LEMMA LaterReadIsTruthful ==
    ASSUME TypeOK, ViewsInv, NEW r \in Readers,
           ReadValidatorSet(r) \/ \E v \in Agents : ReadScore(r, v)
    PROVE  \E x : view' = [view EXCEPT ![r] = x] /\ TruthfulRecord(x)
<1>1. view[r] # NoView /\ view \in [Readers -> ViewRecord \cup {NoView}]
  BY DEF ReadValidatorSet, ReadScore, NoView, ViewsInv
<1>2. TruthfulRecord(view[r])
  BY <1>1 DEF ViewsInv, ViewHolds, TruthfulRecord
<1>3. PICK old \in ViewRecord : old = view[r]
  BY <1>2 DEF TruthfulRecord
<1>0. /\ old = [step |-> old.step, c |-> old.c, account |-> old.account,
                pending |-> old.pending, scores |-> old.scores]
      /\ old.scores \in [Agents -> Scores \cup {NoScore}]
  BY DEF ViewRecord
<1>4. ASSUME NEW step \in {"campaign", "scores"}, NEW pending \in SUBSET Agents,
             NEW scores \in [Agents -> Scores \cup {NoScore}],
             ScoresHold(old.c, scores),
             view' = [view EXCEPT ![r] =
                         [step |-> step, c |-> old.c, account |-> old.account,
                          pending |-> pending, scores |-> scores]]
      PROVE  \E x : view' = [view EXCEPT ![r] = x] /\ TruthfulRecord(x)
  <2>. DEFINE x == [step |-> step, c |-> old.c, account |-> old.account,
                    pending |-> pending, scores |-> scores]
  <2>1. x \in ViewRecord
    BY DEF ViewRecord
  <2>2. x.c = old.c /\ x.account = old.account /\ x.scores = scores
    OBVIOUS
  <2>3. AccountHolds(old.c, old.account)
    BY <1>2, <1>3 DEF TruthfulRecord
  <2>4. view' = [view EXCEPT ![r] = x]
    BY <1>4
  <2>. HIDE DEF x
  <2>5. TruthfulRecord(x)
    BY <1>4, <2>1, <2>2, <2>3 DEF TruthfulRecord
  <2>. QED
    BY <2>4, <2>5
<1>5. CASE ReadValidatorSet(r)
  <2>. DEFINE pending == {v \in Agents : Listed(view[r].c, v)}
  <2>1. view' = [view EXCEPT ![r].step = "scores", ![r].pending = pending]
    BY <1>5 DEF ReadValidatorSet
  <2>2. pending \in SUBSET Agents
    OBVIOUS
  <2>. HIDE DEF pending
  <2>3. view' = [view EXCEPT ![r] =
                    [step |-> "scores", c |-> old.c, account |-> old.account,
                     pending |-> pending, scores |-> old.scores]]
    <3>1. view' = [view EXCEPT ![r] =
                      [old EXCEPT !.step = "scores", !.pending = pending]]
      BY <1>1, <1>3, <2>1
    <3>2. [old EXCEPT !.step = "scores", !.pending = pending]
            = [step |-> "scores", c |-> old.c, account |-> old.account,
               pending |-> pending, scores |-> old.scores]
      <4>1. PICK y : y = [old EXCEPT !.step = "scores"]
        OBVIOUS
      <4>2. y = [step |-> "scores", c |-> old.c, account |-> old.account,
                 pending |-> old.pending, scores |-> old.scores]
        BY <1>0, <4>1
      <4>3. [y EXCEPT !.pending = pending]
              = [step |-> "scores", c |-> old.c, account |-> old.account,
                 pending |-> pending, scores |-> old.scores]
        BY <4>2
      <4>. QED
        BY <4>1, <4>3
    <3>. QED
      BY <3>1, <3>2
  <2>4. ScoresHold(old.c, old.scores) /\ old.scores \in [Agents -> Scores \cup {NoScore}]
    BY <1>2, <1>3 DEF TruthfulRecord, ViewRecord
  <2>. QED
    BY <1>4, <2>2, <2>3, <2>4
<1>6. ASSUME NEW v \in Agents, ReadScore(r, v)
      PROVE  \E x : view' = [view EXCEPT ![r] = x] /\ TruthfulRecord(x)
  <2>. DEFINE pending == old.pending \ {v}
              scores == [old.scores EXCEPT ![v] = score[old.c][v]]
  <2>0. old.pending \in SUBSET Agents /\ old.c \in Campaigns
          /\ old.scores \in [Agents -> Scores \cup {NoScore}]
    BY <1>3 DEF ViewRecord
  <2>1. view' = [view EXCEPT ![r].pending = pending,
                             ![r].scores[v] = score[old.c][v]]
    BY <1>1, <1>3, <1>6 DEF ReadScore
  <2>2. score[old.c][v] \in Scores \cup {NoScore}
    BY <2>0 DEF TypeOK
  <2>3. pending \in SUBSET Agents
        /\ scores \in [Agents -> Scores \cup {NoScore}]
    BY <2>0, <2>2
  <2>4. ScoresHold(old.c, scores)
    BY <1>2, <1>3, <2>0 DEF ScoresHold, TruthfulRecord
  <2>5. old.step = "scores"
    BY <1>3, <1>6 DEF ReadScore
  <2>6. view' = [view EXCEPT ![r] =
                    [step |-> "scores", c |-> old.c, account |-> old.account,
                     pending |-> pending, scores |-> scores]]
    <3>1. [old EXCEPT !.pending = pending, !.scores[v] = score[old.c][v]]
            = [step |-> "scores", c |-> old.c, account |-> old.account,
               pending |-> pending, scores |-> scores]
      <4>1. PICK y : y = [old EXCEPT !.pending = pending]
        OBVIOUS
      <4>2. PICK bps : bps = score[old.c][v]
        OBVIOUS
      <4>3. y = [step |-> "scores", c |-> old.c, account |-> old.account,
                 pending |-> pending, scores |-> old.scores]
        <5>. HIDE DEF pending
        <5>. QED
          BY <1>0, <2>5, <4>1
      <4>4. [y EXCEPT !.scores[v] = bps]
              = [step |-> "scores", c |-> old.c, account |-> old.account,
                 pending |-> pending,
                 scores |-> [old.scores EXCEPT ![v] = bps]]
        <5>. HIDE DEF pending
        <5>. QED
          BY <4>3
      <4>. QED
        BY <4>1, <4>2, <4>4
    <3>2. view' = [view EXCEPT ![r] =
              [old EXCEPT !.pending = pending, !.scores[v] = score[old.c][v]]]
      BY <1>1, <1>3, <2>1
    <3>. QED
      BY <3>1, <3>2
  <2>. HIDE DEF pending, scores
  <2>. QED
    BY <1>4, <2>3, <2>4, <2>6
<1>. QED
  BY <1>5, <1>6

LEMMA ReaderStepHolds ==
    ASSUME TypeOK, ViewsInv, NEW r \in Readers, ReaderStep(r)
    PROVE  ViewsInv'
<1>1. UNCHANGED vars
  BY DEF ReaderStep, ReadCampaign, ReadValidatorSet, ReadScore
<1>2. PICK x : view' = [view EXCEPT ![r] = x] /\ TruthfulRecord(x)
  BY CampaignReadIsTruthful, LaterReadIsTruthful DEF ReaderStep
<1>3. view' \in [Readers -> ViewRecord \cup {NoView}]
  BY <1>2 DEF ViewsInv, TruthfulRecord
<1>4. view'[r] = x
  BY <1>2 DEF ViewsInv
<1>5. ViewRecord' = ViewRecord /\ NoView' = NoView
  BY DEF ViewRecord, NoView, CampaignAccount
<1>6. \A c, y : /\ AccountHolds(c, y)' <=> AccountHolds(c, y)
                /\ ScoresHold(c, y)' <=> ScoresHold(c, y)
  BY <1>1 DEF vars, AccountHolds, ScoresHold, CampaignExists, RefundAllowed,
              IsOpen, Settled
<1>7. ASSUME NEW q \in Readers PROVE ViewHolds(q)'
  <2>1. ViewHolds(q)
    BY DEF ViewsInv
  <2>2. CASE q = r
    BY <1>2, <1>4, <1>5, <1>6, <2>2 DEF ViewHolds, TruthfulRecord
  <2>3. CASE q # r
    <3>1. view'[q] = view[q]
      BY <1>2, <2>3 DEF ViewsInv
    <3>. QED
      BY <1>5, <1>6, <2>1, <3>1 DEF ViewHolds
  <2>. QED
    BY <2>2, <2>3
<1>. QED
  BY <1>3, <1>7, <1>5 DEF ViewsInv

LEMMA ViewsInvInit == ClientInit => ViewsInv
BY DEF ClientInit, ViewsInv, ViewHolds

LEMMA ViewsInvStep ==
    ClientInv /\ ViewsInv /\ [ClientNext]_clientVars => ViewsInv'
<1>. SUFFICES ASSUME ClientInv, ViewsInv, [ClientNext]_clientVars
              PROVE  ViewsInv'
  OBVIOUS
<1>1. TypeOK /\ InductiveInvariant /\ ProgramStep
  BY ClientStepIsProgramStep DEF ClientInv
<1>2. ASSUME view' = view PROVE ViewsInv'
  <2>1. \A r \in Readers : ViewHolds(r)'
    BY <1>1, <1>2, OtherViewHolds DEF ViewsInv
  <2>2. (view \in [Readers -> ViewRecord \cup {NoView}])'
    BY <1>2 DEF ViewsInv, ViewRecord, NoView, CampaignAccount
  <2>. QED
    BY <2>1, <2>2 DEF ViewsInv
<1>. QED
  BY <1>1, <1>2, ReaderStepHolds
  DEF ClientNext, clientVars, Foreign, Send, Reject, CallStep, Land,
      LandFailed, Drop, Confirm, ConfirmTimeout

\* The scores a reader found are those of the chain.
LEMMA FoundScores ==
    ASSUME TypeOK, NEW c \in Campaigns, NEW found \in SUBSET Agents,
           NEW scores, ScoresHold(c, scores),
           \A v \in found : scores[v] # NoScore
    PROVE  /\ found \subseteq Scored(c)
           /\ ScoreInputs(c, found) = [v \in found |-> scores[v]]
BY DEF ScoresHold, Scored, ScoreInputs

LEMMA ViewsAreUsable ==
    ASSUME TypeOK, InductiveInvariant, ViewsInv
    PROVE  StaleStatusIsUsable
<1>. SUFFICES ASSUME NEW r \in Readers, view[r].step = "scores"
              PROVE  LET account == view[r].account
                         c == view[r].c
                     IN /\ /\ account.status = "open"
                           /\ account.mode = "rfq" => account.executor # NoKey
                           /\ Found(r) # {}
                           /\ AverageScoreBps([v \in Found(r) |-> view[r].scores[v]])
                                 >= account.threshold_bps
                           => MaySettle(c, Found(r)) \/ Settled(c)
                        /\ account.status = "rfq_expired" =>
                              RefundAllowed(c) \/ Settled(c)
  BY DEF StaleStatusIsUsable
<1>1. view[r] # NoView
  BY DEF NoView
<1>2. /\ view[r] \in ViewRecord
      /\ AccountHolds(view[r].c, view[r].account)
      /\ ScoresHold(view[r].c, view[r].scores)
  BY <1>1 DEF ViewsInv, ViewHolds
<1>3. PICK c \in Campaigns : c = view[r].c
  BY <1>2 DEF ViewRecord
<1>4. PICK account : account = view[r].account
  OBVIOUS
<1>5. PICK found \in SUBSET Agents : found = Found(r)
  BY DEF Found
<1>6. PICK inputs : inputs = [v \in found |-> view[r].scores[v]]
  OBVIOUS
<1>7. found \subseteq Scored(c) /\ ScoreInputs(c, found) = inputs
  BY <1>2, <1>3, <1>5, <1>6, FoundScores DEF Found
<1>8. AccountHolds(c, account)
  BY <1>2, <1>3, <1>4
<1>9. account.status = "rfq_expired" => RefundAllowed(c) \/ Settled(c)
  BY <1>8 DEF AccountHolds
<1>10. ASSUME account.mode = "rfq" => account.executor # NoKey,
              found # {}, AverageScoreBps(inputs) >= account.threshold_bps
       PROVE  MaySettle(c, found) \/ Settled(c)
  <2>1. /\ campaign[c].mode = "rfq" => campaign[c].executor # NoKey
        /\ campaign[c].threshold_bps = account.threshold_bps
        /\ CampaignExists(c)
    BY <1>8, <1>10 DEF AccountHolds
  <2>2. campaign[c].status # "rfq_expired"
    BY <2>1 DEF InductiveInvariant, ExpiredAfterWindow
  <2>3. campaign[c] \in CampaignAccount
    BY <2>1, AccountFacts DEF TypeOK, CampaignExists
  <2>4. IsOpen(c) \/ Settled(c)
    BY <2>2, <2>3 DEF CampaignAccount, IsOpen, Settled
  <2>5. ThresholdMet(c, found)
    BY <1>7, <1>10, <2>1 DEF ThresholdMet
  <2>. QED
    BY <1>7, <2>1, <2>4, <2>5 DEF MaySettle
<1>. QED
  BY <1>3, <1>4, <1>5, <1>6, <1>9, <1>10

\* A status put together from reads at different times is good to act on:
\* what it says can be settled or refunded still can be, or it is settled.
THEOREM StaleStatusesAreUsable == ClientSpec => []StaleStatusIsUsable
<1>1. ClientInit => ClientInv /\ ViewsInv
  BY ClientInvInit, ViewsInvInit
<1>2. ClientInv /\ ViewsInv /\ [ClientNext]_clientVars => (ClientInv /\ ViewsInv)'
  BY ClientInvStep, ViewsInvStep
<1>3. ClientInv /\ ViewsInv => StaleStatusIsUsable
  BY ViewsAreUsable DEF ClientInv
<1>. QED
  BY <1>1, <1>2, <1>3, PTL DEF ClientSpec

\* Every value of the client's variables is of its type.
THEOREM ClientTypesHold == ClientSpec => []ClientTypeOK
<1>1. ClientInit => ClientInv /\ ViewsInv
  BY ClientInvInit, ViewsInvInit
<1>2. ClientInv /\ ViewsInv /\ [ClientNext]_clientVars => (ClientInv /\ ViewsInv)'
  BY ClientInvStep, ViewsInvStep
<1>3. ClientInv /\ ViewsInv => ClientTypeOK
  BY DEF ClientInv, ViewsInv, ClientTypeOK
<1>. QED
  BY <1>1, <1>2, <1>3, PTL DEF ClientSpec

\* A step of the program, or the batched creation, is one of the escrow.
LEMMA ProgramStepRefines ==
    ASSUME TypeOK, InductiveInvariant, ProgramStep
    PROVE  [Escrow!Next]_(Escrow!vars)
<1>1. CASE [Next]_vars
  BY <1>1, RefinementStep
<1>2. CASE CreatesAtOnce
  <2>1. PICK c \in Campaigns, args \in CampaignArgs, mode \in {"direct", "rfq"},
             executor \in Keys, rfqDeadline \in Deadlines \cup {0} :
           CreateAtOnce(c, args, NewCampaign(mode, executor, args, rfqDeadline))
    BY <1>2 DEF CreatesAtOnce
  <2>2. /\ MayCreate(c, args, args.validators)
        /\ FundEscrow(c, args.amount)
        /\ campaign' = [campaign EXCEPT ![c] =
                            NewCampaign(mode, executor, args, rfqDeadline)]
    BY <2>1 DEF CreateAtOnce, MayCreateAtOnce
  <2>3. Escrow!Next
    BY <2>2, FundStep
  <2>. QED
    BY <2>3
<1>. QED
  BY <1>1, <1>2 DEF ProgramStep

\* With the SDK's batched creation the program still implements the abstract
\* escrow, whatever its clients do.
THEOREM ClientsImplementSettlement == ClientSpec => ImplementsSettlement
<1>1. ClientInit => Escrow!Init /\ ClientInv
  BY RefinementInit, ClientInvInit DEF ClientInit
<1>2. ClientInv /\ [ClientNext]_clientVars => [Escrow!Next]_(Escrow!vars)
  BY ClientStepIsProgramStep, ProgramStepRefines DEF ClientInv
<1>. QED
  BY <1>1, <1>2, ClientInvStep, PTL
  DEF ClientSpec, ImplementsSettlement, Escrow!Spec

\* Nor do the batched creation and the clients ever change the terms of an
\* existing campaign, its executor, a score or a settled account.
THEOREM TermsNeverChangeUnderClients == ClientSpec => TermsAreFrozen
<1>1. ClientInv /\ [ClientNext]_clientVars
        => [\A c \in Campaigns : KeepsTerms(c)]_vars
  BY ClientStepIsProgramStep, ProgramTermsStep DEF ClientInv
<1>. QED
  BY <1>1, ClientInvInit, ClientInvStep, PTL DEF ClientSpec, TermsAreFrozen

LEMMA ProgramTokenStep ==
    ASSUME TypeOK, EmptyUntilFunded, ProgramStep
    PROVE  TokensMove /\ EmptyUntilFunded'
<1>. SUFFICES ASSUME CreatesAtOnce
              PROVE  TokensMove /\ EmptyUntilFunded'
  BY MoveStep, EmptyStep DEF ProgramStep
<1>1. PICK c \in Campaigns, args \in CampaignArgs, mode \in {"direct", "rfq"},
           executor \in Keys, rfqDeadline \in Deadlines \cup {0} :
         CreateAtOnce(c, args, NewCampaign(mode, executor, args, rfqDeadline))
  BY DEF CreatesAtOnce
<1>2. /\ MayCreate(c, args, args.validators)
      /\ FundEscrow(c, args.amount)
      /\ campaign' = [campaign EXCEPT ![c] =
                          NewCampaign(mode, executor, args, rfqDeadline)]
  BY <1>1 DEF CreateAtOnce, MayCreateAtOnce
<1>3. NewCampaign(mode, executor, args, rfqDeadline).status # "none"
  BY DEF NewCampaign
<1>4. \A d \in Campaigns \ {c} : escrow'[d] = escrow[d]
  BY <1>2 DEF FundEscrow, TypeOK
<1>5. EmptyUntilFunded'
  BY <1>2, <1>3, <1>4, EmptyFrame
<1>. QED
  BY <1>2, <1>5, FundingMoves

\* Nor are tokens created or destroyed by calls that overlap, are repeated
\* after a timeout or create a campaign in one transaction.
THEOREM TokensConservedUnderClients ==
    ASSUME IsFiniteSet(Agents), IsFiniteSet(Campaigns)
    PROVE  ClientSpec => []TokensConserved
<1> DEFINE Inv == EmptyUntilFunded /\ TokensConserved
<1>1. ClientInit => Inv
  BY TokensInit DEF ClientInit
<1>2. ClientInv /\ Inv /\ [ClientNext]_clientVars => Inv'
  <2>. SUFFICES ASSUME ClientInv, Inv, [ClientNext]_clientVars
                PROVE  Inv'
    OBVIOUS
  <2>1. TypeOK /\ ProgramStep
    BY ClientStepIsProgramStep DEF ClientInv
  <2>. QED
    BY <2>1, ProgramTokenStep, MoveKeepsTotal DEF TokensConserved
<1>. QED
  BY <1>1, <1>2, ClientInvInit, ClientInvStep, PTL DEF ClientSpec

=============================================================================
