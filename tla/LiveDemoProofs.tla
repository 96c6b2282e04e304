-------------------------- MODULE LiveDemoProofs --------------------------
(***************************************************************************)
(* Theorems about the live demo on top of the orchestrator, the SDK client *)
(* and the program: what its evidence bundle says is on the chain, for any *)
(* validators, payer and earlier run, whoever else uses the program.       *)
(***************************************************************************)
EXTENDS LiveDemo, ConsensusProofs

-----------------------------------------------------------------------------
(* The invariant of the script *)

\* A validator's part of phase B: no call before its memo is confirmed, then
\* the one call that submits the score of the proof, and once that call has
\* returned a receipt the score is on chain.
VoteHolds(v) ==
    /\ agent[v] = "memo" => Len(call[v]) = 0
    /\ agent[v] = "account" =>
          /\ Len(call[v]) = 1 /\ MaxCalls >= 1
          /\ call[v][1].request = [op |-> "submitValidatorScoreEr",
                                   c |-> DemoCampaign,
                                   scoreBps |-> evidence.score]
    /\ agent[v] \in {"mirror", "responded"} =>
          score[DemoCampaign][v] = evidence.score

\* The one round of the orchestrator starts when the script is prepared, and
\* it is about the script's campaign.
RoundMatches ==
    /\ phase \in Phases \ {"consensus", "evidence", "exit"} =>
          round[DemoRound] = NotStarted
    /\ phase \in {"consensus", "evidence"} => round[DemoRound] # NotStarted
    /\ round[DemoRound] # NotStarted => round[DemoRound].c = DemoCampaign

DemoInv ==
    /\ EffectsInv
    /\ ConsensusInv
    /\ DemoTypeOK
    /\ \A v \in Validators : VoteHolds(v)
    /\ RoundMatches

-----------------------------------------------------------------------------
(* Every step of the script is a step of its clients *)

LEMMA DemoFacts ==
    /\ Payer \in Agents /\ Payer \in Clients /\ Payer \in Keys
    /\ Validators \subseteq Agents /\ Payer \notin Validators
    /\ PayerOf[DemoRound] = Payer /\ DemoRound \in Rounds
    /\ DemoCampaign \in Campaigns
BY DemoAssumption, ClientAssumption DEF Keys

LEMMA ScoreRequests ==
    ASSUME NEW scoreBps \in Scores, NEW a \in Agents
    PROVE  [op |-> "submitValidatorScoreEr", c |-> DemoCampaign,
            scoreBps |-> scoreBps] \in Requests(a)
BY DemoFacts DEF Requests, SubmitScoreCalls

LEMMA DemoStepKinds ==
    ASSUME DemoTypeOK, RoundMatches, [DemoNext]_demoVars
    PROVE  /\ [ClientNext]_clientVars
           /\ UNCHANGED round \/ RoundStep(DemoRound)
<1>1. ASSUME NEW request \in Requests(Payer), Attempt(request)
      PROVE  [ClientNext]_clientVars
  BY <1>1, DemoFacts DEF Attempt, ClientNext
<1>2. PICK delegation, undelegation \in Requests(Payer) :
        /\ delegation = [op |-> "delegateCampaign", c |-> DemoCampaign]
        /\ undelegation = [op |-> "undelegateCampaign", c |-> DemoCampaign]
  BY DemoFacts DEF Requests, DelegateCalls, UndelegateCalls, Payer
<1>3. ASSUME Delegate \/ Undelegate
      PROVE  [ClientNext]_clientVars /\ UNCHANGED round
  <2>1. Attempt(delegation) \/ Attempt(undelegation)
    BY <1>2, <1>3 DEF Delegate, Undelegate
  <2>2. UNCHANGED round
    BY <1>3 DEF Delegate, Undelegate
  <2>. QED
    BY <1>1, <2>1, <2>2
<1>4. ASSUME NEW v \in Validators, MemoConfirmed(v)
      PROVE  [ClientNext]_clientVars /\ UNCHANGED round
  <2>1. evidence.score \in Scores /\ v \in Clients /\ v \in Agents
    BY DemoFacts, DemoAssumption DEF DemoTypeOK, EvidenceRecord
  <2>. QED
    BY <1>4, <2>1, ScoreRequests DEF MemoConfirmed, ClientNext
<1>5. CASE RunConsensus
  <2>1. RoundStep(DemoRound)
    <3>1. evidence.score \in Scores
      BY DEF DemoTypeOK, EvidenceRecord
    <3>. QED
      BY <1>5, <3>1, DemoFacts DEF RunConsensus, RoundStep, Answered
  <2>. QED
    BY <2>1, RoundStepIsClientStep, DemoFacts DEF DemoTypeOK
<1>6. CASE Prepared
  <2>1. StartRound(DemoRound, DemoCampaign, DemoThreshold, Validators)
    BY <1>6, DemoAssumption DEF Prepared, StartRound, RoundMatches, Phases
  <2>2. RoundStep(DemoRound)
    BY <2>1, DemoFacts, DemoAssumption DEF RoundStep
  <2>. QED
    BY <2>2, RoundStepIsClientStep, DemoFacts DEF DemoTypeOK
<1>7. ASSUME UNCHANGED <<clientVars, round>>
      PROVE  [ClientNext]_clientVars /\ UNCHANGED round
  BY <1>7
<1>8. ASSUME NEW v \in Validators, AgentStep(v)
      PROVE  [ClientNext]_clientVars /\ UNCHANGED round
  BY <1>4, <1>7, <1>8
  DEF AgentStep, MemoFails, ScoreReturns, MirrorReturns
<1>9. ASSUME Script PROVE /\ [ClientNext]_clientVars
                          /\ UNCHANGED round \/ RoundStep(DemoRound)
  <2>1. CASE Delegate \/ Undelegate
    BY <1>3, <2>1
  <2>2. CASE Prepared \/ RunConsensus
    BY <1>5, <1>6, <2>2
  <2>. QED
    BY <1>7, <1>9, <2>1, <2>2
    DEF Script, ExecutorAttests, DelegateReturns, TooFewVotes,
        UndelegateReturns, PrepareFails, ConsensusReturns
<1>. QED
  BY <1>8, <1>9 DEF DemoNext, demoVars, clientVars, ClientNext

LEMMA DemoKeepsConsensusInv ==
    ASSUME ConsensusInv, [ClientNext]_clientVars,
           UNCHANGED round \/ RoundStep(DemoRound)
    PROVE  ConsensusInv'
<1>1. CASE RoundStep(DemoRound)
  BY <1>1, DemoFacts, ConsensusInvStep DEF ConsensusNext
<1>2. CASE UNCHANGED round
  <2>1. ClientInv'
    BY ClientInvStep DEF ConsensusInv
  <2>2. RoundsTyped'
    BY <1>2 DEF ConsensusInv, RoundsTyped, RoundRecord
  <2>3. ASSUME NEW r \in Rounds PROVE SafeRound(r)'
    BY <1>2, OtherRoundStep DEF ConsensusInv
  <2>. QED
    BY <2>1, <2>2, <2>3 DEF ConsensusInv
<1>. QED
  BY <1>1, <1>2

-----------------------------------------------------------------------------
(* The campaign an earlier run left behind satisfies the program's invariant *)

LEMMA DemoInitProgram == DemoInit => TypeOK /\ InductiveInvariant
<1>. SUFFICES ASSUME DemoInit PROVE TypeOK /\ InductiveInvariant
  OBVIOUS
<1>1. PICK args \in CampaignArgs, proofScore \in Scores,
           voted \in SUBSET Validators :
        /\ args.amount > 0
        /\ args.validators # << >>
        /\ \A v \in voted :
              \E i \in DOMAIN args.validators : args.validators[i] = v
        /\ InitialWallet[Payer] >= args.amount
        /\ now = 0
        /\ config = Payer
        /\ vset = [c \in Campaigns |->
                      IF c = DemoCampaign THEN args.validators ELSE << >>]
        /\ campaign = [c \in Campaigns |->
                          IF c = DemoCampaign
                            THEN NewCampaign("direct", DemoExecutor, args, 0)
                            ELSE NoCampaign]
        /\ bid = [c \in Campaigns |->
                     [b \in Agents |-> [i \in BidIds |-> NoBid]]]
        /\ score = [c \in Campaigns |-> [v \in Agents |->
                       IF c = DemoCampaign /\ v \in voted THEN proofScore
                       ELSE NoScore]]
        /\ escrow = [c \in Campaigns |->
                        IF c = DemoCampaign THEN args.amount ELSE 0]
        /\ wallet = [InitialWallet EXCEPT ![Payer] = @ - args.amount]
  BY DEF DemoInit
<1>2. /\ args.validators \in ValidatorLists
      /\ args.amount \in Amounts /\ args.amount \in Nat
  BY ArgumentsAssumption DEF CampaignArgs
<1>3. DemoExecutor \in Keys
  BY DemoAssumption DEF Keys
<1>4. PICK created \in CampaignAccount :
        created = NewCampaign("direct", DemoExecutor, args, 0)
  BY <1>3, NewCampaignType
<1>5. /\ created.status = "open" /\ created.mode = "direct"
      /\ created.amount = args.amount
  BY <1>4 DEF NewCampaign
<1>6. campaign = [c \in Campaigns |->
                     IF c = DemoCampaign THEN created ELSE NoCampaign]
  BY <1>1, <1>4
<1>7. /\ \A c \in Campaigns : campaign[c].status \in {"open", "none"}
      /\ \A c \in Campaigns : campaign[c].status = "open" <=> c = DemoCampaign
      /\ \A c \in Campaigns : CampaignExists(c) <=> c = DemoCampaign
      /\ campaign[DemoCampaign] = created
  BY <1>4, <1>5, <1>6, AccountFacts, DemoFacts DEF CampaignExists
<1>8. TypeOK
  <2>1. now \in 0 .. MaxTime /\ config \in Keys
    BY <1>1, DemoFacts, ClockAssumption
  <2>2. vset \in [Campaigns -> ValidatorLists \cup {<< >>}]
    BY <1>1, <1>2
  <2>3. campaign \in [Campaigns -> CampaignAccount \cup {NoCampaign}]
    BY <1>4, <1>6
  <2>4. bid \in [Campaigns -> [Agents -> [BidIds -> BidAccount \cup {NoBid}]]]
    BY <1>1
  <2>5. score \in [Campaigns -> [Agents -> Scores \cup {NoScore}]]
    BY <1>1
  <2>6. escrow \in [Campaigns -> Nat]
    BY <1>1, <1>2
  <2>7. wallet \in [Keys -> Nat]
    BY <1>1, <1>2, DemoFacts, KeysAssumption
  <2>. QED
    BY <2>1, <2>2, <2>3, <2>4, <2>5, <2>6, <2>7 DEF TypeOK
<1>9. EscrowBacked
  BY <1>1, <1>2, <1>5, <1>7 DEF EscrowBacked, Pending
<1>10. AcceptedBidAgreement
  <2>1. ASSUME NEW c \in Campaigns
        PROVE  /\ ~ (CampaignExists(c) /\ campaign[c].mode = "rfq")
               /\ {a \in Agents \X BidIds :
                      bid[c][a[1]][a[2]].status = "accepted"} = {}
    <3>1. \A a \in Agents \X BidIds : bid[c][a[1]][a[2]] = NoBid
      BY <1>1
    <3>. QED
      BY <1>5, <1>7, <3>1, AccountFacts
  <2>. QED
    BY <2>1 DEF AcceptedBidAgreement
<1>11. ExpiredAfterWindow /\ NoEarlyRefund /\ PayoutJustified
  BY <1>7 DEF ExpiredAfterWindow, NoEarlyRefund, PayoutJustified
<1>12. SetIsRegistered
  BY <1>1, <1>7 DEF SetIsRegistered
<1>13. ScoresBelongToValidators
  <2>1. ASSUME NEW c \in Campaigns, NEW v \in Scored(c)
        PROVE  CampaignExists(c) /\ Listed(c, v)
    <3>1. c = DemoCampaign /\ v \in voted
      BY <1>1, <2>1 DEF Scored
    <3>. QED
      BY <1>1, <1>7, <3>1 DEF Listed
  <2>. QED
    BY <2>1 DEF ScoresBelongToValidators
<1>. QED
  BY <1>8, <1>9, <1>10, <1>11, <1>12, <1>13 DEF InductiveInvariant

LEMMA DemoInvInit == DemoInit => DemoInv
<1>. SUFFICES ASSUME DemoInit PROVE DemoInv
  OBVIOUS
<1>1. /\ call = [a \in Clients |-> << >>]
      /\ round = [r \in Rounds |-> NotStarted]
      /\ phase = "attest"
      /\ agent = [v \in Validators |-> "memo"]
      /\ \E proofScore \in Scores :
            evidence = [attested |-> FALSE, delegated |-> FALSE,
                        undelegated |-> FALSE, score |-> proofScore]
  BY DEF DemoInit
<1>2. CallIds = {} /\ CallsTyped
  BY <1>1 DEF CallIds, CallsTyped
<1>3. ClientInv
  BY <1>2, DemoInitProgram DEF ClientInv, SettlementInFlight
<1>4. EffectsInv
  BY <1>2, <1>3 DEF EffectsInv, LandedCalls, RetriesLandOnce
<1>5. RoundsTyped /\ \A r \in Rounds : SafeRound(r)
  BY <1>1 DEF RoundsTyped, SafeRound
<1>6. DemoTypeOK
  BY <1>1, <1>5 DEF DemoTypeOK, Phases, AgentSteps, EvidenceRecord
<1>7. ASSUME NEW v \in Validators PROVE VoteHolds(v)
  BY <1>1, DemoAssumption DEF VoteHolds
<1>8. RoundMatches
  BY <1>1, DemoFacts DEF RoundMatches
<1>. QED
  BY <1>3, <1>4, <1>5, <1>6, <1>7, <1>8 DEF DemoInv, ConsensusInv

-----------------------------------------------------------------------------
(* How a step changes the calls of a validator *)

\* A validator has as many calls as before, for the same requests.
SameCalls(a) ==
    /\ Len(call'[a]) = Len(call[a])
    /\ \A i \in 1 .. Len(call[a]) : call'[a][i].request = call[a][i].request

LEMMA CallStepKeepsCalls ==
    ASSUME CallsTyped, NEW id \in CallIds, CallStep(id), NEW a \in Clients
    PROVE  SameCalls(a)
<1>1. PICK b \in Clients, n \in 1 .. Len(call[id[1]]) : b = id[1] /\ n = id[2]
  BY CallFacts
<1>2. call \in [Clients -> Seq(SomeCall)]
  BY DEF CallsTyped, SomeCall
<1>3. PICK m \in Nat : m = Len(call[b]) /\ DOMAIN call[b] = 1 .. m
  BY <1>1, <1>2
<1>4. \/ \E outcome : call' = [call EXCEPT ![b][n].tx = outcome]
      \/ \E seen : call' = [call EXCEPT ![b][n].phase = seen]
  BY <1>1 DEF CallStep, Land, LandFailed, Drop, Confirm, ConfirmTimeout, SetTx
<1>5. CASE a # b
  BY <1>1, <1>2, <1>4, <1>5 DEF SameCalls
<1>6. CASE a = b
  <2>1. PICK x : /\ x.request = call[b][n].request
                 /\ call' = [call EXCEPT ![b] = [call[b] EXCEPT ![n] = x]]
    <3>1. PICK y : y = call[b][n]
      OBVIOUS
    <3>2. y \in SomeCall
      BY <1>1, <1>2, <3>1
    <3>3. PICK d \in Clients : y \in CallRecord(d)
      BY <3>2 DEF SomeCall
    <3>4. ASSUME NEW outcome, call' = [call EXCEPT ![b][n].tx = outcome]
          PROVE  \E x : /\ x.request = call[b][n].request
                        /\ call' = [call EXCEPT ![b] = [call[b] EXCEPT ![n] = x]]
      <4>1. [y EXCEPT !.tx = outcome].request = y.request
        BY <3>3 DEF CallRecord
      <4>2. call' = [call EXCEPT ![b] =
                        [call[b] EXCEPT ![n] = [y EXCEPT !.tx = outcome]]]
        BY <3>1, <3>4
      <4>. QED
        BY <3>1, <4>1, <4>2
    <3>5. ASSUME NEW seen, call' = [call EXCEPT ![b][n].phase = seen]
          PROVE  \E x : /\ x.request = call[b][n].request
                        /\ call' = [call EXCEPT ![b] = [call[b] EXCEPT ![n] = x]]
      <4>1. [y EXCEPT !.phase = seen].request = y.request
        BY <3>3 DEF CallRecord
      <4>2. call' = [call EXCEPT ![b] =
                        [call[b] EXCEPT ![n] = [y EXCEPT !.phase = seen]]]
        BY <3>1, <3>5
      <4>. QED
        BY <3>1, <4>1, <4>2
    <3>. QED
      BY <1>4, <3>4, <3>5
  <2>2. call'[b] = [call[b] EXCEPT ![n] = x]
    BY <1>1, <1>2, <2>1
  <2>3. /\ Len(call'[b]) = m
        /\ \A i \in 1 .. m : i # n => call'[b][i] = call[b][i]
        /\ call'[b][n] = x
    BY <1>1, <1>2, <1>3, <2>2
  <2>. QED
    BY <1>1, <1>3, <1>6, <2>1, <2>3 DEF SameCalls
<1>. QED
  BY <1>5, <1>6

\* Only the validator's own agent starts calls for it.
LEMMA ValidatorCalls ==
    ASSUME CallsTyped, RoundsTyped, DemoTypeOK, [DemoNext]_demoVars,
           NEW v \in Validators
    PROVE  SameCalls(v) \/ MemoConfirmed(v)
<1>0. v \in Clients /\ v # Payer /\ call \in [Clients -> Seq(SomeCall)]
  BY DemoFacts, DemoAssumption DEF CallsTyped, SomeCall
<1>1. ASSUME call'[v] = call[v] PROVE SameCalls(v)
  BY <1>1 DEF SameCalls
<1>2. ASSUME NEW a \in Clients \ {v}, NEW request,
             Send(a, request) \/ Reject(a, request)
      PROVE  SameCalls(v)
  <2>1. call'[v] = call[v]
    BY <1>0, <1>2 DEF Send, Reject, Start
  <2>. QED
    BY <1>1, <2>1
<1>3. ASSUME NEW id \in CallIds, CallStep(id) PROVE SameCalls(v)
  BY <1>0, <1>3, CallStepKeepsCalls
<1>4. ASSUME NEW other \in Validators, AgentStep(other)
      PROVE  SameCalls(v) \/ MemoConfirmed(v)
  <2>1. CASE MemoConfirmed(other)
    BY <1>2, <2>1, DemoAssumption DEF MemoConfirmed
  <2>. QED
    BY <1>1, <1>4, <2>1
    DEF AgentStep, MemoFails, ScoreReturns, MirrorReturns, clientVars
<1>5. ASSUME Script PROVE SameCalls(v)
  <2>1. CASE Delegate \/ Undelegate
    BY <1>0, <1>2, <2>1, DemoFacts DEF Delegate, Undelegate, Attempt
  <2>2. CASE RunConsensus
    <3>1. CASE UNCHANGED clientVars
      BY <1>1, <3>1 DEF clientVars
    <3>2. CASE TriggerSettleSuccess(DemoRound)
      BY <1>0, <1>2, <3>2, DemoFacts DEF TriggerSettleSuccess, TriggerThrough
    <3>. QED
      BY <2>2, <3>1, <3>2
      DEF RunConsensus, Fulfil, Fail, Decide, InsufficientResponses,
          BelowThreshold, Return
  <2>. QED
    BY <1>1, <1>5, <2>1, <2>2
    DEF Script, ExecutorAttests, DelegateReturns, TooFewVotes, Prepared,
        UndelegateReturns, PrepareFails, ConsensusReturns, clientVars
<1>. QED
  BY <1>1, <1>3, <1>4, <1>5 DEF DemoNext, demoVars, Foreign

\* What a step does to the script's own state of a validator.
LEMMA ValidatorSteps ==
    ASSUME DemoTypeOK, [DemoNext]_demoVars, NEW v \in Validators
    PROVE  /\ evidence'.score = evidence.score
           /\ \/ agent'[v] = agent[v]
              \/ MemoConfirmed(v) /\ agent[v] = "memo" /\ agent'[v] = "account"
              \/ agent'[v] = "failed"
              \/ ScoreReturns(v) /\ GotReceipt(v) /\ agent'[v] = "mirror"
              \/ agent[v] = "mirror" /\ agent'[v] = "responded"
<1>1. evidence \in EvidenceRecord /\ agent \in [Validators -> AgentSteps]
  BY DEF DemoTypeOK
<1>2. evidence'.score = evidence.score
  <2>1. CASE UNCHANGED evidence
    BY <2>1
  <2>2. CASE \E onChain \in BOOLEAN : ExecutorAttests(onChain)
    BY <1>1, <2>2 DEF ExecutorAttests, EvidenceRecord
  <2>3. CASE DelegateReturns \/ UndelegateReturns
    BY <1>1, <2>3 DEF DelegateReturns, UndelegateReturns, EvidenceRecord
  <2>. QED
    BY <2>1, <2>2, <2>3
    DEF DemoNext, demoVars, AgentStep, MemoConfirmed, MemoFails, ScoreReturns,
        MirrorReturns, Script, Delegate, TooFewVotes, Undelegate, Prepared,
        PrepareFails, RunConsensus, ConsensusReturns
<1>3. CASE UNCHANGED agent
  BY <1>2, <1>3
<1>4. CASE \E other \in Validators : AgentStep(other)
  BY <1>1, <1>2, <1>4
  DEF AgentStep, MemoConfirmed, MemoFails, ScoreReturns, MirrorReturns
<1>. QED
  BY <1>3, <1>4
  DEF DemoNext, demoVars, Script, ExecutorAttests, DelegateReturns,
      UndelegateReturns, Delegate, TooFewVotes, Undelegate, Prepared,
      PrepareFails, RunConsensus, ConsensusReturns

-----------------------------------------------------------------------------
(* The invariant holds in every step *)

LEMMA VoteStep ==
    ASSUME DemoInv, [DemoNext]_demoVars, NEW v \in Validators
    PROVE  VoteHolds(v)'
<1>1. /\ TypeOK /\ InductiveInvariant /\ CallsTyped /\ RoundsTyped
      /\ DemoTypeOK /\ VoteHolds(v) /\ LandedCalls /\ SettlementInFlight
  BY DEF DemoInv, EffectsInv, ClientInv, DemoTypeOK
<1>2. /\ v \in Clients /\ v \in Agents /\ agent \in [Validators -> AgentSteps]
      /\ evidence.score \in Scores
      /\ call \in [Clients -> Seq(SomeCall)]
  BY <1>1, DemoFacts, DemoAssumption
  DEF DemoTypeOK, EvidenceRecord, CallsTyped, SomeCall
<1>3. evidence'.score = evidence.score
  BY <1>1, ValidatorSteps
<1>4. KeepsTerms(DemoCampaign)
  <2>1. ProgramStep
    BY <1>1, DemoStepKinds, ClientStepIsProgramStep DEF DemoInv
  <2>. QED
    BY <1>1, <2>1, ProgramTermsStep, DemoFacts
<1>5. /\ evidence.score # NoScore
      /\ score[DemoCampaign][v] = evidence.score =>
            score'[DemoCampaign][v] = evidence.score
  <2>1. evidence.score # NoScore
    BY <1>2, ArgumentsAssumption DEF NoScore
  <2>. QED
    BY <1>2, <1>4, <2>1 DEF KeepsTerms, Scored
<1>6. CASE MemoConfirmed(v)
  <2>1. agent[v] = "memo" /\ agent'[v] = "account"
    BY <1>2, <1>6 DEF MemoConfirmed
  <2>2. PICK request : request = [op |-> "submitValidatorScoreEr",
                                  c |-> DemoCampaign,
                                  scoreBps |-> evidence.score]
    OBVIOUS
  <2>3. PICK x : /\ x.request = request
                 /\ call' = [call EXCEPT ![v] = Append(call[v], x)]
                 /\ x = [request |-> request, tx |-> "inflight",
                         phase |-> "confirming"]
    BY <1>6, <2>2 DEF MemoConfirmed, Send, Start
  <2>4. x \in SomeCall
    <3>1. request \in Requests(v)
      BY <1>2, <2>2, ScoreRequests
    <3>2. x \in CallRecord(v)
      BY <2>3, <3>1 DEF CallRecord
    <3>. QED
      BY <1>2, <3>2 DEF SomeCall
  <2>5. call[v] \in Seq(SomeCall) /\ Len(call[v]) = 0
          /\ call'[v] = Append(call[v], x)
    BY <1>1, <1>2, <2>1, <2>3 DEF VoteHolds
  <2>6. Len(call'[v]) = 1 /\ call'[v][1] = x
    BY <2>4, <2>5
  <2>7. call'[v][1].request = [op |-> "submitValidatorScoreEr",
                               c |-> DemoCampaign,
                               scoreBps |-> evidence'.score]
    BY <1>3, <2>2, <2>3, <2>6
  <2>8. MaxCalls >= 1
    BY <1>6, <2>5, ClientAssumption DEF MemoConfirmed, Send, Start
  <2>. QED
    BY <2>1, <2>6, <2>7, <2>8 DEF VoteHolds
<1>7. ASSUME ~ MemoConfirmed(v) PROVE VoteHolds(v)'
  <2>1. SameCalls(v)
    BY <1>1, <1>7, ValidatorCalls
  <2>2. CASE agent'[v] = "failed"
    BY <2>2 DEF VoteHolds
  <2>3. CASE agent'[v] = agent[v]
    <3>1. agent[v] = "memo" => Len(call'[v]) = 0
      BY <1>1, <2>1 DEF VoteHolds, SameCalls
    <3>2. agent[v] = "account" =>
            /\ Len(call'[v]) = 1
            /\ call'[v][1].request = call[v][1].request
      BY <1>1, <2>1 DEF VoteHolds, SameCalls
    <3>. QED
      BY <1>1, <1>3, <1>5, <2>3, <3>1, <3>2 DEF VoteHolds
  <2>4. CASE agent[v] = "mirror" /\ agent'[v] = "responded"
    BY <1>1, <1>3, <1>5, <2>4 DEF VoteHolds
  <2>5. CASE ScoreReturns(v) /\ GotReceipt(v) /\ agent'[v] = "mirror"
    <3>1. /\ agent[v] = "account" /\ UNCHANGED clientVars
          /\ ACall(LastCall(v)).phase = "receipt"
      BY <2>5 DEF ScoreReturns, GotReceipt
    <3>2. PICK id : id = <<v, 1>>
      OBVIOUS
    <3>3. /\ id = LastCall(v) /\ id \in CallIds
          /\ ACall(id) = call[v][1] /\ id[1] = v
      <4>1. Len(call[v]) = 1 /\ MaxCalls >= 1
        BY <1>1, <3>1 DEF VoteHolds
      <4>2. 1 \in 1 .. MaxCalls
        BY <4>1, ClientAssumption
      <4>3. id[1] = v /\ id[2] = 1 /\ id \in Clients \X (1 .. MaxCalls)
        BY <1>2, <3>2, <4>2
      <4>4. id \in CallIds
        <5>1. id[2] = 1 /\ Len(call[id[1]]) = 1
          BY <4>1, <4>3
        <5>2. 1 <= 1
          OBVIOUS
        <5>3. id[2] <= Len(call[id[1]])
          BY <5>1, <5>2, Zenon
        <5>. QED
          BY <4>3, <5>3, Zenon DEF CallIds
      <4>5. id = LastCall(v) /\ ACall(id) = call[v][1]
        BY <3>2, <4>1, <4>3 DEF LastCall, ACall
      <4>. QED
        BY <4>3, <4>4, <4>5
    <3>4. /\ ACall(id).request.op = "submitValidatorScoreEr"
          /\ ACall(id).request.c = DemoCampaign
          /\ ACall(id).request.scoreBps = evidence.score
      BY <1>1, <3>1, <3>3 DEF VoteHolds
    <3>5. ScoreReceiptIsOnChain
      BY EffectsMeanScores DEF DemoInv
    <3>6. score[DemoCampaign][v] = evidence.score
      BY <3>1, <3>3, <3>4, <3>5 DEF ScoreReceiptIsOnChain
    <3>. QED
      BY <1>3, <1>5, <2>5, <3>6 DEF VoteHolds
  <2>. QED
    BY <1>1, <1>7, <2>2, <2>3, <2>4, <2>5, ValidatorSteps
<1>. QED
  BY <1>6, <1>7

\* What the script's step does to its phase, its round and its types.
LEMMA ScriptTypes ==
    ASSUME DemoTypeOK, RoundsTyped', [DemoNext]_demoVars PROVE DemoTypeOK'
<1>1. /\ phase \in Phases /\ agent \in [Validators -> AgentSteps]
      /\ evidence \in EvidenceRecord
  BY DEF DemoTypeOK
<1>2. phase' \in Phases
  BY <1>1
  DEF DemoNext, demoVars, AgentStep, MemoConfirmed, MemoFails, ScoreReturns,
      MirrorReturns, Script, ExecutorAttests, Delegate, DelegateReturns,
      TooFewVotes, Undelegate, UndelegateReturns, Prepared, PrepareFails,
      RunConsensus, ConsensusReturns, Phases
<1>3. agent' \in [Validators -> AgentSteps]
  <2>1. CASE \E v \in Validators : AgentStep(v)
    BY <1>1, <2>1
    DEF AgentStep, MemoConfirmed, MemoFails, ScoreReturns, MirrorReturns,
        AgentSteps
  <2>2. CASE UNCHANGED agent
    BY <1>1, <2>2
  <2>. QED
    BY <2>1, <2>2
    DEF DemoNext, demoVars, Script, ExecutorAttests, Delegate,
        DelegateReturns, TooFewVotes, Undelegate, UndelegateReturns,
        Prepared, PrepareFails, RunConsensus, ConsensusReturns
<1>4. evidence' \in EvidenceRecord
  <2>1. CASE UNCHANGED evidence
    BY <1>1, <2>1
  <2>2. CASE \E onChain \in BOOLEAN : ExecutorAttests(onChain)
    BY <1>1, <2>2 DEF ExecutorAttests, EvidenceRecord
  <2>3. CASE DelegateReturns \/ UndelegateReturns
    BY <1>1, <2>3
    DEF DelegateReturns, UndelegateReturns, GotReceipt, EvidenceRecord
  <2>. QED
    BY <2>1, <2>2, <2>3
    DEF DemoNext, demoVars, AgentStep, MemoConfirmed, MemoFails, ScoreReturns,
        MirrorReturns, Script, Delegate, TooFewVotes, Undelegate, Prepared,
        PrepareFails, RunConsensus, ConsensusReturns
<1>. QED
  BY <1>2, <1>3, <1>4
  DEF DemoTypeOK, AgentSteps, Phases, EvidenceRecord

\* The order of the script's phases.
LEMMA PhaseOrder ==
    ASSUME [DemoNext]_demoVars
    PROVE  \/ UNCHANGED phase
           \/ phase = "attest" /\ phase' = "delegate"
           \/ phase = "delegate" /\ phase' = "delegating"
           \/ phase = "delegating" /\ phase' = "scoring"
           \/ phase = "scoring" /\ phase' \in {"undelegating", "exit"}
           \/ phase = "undelegating" /\ phase' = "prepare"
           \/ phase = "prepare" /\ phase' \in {"consensus", "exit"}
           \/ phase = "consensus" /\ phase' \in {"evidence", "exit"}
<1>1. ASSUME NEW v \in Validators, AgentStep(v) PROVE UNCHANGED phase
  BY <1>1 DEF AgentStep, MemoConfirmed, MemoFails, ScoreReturns, MirrorReturns
<1>2. CASE Script
  BY <1>2
  DEF Script, ExecutorAttests, Delegate, DelegateReturns, TooFewVotes,
      Undelegate, UndelegateReturns, Prepared, PrepareFails, RunConsensus,
      ConsensusReturns, Collected
<1>. QED
  BY <1>1, <1>2 DEF DemoNext, demoVars

LEMMA RoundMatchesStep ==
    ASSUME DemoTypeOK, RoundMatches, [DemoNext]_demoVars PROVE RoundMatches'
<1>1. /\ phase \in Phases /\ DemoRound \in Rounds
      /\ round \in [Rounds -> RoundRecord \cup {NotStarted}]
  BY DemoFacts DEF DemoTypeOK, RoundsTyped
<1>2. PICK x \in RoundRecord \cup {NotStarted} : x = round[DemoRound]
  BY <1>1
<1>3. CASE RunConsensus
  <2>1. x \in RoundRecord /\ x.c = DemoCampaign /\ phase' = "consensus"
    BY <1>2, <1>3 DEF RunConsensus, RoundMatches
  <2>2. PICK y : round'[DemoRound] = y /\ y.c = x.c /\ y.step # "idle"
    <3>1. CASE \E v \in Validators : Fulfil(DemoRound, v, evidence.score)
      <4>1. PICK v \in Validators : round' = [round EXCEPT ![DemoRound] =
                                        Heard(x, v, evidence.score)]
        BY <1>2, <3>1 DEF Fulfil
      <4>2. Heard(x, v, evidence.score).c = x.c
              /\ Heard(x, v, evidence.score).step = x.step
        BY <2>1 DEF Heard, RoundRecord
      <4>3. round'[DemoRound] = Heard(x, v, evidence.score)
        BY <1>1, <4>1
      <4>. QED
        BY <2>1, <4>2, <4>3 DEF RoundRecord
    <3>2. CASE \E v \in Validators : Fail(DemoRound, v)
      <4>1. PICK v : round' = [round EXCEPT ![DemoRound].pending = @ \ {v}]
        BY <3>2 DEF Fail
      <4>. QED
        BY <1>1, <1>2, <2>1, <4>1 DEF RoundRecord
    <3>3. ASSUME NEW result, Finish(DemoRound, result)
          PROVE  \E y : round'[DemoRound] = y /\ y.c = x.c /\ y.step # "idle"
      <4>1. PICK z : z = [x EXCEPT !.step = "done"]
        OBVIOUS
      <4>2. z.c = x.c /\ z.step = "done"
        BY <2>1, <4>1 DEF RoundRecord
      <4>3. z \in RoundRecord
        BY <2>1, <4>1 DEF RoundRecord
      <4>4. PICK y : y = [z EXCEPT !.result = result]
        OBVIOUS
      <4>5. y.c = x.c /\ y.step = "done"
        BY <4>2, <4>3, <4>4 DEF RoundRecord
      <4>6. round'[DemoRound] = y
        BY <1>1, <1>2, <3>3, <4>1, <4>4 DEF Finish
      <4>. QED
        BY <4>5, <4>6
    <3>4. CASE TriggerSettleSuccess(DemoRound)
      <4>1. PICK k : k = Len(call[PayerOf[DemoRound]]) + 1
        OBVIOUS
      <4>2. PICK z : z = [x EXCEPT !.step = "settling"]
        OBVIOUS
      <4>3. z.c = x.c /\ z.step = "settling" /\ z \in RoundRecord
        BY <2>1, <4>2 DEF RoundRecord
      <4>4. PICK y : y = [z EXCEPT !.trigger = k]
        OBVIOUS
      <4>5. y.c = x.c /\ y.step = "settling"
        BY <4>3, <4>4 DEF RoundRecord
      <4>6. round'[DemoRound] = y
        BY <1>1, <1>2, <3>4, <4>1, <4>2, <4>4
        DEF TriggerSettleSuccess, TriggerThrough
      <4>. QED
        BY <4>5, <4>6
    <3>. QED
      BY <1>3, <3>1, <3>2, <3>3, <3>4
      DEF RunConsensus, Decide, InsufficientResponses, BelowThreshold, Return
  <2>3. round'[DemoRound] # NotStarted
    BY <2>2 DEF NotStarted
  <2>. QED
    BY <2>1, <2>2, <2>3 DEF RoundMatches, Phases
<1>4. CASE Prepared
  <2>1. round'[DemoRound] = NewRound(DemoCampaign, DemoThreshold, Validators)
    BY <1>1, <1>4 DEF Prepared
  <2>. QED
    BY <1>4, <2>1 DEF Prepared, NewRound, RoundMatches, NotStarted, Phases
<1>5. CASE UNCHANGED round
  <2>1. \/ UNCHANGED phase
        \/ phase = "attest" /\ phase' = "delegate"
        \/ phase = "delegate" /\ phase' = "delegating"
        \/ phase = "delegating" /\ phase' = "scoring"
        \/ phase = "scoring" /\ phase' \in {"undelegating", "exit"}
        \/ phase = "undelegating" /\ phase' = "prepare"
        \/ phase = "prepare" /\ phase' \in {"consensus", "exit"}
        \/ phase = "consensus" /\ phase' \in {"evidence", "exit"}
    BY PhaseOrder
  <2>2. /\ phase' = "evidence" => phase \in {"evidence", "consensus"}
        /\ phase' \in Phases \ {"consensus", "evidence", "exit"} =>
              phase \in Phases \ {"consensus", "evidence", "exit"}
        /\ phase' = "consensus" => phase \in {"consensus", "prepare"}
    BY <1>1, <2>1 DEF Phases
  <2>3. CASE ~ Prepared
    <3>1. phase' = "consensus" => phase = "consensus"
      BY <1>5, <2>3
      DEF DemoNext, demoVars, AgentStep, MemoConfirmed, MemoFails,
          ScoreReturns, MirrorReturns, Script, ExecutorAttests, Delegate,
          DelegateReturns, TooFewVotes, Undelegate, UndelegateReturns,
          PrepareFails, RunConsensus, ConsensusReturns
    <3>. QED
      BY <1>5, <2>2, <3>1 DEF RoundMatches, Phases
  <2>. QED
    BY <1>4, <2>3
<1>6. UNCHANGED round \/ RunConsensus \/ Prepared
  BY DEF DemoNext, demoVars, AgentStep, MemoConfirmed, MemoFails, ScoreReturns,
         MirrorReturns, Script, ExecutorAttests, Delegate, DelegateReturns,
         TooFewVotes, Undelegate, UndelegateReturns, PrepareFails,
         ConsensusReturns, clientVars
<1>. QED
  BY <1>3, <1>4, <1>5, <1>6

LEMMA DemoInvStep == DemoInv /\ [DemoNext]_demoVars => DemoInv'
<1>. SUFFICES ASSUME DemoInv, [DemoNext]_demoVars PROVE DemoInv'
  OBVIOUS
<1>1. [ClientNext]_clientVars /\ (UNCHANGED round \/ RoundStep(DemoRound))
  BY DemoStepKinds DEF DemoInv
<1>2. EffectsInv'
  BY <1>1, EffectsInvStep DEF DemoInv
<1>3. ConsensusInv'
  BY <1>1, DemoKeepsConsensusInv DEF DemoInv
<1>4. DemoTypeOK'
  BY <1>3, ScriptTypes DEF DemoInv, ConsensusInv
<1>5. \A v \in Validators : VoteHolds(v)'
  BY VoteStep
<1>6. RoundMatches'
  BY RoundMatchesStep DEF DemoInv
<1>. QED
  BY <1>2, <1>3, <1>4, <1>5, <1>6 DEF DemoInv

LEMMA DemoInvHolds == DemoSpec => []DemoInv
<1>. QED
  BY DemoInvInit, DemoInvStep, PTL DEF DemoSpec

-----------------------------------------------------------------------------
(* The theorems *)

\* Every value of the script's variables is of its type.
THEOREM DemoTypesHold == DemoSpec => []DemoTypeOK
<1>1. DemoInv => DemoTypeOK
  BY DEF DemoInv
<1>. QED
  BY <1>1, DemoInvHolds, PTL

\* The script, its agents and its orchestrator use the program through the
\* SDK client only: what the program and the clients guarantee in every
\* state holds under the script too, although it starts from a campaign that
\* an earlier run has left behind.
THEOREM DemoKeepsGuarantees ==
    DemoSpec => []InductiveInvariant /\ []LandedCallsLast /\ []RetriesLandOnce
<1>1. DemoInv => InductiveInvariant /\ LandedCallsLast /\ RetriesLandOnce
  BY DEF DemoInv, EffectsInv, ClientInv, LandedCalls, LandedCall,
         LastingEffect, LandedCallsLast
<1>. QED
  BY <1>1, DemoInvHolds, PTL

\* The votes, their number and the settlement that the evidence bundle lists
\* are on the chain when it is written.
THEOREM EvidenceHolds ==
    ASSUME IsFiniteSet(Agents)
    PROVE  DemoSpec => []EvidenceIsOnChain
<1>1. ASSUME DemoInv PROVE EvidenceIsOnChain
  <2>. SUFFICES ASSUME phase = "evidence" PROVE EvidenceIsOnChain
    BY DEF EvidenceIsOnChain
  <2>. DEFINE recorded == {v \in Agents :
                              score[DemoCampaign][v] = evidence.score}
  <2>1. \A v \in Votes : score[DemoCampaign][v] = evidence.score
    BY <1>1 DEF DemoInv, VoteHolds, Votes
  <2>2. Votes \subseteq recorded
    BY <2>1, DemoFacts DEF Votes
  <2>3. IsFiniteSet(recorded)
    BY FS_Subset
  <2>4. Cardinality(Votes) <= Cardinality(recorded)
          /\ Cardinality(Votes) \in Nat /\ Cardinality(recorded) \in Nat
    BY <2>2, <2>3, FS_Subset, FS_CardinalityType
  <2>5. Cardinality(Votes) >= MinValidators =>
            Cardinality(recorded) >= MinValidators
    BY <2>4, RoundsAssumption
  <2>6. "enough_responses" \in Checks => Cardinality(Votes) >= MinValidators
    BY DEF Checks
  <2>7. "settlement_on_chain" \in Checks =>
            round[DemoRound].result = "settled_success"
    BY DEF Checks
  <2>8. round[DemoRound].result = "settled_success" => Settled(DemoCampaign)
    <3>1. round[DemoRound] # NotStarted /\ round[DemoRound].c = DemoCampaign
      BY <1>1 DEF DemoInv, RoundMatches
    <3>2. SafeRound(DemoRound)
      BY <1>1, DemoFacts DEF DemoInv, ConsensusInv
    <3>. QED
      BY <3>1, <3>2 DEF SafeRound, OutcomeIsTrue
  <2>. QED
    BY <2>1, <2>5, <2>6, <2>7, <2>8 DEF EvidenceIsOnChain
<1>. QED
  BY <1>1, DemoInvHolds, PTL

=============================================================================
