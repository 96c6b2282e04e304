------------------------------ MODULE LiveDemo ------------------------------
(***************************************************************************)
(* scripts/live-demo.ts: the driver that wires the agents, the SDK client  *)
(* and the orchestrator together on a campaign that already exists.        *)
(*                                                                         *)
(* The executor attests; the campaign is delegated; every validator agent  *)
(* writes its memo and then its score account; the campaign is             *)
(* undelegated; the orchestrator asks the same agents again, who write a   *)
(* second memo and no account, and settles; an evidence bundle is written. *)
(***************************************************************************)
EXTENDS Consensus

CONSTANTS
    Validators,     \* VALIDATORS, who need not be the registered ones
    DemoCampaign,   \* CAMPAIGN_ID of the payer
    DemoExecutor,   \* ALPHA
    DemoThreshold,  \* THRESHOLD_BPS, a constant of the script
    DemoRound       \* the one call of runConsensus

Payer == CreatorOf[DemoCampaign]

\* The payer calls no validator's client: their calls do not mix.
ASSUME DemoAssumption ==
    /\ Validators \subseteq Clients /\ Validators # {}
    /\ Payer \in Clients \ Validators
    /\ DemoCampaign \in Campaigns /\ DemoExecutor \in Agents
    /\ DemoThreshold \in Thresholds
    /\ DemoRound \in Rounds /\ PayerOf[DemoRound] = Payer

VARIABLES
    phase,      \* where the script is
    agent,      \* where each validator's part of phase B is
    evidence    \* what the script found out for its bundle

demoVars == <<vars, call, view, round, phase, agent, evidence>>

Phases == {"attest", "delegate", "delegating", "scoring",
           "undelegating", "prepare", "consensus", "evidence", "exit"}

AgentSteps == {"memo", "account", "mirror", "responded", "failed"}

EvidenceRecord ==
    [attested : BOOLEAN, delegated : BOOLEAN, undelegated : BOOLEAN,
     score : Scores]

-----------------------------------------------------------------------------
(* The campaign was seeded: registered and created in direct mode.  An       *)
(* earlier run of the script may have stopped anywhere in phase B: it left   *)
(* score accounts behind, with the score of the same proof, and the campaign *)
(* unsettled; this run starts over and knows of nothing.                     *)

DemoInit ==
    \E args \in CampaignArgs, proofScore \in Scores, voted \in SUBSET Validators :
        /\ args.amount > 0
        /\ args.threshold_bps \in 1 .. BPS_DENOMINATOR
        /\ args.validators # << >> /\ Len(args.validators) <= MaxValidators
        /\ args.deadline_unix > 0
        /\ \A v \in voted : \E i \in DOMAIN args.validators : args.validators[i] = v
        /\ InitialWallet[Payer] >= args.amount
        /\ now = 0
        /\ config = Payer
        /\ vset = [c \in Campaigns |->
                      IF c = DemoCampaign THEN args.validators ELSE << >>]
        /\ campaign = [c \in Campaigns |->
                          IF c = DemoCampaign
                            THEN NewCampaign("direct", DemoExecutor, args, 0)
                            ELSE NoCampaign]
        /\ bid = [c \in Campaigns |->
                     [b \in Agents |-> [i \in BidIds |-> NoBid]]]
        /\ score = [c \in Campaigns |-> [v \in Agents |->
                       IF c = DemoCampaign /\ v \in voted THEN proofScore
                       ELSE NoScore]]
        /\ escrow = [c \in Campaigns |->
                        IF c = DemoCampaign THEN args.amount ELSE 0]
        /\ wallet = [InitialWallet EXCEPT ![Payer] = @ - args.amount]
        /\ call = [a \in Clients |-> << >>]
        /\ view = [r \in Readers |-> NoView]
        /\ round = [r \in Rounds |-> NotStarted]
        /\ phase = "attest"
        /\ agent = [v \in Validators |-> "memo"]
        /\ evidence = [attested |-> FALSE, delegated |-> FALSE,
                       undelegated |-> FALSE, score |-> proofScore]

-----------------------------------------------------------------------------
(* Phases A and A.5 *)

LastCall(a) == <<a, Len(call[a])>>

Awaited(a) == ACall(LastCall(a)).phase # "confirming"
GotReceipt(a) == ACall(LastCall(a)).phase = "receipt"

Attempt(request) == Send(Payer, request) \/ Reject(Payer, request)

\* A failed attestation is replaced by a local one without a transaction.
ExecutorAttests(onChain) ==
    /\ phase = "attest"
    /\ phase' = "delegate"
    /\ evidence' = [evidence EXCEPT !.attested = onChain]
    /\ UNCHANGED <<clientVars, round, agent>>

Delegate ==
    /\ phase = "delegate"
    /\ Attempt([op |-> "delegateCampaign", c |-> DemoCampaign])
    /\ phase' = "delegating"
    /\ UNCHANGED <<round, agent, evidence>>

\* The script goes on whether or not the delegation succeeded.
DelegateReturns ==
    /\ phase = "delegating"
    /\ Awaited(Payer)
    /\ phase' = "scoring"
    /\ evidence' = [evidence EXCEPT !.delegated = GotReceipt(Payer)]
    /\ UNCHANGED <<clientVars, round, agent>>

-----------------------------------------------------------------------------
(* Phase B: each validator on its own, in parallel *)

MemoConfirmed(v) ==
    /\ phase = "scoring"
    /\ agent[v] = "memo"
    /\ Send(v, [op |-> "submitValidatorScoreEr", c |-> DemoCampaign,
                scoreBps |-> evidence.score])
    /\ agent' = [agent EXCEPT ![v] = "account"]
    /\ UNCHANGED <<round, phase, evidence>>

MemoFails(v) ==
    /\ phase = "scoring"
    /\ agent[v] = "memo"
    /\ agent' = [agent EXCEPT ![v] = "failed"]
    /\ UNCHANGED <<clientVars, round, phase, evidence>>

\* Mutant: an error of the score account is ignored as that of the mirror is.
ScoreReturnsAnyway(v) ==
    /\ agent[v] = "account"
    /\ Awaited(v)
    /\ agent' = [agent EXCEPT ![v] = "mirror"]
    /\ UNCHANGED <<clientVars, round, phase, evidence>>

ScoreReturns(v) ==
    /\ agent[v] = "account"
    /\ Awaited(v)
    /\ agent' = [agent EXCEPT ![v] =
                     IF GotReceipt(v) THEN "mirror" ELSE "failed"]
    /\ UNCHANGED <<clientVars, round, phase, evidence>>

\* The same score sent to the ephemeral rollup; any error is ignored.
MirrorReturns(v) ==
    /\ agent[v] = "mirror"
    /\ agent' = [agent EXCEPT ![v] = "responded"]
    /\ UNCHANGED <<clientVars, round, phase, evidence>>

Votes == {v \in Validators : agent[v] = "responded"}

Collected ==
    /\ phase = "scoring"
    /\ \A v \in Validators : agent[v] \in {"responded", "failed"}

TooFewVotes ==
    /\ Collected
    /\ Cardinality(Votes) < MinValidators
    /\ phase' = "exit"
    /\ UNCHANGED <<clientVars, round, agent, evidence>>

Undelegate ==
    /\ Collected
    /\ Cardinality(Votes) >= MinValidators
    /\ Attempt([op |-> "undelegateCampaign", c |-> DemoCampaign])
    /\ phase' = "undelegating"
    /\ UNCHANGED <<round, agent, evidence>>

-----------------------------------------------------------------------------
(* Phase C: the orchestrator asks all the agents again *)

UndelegateReturns ==
    /\ phase = "undelegating"
    /\ Awaited(Payer)
    /\ phase' = "prepare"
    /\ evidence' = [evidence EXCEPT !.undelegated = GotReceipt(Payer)]
    /\ UNCHANGED <<clientVars, round, agent>>

\* The campaign is read and the token accounts are there or are created.
Prepared ==
    /\ phase = "prepare"
    /\ phase' = "consensus"
    /\ round' = [round EXCEPT ![DemoRound] =
                     NewRound(DemoCampaign, DemoThreshold, Validators)]
    /\ UNCHANGED <<clientVars, agent, evidence>>

\* An error of these requests is fatal, after all the votes.
PrepareFails ==
    /\ phase = "prepare"
    /\ phase' = "exit"
    /\ UNCHANGED <<clientVars, round, agent, evidence>>

RunConsensus ==
    /\ phase = "consensus"
    /\ \/ \E v \in Validators :
             Fulfil(DemoRound, v, evidence.score) \/ Fail(DemoRound, v)
       \/ Decide(DemoRound)
       \/ Return(DemoRound)
    /\ UNCHANGED <<phase, agent, evidence>>

\* An error of runConsensus ends the script, an outcome becomes evidence.
ConsensusReturns ==
    /\ phase = "consensus"
    /\ round[DemoRound].step = "done"
    /\ phase' = IF round[DemoRound].result = "threw" THEN "exit" ELSE "evidence"
    /\ UNCHANGED <<clientVars, round, agent, evidence>>

-----------------------------------------------------------------------------
(* The checks that the evidence bundle lists as passed *)

Checks ==
    (IF evidence.attested THEN {"attested_on_chain"} ELSE {})
    \cup (IF evidence.delegated THEN {"delegated_on_chain"} ELSE {})
    \cup (IF Cardinality(Votes) >= MinValidators
          THEN {"enough_responses"} ELSE {})
    \cup {"er_vote_mirrors"}
    \cup (IF evidence.undelegated THEN {"undelegated_on_chain"} ELSE {})
    \cup (IF round[DemoRound].result = "settled_success"
          THEN {"threshold_met", "settlement_on_chain"} ELSE {})

-----------------------------------------------------------------------------
(* Specification *)

Script ==
    \/ \E onChain \in BOOLEAN : ExecutorAttests(onChain)
    \/ Delegate \/ DelegateReturns
    \/ TooFewVotes \/ Undelegate \/ UndelegateReturns
    \/ Prepared \/ PrepareFails
    \/ RunConsensus \/ ConsensusReturns

AgentStep(v) ==
    MemoConfirmed(v) \/ MemoFails(v) \/ ScoreReturns(v) \/ MirrorReturns(v)

DemoNext ==
    \/ Foreign /\ UNCHANGED <<round, phase, agent, evidence>>
    \/ \E id \in CallIds :
          CallStep(id) /\ UNCHANGED <<round, phase, agent, evidence>>
    \/ \E v \in Validators : AgentStep(v)
    \/ Script

DemoSpec == DemoInit /\ [][DemoNext]_demoVars

\* Every awaited transaction is confirmed or its blockhash expires, and
\* web3.js returns for both; so every validator's promise settles too.
Returning(id) ==
    /\ id \in CallIds
    /\ Confirm(id) \/ ConfirmTimeout(id)
    /\ UNCHANGED <<round, phase, agent, evidence>>

\* Besides, the event loop runs what is ready.
FairDemoSpec ==
    /\ DemoSpec
    /\ WF_demoVars(Script)
    /\ \A v \in Validators : WF_demoVars(AgentStep(v))
    /\ \A id \in Clients \X (1 .. MaxCalls) : WF_demoVars(Returning(id))

-----------------------------------------------------------------------------
(* Properties *)

DemoTypeOK ==
    /\ phase \in Phases
    /\ agent \in [Validators -> AgentSteps]
    /\ evidence \in EvidenceRecord
    /\ RoundsTyped

\* What evidence.json says of the chain is there: a vote it lists is a score
\* account with that very score, and the checks it lists as passed have
\* passed: there are enough such accounts, and a settlement has happened.
\* Also when an earlier run or the validators themselves had voted before,
\* and whoever settles first.
EvidenceIsOnChain ==
    phase = "evidence" =>
        /\ \A v \in Votes : score[DemoCampaign][v] = evidence.score
        /\ "enough_responses" \in Checks =>
              Cardinality({v \in Agents :
                  score[DemoCampaign][v] = evidence.score}) >= MinValidators
        /\ "settlement_on_chain" \in Checks => Settled(DemoCampaign)

\* The script ends, whatever fails and whoever else uses the campaign.
DemoEnds == <>(phase \in {"evidence", "exit"})

-----------------------------------------------------------------------------
(* What the documentation says and the script does not do *)

\* PLAN.md: "Fans out to N validator agents in parallel via
\* `Promise.allSettled`; partial validator failure tolerated (configurable
\* `minValidators`)."  Here: when enough validators responded and their
\* scores can be settled with, the orchestrator's settlement is not refused.
SettlementRefused ==
    /\ round[DemoRound].step = "settling"
    /\ ACall(TriggerId(DemoRound)).tx = "none"

PartialFailureTolerated ==
    phase = "consensus" /\ SettlementRefused => ~ MaySettle(DemoCampaign, Votes)

=============================================================================
