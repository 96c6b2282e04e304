----------------------------- MODULE Consensus -----------------------------
(***************************************************************************)
(* The consensus orchestrator, agents/consensus, with the settlement       *)
(* trigger of the SDK that connects it to the program.                     *)
(*                                                                         *)
(* runConsensus asks every validator agent at once, waits until each has   *)
(* answered or failed, averages the scores it was told, and triggers       *)
(* settle_success with the score accounts of those that answered.  Whether *)
(* these accounts exist is not its concern: a validator agent's own        *)
(* submission client writes a memo, which the program never reads.         *)
(* checkAndSettleTimeout compares the local clock with the deadline and    *)
(* triggers the refund.  Several rounds may run against one campaign.      *)
(***************************************************************************)
EXTENDS PoeClient

CONSTANTS
    Rounds,         \* calls of runConsensus and checkAndSettleTimeout
    PayerOf,        \* the client behind each round's settlement trigger
    MinValidators,  \* minValidators of the orchestrator
    ClockSkew       \* how far the local clock and the chain's are apart

ASSUME RoundsAssumption ==
    /\ PayerOf \in [Rounds -> Clients]
    /\ MinValidators \in Nat
    /\ ClockSkew \in Nat

VARIABLE round      \* the state of each round

consensusVars == <<vars, call, view, round>>

-----------------------------------------------------------------------------
(* A round *)

NotStarted == [step |-> "idle"]

RoundRecord ==
    [step : {"scoring", "settling", "done"},
     c : Campaigns,
     threshold : Thresholds,
     pending : SUBSET Agents,
     scores : [Agents -> Scores \cup {NoScore}],
     trigger : 0 .. MaxCalls,
     result : {"none", "insufficient_responses", "below_threshold",
               "settled_success", "not_expired", "refund_triggered", "threw"}]

NewRound(c, threshold, asked) ==
    [step |-> "scoring", c |-> c, threshold |-> threshold, pending |-> asked,
     scores |-> [v \in Agents |-> NoScore], trigger |-> 0, result |-> "none"]

Finish(r, result) ==
    round' = [round EXCEPT ![r].step = "done", ![r].result = result]

\* The validators whose submission was fulfilled.
Successes(r) == {v \in Agents : round[r].scores[v] # NoScore}

Reported(r) == [v \in Successes(r) |-> round[r].scores[v]]

-----------------------------------------------------------------------------
(* runConsensus *)

StartRound(r, c, threshold, asked) ==
    /\ round[r] = NotStarted
    /\ asked # {}
    /\ round' = [round EXCEPT ![r] = NewRound(c, threshold, asked)]
    /\ UNCHANGED clientVars

Heard(record, v, scoreBps) ==
    [record EXCEPT !.pending = record.pending \ {v},
                   !.scores = [record.scores EXCEPT ![v] = scoreBps]]

\* A validator agent scores the proof and its submission is confirmed.
Fulfil(r, v, scoreBps) ==
    /\ round[r].step = "scoring"
    /\ v \in round[r].pending
    /\ round' = [round EXCEPT ![r] = Heard(round[r], v, scoreBps)]
    /\ UNCHANGED clientVars

\* Its proof does not normalize, or its submission fails.
Fail(r, v) ==
    /\ round[r].step = "scoring"
    /\ v \in round[r].pending
    /\ round' = [round EXCEPT ![r].pending = @ \ {v}]
    /\ UNCHANGED clientVars

AllSettled(r) == round[r].step = "scoring" /\ round[r].pending = {}

EnoughResponses(r) == Cardinality(Successes(r)) >= MinValidators

\* Mutant: the average is rounded up.
ThresholdReachedRoundedUp(r) ==
    (SumFunction(Reported(r)) + Cardinality(Successes(r)) - 1)
        \div Cardinality(Successes(r)) >= round[r].threshold

\* With minValidators = 0 and no success the average is NaN, which is not
\* below any threshold.
ThresholdReached(r) ==
    \/ Successes(r) = {}
    \/ AverageScoreBps(Reported(r)) >= round[r].threshold

TriggerThrough(r, request) ==
    /\ Send(PayerOf[r], request) \/ Reject(PayerOf[r], request)
    /\ round' = [round EXCEPT ![r].step = "settling",
                              ![r].trigger = Len(call[PayerOf[r]]) + 1]

InsufficientResponses(r) ==
    /\ AllSettled(r)
    /\ ~ EnoughResponses(r)
    /\ Finish(r, "insufficient_responses")
    /\ UNCHANGED clientVars

BelowThreshold(r) ==
    /\ AllSettled(r)
    /\ EnoughResponses(r)
    /\ ~ ThresholdReached(r)
    /\ Finish(r, "below_threshold")
    /\ UNCHANGED clientVars

TriggerSettleSuccess(r) ==
    /\ AllSettled(r)
    /\ EnoughResponses(r)
    /\ ThresholdReached(r)
    /\ TriggerThrough(r, [op |-> "triggerSettleSuccess", c |-> round[r].c,
                          used |-> Successes(r)])

-----------------------------------------------------------------------------
(* checkAndSettleTimeout, with the deadline of an existing campaign *)

Expired(deadlineUnix, nowUnix) == nowUnix > deadlineUnix

CheckTimeout(r, c, nowUnix) ==
    /\ round[r] = NotStarted
    /\ campaign[c] # NoCampaign
    /\ Expired(campaign[c].deadline_unix, nowUnix)
    /\ Send(PayerOf[r], [op |-> "triggerTimeoutRefund", c |-> c])
          \/ Reject(PayerOf[r], [op |-> "triggerTimeoutRefund", c |-> c])
    /\ round' = [round EXCEPT ![r] =
           [NewRound(c, campaign[c].threshold_bps, {}) EXCEPT
               !.step = "settling", !.trigger = Len(call[PayerOf[r]]) + 1]]

NotExpired(r, c, nowUnix) ==
    /\ round[r] = NotStarted
    /\ campaign[c] # NoCampaign
    /\ ~ Expired(campaign[c].deadline_unix, nowUnix)
    /\ round' = [round EXCEPT ![r] =
           [NewRound(c, campaign[c].threshold_bps, {}) EXCEPT
               !.step = "done", !.result = "not_expired"]]
    /\ UNCHANGED clientVars

-----------------------------------------------------------------------------
(* The trigger's call returns *)

TriggerId(r) == <<PayerOf[r], round[r].trigger>>

OutcomeOf(request) ==
    IF request.op = "triggerSettleSuccess" THEN "settled_success"
    ELSE "refund_triggered"

\* Mutants: the trigger is not awaited, and an error of it is lost.
ReturnUnawaited(r) ==
    /\ round[r].step = "settling"
    /\ Finish(r, OutcomeOf(ACall(TriggerId(r)).request))
    /\ UNCHANGED clientVars

ReturnReceiptOnly(r) ==
    /\ round[r].step = "settling"
    /\ ACall(TriggerId(r)).phase = "receipt"
    /\ Finish(r, OutcomeOf(ACall(TriggerId(r)).request))
    /\ UNCHANGED clientVars

Return(r) ==
    /\ round[r].step = "settling"
    /\ ACall(TriggerId(r)).phase # "confirming"
    /\ Finish(r, IF ACall(TriggerId(r)).phase = "threw" THEN "threw"
                 ELSE OutcomeOf(ACall(TriggerId(r)).request))
    /\ UNCHANGED clientVars

-----------------------------------------------------------------------------
(* Specification *)

ConsensusInit == ClientInit /\ round = [r \in Rounds |-> NotStarted]

Answered(r, v) == Fail(r, v) \/ \E scoreBps \in Scores : Fulfil(r, v, scoreBps)

Decide(r) ==
    InsufficientResponses(r) \/ BelowThreshold(r) \/ TriggerSettleSuccess(r)

LocalTimes == {t \in 0 .. MaxTime + ClockSkew :
                  now - t <= ClockSkew /\ t - now <= ClockSkew}

RoundStep(r) ==
    \/ \E c \in Campaigns, threshold \in Thresholds, asked \in SUBSET Agents :
          StartRound(r, c, threshold, asked)
    \/ \E v \in Agents : Answered(r, v)
    \/ Decide(r)
    \/ \E c \in Campaigns, nowUnix \in LocalTimes :
          CheckTimeout(r, c, nowUnix) \/ NotExpired(r, c, nowUnix)
    \/ Return(r)

ConsensusNext ==
    \/ Foreign /\ UNCHANGED round
    \/ \E id \in CallIds : CallStep(id) /\ UNCHANGED round
    \/ \E r \in Rounds : RoundStep(r)

ConsensusSpec == ConsensusInit /\ [][ConsensusNext]_consensusVars

-----------------------------------------------------------------------------
(* Properties *)

RoundsTyped == round \in [Rounds -> RoundRecord \cup {NotStarted}]

\* When the orchestrator reports a settlement or a refund, the campaign is
\* settled on chain, although the orchestrator never reads the chain, its
\* scores are what the agents told it, and its clock is its own.
OutcomeMeansSettled ==
    \A r \in Rounds :
        round[r] # NotStarted
                /\ round[r].result \in {"settled_success", "refund_triggered"}
            => Settled(round[r].c)

\* However many rounds and clients push, one settlement lands per campaign.
OneSettlementPerCampaign ==
    \A id, id2 \in CallIds :
        /\ id # id2
        /\ SettleCall(id) /\ SettleCall(id2)
        /\ ACall(id).request.c = ACall(id2).request.c
        => ~ (ACall(id).tx = "ok" /\ ACall(id2).tx = "ok")

\* "This mirrors the on-chain settle_success averaging logic" and its
\* timeout check: given the scores and the threshold that are on chain, and
\* the chain's time (ClockSkew = 0), the orchestrator triggers what the
\* program would grant, and nothing else.
KnowsTheChain(r) ==
    /\ campaign[round[r].c] # NoCampaign
    /\ round[r].threshold = campaign[round[r].c].threshold_bps
    /\ \A v \in Successes(r) : score[round[r].c][v] = round[r].scores[v]

MirrorsProgram(r) ==
    /\ round[r] # NotStarted /\ AllSettled(r) /\ KnowsTheChain(r)
            /\ round'[r] # round[r] =>
          (round'[r].step = "settling" <=>
              EnoughResponses(r) /\ ThresholdMet(round[r].c, Successes(r)))
    /\ round[r] = NotStarted /\ round'[r] # NotStarted
            /\ round'[r].step # "scoring" =>
          (round'[r].step = "settling" <=>
              now > campaign[round'[r].c].deadline_unix)

DecisionsMirrorProgram == [][\A r \in Rounds : MirrorsProgram(r)]_consensusVars

=============================================================================
