-------------------------- MODULE ConsensusProofs --------------------------
(***************************************************************************)
(* Theorems about the consensus orchestrator on top of the SDK client and  *)
(* the program, for every set of rounds, payers, agents and clocks.        *)
(***************************************************************************)
EXTENDS Consensus, PoeClientProofs, FiniteSetTheorems

-----------------------------------------------------------------------------
(* The orchestrator's invariant *)

\* A round that settles has a trigger: one of its payer's calls, and a
\* settlement or a refund of the round's own campaign.
TriggerMatches(r) ==
    /\ round[r].step = "settling" => round[r].trigger # 0
    /\ round[r].trigger # 0 =>
          /\ TriggerId(r) \in CallIds
          /\ SettleCall(TriggerId(r))
          /\ ACall(TriggerId(r)).request.c = round[r].c

OutcomeIsTrue(r) ==
    round[r].result \in {"settled_success", "refund_triggered"} =>
        Settled(round[r].c)

\* A round that still waits for its validators has decided nothing.
Undecided(r) == round[r].trigger = 0 /\ round[r].result = "none"

SafeRound(r) ==
    round[r] # NotStarted =>
        /\ TriggerMatches(r)
        /\ OutcomeIsTrue(r)
        /\ round[r].step = "scoring" => Undecided(r)

ConsensusInv ==
    /\ ClientInv
    /\ RoundsTyped
    /\ \A r \in Rounds : SafeRound(r)

-----------------------------------------------------------------------------
(* Every step of the orchestrator is a step of its clients *)

LEMMA TriggerRequests ==
    ASSUME NEW a \in Agents, NEW c \in Campaigns, NEW used \in SUBSET Agents
    PROVE  /\ [op |-> "triggerSettleSuccess", c |-> c, used |-> used]
                 \in Requests(a)
           /\ [op |-> "triggerTimeoutRefund", c |-> c] \in Requests(a)
BY DEF Requests, SettleSuccessCalls, TimeoutRefundCalls

LEMMA RoundFacts ==
    ASSUME RoundsTyped, NEW r \in Rounds
    PROVE  /\ PayerOf[r] \in Clients /\ PayerOf[r] \in Agents
           /\ round[r] # NotStarted => round[r] \in RoundRecord
           /\ round[r].step # "idle" => round[r] # NotStarted
           /\ Successes(r) \subseteq Agents
BY RoundsAssumption, ClientAssumption DEF RoundsTyped, NotStarted, Successes

LEMMA RoundStepIsClientStep ==
    ASSUME RoundsTyped, NEW r \in Rounds, RoundStep(r)
    PROVE  [ClientNext]_clientVars
<1>1. CASE TriggerSettleSuccess(r)
  <2>1. round[r] \in RoundRecord
    BY <1>1, RoundFacts DEF TriggerSettleSuccess, AllSettled
  <2>2. PICK request \in Requests(PayerOf[r]) :
           Send(PayerOf[r], request) \/ Reject(PayerOf[r], request)
    BY <1>1, <2>1, RoundFacts, TriggerRequests
    DEF TriggerSettleSuccess, TriggerThrough, RoundRecord
  <2>. QED
    BY <2>2, RoundFacts DEF ClientNext
<1>2. ASSUME NEW c \in Campaigns, NEW nowUnix \in LocalTimes,
             CheckTimeout(r, c, nowUnix)
      PROVE  ClientNext
  <2>1. PICK request \in Requests(PayerOf[r]) :
           Send(PayerOf[r], request) \/ Reject(PayerOf[r], request)
    BY <1>2, RoundFacts, TriggerRequests DEF CheckTimeout
  <2>. QED
    BY <2>1, RoundFacts DEF ClientNext
<1>. QED
  BY <1>1, <1>2
  DEF RoundStep, StartRound, Answered, Fulfil, Fail, Decide,
      InsufficientResponses, BelowThreshold, NotExpired, Return

LEMMA ConsensusStepIsClientStep ==
    ASSUME RoundsTyped, [ConsensusNext]_consensusVars
    PROVE  [ClientNext]_clientVars
BY RoundStepIsClientStep DEF ConsensusNext, ClientNext, consensusVars, clientVars

-----------------------------------------------------------------------------
(* No step of the clients changes what a call asked for *)

CallsKept ==
    \A id \in CallIds :
        id \in CallIds' /\ ACall(id)'.request = ACall(id).request

LEMMA ClientStepKeepsCalls ==
    ASSUME CallsTyped, [ClientNext]_clientVars PROVE CallsKept
<1>1. CASE UNCHANGED call
  BY <1>1 DEF CallsKept, CallIds, ACall
<1>2. ASSUME NEW a \in Clients, NEW request \in Requests(a),
             Send(a, request) \/ Reject(a, request)
      PROVE  CallsKept
  BY <1>2, CallAppend DEF Send, Reject, CallsKept
<1>3. ASSUME NEW id \in CallIds, CallStep(id) PROVE CallsKept
  <2>1. PICK a \in Clients : ACall(id) \in CallRecord(a)
    BY CallFacts
  <2>2. /\ CallIds' = CallIds
        /\ ACall(id)'.request = ACall(id).request
        /\ \A other \in CallIds \ {id} : ACall(other)' = ACall(other)
    <3>1. CASE Land(id) \/ LandFailed(id) \/ Drop(id)
      BY <2>1, <3>1, TxUpdate DEF Land, LandFailed, Drop, CallRecord
    <3>2. CASE Confirm(id) \/ ConfirmTimeout(id)
      BY <2>1, <3>2, PhaseUpdate DEF Confirm, ConfirmTimeout, Answer, CallRecord
    <3>. QED
      BY <1>3, <3>1, <3>2 DEF CallStep
  <2>. QED
    BY <2>2 DEF CallsKept
<1>. QED
  BY <1>1, <1>2, <1>3
  DEF ClientNext, clientVars, Foreign, ReaderStep, ReadCampaign,
      ReadValidatorSet, ReadScore

-----------------------------------------------------------------------------
(* Preservation *)

\* A round that the step leaves alone stays safe.
LEMMA OtherRoundStep ==
    ASSUME ClientInv, RoundsTyped, [ClientNext]_clientVars,
           NEW r \in Rounds, SafeRound(r), round'[r] = round[r]
    PROVE  SafeRound(r)'
<1>. SUFFICES ASSUME round[r] # NotStarted
              PROVE  TriggerMatches(r)' /\ OutcomeIsTrue(r)'
  BY DEF SafeRound, Undecided
<1>1. round[r] \in RoundRecord
  BY RoundFacts
<1>2. TriggerMatches(r) /\ OutcomeIsTrue(r)
  BY DEF SafeRound
<1>3. OutcomeIsTrue(r)'
  <2>1. PICK c \in Campaigns : c = round[r].c
    BY <1>1 DEF RoundRecord
  <2>2. Settled(c) => Settled(c)'
    BY ClientStepIsProgramStep, SettlementStays DEF ClientInv
  <2>. QED
    BY <1>2, <2>1, <2>2 DEF OutcomeIsTrue
<1>4. TriggerMatches(r)'
  <2>1. PICK id : id = TriggerId(r)
    OBVIOUS
  <2>2. TriggerId(r)' = id
    BY <2>1 DEF TriggerId
  <2>3. ASSUME round[r].trigger # 0
        PROVE  /\ id \in CallIds'
               /\ SettleCall(id)'
               /\ ACall(id)'.request.c = round[r].c
    <3>1. id \in CallIds /\ SettleCall(id) /\ ACall(id).request.c = round[r].c
      BY <1>2, <2>1, <2>3 DEF TriggerMatches
    <3>2. id \in CallIds' /\ ACall(id)'.request = ACall(id).request
      BY <3>1, ClientStepKeepsCalls DEF ClientInv, CallsKept
    <3>. QED
      BY <3>1, <3>2 DEF SettleCall
  <2>. QED
    BY <1>2, <2>2, <2>3 DEF TriggerMatches
<1>. QED
  BY <1>3, <1>4

LEMMA RoundUpdate ==
    ASSUME RoundsTyped, NEW r \in Rounds, NEW x \in RoundRecord,
           round' = [round EXCEPT ![r] = x]
    PROVE  /\ RoundsTyped'
           /\ round'[r] = x
           /\ \A other \in Rounds \ {r} : round'[other] = round[other]
BY DEF RoundsTyped, RoundRecord

\* The round in which the trigger is called.
LEMMA TriggerStarted ==
    ASSUME ClientInv, RoundsTyped, NEW r \in Rounds, NEW x \in RoundRecord,
           x.trigger = 0, x.result = "none",
           NEW request \in Requests(PayerOf[r]),
           request.c = x.c,
           request.op \in {"triggerSettleSuccess", "triggerTimeoutRefund"},
           Send(PayerOf[r], request) \/ Reject(PayerOf[r], request),
           round' = [round EXCEPT ![r] =
                        [x EXCEPT !.step = "settling",
                                  !.trigger = Len(call[PayerOf[r]]) + 1]]
    PROVE  /\ RoundsTyped'
           /\ SafeRound(r)'
           /\ \A other \in Rounds \ {r} : round'[other] = round[other]
<1>. DEFINE a == PayerOf[r]
            k == Len(call[a]) + 1
            y == [x EXCEPT !.step = "settling", !.trigger = k]
<1>1. a \in Clients
  BY RoundFacts
<1>2. PICK tx \in {"none", "inflight"}, phase \in {"confirming", "threw"} :
         Start(a, request, tx, phase)
  BY DEF Send, Reject
<1>3. k \in 1 .. MaxCalls
  <2>1. Len(call[a]) \in Nat
    BY <1>1 DEF ClientInv, CallsTyped
  <2>2. Len(call[a]) < MaxCalls
    BY <1>2 DEF Start
  <2>. QED
    BY <2>1, <2>2, ClientAssumption
<1>4. y \in RoundRecord
  <2>1. k \in 0 .. MaxCalls
    BY <1>3, ClientAssumption
  <2>. HIDE DEF k
  <2>. QED
    BY <2>1 DEF RoundRecord
<1>5. /\ y.step = "settling" /\ y.trigger = k
      /\ y.c = x.c /\ y.result = "none"
  BY DEF RoundRecord
<1>6. PICK id \in CallIds' :
         /\ id = <<a, k>>
         /\ ACall(id)' = [request |-> request, tx |-> tx, phase |-> phase]
  BY <1>1, <1>2, CallAppend DEF ClientInv
<1>. HIDE DEF y
<1>7. /\ RoundsTyped'
      /\ round'[r] = y
      /\ \A other \in Rounds \ {r} : round'[other] = round[other]
  BY <1>4, RoundUpdate DEF y
<1>8. TriggerId(r)' = id
  BY <1>5, <1>6, <1>7 DEF TriggerId
<1>9. ACall(id)'.request = request
  BY <1>6
<1>10. TriggerMatches(r)'
  BY <1>3, <1>5, <1>6, <1>7, <1>8, <1>9 DEF TriggerMatches, SettleCall
<1>11. OutcomeIsTrue(r)'
  BY <1>5, <1>7 DEF OutcomeIsTrue
<1>. QED
  BY <1>5, <1>7, <1>10, <1>11 DEF SafeRound

\* The round in which the trigger returns.
LEMMA ReturnSafe ==
    ASSUME ConsensusInv, NEW r \in Rounds, Return(r)
    PROVE  /\ RoundsTyped'
           /\ SafeRound(r)'
           /\ \A other \in Rounds \ {r} : round'[other] = round[other]
<1>1. round[r] # NotStarted /\ round[r] \in RoundRecord
  BY RoundFacts DEF Return, ConsensusInv
<1>2. PICK id : id = TriggerId(r)
  OBVIOUS
<1>3. /\ id \in CallIds
      /\ SettleCall(id)
      /\ ACall(id).request.c = round[r].c
  BY <1>1, <1>2 DEF ConsensusInv, SafeRound, TriggerMatches, Return
<1>4. PICK result \in {"settled_success", "refund_triggered", "threw"} :
         /\ Finish(r, result)
         /\ result # "threw" => ACall(id).phase = "receipt"
  <2>1. PICK a \in Clients : ACall(id) \in CallRecord(a)
    BY <1>3, CallFacts DEF ConsensusInv, ClientInv
  <2>2. ACall(id).phase \in {"confirming", "receipt", "threw"}
    BY <2>1 DEF CallRecord
  <2>. QED
    BY <1>2, <2>2 DEF Return, OutcomeOf
<1>5. result # "threw" => Settled(round[r].c)
  BY <1>3, <1>4 DEF ConsensusInv, ClientInv, SettlementInFlight, SafeCall
<1>. DEFINE x == [round[r] EXCEPT !.step = "done", !.result = result]
<1>6. x \in RoundRecord
  BY <1>1 DEF RoundRecord
<1>7. /\ x.step = "done" /\ x.result = result
      /\ x.c = round[r].c /\ x.trigger = round[r].trigger
  BY <1>1 DEF RoundRecord
<1>8. round' = [round EXCEPT ![r] = x]
  BY <1>4 DEF Finish
<1>. HIDE DEF x
<1>9. /\ RoundsTyped'
      /\ round'[r] = x
      /\ \A other \in Rounds \ {r} : round'[other] = round[other]
  BY <1>6, <1>8, RoundUpdate DEF ConsensusInv
<1>10. UNCHANGED clientVars
  BY DEF Return
<1>11. TriggerId(r)' = id
  BY <1>2, <1>7, <1>9 DEF TriggerId
<1>12. TriggerMatches(r)'
  <2>1. /\ id \in CallIds' /\ SettleCall(id)'
        /\ ACall(id)'.request.c = round[r].c
    BY <1>3, <1>10 DEF clientVars, CallIds, ACall, SettleCall
  <2>. QED
    BY <1>7, <1>9, <1>11, <2>1 DEF TriggerMatches
<1>13. OutcomeIsTrue(r)'
  <2>1. PICK c : c = round[r].c
    OBVIOUS
  <2>2. Settled(c)' = Settled(c)
    BY <1>10 DEF clientVars, vars, Settled
  <2>. QED
    BY <1>5, <1>7, <1>9, <2>1, <2>2 DEF OutcomeIsTrue
<1>. QED
  BY <1>7, <1>9, <1>12, <1>13 DEF SafeRound

LEMMA ConsensusInvInit == ConsensusInit => ConsensusInv
<1>. SUFFICES ASSUME ConsensusInit PROVE ConsensusInv
  OBVIOUS
<1>1. ClientInv
  BY ClientInvInit DEF ConsensusInit
<1>2. RoundsTyped /\ \A r \in Rounds : SafeRound(r)
  BY DEF ConsensusInit, RoundsTyped, SafeRound
<1>. QED
  BY <1>1, <1>2 DEF ConsensusInv

LEMMA ConsensusInvStep ==
    ConsensusInv /\ [ConsensusNext]_consensusVars => ConsensusInv'
<1>. SUFFICES ASSUME ConsensusInv, [ConsensusNext]_consensusVars
              PROVE  ConsensusInv'
  OBVIOUS
<1>1. [ClientNext]_clientVars
  BY ConsensusStepIsClientStep DEF ConsensusInv
<1>2. ClientInv'
  BY <1>1, ClientInvStep DEF ConsensusInv
<1>3. CASE UNCHANGED round
  <2>1. RoundsTyped'
    BY <1>3 DEF ConsensusInv, RoundsTyped, RoundRecord
  <2>2. ASSUME NEW r \in Rounds PROVE SafeRound(r)'
    BY <1>1, <1>3, OtherRoundStep DEF ConsensusInv
  <2>. QED
    BY <1>2, <2>1, <2>2 DEF ConsensusInv
\* It suffices that the round which moves stays typed and safe.
<1>4. ASSUME NEW r \in Rounds,
             RoundsTyped',
             SafeRound(r)',
             \A other \in Rounds \ {r} : round'[other] = round[other]
      PROVE  ConsensusInv'
  <2>1. ASSUME NEW other \in Rounds \ {r} PROVE SafeRound(other)'
    BY <1>1, <1>4, <2>1, OtherRoundStep DEF ConsensusInv
  <2>. QED
    BY <1>2, <1>4, <2>1 DEF ConsensusInv
\* Apart from the trigger's call and its return, a round without a trigger
\* stays without, and reports no outcome.
<1>5. ASSUME NEW r \in Rounds, NEW x \in RoundRecord,
             round' = [round EXCEPT ![r] = x],
             x.step # "settling", x.trigger = 0,
             x.step = "scoring" => x.result = "none",
             x.result \notin {"settled_success", "refund_triggered"}
      PROVE  ConsensusInv'
  <2>1. /\ RoundsTyped'
        /\ round'[r] = x
        /\ \A other \in Rounds \ {r} : round'[other] = round[other]
    BY <1>5, RoundUpdate DEF ConsensusInv
  <2>2. SafeRound(r)'
    BY <1>5, <2>1 DEF SafeRound, TriggerMatches, OutcomeIsTrue, Undecided
  <2>. QED
    BY <1>4, <2>1, <2>2
<1>6. ASSUME NEW r \in Rounds, RoundStep(r) PROVE ConsensusInv'
  <2>1. ASSUME NEW c \in Campaigns, NEW threshold \in Thresholds,
               NEW asked \in SUBSET Agents
        PROVE  NewRound(c, threshold, asked) \in RoundRecord
    BY ClientAssumption DEF NewRound, RoundRecord
  <2>2. CASE \E c \in Campaigns, threshold \in Thresholds,
                asked \in SUBSET Agents : StartRound(r, c, threshold, asked)
    BY <1>5, <2>1, <2>2 DEF StartRound, NewRound
  <2>3. ASSUME round[r].step = "scoring"
        PROVE  round[r] \in RoundRecord /\ Undecided(r)
    BY <2>3, RoundFacts DEF ConsensusInv, SafeRound
  <2>4. ASSUME NEW v \in Agents, Answered(r, v) PROVE ConsensusInv'
    <3>. DEFINE old == round[r]
    <3>1. PICK n \in Scores \cup {NoScore} :
             round' = [round EXCEPT ![r] = Heard(old, v, n)]
      <4>1. old.step = "scoring" /\ old \in RoundRecord
        BY <2>3, <2>4 DEF Answered, Fulfil, Fail
      <4>2. CASE Fail(r, v)
        <5>1. [old.scores EXCEPT ![v] = old.scores[v]] = old.scores
          BY <4>1 DEF RoundRecord
        <5>2. old.scores[v] \in Scores \cup {NoScore}
          BY <4>1 DEF RoundRecord
        <5>3. Heard(old, v, old.scores[v]) = [old EXCEPT !.pending = @ \ {v}]
          BY <4>1, <5>1 DEF RoundRecord, Heard
        <5>4. round' = [round EXCEPT ![r] = [old EXCEPT !.pending = @ \ {v}]]
          BY <4>2 DEF Fail
        <5>. QED
          BY <5>2, <5>3, <5>4
      <4>3. CASE \E n \in Scores : Fulfil(r, v, n)
        BY <4>3 DEF Fulfil
      <4>. QED
        BY <2>4, <4>2, <4>3 DEF Answered
    <3>. DEFINE x == Heard(old, v, n)
    <3>2. old.step = "scoring" /\ old \in RoundRecord /\ Undecided(r)
      BY <2>3, <2>4 DEF Answered, Fulfil, Fail
    <3>3. [old.scores EXCEPT ![v] = n] \in [Agents -> Scores \cup {NoScore}]
      BY <3>2 DEF RoundRecord
    <3>4. old.pending \ {v} \in SUBSET Agents
      BY <3>2 DEF RoundRecord
    <3>5. x \in RoundRecord
      BY <3>2, <3>3, <3>4 DEF RoundRecord, Heard
    <3>6. x.step = "scoring" /\ x.trigger = 0 /\ x.result = "none"
      BY <3>2 DEF RoundRecord, Undecided, Heard
    <3>. HIDE DEF x
    <3>. QED
      BY <1>5, <3>1, <3>5, <3>6 DEF x
  <2>5. ASSUME NEW result \in {"insufficient_responses", "below_threshold"},
               round[r].step = "scoring", Finish(r, result)
        PROVE  ConsensusInv'
    <3>. DEFINE x == [round[r] EXCEPT !.step = "done", !.result = result]
    <3>1. round[r] \in RoundRecord /\ Undecided(r)
      BY <2>3, <2>5
    <3>2. x \in RoundRecord
      BY <3>1 DEF RoundRecord
    <3>3. x.step = "done" /\ x.trigger = 0 /\ x.result = result
      BY <3>1 DEF RoundRecord, Undecided
    <3>4. round' = [round EXCEPT ![r] = x]
      BY <2>5 DEF Finish
    <3>. HIDE DEF x
    <3>. QED
      BY <1>5, <3>2, <3>3, <3>4
  <2>6. CASE TriggerSettleSuccess(r)
    <3>. DEFINE request == [op |-> "triggerSettleSuccess", c |-> round[r].c,
                            used |-> Successes(r)]
    <3>1. round[r] \in RoundRecord /\ Undecided(r)
      BY <2>3, <2>6 DEF TriggerSettleSuccess, AllSettled
    <3>2. request \in Requests(PayerOf[r]) /\ request.c = round[r].c
      BY <3>1, RoundFacts, TriggerRequests DEF ConsensusInv, RoundRecord
    <3>3. request.op = "triggerSettleSuccess"
      OBVIOUS
    <3>4. TriggerThrough(r, request)
      BY <2>6 DEF TriggerSettleSuccess
    <3>5. round' = [round EXCEPT ![r] =
                       [round[r] EXCEPT !.step = "settling",
                                        !.trigger = Len(call[PayerOf[r]]) + 1]]
      BY <3>4 DEF TriggerThrough
    <3>. HIDE DEF request
    <3>. QED
      BY <1>4, <3>1, <3>2, <3>3, <3>4, <3>5, TriggerStarted
      DEF ConsensusInv, TriggerThrough, Undecided
  <2>7. ASSUME NEW c \in Campaigns, NEW nowUnix \in LocalTimes,
               CheckTimeout(r, c, nowUnix) \/ NotExpired(r, c, nowUnix)
        PROVE  ConsensusInv'
    <3>. DEFINE x == NewRound(c, campaign[c].threshold_bps, {})
                request == [op |-> "triggerTimeoutRefund", c |-> c]
    <3>1. campaign[c].threshold_bps \in Thresholds
      BY <2>7, AccountFacts
      DEF CheckTimeout, NotExpired, ConsensusInv, ClientInv, TypeOK,
          CampaignAccount
    <3>2. x \in RoundRecord
      BY <2>1, <3>1
    <3>3. x.trigger = 0 /\ x.result = "none" /\ x.c = c
      BY DEF NewRound
    <3>4. request \in Requests(PayerOf[r])
      BY RoundFacts, TriggerRequests DEF ConsensusInv
    <3>5. request.c = c /\ request.op = "triggerTimeoutRefund"
      OBVIOUS
    <3>6. CASE CheckTimeout(r, c, nowUnix)
      <4>1. /\ Send(PayerOf[r], request) \/ Reject(PayerOf[r], request)
            /\ round' = [round EXCEPT ![r] =
                   [x EXCEPT !.step = "settling",
                             !.trigger = Len(call[PayerOf[r]]) + 1]]
        BY <3>6 DEF CheckTimeout
      <4>. HIDE DEF x, request
      <4>. QED
        BY <1>4, <3>2, <3>3, <3>4, <3>5, <4>1, TriggerStarted
        DEF ConsensusInv
    <3>7. CASE NotExpired(r, c, nowUnix)
      <4>. DEFINE y == [x EXCEPT !.step = "done", !.result = "not_expired"]
      <4>1. y \in RoundRecord
        <5>. HIDE DEF x
        <5>. QED
          BY <3>2 DEF RoundRecord
      <4>2. y.step = "done" /\ y.trigger = 0 /\ y.result = "not_expired"
        BY DEF NewRound
      <4>3. round' = [round EXCEPT ![r] = y]
        BY <3>7 DEF NotExpired
      <4>. HIDE DEF y
      <4>. QED
        BY <1>5, <4>1, <4>2, <4>3
    <3>. QED
      BY <2>7, <3>6, <3>7
  <2>8. CASE Return(r)
    BY <1>4, <2>8, ReturnSafe
  <2>. QED
    BY <1>6, <2>2, <2>4, <2>5, <2>6, <2>7, <2>8
    DEF RoundStep, Decide, InsufficientResponses, BelowThreshold, AllSettled
<1>. QED
  BY <1>3, <1>6 DEF ConsensusNext, consensusVars

THEOREM ConsensusInvariant == ConsensusSpec => []ConsensusInv
<1>. QED
  BY ConsensusInvInit, ConsensusInvStep, PTL DEF ConsensusSpec

\* The orchestrator uses the program only through the SDK: whatever it does
\* is a behaviour of the SDK's clients, so their guarantees (a preflighted
\* settlement in flight stays possible until somebody settles, a receipt of
\* a settlement means the campaign is settled) hold under it as well.
THEOREM ConsensusIsClient == ConsensusSpec => ClientSpec
<1>1. ConsensusInit => ClientInit
  BY DEF ConsensusInit
<1>2. ConsensusInv /\ [ConsensusNext]_consensusVars => [ClientNext]_clientVars
  BY ConsensusStepIsClientStep DEF ConsensusInv
<1>. QED
  BY <1>1, <1>2, ConsensusInvariant, PTL DEF ConsensusSpec, ClientSpec

\* A reported settlement or refund is on chain, for any number of rounds,
\* clients and clocks, although the orchestrator never reads the chain.
THEOREM OutcomeMeansSettledHolds == ConsensusSpec => []OutcomeMeansSettled
<1>1. ConsensusInv => OutcomeMeansSettled
  BY DEF ConsensusInv, SafeRound, OutcomeIsTrue, OutcomeMeansSettled
<1>. QED
  BY <1>1, ConsensusInvariant, PTL

-----------------------------------------------------------------------------
(* One settlement per campaign *)

Landed(id) == SettleCall(id) /\ ACall(id).tx = "ok"

LEMMA LandingSettles ==
    ASSUME ClientInv, NEW id \in CallIds, Land(id), SettleCall(id)
    PROVE  ~ Settled(ACall(id).request.c)
BY DEF Land, Run, SettleCall, SettleSuccess, MaySettle, SettleTimeoutRefund,
       RefundAllowed, IsOpen, Settled

LEMMA OneSettlementStep ==
    ASSUME ClientInv, OneSettlementPerCampaign, [ClientNext]_clientVars
    PROVE  OneSettlementPerCampaign'
<1>1. \A id \in CallIds : Landed(id) => Settled(ACall(id).request.c)
  BY DEF ClientInv, SettlementInFlight, SafeCall, InBlock, Landed
<1>2. ASSUME NEW id \in CallIds, NEW other \in CallIds,
             Landed(id), Landed(other), id # other
      PROVE  ACall(id).request.c # ACall(other).request.c
  BY <1>2 DEF OneSettlementPerCampaign, Landed
<1>3. SUFFICES
        ASSUME NEW i \in CallIds', NEW j \in CallIds', i # j,
               Landed(i)', Landed(j)'
        PROVE  ACall(i)'.request.c # ACall(j)'.request.c
  BY DEF OneSettlementPerCampaign, Landed
<1>4. CASE UNCHANGED call
  <2>1. CallIds' = CallIds /\ \A id \in CallIds : ACall(id)' = ACall(id)
    BY <1>4 DEF CallIds, ACall
  <2>. QED
    BY <1>2, <1>3, <2>1 DEF Landed, SettleCall
<1>5. ASSUME NEW a \in Clients, NEW request \in Requests(a),
             Send(a, request) \/ Reject(a, request)
      PROVE  ACall(i)'.request.c # ACall(j)'.request.c
  <2>1. PICK tx \in {"none", "inflight"}, phase \in {"confirming", "threw"} :
           Start(a, request, tx, phase)
    BY <1>5 DEF Send, Reject
  <2>2. \A id \in CallIds' :
           \/ id \in CallIds /\ ACall(id)' = ACall(id)
           \/ ACall(id)' = [request |-> request, tx |-> tx, phase |-> phase]
    BY <2>1, CallAppend DEF ClientInv
  <2>3. /\ i \in CallIds /\ ACall(i)' = ACall(i)
        /\ j \in CallIds /\ ACall(j)' = ACall(j)
    BY <1>3, <2>2 DEF Landed
  <2>. QED
    BY <1>2, <1>3, <2>3 DEF Landed, SettleCall
<1>6. ASSUME NEW id \in CallIds, CallStep(id)
      PROVE  ACall(i)'.request.c # ACall(j)'.request.c
  <2>1. /\ CallIds' = CallIds
        /\ \A other \in CallIds \ {id} : ACall(other)' = ACall(other)
    BY <1>6, TxUpdate, PhaseUpdate
    DEF ClientInv, CallStep, Land, LandFailed, Drop, Confirm, ConfirmTimeout, Answer
  <2>2. /\ ACall(id)'.request = ACall(id).request
        /\ Landed(id)' => Landed(id) \/ Land(id)
    <3>1. PICK a \in Clients : ACall(id) \in CallRecord(a)
      BY CallFacts DEF ClientInv
    <3>2. CASE Land(id) \/ LandFailed(id) \/ Drop(id)
      BY <3>1, <3>2, TxUpdate
      DEF ClientInv, Land, LandFailed, Drop, CallRecord, Landed
    <3>3. CASE Confirm(id) \/ ConfirmTimeout(id)
      <4>1. ACall(id)'.request = ACall(id).request /\ ACall(id)'.tx = ACall(id).tx
        BY <3>1, <3>3, PhaseUpdate
        DEF ClientInv, Confirm, ConfirmTimeout, Answer, CallRecord
      <4>. QED
        BY <4>1 DEF Landed, SettleCall
    <3>. QED
      BY <1>6, <3>2, <3>3 DEF CallStep
  <2>3. ASSUME NEW k \in CallIds, Landed(k), Land(id), SettleCall(id)
        PROVE  ACall(k).request.c # ACall(id).request.c
    BY <1>1, <2>3, LandingSettles
  <2>4. ACall(i)'.request = ACall(i).request /\ ACall(j)'.request = ACall(j).request
    BY <2>1, <2>2
  <2>5. /\ Landed(i) \/ (i = id /\ Land(id) /\ SettleCall(id))
        /\ Landed(j) \/ (j = id /\ Land(id) /\ SettleCall(id))
    BY <1>3, <2>1, <2>2, <2>4 DEF Landed, SettleCall
  <2>. QED
    BY <1>2, <1>3, <2>1, <2>3, <2>4, <2>5
<1>. QED
  BY <1>4, <1>5, <1>6
  DEF ClientNext, clientVars, Foreign, ReaderStep, ReadCampaign,
      ReadValidatorSet, ReadScore

\* However many rounds, payers and retries push for a settlement or a
\* refund, at most one of their transactions is executed per campaign.
THEOREM OneSettlementOnly == ConsensusSpec => []OneSettlementPerCampaign
<1>1. ConsensusInit => OneSettlementPerCampaign
  <2>1. ConsensusInit => CallIds = {}
    BY DEF ConsensusInit, ClientInit, CallIds
  <2>. QED
    BY <2>1 DEF OneSettlementPerCampaign
<1>2. ConsensusInv /\ OneSettlementPerCampaign /\ [ConsensusNext]_consensusVars
         => OneSettlementPerCampaign'
  BY ConsensusStepIsClientStep, OneSettlementStep DEF ConsensusInv
<1>. QED
  BY <1>1, <1>2, ConsensusInvariant, PTL DEF ConsensusSpec

-----------------------------------------------------------------------------
(* The orchestrator decides as the program does *)

LEMMA AverageIsThePrograms ==
    ASSUME NEW r \in Rounds, KnowsTheChain(r), MinValidators > 0
    PROVE  EnoughResponses(r) =>
               (ThresholdReached(r) <=> ThresholdMet(round[r].c, Successes(r)))
<1>1. Reported(r) = ScoreInputs(round[r].c, Successes(r))
  BY DEF KnowsTheChain, Reported, ScoreInputs
<1>2. EnoughResponses(r) => Successes(r) # {}
  BY RoundsAssumption, FS_EmptySet DEF EnoughResponses
<1>. QED
  BY <1>1, <1>2 DEF ThresholdReached, ThresholdMet, KnowsTheChain

\* What a round's step leads to.
LEMMA SettlingIsTriggered ==
    ASSUME RoundsTyped, NEW r \in Rounds, RoundStep(r), AllSettled(r),
           round[r] # NotStarted
    PROVE  \/ ~ EnoughResponses(r) /\ round'[r].step = "done"
           \/ /\ EnoughResponses(r) /\ ~ ThresholdReached(r)
              /\ round'[r].step = "done"
           \/ /\ EnoughResponses(r) /\ ThresholdReached(r)
              /\ round'[r].step = "settling"
<1>1. round[r] \in RoundRecord
  BY RoundFacts
<1>2. ASSUME NEW result, Finish(r, result) PROVE round'[r].step = "done"
  <2>1. PICK record : record = [round[r] EXCEPT !.step = "done"]
    OBVIOUS
  <2>2. round'[r] = [record EXCEPT !.result = result]
    BY <1>2, <2>1 DEF Finish, RoundsTyped
  <2>3. record.step = "done" /\ DOMAIN record = DOMAIN round[r]
    BY <1>1, <2>1 DEF RoundRecord
  <2>. QED
    BY <1>1, <2>1, <2>2, <2>3 DEF RoundRecord
<1>3. CASE InsufficientResponses(r)
  BY <1>2, <1>3 DEF InsufficientResponses
<1>4. CASE BelowThreshold(r)
  BY <1>2, <1>4 DEF BelowThreshold
<1>5. CASE TriggerSettleSuccess(r)
  <2>1. PICK k : round' = [round EXCEPT ![r].step = "settling", ![r].trigger = k]
    BY <1>5 DEF TriggerSettleSuccess, TriggerThrough
  <2>2. PICK record : record = [round[r] EXCEPT !.step = "settling"]
    OBVIOUS
  <2>3. round'[r] = [record EXCEPT !.trigger = k]
    BY <2>1, <2>2 DEF RoundsTyped
  <2>4. record.step = "settling"
    BY <1>1, <2>2 DEF RoundRecord
  <2>5. round'[r].step = "settling"
    BY <1>1, <2>2, <2>3, <2>4 DEF RoundRecord
  <2>. QED
    BY <1>5, <2>5 DEF TriggerSettleSuccess
<1>6. ~ \E v \in Agents : Answered(r, v)
  BY <1>1 DEF Answered, Fail, Fulfil, AllSettled
<1>. QED
  BY <1>3, <1>4, <1>5, <1>6, RoundFacts
  DEF RoundStep, Decide, AllSettled, StartRound, CheckTimeout, NotExpired, Return

LEMMA TimeoutsAreTheChains ==
    ASSUME TypeOK, RoundsTyped, NEW r \in Rounds, RoundStep(r), ClockSkew = 0,
           round[r] = NotStarted, round'[r] # NotStarted,
           round'[r].step # "scoring"
    PROVE  round'[r].step = "settling" <=> now > campaign[round'[r].c].deadline_unix
<1>1. ASSUME NEW nowUnix \in LocalTimes PROVE nowUnix = now
  BY <1>1, ClockAssumption DEF LocalTimes, TypeOK
<1>2. ASSUME NEW c, NEW threshold, NEW step, NEW k,
             round' = [round EXCEPT ![r] = [NewRound(c, threshold, {}) EXCEPT
                          !.step = step, !.trigger = k]]
      PROVE  round'[r].step = step /\ round'[r].c = c
  BY <1>2 DEF NewRound, RoundsTyped
<1>3. ASSUME NEW c, NEW threshold, NEW step, NEW result,
             round' = [round EXCEPT ![r] = [NewRound(c, threshold, {}) EXCEPT
                          !.step = step, !.result = result]]
      PROVE  round'[r].step = step /\ round'[r].c = c
  BY <1>3 DEF NewRound, RoundsTyped
<1>4. ASSUME NEW c \in Campaigns, NEW nowUnix \in LocalTimes,
             CheckTimeout(r, c, nowUnix)
      PROVE  /\ round'[r].step = "settling" /\ round'[r].c = c
             /\ now > campaign[c].deadline_unix
  BY <1>1, <1>2, <1>4 DEF CheckTimeout, Expired
<1>5. ASSUME NEW c \in Campaigns, NEW nowUnix \in LocalTimes,
             NotExpired(r, c, nowUnix)
      PROVE  /\ round'[r].step = "done" /\ round'[r].c = c
             /\ ~ now > campaign[c].deadline_unix
  BY <1>1, <1>3, <1>5 DEF NotExpired, Expired
<1>6. ASSUME NEW c, NEW threshold, NEW asked, StartRound(r, c, threshold, asked)
      PROVE  round'[r].step = "scoring"
  BY <1>6 DEF StartRound, NewRound, RoundsTyped
<1>7. round[r].step = "idle"
  BY DEF NotStarted
<1>. QED
  BY <1>4, <1>5, <1>6, <1>7
  DEF RoundStep, Answered, Fail, Fulfil, Decide, InsufficientResponses,
      BelowThreshold, TriggerSettleSuccess, AllSettled, Return

\* A round is changed by its own steps only.
LEMMA OwnStep ==
    ASSUME RoundsTyped, ConsensusNext, NEW r \in Rounds, round'[r] # round[r]
    PROVE  RoundStep(r)
<1>1. PICK q \in Rounds : RoundStep(q)
  BY DEF ConsensusNext
<1>2. ASSUME q # r PROVE round'[r] = round[r]
  BY <1>1, <1>2
  DEF RoundStep, StartRound, Answered, Fail, Fulfil, Decide,
      InsufficientResponses, BelowThreshold, TriggerSettleSuccess, TriggerThrough,
      Finish, CheckTimeout, NotExpired, Return, RoundsTyped
<1>. QED
  BY <1>1, <1>2

\* Given what is on chain (and a clock that agrees, and at least one answer
\* to wait for) the orchestrator triggers what the program grants: for
\* runConsensus the average over the same scores, rounded the same way, for
\* checkAndSettleTimeout the same side of the deadline.
THEOREM DecisionsAreThePrograms ==
    ASSUME MinValidators > 0, ClockSkew = 0
    PROVE  ConsensusSpec => DecisionsMirrorProgram
<1>1. ASSUME TypeOK, RoundsTyped, ConsensusNext, NEW r \in Rounds
      PROVE  MirrorsProgram(r)
  <2>1. CASE round'[r] = round[r]
    BY <2>1 DEF MirrorsProgram
  <2>2. CASE round'[r] # round[r]
    <3>1. RoundStep(r)
      BY <1>1, <2>2, OwnStep
    <3>2. ASSUME round[r] # NotStarted, AllSettled(r), KnowsTheChain(r)
          PROVE  round'[r].step = "settling" <=>
                    EnoughResponses(r) /\ ThresholdMet(round[r].c, Successes(r))
      BY <1>1, <3>1, <3>2, SettlingIsTriggered, AverageIsThePrograms
    <3>3. ASSUME round[r] = NotStarted, round'[r] # NotStarted,
                 round'[r].step # "scoring"
          PROVE  round'[r].step = "settling" <=>
                    now > campaign[round'[r].c].deadline_unix
      BY <1>1, <3>1, <3>3, TimeoutsAreTheChains
    <3>. QED
      BY <3>2, <3>3 DEF MirrorsProgram
  <2>. QED
    BY <2>1, <2>2
<1>2. ConsensusInv /\ [ConsensusNext]_consensusVars
         => [\A r \in Rounds : MirrorsProgram(r)]_consensusVars
  BY <1>1 DEF ConsensusInv, ClientInv
<1>. QED
  BY <1>2, ConsensusInvariant, PTL DEF ConsensusSpec, DecisionsMirrorProgram

=============================================================================
