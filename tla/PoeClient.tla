----------------------------- MODULE PoeClient -----------------------------
(***************************************************************************)
(* The TypeScript SDK client, packages/sdk/src/client.ts, between its      *)
(* callers and the on-chain program.                                       *)
(*                                                                         *)
(* A method validates its arguments, sends one transaction (which the RPC  *)
(* node simulates first, unless the preflight is skipped), waits for the   *)
(* confirmation and returns a receipt.  Between the simulation and the     *)
(* landing the chain moves on: the transaction may fail, be dropped, or    *)
(* land after its caller has given up waiting.  Calls overlap, and anybody *)
(* else drives the program at the same time (Foreign).                     *)
(***************************************************************************)
EXTENDS ProofOfEngagement

CONSTANTS
    Clients,    \* the agents whose client is modelled
    MaxCalls,   \* bound on the calls of one client
    Readers     \* callers of queryCampaignStatus

ASSUME ClientAssumption == Clients \subseteq Agents /\ MaxCalls \in Nat

VARIABLES
    call,       \* the calls of each client, oldest first
    view        \* what each reader has fetched

clientVars == <<vars, call, view>>

-----------------------------------------------------------------------------
(* The calls: which transaction each method sends for its payer *)

CreateCampaignCalls(payer) ==
    [op : {"createCampaign"}, c : {c \in Campaigns : CreatorOf[c] = payer},
     args : CampaignArgs, executor : Keys]

CreateCampaignRfqCalls(payer) ==
    [op : {"createCampaignRfq"}, c : {c \in Campaigns : CreatorOf[c] = payer},
     args : CampaignArgs, rfqDeadline : Deadlines]

SubmitBidCalls ==
    [op : {"submitBid"}, c : Campaigns, id : BidIds, amount : Amounts]

WithdrawBidCalls == [op : {"withdrawBid"}, c : Campaigns, id : BidIds]

AcceptBidCalls(payer) ==
    [op : {"acceptBid"}, c : {c \in Campaigns : CreatorOf[c] = payer},
     bidder : Agents, id : BidIds]

ExpireRfqCalls == [op : {"expireRfq"}, c : Campaigns]

SubmitScoreCalls ==
    [op : {"submitValidatorScoreEr"}, c : Campaigns, scoreBps : Scores]

SettleSuccessCalls ==
    [op : {"triggerSettleSuccess"}, c : Campaigns, used : SUBSET Agents]

TimeoutRefundCalls == [op : {"triggerTimeoutRefund"}, c : Campaigns]

DelegateCalls(payer) ==
    [op : {"delegateCampaign"}, c : {c \in Campaigns : CreatorOf[c] = payer}]

UndelegateCalls(payer) ==
    [op : {"undelegateCampaign"}, c : {c \in Campaigns : CreatorOf[c] = payer}]

Requests(payer) ==
    CreateCampaignCalls(payer) \cup CreateCampaignRfqCalls(payer)
        \cup SubmitBidCalls \cup WithdrawBidCalls \cup AcceptBidCalls(payer)
        \cup ExpireRfqCalls \cup SubmitScoreCalls \cup SettleSuccessCalls
        \cup TimeoutRefundCalls \cup DelegateCalls(payer)
        \cup UndelegateCalls(payer)

\* What createCampaign and createCampaignRfq check before they send.
ValidRequest(request) ==
    /\ request.op \in {"createCampaign", "createCampaignRfq"} =>
          /\ config # NoKey
          /\ request.args.validators # << >>
          /\ request.args.threshold_bps <= BPS_DENOMINATOR
          /\ request.args.amount > 0
    /\ request.op = "createCampaignRfq" =>
          request.rfqDeadline < request.args.deadline_unix

\* Mutant: skipPreflight on every call.
NeverPreflighted(request) == FALSE

\* Only the score submission skips the RPC node's simulation.
Preflighted(request) == request.op # "submitValidatorScoreEr"

-----------------------------------------------------------------------------
(* The transactions *)

\* One transaction registers the validators and creates the campaign.
MayCreateAtOnce(c, args) ==
    MayRegister(c, args.validators) /\ MayCreate(c, args, args.validators)

\* Mutant: init_if_needed on both accounts.
CreateAtOnceAgain(c, args, account) ==
    /\ args.amount > 0
    /\ args.validators # << >>
    /\ wallet[CreatorOf[c]] >= args.amount
    /\ vset' = [vset EXCEPT ![c] = args.validators]
    /\ FundEscrow(c, args.amount)
    /\ campaign' = [campaign EXCEPT ![c] = account]
    /\ UNCHANGED <<now, config, bid, score>>

CreateAtOnce(c, args, account) ==
    /\ MayCreateAtOnce(c, args)
    /\ vset' = [vset EXCEPT ![c] = args.validators]
    /\ FundEscrow(c, args.amount)
    /\ campaign' = [campaign EXCEPT ![c] = account]
    /\ UNCHANGED <<now, config, bid, score>>

\* The two ephemeral-rollup instructions only check; they write nothing.
MayDelegate(c) ==
    /\ IsOpen(c)
    /\ campaign[c].mode = "rfq" => campaign[c].executor # NoKey

MayUndelegate(c) == campaign[c].status \in {"open", "rfq_expired"}

MayRun(payer, request) ==
    LET c == request.c IN
    CASE request.op = "createCampaign" -> MayCreateAtOnce(c, request.args)
      [] request.op = "createCampaignRfq" ->
            /\ MayCreateAtOnce(c, request.args)
            /\ MayOpenRfq(request.args, request.rfqDeadline)
      [] request.op = "submitBid" ->
            MayBid(c, payer, request.id, request.amount)
      [] request.op = "withdrawBid" -> MayWithdraw(c, payer, request.id)
      [] request.op = "acceptBid" -> MayAccept(c, request.bidder, request.id)
      [] request.op = "expireRfq" -> MayExpire(c)
      [] request.op = "submitValidatorScoreEr" ->
            MayScore(c, payer, request.scoreBps)
      [] request.op = "triggerSettleSuccess" -> MaySettle(c, request.used)
      [] request.op = "triggerTimeoutRefund" -> RefundAllowed(c)
      [] request.op = "delegateCampaign" -> MayDelegate(c)
      [] request.op = "undelegateCampaign" -> MayUndelegate(c)

Run(payer, request) ==
    LET c == request.c IN
    \/ /\ request.op = "createCampaign"
       /\ CreateAtOnce(c, request.args,
                NewCampaign("direct", request.executor, request.args, 0))
    \/ /\ request.op = "createCampaignRfq"
       /\ MayOpenRfq(request.args, request.rfqDeadline)
       /\ CreateAtOnce(c, request.args,
                NewCampaign("rfq", NoKey, request.args, request.rfqDeadline))
    \/ /\ request.op = "submitBid"
       /\ SubmitBid(c, payer, request.id, request.amount)
    \/ request.op = "withdrawBid" /\ WithdrawBid(c, payer, request.id)
    \/ request.op = "acceptBid" /\ AcceptBid(c, request.bidder, request.id)
    \/ request.op = "expireRfq" /\ ExpireRfq(c)
    \/ /\ request.op = "submitValidatorScoreEr"
       /\ SubmitValidatorScore(c, payer, request.scoreBps)
    \/ request.op = "triggerSettleSuccess" /\ SettleSuccess(c, request.used)
    \/ request.op = "triggerTimeoutRefund" /\ SettleTimeoutRefund(c)
    \/ request.op = "delegateCampaign" /\ MayDelegate(c) /\ UNCHANGED vars
    \/ request.op = "undelegateCampaign" /\ MayUndelegate(c) /\ UNCHANGED vars

-----------------------------------------------------------------------------
(* One call, from the method's start to its return *)

\* tx says what became of the transaction, known to the chain only; phase
\* what the caller has seen.  "threw" is also a call that sent nothing.
CallRecord(payer) ==
    [request : Requests(payer),
     tx : {"none", "inflight", "ok", "failed", "dropped"},
     phase : {"confirming", "receipt", "threw"}]

CallIds ==
    {id \in Clients \X (1 .. MaxCalls) : id[2] <= Len(call[id[1]])}

ACall(id) == call[id[1]][id[2]]

SetTx(id, outcome) == call' = [call EXCEPT ![id[1]][id[2]].tx = outcome]

Start(a, request, tx, phase) ==
    /\ Len(call[a]) < MaxCalls
    /\ call' = [call EXCEPT ![a] =
                   Append(@, [request |-> request, tx |-> tx, phase |-> phase])]

Send(a, request) ==
    /\ ValidRequest(request)
    /\ Preflighted(request) => MayRun(a, request)
    /\ Start(a, request, "inflight", "confirming")
    /\ UNCHANGED <<vars, view>>

\* The method throws before anything was sent.
Reject(a, request) ==
    /\ ~ (ValidRequest(request) /\ (Preflighted(request) => MayRun(a, request)))
    /\ Start(a, request, "none", "threw")
    /\ UNCHANGED <<vars, view>>

Land(id) ==
    /\ ACall(id).tx = "inflight"
    /\ Run(id[1], ACall(id).request)
    /\ SetTx(id, "ok")
    /\ UNCHANGED view

\* The transaction is in a block, but the program rejected it.
LandFailed(id) ==
    /\ ACall(id).tx = "inflight"
    /\ ~ MayRun(id[1], ACall(id).request)
    /\ SetTx(id, "failed")
    /\ UNCHANGED <<vars, view>>

\* Its blockhash expires before any leader includes it.
Drop(id) ==
    /\ ACall(id).tx = "inflight"
    /\ SetTx(id, "dropped")
    /\ UNCHANGED <<vars, view>>

InBlock(id) == ACall(id).tx \in {"ok", "failed"}

\* Mutant: the score submission does not look at the error either.
AnswerReceipt(id) == "receipt"

\* confirmTransaction resolves for a failed transaction too; only
\* submitValidatorScoreEr looks at the error.
Answer(id) ==
    IF /\ ACall(id).request.op = "submitValidatorScoreEr"
       /\ ACall(id).tx = "failed"
      THEN "threw"
      ELSE "receipt"

Confirm(id) ==
    /\ ACall(id).phase = "confirming"
    /\ InBlock(id)
    /\ call' = [call EXCEPT ![id[1]][id[2]].phase = Answer(id)]
    /\ UNCHANGED <<vars, view>>

\* confirmTransaction gives up; the transaction may still land later.
ConfirmTimeout(id) ==
    /\ ACall(id).phase = "confirming"
    /\ call' = [call EXCEPT ![id[1]][id[2]].phase = "threw"]
    /\ UNCHANGED <<vars, view>>

-----------------------------------------------------------------------------
(* queryCampaignStatus: one account after another, no snapshot *)

NoView == [step |-> "idle"]

ViewRecord ==
    [step : {"campaign", "scores"}, c : Campaigns, account : CampaignAccount,
     pending : SUBSET Agents, scores : [Agents -> Scores \cup {NoScore}]]

ReadCampaign(r, c) ==
    /\ view[r] = NoView
    /\ campaign[c] # NoCampaign
    /\ view' = [view EXCEPT ![r] =
                   [step |-> "campaign", c |-> c, account |-> campaign[c],
                    pending |-> {}, scores |-> [v \in Agents |-> NoScore]]]
    /\ UNCHANGED <<vars, call>>

ReadValidatorSet(r) ==
    /\ view[r].step = "campaign"
    /\ view' = [view EXCEPT ![r].step = "scores",
                            ![r].pending = {v \in Agents : Listed(view[r].c, v)}]
    /\ UNCHANGED <<vars, call>>

\* Mutant: a missing account is read as a score of 0.
ReadScoreOrZero(r, v) ==
    /\ view[r].step = "scores"
    /\ v \in view[r].pending
    /\ view' = [view EXCEPT
                   ![r].pending = @ \ {v},
                   ![r].scores[v] = IF score[view[r].c][v] = NoScore THEN 0
                                    ELSE score[view[r].c][v]]
    /\ UNCHANGED <<vars, call>>

\* The score accounts are fetched in parallel, in any order.
ReadScore(r, v) ==
    /\ view[r].step = "scores"
    /\ v \in view[r].pending
    /\ view' = [view EXCEPT ![r].pending = @ \ {v},
                            ![r].scores[v] = score[view[r].c][v]]
    /\ UNCHANGED <<vars, call>>

-----------------------------------------------------------------------------
(* Specification *)

ClientInit ==
    /\ Init
    /\ call = [a \in Clients |-> << >>]
    /\ view = [r \in Readers |-> NoView]

\* Anybody may use the program without this client.
Foreign == Next /\ UNCHANGED <<call, view>>

CallStep(id) ==
    \/ Land(id)
    \/ LandFailed(id)
    \/ Drop(id)
    \/ Confirm(id)
    \/ ConfirmTimeout(id)

ReaderStep(r) ==
    \/ \E c \in Campaigns : ReadCampaign(r, c)
    \/ ReadValidatorSet(r)
    \/ \E v \in Agents : ReadScore(r, v)

ClientNext ==
    \/ Foreign
    \/ \E a \in Clients : \E request \in Requests(a) :
          Send(a, request) \/ Reject(a, request)
    \/ \E id \in CallIds : CallStep(id)
    \/ \E r \in Readers : ReaderStep(r)

ClientSpec == ClientInit /\ [][ClientNext]_clientVars

-----------------------------------------------------------------------------
(* Properties *)

CallsTyped ==
    call \in [Clients -> Seq(UNION {CallRecord(a) : a \in Clients})]

ClientTypeOK ==
    /\ TypeOK
    /\ CallsTyped
    /\ view \in [Readers -> ViewRecord \cup {NoView}]

\* settle_success and settle_timeout_refund are open to everybody and race.
\* The receipt of a call that lost the race says nothing about who won, but
\* it never lies about the settlement: whenever triggerSettleSuccess or
\* triggerTimeoutRefund returned a receipt, the campaign is settled.
SettleCall(id) ==
    ACall(id).request.op \in {"triggerSettleSuccess", "triggerTimeoutRefund"}

SettleReceiptMeansSettled ==
    \A id \in CallIds :
        SettleCall(id) /\ ACall(id).phase = "receipt" =>
            Settled(ACall(id).request.c)

\* Why: what the preflight found stays true until somebody settles, so a
\* settlement in flight can only fail because the campaign is settled.
SafeCall(id) ==
    /\ ACall(id).phase = "receipt" => InBlock(id)
    /\ SettleCall(id) /\ ACall(id).tx = "inflight" =>
          \/ MayRun(id[1], ACall(id).request)
          \/ Settled(ACall(id).request.c)
    /\ SettleCall(id) /\ InBlock(id) => Settled(ACall(id).request.c)

SettlementInFlight == \A id \in CallIds : SafeCall(id)

\* A receipt of submitValidatorScoreEr means this very score is recorded,
\* though it is sent without a preflight and may lose against the deadline,
\* a settlement or an earlier score of the same validator.
ScoreReceiptIsOnChain ==
    \A id \in CallIds :
        ACall(id).request.op = "submitValidatorScoreEr"
                /\ ACall(id).phase = "receipt" =>
            score[ACall(id).request.c][id[1]] = ACall(id).request.scoreBps

\* What a landed call did is never undone or overwritten, whoever acts next.
Effect(a, request) ==
    LET c == request.c IN
    CASE request.op \in {"createCampaign", "createCampaignRfq"} ->
            /\ CampaignExists(c)
            /\ vset[c] = request.args.validators
            /\ campaign[c].amount = request.args.amount
            /\ campaign[c].threshold_bps = request.args.threshold_bps
            /\ campaign[c].deadline_unix = request.args.deadline_unix
            /\ request.op = "createCampaign" =>
                  campaign[c].executor = request.executor
      [] request.op = "submitBid" ->
            bid[c][a][request.id] # NoBid
                /\ bid[c][a][request.id].amount = request.amount
      [] request.op = "withdrawBid" ->
            bid[c][a][request.id].status = "withdrawn"
      [] request.op = "acceptBid" ->
            /\ campaign[c].executor = request.bidder
            /\ campaign[c].accepted_bid_id = request.id
      [] request.op = "expireRfq" ->
            campaign[c].status \in {"rfq_expired", "settled_refund"}
      [] request.op = "submitValidatorScoreEr" ->
            score[c][a] = request.scoreBps
      [] request.op = "triggerSettleSuccess" ->
            campaign[c].status = "settled_success"
      [] request.op = "triggerTimeoutRefund" ->
            campaign[c].status = "settled_refund"
      [] OTHER -> TRUE

LandedCallsLast ==
    \A id \in CallIds :
        ACall(id).tx = "ok" => Effect(id[1], ACall(id).request)

\* A caller who retries after a timeout cannot execute a request twice, even
\* when the first transaction lands after all.
WritesNothing(request) ==
    request.op \in {"delegateCampaign", "undelegateCampaign"}

RetriesLandOnce ==
    \A id, id2 \in CallIds :
        /\ id # id2 /\ id[1] = id2[1]
        /\ ACall(id).tx = "ok" /\ ACall(id2).tx = "ok"
        /\ ACall(id).request = ACall(id2).request
        => WritesNothing(ACall(id).request)

\* A status that was assembled from stale reads is still good to act on:
\* scores that reach the threshold of an open campaign (with its executor
\* known) can be settled with, unless the campaign is settled by then; an
\* expired RFQ can be refunded.
Found(r) == {v \in Agents : view[r].scores[v] # NoScore}

StaleStatusIsUsable ==
    \A r \in Readers :
        view[r].step = "scores" /\ view[r].pending = {} =>
            LET account == view[r].account
                c == view[r].c
            IN /\ /\ account.status = "open"
                  /\ account.mode = "rfq" => account.executor # NoKey
                  /\ Found(r) # {}
                  /\ AverageScoreBps([v \in Found(r) |-> view[r].scores[v]])
                        >= account.threshold_bps
                  => MaySettle(c, Found(r)) \/ Settled(c)
               /\ account.status = "rfq_expired" =>
                     RefundAllowed(c) \/ Settled(c)

-----------------------------------------------------------------------------
(* What the documentation says and the code does not do *)

\* packages/sdk/src/types.ts, TxReceipt: "Receipt returned after a
\* successful transaction."
ReceiptMeansSuccess ==
    \A id \in CallIds : ACall(id).phase = "receipt" => ACall(id).tx = "ok"

=============================================================================
