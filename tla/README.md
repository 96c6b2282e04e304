# Proof of Engagement: TLA+ models and proofs

This directory models the escrow program, its TypeScript client, the agents that drive it and the
scripts that wire them together, checks small instances with TLC and proves the main safety results
with TLAPS for every value of the constants.

    tlc -config MCProgram.cfg MCProofOfEngagement.tla      # any run of PROJECT.json
    tlapm ProofOfEngagementProofs.tla                      # any *Proofs module

Paths below are relative to the repository's root; `lib.rs` is
`contracts/programs/proof-of-engagement/src/lib.rs`, `client.ts` is `packages/sdk/src/client.ts`.

## 1. The system

| component | state it keeps | operations | talks to |
|---|---|---|---|
| On-chain program (`lib.rs`) | accounts: config, validator set, campaign, bids, scores; token balances | 11 state-changing instructions, 2 that only check (`delegate_campaign`, `undelegate_campaign`) | SPL token program, clock |
| SDK client (`client.ts`) | none between calls; a call is in flight, confirmed or given up | one method per instruction, `queryCampaignStatus`, `listBids` | program, through an RPC node |
| Settlement trigger (`packages/sdk/src/settlement-trigger.ts`) | none | two methods that derive addresses and forward | client |
| Consensus orchestrator (`agents/consensus`) | the promises of one round | `runConsensus`, `checkAndSettleTimeout` | validator agents, trigger |
| Validator agent (`agents/validator`) | none | normalize a proof, score it, sign, submit a memo | chain (memo program) |
| Executor agent (`agents/executor`) | claims by campaign, one store per process | claim, attest, submit a memo, release | chain (memo program) |
| X and GitHub adapters (`mcp-adapters`) | attempt counter of a retry, the answers of parallel requests | fetch evidence, normalize, score, classify failures | external services |
| Stub demo (`scripts/demo.ts`) | a transaction counter | attest, fan out to three validators, one orchestrator round, all with stubs | agents, orchestrator |
| Live demo (`scripts/live-demo.ts`) | phase, votes, evidence bundle | attest, delegate, collect votes, undelegate, settle | everything above |
| Seeding scripts (`scripts/seed-*.ts`, `init-config.ts`, `manual-live.ts`) | how far a run got; the metadata file | find a free block of ids, create, score, settle and refund sample campaigns, publish their titles | program and client, metadata API |
| Metadata API (`frontend-next/app/api`) | one document in a blob store | replace it, read it | seeding scripts, dashboard |
| Dashboard (`DashboardClient.tsx` in `frontend-next/app/dashboard`) | endpoint field, connection, attempt counter, metadata, validator index | connect, load, refresh, switch tabs; effects that follow | RPC node, metadata API |
| Campaigns tab (`CampaignsPanel.tsx`, `frontend-next/lib/sdk.ts`) | the campaigns loaded, filters, sorting, page, collapsed groups; per row: open, scores | parse accounts, filter, sort, page, group, open a row and query its scores | RPC node |

What is hard in it:

- **Interleavings.** A transaction is atomic, but anybody may send one between any two of a caller's,
  and bids, acceptance, expiry, scores, settlement and refund race for the same accounts.
- **Stale state.** The RPC node simulates a transaction on one state and it lands on another;
  `queryCampaignStatus` assembles a status from reads at different times; the orchestrator never reads
  the chain at all.
- **Unreliable delivery, timeouts and retries.** A transaction may be dropped, land after its caller
  gave up, or be in a block and have failed; callers retry.
- **Partial failure.** Validators fail one by one, a memo lands and a score account does not, a batched
  transaction must land as a whole.
- **Boundaries.** Deadlines compared with `<`, `<=` and `>` in two languages, averages rounded down,
  empty and duplicated lists, gifts to an escrow.
- **Crashes and restarts.** A seeding script may be stopped at any await with a transaction in flight
  and be started again, or run twice at once, and takes what it finds for what it did.
- **Late answers and effects.** Requests of the dashboard answer after the attempt, effect or tab they
  belong to is gone, and an effect changes what it depends on. Rows of the campaigns tab outlive the
  loads and the clients their scores came from; campaigns go away under a page that showed them.
- **Several sources of one judgement.** The three requests about a pull request see it at different
  times, one of them may be missing, and the pull request goes on changing.
- **Liveness.** An escrow must not stay locked; a script that awaits everybody must end; effects must
  come to rest.

What makes each component correct: the program pays every escrow once, to the right party, at the right
time, on scores of the registered validators, and never changes the terms; the client's receipts mean
what callers take them to mean, and retrying is harmless; the orchestrator triggers what the program
grants and reports what happened; the demo's evidence is on chain and the script ends; a seeder that
completes left the block it reports, and no title is published for a campaign that does not exist; an
adapter gives up after its attempts, not before, and never invents evidence; a claim is held exactly while
somebody works under it; the dashboard settles on the endpoint in the address bar, drops titles that are
not for the cluster its endpoint field names, and keeps no validator index but the one of the client in use
and the campaigns on screen; the campaigns tab can reach every campaign and says "Loading" only while it
loads. `PROJECT.json` lists the hazards one by one, each at its line.

## 2. The modules

    Settlement            what an escrow promises (abstract)
      ^ implemented by
    ProofOfEngagement     the on-chain program         <- ProofOfEngagementProofs
      ^ extended by
    PoeClient             the SDK client               <- PoeClientProofs
      ^ extended by
    Consensus             orchestrator and trigger     <- ConsensusProofs
      ^ extended by
    LiveDemo              the live-demo script         <- LiveDemoProofs

    Seeding               the seeding scripts (extends PoeClient too); SeedingProofs

    ClaimLock             what claims promise (abstract)
      ^ implemented by
    Adapters <- Agents <- StubDemo     evidence, agents, scripts/demo.ts; AgentsProofs

    Dashboard             connection and effects of the dashboard; DashboardProofs
    CampaignsPanel        its campaigns tab; CampaignsPanelProofs (both only read the chain)

Each layer adds its variables and its actions and keeps the whole of the layer below, including
`Foreign`: any step of the program by anybody who does not use the modelled client. Nothing is
therefore checked only for polite callers. An `MC*` module holds the constants' values of its component
and nothing else.

**Settlement.** Four variables (deal, executor, pot, wallet) and five actions. A campaign is funded
once, its pot only grows while it is pending, an executor is named at most once, and the whole pot goes
once to the executor or to the creator.

**ProofOfEngagement.** One variable per kind of account, as functions of the seeds their addresses are
derived from, so Anchor's `init` is the guard that none exists; `now` is the Clock sysvar, `wallet` and
`escrow` the token balances. Each instruction is an action of the same name; its `require!`s and account
constraints are the operator `May...`, so that the client can ask for them as the RPC node's simulation
does. What a caller passes as remaining accounts is a set of validators (`used`): the same account twice
is refused by the program. The canonical validator hash is the multiset of keys, which is what sorting
before hashing makes of it if SHA-256 is injective. `Donate` (a plain token transfer into an escrow) and
`Tick` are the environment.

**PoeClient.** A call is a record: the request, what became of its transaction (known to the chain) and
what its caller has seen. `Send` validates as the method does and simulates (unless the preflight is
skipped); `Land`, `LandFailed` and `Drop` are the chain's; `Confirm` and `ConfirmTimeout` end the
method, and the transaction may land after the latter. `createCampaign` and `createCampaignRfq` send
registration and creation in one transaction (`CreateAtOnce`). `queryCampaignStatus` is a reader that
fetches account after account. The delegation instructions check and write nothing.

**Consensus.** A round of `runConsensus` hears from each asked validator a score or a failure
(`Fulfil`, `Fail`; the agent's memo is invisible to the program), decides when all have answered, and
awaits its trigger's call (`Return`). `CheckTimeout` and `NotExpired` are `checkAndSettleTimeout` with a
local clock up to `ClockSkew` off. Rounds share payers and campaigns.

**LiveDemo.** The script's phases on a seeded campaign: attestation (or its fallback), delegation,
each validator's memo, score account and rollup mirror in parallel, undelegation, the account
look-ups before consensus (`Prepared`, or `PrepareFails`, which is fatal after all the votes), one
orchestrator round, evidence bundle. The script may be a second run: in its initial states any of the
validators' score accounts are already there, left by a first run that stopped in phase B. The rollup is a separate ledger: its errors are ignored and its score is never
read, so `MirrorReturns` changes nothing else.

**Seeding.** A script is a sequence of step records (`Plan`), a run a record of how far a process got
with one. Each step's action does what the code does on what it finds: `CheckExists` and `CheckOpen`
skip, `Tolerated` goes on, `Retried` tries again, `Refused` ends the run. `Submit` puts the step's
transaction in flight; `Includes` executes it with the program's own instruction, `IncludesFailed`
fails it, and `Confirmed` goes on in both cases, as `confirmTransaction` does. `Timeout` and `Kill` end
a run and leave its transaction to the network (`stray`). Another run may begin on a free process at any
time, by another or a searched base id (`BeginSearch`, `SearchFree`, `SearchTaken`), and `Outsider` is
somebody else who scores, settles, refunds or expires. `ReadDocument`, `WriteDocument` and `Push` are the
metadata file and the API (`StoreMetadata`). A search ends where the ids of the model do. The SDK's own calls are not used: the scripts await each
transaction, so at most one of a run is in flight. What differs between a script's campaigns without
consequence (amounts, lists of validators, titles) is the same for all.

**Adapters.** `post` holds the calls of the X adapter's `fetchProof`, each with `withRetry`'s attempt
counter; the service answers with a record (`PostAnswered`, for this post or another) or an error
(`PostRefused`), which `ClassifyCode` sorts into the six failure classes in the order of the code's
tests. `heard` is a history of what the service answered, so that the retries are judged by that and
not by the counter. `evidence` holds the calls of the GitHub adapter: three requests in flight, answered
in any order from the pull request as it is at that moment (`pull`, which `PullChanges` moves on), and
`Promise.all` of them. An error of the check-runs request becomes the empty list; since that request
names a commit by the pull request's number, its answer may be any list at all. `PullScore` and
`PostScores` are the scoring formulas; the logarithm of the latter is bounded by powers of two.

**Agents** adds the executor and the validator agents: `ExecuteCampaign` claims in the store of the
agent's process and attests, `ExecuteRefused` is the throw before the `try`, `Returns` and
`SubmissionThrows` release in the `finally`, `MemoLands` and `MemoLost` are the chain's, which may be
later than the caller's patience. `ProcessStops` takes a store's claims and its calls away.
`DeterministicScoreBps` is the validator's score with all its parts; a signature is the pair of a key
and what it signs. **ClaimLock** says what the store is for: per slot one holder at a time, and whoever
leaves was there. **StubDemo** composes them with `scripts/demo.ts`, whose stubs answer at once.

**Dashboard.** `rpcUrl`, `connected`, `connecting`, `loading`, `connection` (the attempt whose client is
in use), `attempts` and `loads` are the component's state and refs; `due` holds the effects whose
dependencies changed and `RunEffects` runs them as React does, after a render and before the next input
event. Typing, navigating, clicking, refreshing and switching tabs are the user's; `TimerFires`,
`HandshakeOk`, `HandshakeFails` (an error or the 8 s timeout), `LoadOk`, `LoadFails`, `MetadataOk`,
`MetadataFails` and `IndexBuilt` come whenever they come. A cancelled fetch or index job is simply gone,
since each of its later steps is guarded by its `cancelled` flag; a superseded attempt stays in
`attempts` and can be seen to have no effect.

**CampaignsPanel.** Takes up where `Dashboard` stops: a client is a number, a handshake one step
(`Connects`), and loads of every client there was may still answer. `Parsed` is what `lib/sdk.ts` makes of
accounts by their lengths and bytes; `Filtered`, `Position`, `TotalPages` and `OnPage` are the pipeline
from campaigns to rows, with the order that V8's sort leaves of equal ids. `Rendered` is React's
reconciliation: a row keeps its state while its key is found in the same group, and is new otherwise.
`RunEffects` runs the effects that became due (rows ask, the page is reset or clamped); `QueryOk` and
`QueryFails` answer a row that is still mounted. What a row prints of its scores is not modelled.

## 3. The runs

| run | question | result |
|---|---|---|
| `program` | one campaign, direct or RFQ, two bidders with two bids each, two validators, or two direct campaigns of two creators; odd arguments, gifts, all interleavings | the accounts agree, bids are locked by acceptance, no early refund, payouts are justified, escrows are backed, tokens conserved, terms frozen, `Settlement` is implemented, every escrow is paid out in the end |
| `client` | every method once, and its retry after a confirmation timeout, against everybody else; a status assembled from reads at different times | landed calls last, a settlement found possible stays possible, score and settlement receipts are true, nothing executes twice, a stale status is good to act on, batching keeps the refinement |
| `consensus` | two rounds with two payers on one campaign | decisions mirror the program, one settlement lands, reported means settled |
| `live_demo` | the script with two validators, one of which must respond | its evidence is on chain, and it ends |
| `seeding` | two runs of the scripts, overlapping or one after the other, a kill or an outsider, transactions left in flight | a run that completes left what it reports, published campaigns exist, every run ends |
| `agents` | two fetches of posts with and without attempts, a fetch of a pull request that changes meanwhile, three overlapping calls of agents in two processes, the stub demo | retries follow the policy and what was heard, a high score is of a merged and approved pull request without known CI failures, claims are held exactly while somebody works, `ClaimLock` is implemented, all work ends |
| `dashboard` | navigation, typing, clicks and tabs against timers, effects and late answers | it settles on the address bar's endpoint, titles follow the endpoint field, an index is the client's in use for the campaigns on screen, and it comes to rest |
| `campaigns_panel` | loads and score queries of two clients against filters, pages, groups and reloads | scores on screen are of the client in use, "Loading" is for an answer, every campaign is on one page that exists |
| `receipt_means_success` | types.ts: a receipt is returned after a successful transaction | violated: the confirmation's error is ignored |
| `partial_failure` | PLAN.md: partial validator failure is tolerated | violated: one missing score account makes the program refuse the settlement |
| `pasted_endpoint` | README.md: paste an RPC URL and click the button | violated: the auto-connect effect sets the field back before the click |
| `missing_ci` | github-pr-adapter.ts: a passing CI is required for a high score | violated: without check runs, or with a request for them that failed, a merged and approved pull request gets 8500 |

The four violated statements are the documentation's, each of them about something no run relies on;
`PROJECT.json` quotes the lines. Two more sentences of the documentation are not what the program does
and have no run: MVP_INTERFACE_SPEC.md has the average taken over all submitted scores (the caller of
`settle_success` chooses the score accounts; `used` in the model), and README.md has no score before
`acceptBid` in RFQ mode (`submit_validator_score` never looks at the executor).

**Bounds and why they are enough.** Campaigns share only the creator's and the givers' wallets, so two
campaigns of two creators show every interference; the other runs use one. In `program` the CONSTRAINT
`TwoIfDirect` keeps a second campaign for states in which all are direct and have the first deadline: an
RFQ, or a second deadline, is explored with one campaign. Only creating a campaign or its set leads out of
the constraint, no tick or refund does, so the fairness below means the same inside it. Two bidders
with two bid ids are needed for the acceptance races (same bidder, other bidder) and a third adds no
new relation. Two validators give averages that differ from either score, sets to choose from and one
validator left out. `Deadlines` of one or two values and a clock that runs one tick beyond the last
give before, at and after of every comparison and of the RFQ deadline against the execution deadline.
Scores are picked around the threshold: 3000 and 3003 against 3001 (equal only after rounding), 5999
and 6000 against 6000, 4000 and 9000 against 5000. In `program` a
creator has one token and campaigns of 0 or 1, so that a gift to the other's escrow makes the balance
check fail, and makes that escrow exceed its amount. `MaxCalls` is 2
for the client's run: hazards relate one call to the others' steps (`Foreign` does everything any
client could) or to its own retry. Its two CONSTRAINTs keep a reader apart from calls and a second call
to a retry of the first: a reader's behaviours with calls are among those with `Foreign`, and two
different calls of one client among those of one call and `Foreign`. The script of the live demo makes
at most three calls per payer. `MaxTime`, `MaxCalls`, `BidIds`, `Rounds` and the argument sets are the
only other bounds of these modules; they are in the guards of `Tick` and `Send` or in the quantifiers
of the next-state relations.

`seeding` has `MaxRuns` = 2 runs on two processes (and init-config once), one kill or one step of an
outsider (`MaxDisturbances`), ids 1 to 10, that is two blocks of five; every run may also end in a
confirmation timeout at each of its transactions. The hazards relate a run to one other: a third would
meet what the second left. seed-local and manual-live run once each (`Repeated` lacks them) because
their ids come from the clock; `ClockBases` makes the two collide. Time passes only while one of them
runs, up to `LastTime`: a devnet run lasts minutes and its deadlines are days away. A devnet run that is
resumed when the deadlines of the first are over is therefore not covered. `MaxAttempts` is 2
instead of 30 and 12: one retry and giving up. `dashboard` has two endpoints on two clusters, links with
and without `?rpc=`, and `MaxEvents` = 2 inputs after the auto-connect of the first render (opening the
validators tab is not counted): up to five attempts, among them a superseded and a superseding one, and
several loads at once.

`agents` has a constraint (`OneAtATime`): the adapters, the agents' calls and the stub demo share
nothing but the proofs that were fetched, so they are explored one after the other, the calls on one
fetched and two written proofs. `MaxAttempts` is 2 for one fetch (a retry and giving up) and 0 for the
other (a policy that never asks); `MaxReviews` = 2 reviews around `MinApprovals` = 1 can be approvals,
requests for changes or dismissed approvals; three calls are one more than a holder and a refused
one. `campaigns_panel` has three campaigns (two of one id, so that the order of equals matters), two
listings of which one has lost a campaign, pages of one and two rows, two clients and `MaxEvents` = 5
inputs: open a row, turn the page, reconnect, come back, and one more.

`CHECK_DEADLOCK FALSE` is set because these bounds make every model end.

**Fairness.** `FairSpec` assumes that the chain's clock advances and that for every campaign somebody
keeps asking for the refund: `triggerTimeoutRefund` needs no authority, `scripts/manual-live.ts` 92-110
and `scripts/seed-local.ts` 107-156 call it in a loop until it succeeds. Nothing else is fair: no
creator need accept, no validator score, nobody settle or expire. `FairDemoSpec` assumes that the event
loop runs what is ready (the script and each validator's chain of awaits) and that an awaited
confirmation returns, because web3.js gives up when the blockhash expires; it does not assume that any
transaction lands. `FairSeedSpec` assumes the same of every running script and nothing of the network,
the user or the clock. `FairSpec` of `StubDemo` assumes that timers fire and that every request is answered or refused in the
end: `fetch` fails when the connection does, and `sendAndConfirmTransaction` gives up when the
blockhash expires. `FairDashSpec` assumes that React runs due effects, timers fire and a handshake ends
(it has a timeout); of loads, which have none, of metadata and index requests it assumes nothing.

## 4. The proofs

All theorems hold for every set of agents, campaigns, bids and arguments, every clock bound and every
number of clients, calls, rounds, processes, runs, endpoints and rows, from the modules' ASSUMEs: no wallet
is `NoKey`, amounts, thresholds, scores and bid ids are naturals, every deadline passes before the clock's
bound, clients are agents, the live demo's payer is no validator, the scripts pass arguments of the
program's types (`ScriptArguments`), the ids a run may start from have as many after them as it uses
(`BasesAssumption`) and the creator's wallet lasts for all of `MaxRuns` runs (`AmpleFunds`). TLC evaluates
the ASSUMEs in the runs. Five theorems assume more, in their statements: `DecisionsAreThePrograms` that
`MinValidators > 0` (with 0 and no response the average is NaN, and the orchestrator triggers what the
program refuses) and that `ClockSkew = 0` (a clock that is off decides otherwise by nature);
`EvidenceHolds` and `PayoutIsSupported` that the set of agents is finite, `TokensAreConserved` and
`TokensConservedUnderClients` that those of agents and campaigns are, since they count or add over them.

**ProofOfEngagementProofs.** `TypeCorrect` first (no balance is ever negative: `EscrowBacked` is not
needed for it, since an escrow is always paid out whole). None of the safety properties is inductive alone;
`InductiveInvariant` adds what they rest on: a campaign's validator set is registered
(`SetIsRegistered`), scores exist only for existing campaigns and are by validators on the list
(`ScoresBelongToValidators`), and an RFQ is marked expired only after its window with nobody chosen
(`ExpiredAfterWindow`). `InvariantStep` goes action by action; `PayoutJustified` is carried over every
other step by a frame lemma (`JustifiedFrame`: a justification depends on scores, set, mode, threshold
and executor, which no step takes away). From it: `EscrowIsBacked`, `AcceptedBidAgrees`,
`ExpiryIsExclusive`, `RefundIsTimely`, `PayoutIsJustified`; with one step lemma each, `TermsNeverChange`,
`AcceptanceLocksBids` and `ProgramImplementsSettlement` (each instruction maps to a step of `Settlement`
or stutters).

Sums over functions are proved about by induction, although the library's induction rules, which take an
operator, are of no use here: the statement is turned into the set of its counterexamples, and
`WFMin` of the well-founded order gives a least one, which one more element refutes. So a
fold over a finite set can be split at any element and a change of one value changes the sum by as much.
`TokensAreConserved` follows: each instruction leaves the balances alone or moves one amount from one
of them to another (`TokensMove`), and the two sums shift together; a campaign without an account has an
empty escrow (`EmptyUntilFunded`), so creation moves what it takes. `PayoutIsSupported` says what
`PayoutJustified` means for the creator: a caller of `settle_success` may pick among the scores,
but never so that a threshold is met that no registered validator's score reaches by itself, because an
average is no more than its largest term.

**PoeClientProofs.** A landing transaction is a step of the program or the batched creation, and both
keep the program's invariant (`ProgramInvariantUnderClients`). `ClientInv` adds `SafeCall` for every
call: a settlement in flight can still run or the campaign is settled, and one that is in a block
finds it settled. The point of the proof is `SettlementStays`: no step by anybody takes
back the possibility to settle or refund except settling (`SettlementInFlightHolds`). Hence
`SettleReceiptMeansSettledHolds`, though a receipt does not mean success. `ClientsImplementSettlement`,
`TermsNeverChangeUnderClients` and `TokensConservedUnderClients` carry the program's step theorems over
the batched creation.

The effects of calls are a second invariant, `EffectsInv`. What `LandedCallsLast` says of a call is not
stable by itself (an acceptance lasts only because its campaign is an RFQ that exists), so `LastingEffect`
adds the campaign's existence and its mode; `EffectHappens` shows that landing establishes it, `EffectLasts`
that no step of anybody undoes it, and `NotTwice` that a call whose effect holds cannot land. So
`LandedCallsAlwaysLast`, `ScoreReceiptsAreTrue` and `RetriesNeverLandTwice`. A third, `ViewsInv`, says
how an account read earlier relates to the chain now: mode and threshold are the same, a known executor is
still known, an expired RFQ can be refunded or is, a score that was found is unchanged
(`AccountHolds`, `ScoresHold`); every step keeps that, which gives `StaleStatusesAreUsable`.

**ConsensusProofs.** Every step of a round is a step of the client or invisible to it
(`ConsensusIsClient`), so every theorem above holds under the orchestrator; `ConsensusInv` ties a
settling round to its call and gives `OutcomeMeansSettledHolds`. `OneSettlementOnly` needs no round: a
settlement call that landed leaves the campaign settled (`SafeCall`), and on a settled campaign no other
can land. `DecisionsAreThePrograms` compares the two
averages over the same function.

**LiveDemoProofs.** The script does not start from the program's initial state; `DemoInitProgram` shows
that what an interrupted run leaves satisfies the program's invariant. Every step of the script, its agents
and its round is a client's step (`DemoStepKinds`), so `EffectsInv` and `ConsensusInv` hold under it
(`DemoKeepsGuarantees`). `VoteHolds` follows a validator: no call before its memo, then exactly the one
call for the proof's score (`ValidatorCalls`: nobody else calls for it), then the score on chain, by the
score receipt. With `RoundMatches` (the one round is about the script's campaign) it gives `EvidenceHolds`.

**AgentsProofs.** `AgentsInv` is the types with four parts: `ProofWhenDone` (a fetch that is done has a
proof), `RetryInv` (the attempt counter agrees with what was heard, every answer but the last was
retryable), `EvidenceSeen` (an approval or a merge in the evidence was the pull request's when it was
read) and `ClaimInv`: a claim is held while a call of that process works, and such a call is alone (`ClaimsAreHeld` and `AloneAtWork`; the first is not inductive
without the second, because the `finally` of one call would release the claim of another). From it
`RetriesAreDisciplined`, `HighScoresAreEarned` (with what the score's terms add up to when
CI is missing, passed or failed), `ClaimsAreAlwaysHeld` and `ClaimsImplementLock`, the
refinement of `ClaimLock`. `AcceptedScoresAreSigned` is about the operators.

**CampaignsPanelProofs.** `PanelInv` is the types with `RowsInv` (a mounted row
belongs to a campaign that is loaded and has asked and heard only the client in use; once the due effects
have run, a row that says "Loading" has asked) and
`ClientFirst` (there is a client before a load, a load before campaigns). Hence
`ScoresAreAlwaysOfTheClient` and `LoadingIsAlwaysForAnAnswer`. `CampaignsAreAlwaysReachable` has two
halves. That pages partition the campaigns is a fact about operators: the order is strict and total
(`TotalOrder`), so a campaign's position grows with it, and positions below the number of campaigns are
all taken (`EveryPosition`, by induction on that number), hence each page that exists has one
(`PagesPartition`). That the panel is on one of them is `PageInv`: it is, or the effect that resets or
clamps the page is due, which every click, filter and reload sees to.

**SeedingProofs.** A run looks at no outcome, so nothing of what it reports is in its own state: the
proof has to say why what it has passed is on chain. `SeedInv` has these parts, and needs each:

- `ChainInv`: validators are registered only together with their campaign, and RFQ campaigns exist only
  where the clock stands still, so nobody can mark one expired. A campaign of the scripts is therefore
  open or settled (`OpenOrSettled`), and a run that finds one not open has found it settled.
- `WaitingInv`: a transaction in flight that matters has done its work, or still can. For
  settlements and refunds this is the program's `SettlementStays`; for creations it needs the next two.
- `FundsInv`: ids that exist, or that a run or a stray transaction may still create (`Claimed`), and ids
  that searching runs will take, are at most six per run begun; the creator's wallet has lost
  `SeedAmount` for each that exists. With `AmpleFunds` the wallet is never the reason for a failure.
  This is a count of sets of ids, over runs that overlap and blocks that coincide.
- `TimeInv`: the long deadlines of a running script stay ahead, so the clock is no reason either. The only
  one left for such a creation to fail is that somebody else has created the campaign
  (`CreateIsPossible`), and then it exists.
- `PassedInv`: so every long-lived campaign that a run has passed exists, and every one it has settled or
  refunded is. The creation of a campaign with a deadline of seconds may fail, but the plans refund each of
  those, and a run passes a refund only once it is done.
- `DocumentInv`: what a draft, the file or the blob names exists; drafts only add a run's own labels.

What the plans themselves guarantee (a clock is read before a campaign is created, skipped steps are about
the campaign that was looked at, only created slots are labelled) is `PlansWell`, which is about the five
concrete lists. Each action's effect on one run is a lemma of its own (`BeginSound` to `DocumentSound`);
that it disturbs nobody else's is `SoundStays`, since what is on chain stays there (`ChainFacts`). From
`SeedInvariant`: `CompletedSeedersHaveSeeded` and `PublishedMeansCreated`, and, since every step of this
world is a step of the program or a batched creation, `ScriptsImplementSettlement` and
`ScriptsKeepTheTerms`. TLC was given `SeedInv` first:
it is an invariant of the instance of the run `seeding`.

**DashboardProofs.** The four safety properties speak of moments when nothing is pending, so none is
inductive. `DashInv` says what holds while effects are due instead: unless the auto-connect effect is
due, the field, the timer and the latest attempt agree with the address bar (`TargetIsWanted`), unless
the metadata effect is due no titles are shown or on their way while the field names another cluster (`TitlesBelong`),
unless the index effect is due the job and the index are fresh (`IndexIsFresh`); an attempt under way
has the connection (`LatestIsConnected`), and an awaited load belongs to one attempt that waits for
nothing else (`LoadsAreAwaited`). The first three depend on different variables and are carried
separately, the last two together with `ConnectingTracksLatest`. Hence `ConnectingCorrect`,
`SettlesCorrect`, `TitlesCorrect` and `IndexCorrect`, for any endpoints, links and number of inputs.
`TitlesCorrect` is about the endpoint field and the campaigns of the client in use. It cannot be about all
campaigns on screen: the code lets a slow load of localhost's answer after the move to devnet, or keeps
localhost's campaigns when the handshake with devnet fails, and shows devnet's titles over them.

**Only model-checked.** `EventuallySettled`, `DemoEnds`, `SeedersEnd`, `WorkEnds` and `DashboardSettles` are
liveness under fairness, which is out of the prover's reach, as is ENABLED. Every invariant and every
action property of the passing runs, and both refinements, are theorems.

## 5. What is not modelled, and why

- Bytes: account layouts, address derivation, signatures, instruction encoding, SHA-256 (taken to be
  injective). `listBids` filters by the same bytes and changes nothing.
- Sums beyond u64 in the average (at most 16 scores of at most 10000 are summed) and token balances
  beyond u64 (the SPL token program refuses the transfer).
- Mints other than the configured one, executors that are the campaign's own address, rent, fees.
- A single consistent RPC endpoint is assumed: no reorganised blocks, no lagging replicas, and read
  errors of `queryCampaignStatus` simply end it.
- The rollup as a second ledger: the program's instructions write nothing for it, and no code reads
  from it.
- Lamports and token accounts: the seeders fund wallets first; `AmpleFunds` assumes they suffice.
- Of the dashboard, the executors tab, the transaction links of rows and the looks of everything. Also
  the average and the verdict ("meets payout threshold", "below payout threshold") that a row prints: it
  averages all score accounts it found and rounds to the nearest, while `settle_success` rounds down
  over the accounts its caller passes, so the row predicts neither outcome and there is no promise to
  check.
- The adapter registry (a map filled at start-up) and the SDK's copies of the account layouts.
- Logging, explorer links, build scripts, static pages.

## 6. Plan

1. `Document`: the dashboard reading what the seeders publish, through `StoreMetadata` and the static
   file, as the composition of `Seeding` and `CampaignsPanel`.
2. The executors tab, whose figures are sums over the same campaigns.
