------------------------------ MODULE Seeding ------------------------------
(***************************************************************************)
(* The scripts that fill a cluster with campaigns: scripts/seed-devnet.ts, *)
(* seed-local.ts, manual-live.ts and init-config.ts.  A script is a list   *)
(* of steps; what a step finds already done is skipped, tolerated, retried *)
(* or ends the run, depending on the script.  A run may be cut off at any  *)
(* await, leave a transaction in flight and be started again, beside       *)
(* another run for the same wallet.  The devnet seeder also publishes what *)
(* it seeded, in a file and through the dashboard's metadata API.          *)
(***************************************************************************)
EXTENDS PoeClient

CONSTANTS
    Scripts,       \* processes that run a script, one after the other
    Creator,       \* the default keypair, payer of every script
    V1, V2,        \* validators whose scores decide the settled campaigns
    Alpha, Gamma,  \* executors
    GoodScore,     \* a score that reaches SeedThreshold
    SeedThreshold,
    SeedAmount,
    Soon, Later,   \* lengths of a deadline of seconds and of one of days
    GivenBases,    \* CAMPAIGN_BASE_ID, set to resume a block
    ClockBases,    \* ids taken from the clock
    Repeated,      \* plans that may be run more than once
    MaxAttempts,   \* of a refund: 12 in seed-local, 30 in manual-live
    MaxRuns, MaxDisturbances,   \* bounds on the behaviour
    LastTime       \* when the clock stops, before MaxTime

ASSUME SeedingAssumption ==
    /\ Clients = {} /\ Readers = {}
    /\ Campaigns \subseteq Nat \ {0}
    /\ \A c \in Campaigns : CreatorOf[c] = Creator
    /\ GoodScore >= SeedThreshold

\* The program is called with what the scripts pass.
ASSUME ScriptArguments ==
    /\ {Creator, V1, V2, Alpha, Gamma} \subseteq Agents
    /\ <<V1, V2>> \in ValidatorLists /\ SeedAmount \in Amounts
    /\ SeedThreshold \in Thresholds /\ GoodScore \in Scores
    /\ Soon \in Nat /\ Later \in Nat /\ Later > 1 /\ LastTime \in Nat
    /\ \A t \in 0 .. LastTime :
          {t + Soon, t + Later, t + Later - 1} \subseteq Deadlines

\* The ids that a run starts from are followed by as many as it uses.
ASSUME BasesAssumption ==
    /\ MaxRuns \in Nat
    /\ \A base \in GivenBases \cup ClockBases \cup {1} :
          base \in Nat /\ base .. base + 5 \subseteq Campaigns

\* No run is short of tokens: each creates at most six campaigns.
ASSUME AmpleFunds == InitialWallet[Creator] >= 6 * MaxRuns * SeedAmount

VARIABLES
    cluster,    \* the cluster the scripts are run against
    script,     \* the run of each process
    stray,      \* transactions in flight whose run has ended
    file, blob, \* the metadata document: the public file, the blob store
    spent       \* runs, and kills or outsiders' steps, so far

seedVars == <<clientVars, cluster, script, stray, file, blob, spent>>

-----------------------------------------------------------------------------
(* What the scripts do, step by step.  A slot counts from the run's base id; *)
(* amounts, thresholds and validator lists are the same for all campaigns.   *)

Clock == [do |-> "clock"]          \* const now = Date.now()
Config == [do |-> "config"]

CheckedCreate(slot, mode, executor) ==
    [do |-> "create", slot |-> slot, mode |-> mode, executor |-> executor,
     window |-> Later, checked |-> TRUE]

Create(slot, executor, window) ==
    [do |-> "create", slot |-> slot, mode |-> "direct", executor |-> executor,
     window |-> window, checked |-> FALSE]

\* The next "skip" steps are for an open campaign only.
WhenOpen(slot, skip) == [do |-> "whenOpen", slot |-> slot, skip |-> skip]

Score(slot, validator, again) ==
    [do |-> "score", slot |-> slot, validator |-> validator, again |-> again]

Settle(slot, executor, used) ==
    [do |-> "settle", slot |-> slot, executor |-> executor, used |-> used]

Refund(slot, retryOn) ==
    [do |-> "refund", slot |-> slot, retryOn |-> retryOn]

Publish(labels) == [do |-> "publish", labels |-> labels]

SingleLabels == <<"single_live_demo">>

BundleLabels == <<"open_direct", "open_rfq", "settled_success_example",
                  "primary_live_demo", "fallback_live_demo">>

SingleScript ==
    <<Clock, CheckedCreate(0, "direct", Alpha), Publish(SingleLabels)>>

BundleScript ==
    <<Clock, CheckedCreate(0, "direct", Alpha), CheckedCreate(1, "rfq", NoKey),
      CheckedCreate(2, "direct", Gamma), WhenOpen(2, 3), Score(2, V1, TRUE),
      Score(2, V2, TRUE), Settle(2, Gamma, {V1, V2}),
      CheckedCreate(3, "direct", Alpha), CheckedCreate(4, "direct", Alpha),
      Publish(BundleLabels)>>

\* The settled and the open campaigns of seed-local, then its last two.
LocalSettled ==
    <<Config, Clock,
      Create(0, Alpha, Later), Score(0, V1, FALSE), Score(0, V2, FALSE),
      Create(1, Gamma, Later),
      Create(2, Alpha, Later), Score(2, V1, FALSE), Score(2, V2, FALSE),
      Settle(2, Alpha, {V1, V2}),
      Create(3, Gamma, Later), Score(3, V1, FALSE), Settle(3, Gamma, {V1})>>

LocalRefunded ==
    <<Clock, Create(4, Gamma, Soon), Refund(4, "deadline"),
      Create(5, Gamma, Later), Score(5, V1, FALSE)>>

LocalScript == LocalSettled \o LocalRefunded

ManualScript ==
    <<Clock, Config, Create(0, Alpha, Soon), Refund(0, "any")>>

Plan ==
    [single |-> SingleScript, bundle |-> BundleScript, local |-> LocalScript,
     manual |-> ManualScript, init |-> <<Config>>]

\* The plans that are run against each cluster.
PlansOf(where) ==
    IF where = "devnet" THEN {"init", "single", "bundle"}
    ELSE {"local", "manual"}

\* findNextCampaignBase looks for a whole free block.
BlockSize(plan) == IF plan = "single" THEN 1 ELSE 5

Slots(plan) ==
    {Plan[plan][i].slot : i \in {j \in DOMAIN Plan[plan] :
                                    Plan[plan][j].do = "create"}}

\* The slots that a script leaves settled.
SettledSlots(plan) ==
    {Plan[plan][i].slot : i \in {j \in DOMAIN Plan[plan] :
                                    Plan[plan][j].do \in {"settle", "refund"}}}

-----------------------------------------------------------------------------
(* One run *)

Off == [plan |-> "init", stage |-> "off", base |-> 0, at |-> 1, started |-> 0,
        tx |-> "none", attempt |-> 0, draft |-> << >>]

Running(p) == script[p].stage \notin {"off", "done", "failed"}

Step(p) == Plan[script[p].plan][script[p].at]

Target(p) == script[p].base + Step(p).slot

At(p, stage, do) == script[p].stage = stage /\ Step(p).do = do

Goes(p, run) == script' = [script EXCEPT ![p] = run]

\* The run after k more steps.
After(p, k) ==
    LET at == script[p].at + k IN
    [script[p] EXCEPT !.at = at, !.tx = "none", !.attempt = 0,
        !.stage = IF at > Len(Plan[script[p].plan]) THEN "done" ELSE "step"]

Sends(p) ==
    \/ script[p].stage = "ready"
    \/ script[p].stage = "step" /\ Step(p).do \in {"score", "settle", "refund"}

CreateArgs(p) ==
    [validators |-> <<V1, V2>>, threshold_bps |-> SeedThreshold,
     amount |-> SeedAmount,
     deadline_unix |-> script[p].started + Step(p).window]

\* The transaction of the current step: who signs it, what it asks for, and
\* whose token account a settlement pays.
Tx(p) ==
    LET step == Step(p)
        Sign(payer, request) ==
            [payer |-> payer, request |-> request, to |-> NoKey]
    IN
    CASE step.do = "config" -> Sign(Creator, [op |-> "initialize_config"])
      [] step.do = "create" /\ step.mode = "direct" ->
            Sign(Creator, [op |-> "createCampaign", c |-> Target(p),
                           args |-> CreateArgs(p), executor |-> step.executor])
      [] step.do = "create" /\ step.mode = "rfq" ->
            Sign(Creator, [op |-> "createCampaignRfq", c |-> Target(p),
                           args |-> CreateArgs(p),
                           rfqDeadline |-> script[p].started + Later - 1])
      [] step.do = "score" ->
            Sign(step.validator, [op |-> "submitValidatorScoreEr",
                                  c |-> Target(p), scoreBps |-> GoodScore])
      [] step.do = "settle" ->
            [payer |-> Creator, to |-> step.executor,
             request |-> [op |-> "triggerSettleSuccess", c |-> Target(p),
                          used |-> step.used]]
      [] step.do = "refund" ->
            Sign(Creator, [op |-> "triggerTimeoutRefund", c |-> Target(p)])

MayApply(tx) ==
    LET request == tx.request IN
    CASE request.op = "initialize_config" -> config = NoKey
      [] request.op = "triggerSettleSuccess" ->
            /\ MayRun(tx.payer, request)
            /\ campaign[request.c].executor = tx.to
      [] OTHER -> MayRun(tx.payer, request)

Apply(tx) ==
    /\ MayApply(tx)
    /\ IF tx.request.op = "initialize_config" THEN InitializeConfig(tx.payer)
       ELSE Run(tx.payer, tx.request)

\* What the SDK checks and the node's preflight finds when a script sends.
Accepted(p) ==
    /\ Tx(p).request.op # "initialize_config" => ValidRequest(Tx(p).request)
    /\ MayApply(Tx(p))

-----------------------------------------------------------------------------
(* The steps of a run *)

elsewhere == <<clientVars, cluster, stray, file, blob, spent>>

\* Running init-config does not count against the bound.
MayBegin(p, plan) ==
    /\ ~ Running(p)
    /\ plan # "init" => spent.runs < MaxRuns
    /\ plan \in Repeated \/ plan \notin spent.plans

Counts(plan) ==
    spent' = [spent EXCEPT !.runs = IF plan = "init" THEN @ ELSE @ + 1,
                           !.plans = @ \cup ({plan} \ Repeated)]

Begin(p, plan, base) ==
    /\ MayBegin(p, plan)
    /\ Goes(p, [Off EXCEPT !.plan = plan, !.stage = "step", !.base = base])
    /\ Counts(plan)
    /\ UNCHANGED <<clientVars, cluster, stray, file, blob>>

\* Without CAMPAIGN_BASE_ID the seeder looks for a free block from id 1 on;
\* "at" counts the ids found free.
BeginSearch(p, plan) ==
    /\ MayBegin(p, plan)
    /\ Goes(p, [Off EXCEPT !.plan = plan, !.stage = "search", !.base = 1,
                           !.at = 0])
    /\ Counts(plan)
    /\ UNCHANGED <<clientVars, cluster, stray, file, blob>>

SearchFree(p) ==
    LET run == script[p] IN
    /\ run.stage = "search"
    /\ ~ CampaignExists(run.base + run.at)
    /\ Goes(p, IF run.at + 1 = BlockSize(run.plan)
                 THEN [run EXCEPT !.at = 1, !.stage = "step"]
                 ELSE [run EXCEPT !.at = @ + 1])
    /\ UNCHANGED elsewhere

\* Bounded by the ids there are.
SearchTaken(p) ==
    LET run == script[p]
        next == run.base + BlockSize(run.plan)
    IN
    /\ run.stage = "search"
    /\ CampaignExists(run.base + run.at)
    /\ next .. next + BlockSize(run.plan) - 1 \subseteq Campaigns
    /\ Goes(p, [run EXCEPT !.at = 0, !.base = next])
    /\ UNCHANGED elsewhere

ReadClock(p) ==
    /\ At(p, "step", "clock")
    /\ Goes(p, [After(p, 1) EXCEPT !.started = now])
    /\ UNCHANGED elsewhere

CheckConfig(p) ==
    /\ At(p, "step", "config")
    /\ Goes(p, IF config # NoKey THEN After(p, 1)
               ELSE [script[p] EXCEPT !.stage = "ready"])
    /\ UNCHANGED elsewhere

CheckExists(p) ==
    /\ At(p, "step", "create")
    /\ Goes(p, IF Step(p).checked /\ CampaignExists(Target(p)) THEN After(p, 1)
               ELSE [script[p] EXCEPT !.stage = "ready"])
    /\ UNCHANGED elsewhere

\* Mutant: a scored campaign is taken for settled.
CheckUnscored(p) ==
    /\ At(p, "step", "whenOpen")
    /\ Goes(p, IF IsOpen(Target(p)) /\ score[Target(p)][V1] = NoScore
                 THEN After(p, 1)
                 ELSE After(p, 1 + Step(p).skip))
    /\ UNCHANGED elsewhere

CheckOpen(p) ==
    /\ At(p, "step", "whenOpen")
    /\ Goes(p, IF IsOpen(Target(p)) THEN After(p, 1)
               ELSE After(p, 1 + Step(p).skip))
    /\ UNCHANGED elsewhere

Submit(p) ==
    /\ Sends(p)
    /\ Accepted(p)
    /\ Goes(p, [script[p] EXCEPT !.stage = "waiting", !.tx = "inflight"])
    /\ UNCHANGED elsewhere

\* seed-devnet goes on when the score account is already in use.
Tolerated(p) ==
    /\ Step(p).do = "score"
    /\ Step(p).again
    /\ score[Target(p)][Step(p).validator] # NoScore

\* seed-local retries a refund until the deadline; manual-live retries
\* whatever the program refuses.
Retried(p) ==
    /\ Step(p).do = "refund"
    /\ script[p].attempt + 1 < MaxAttempts
    /\ IF Step(p).retryOn = "deadline"
       THEN IsOpen(Target(p)) /\ now <= campaign[Target(p)].deadline_unix
       ELSE CampaignExists(Target(p))

\* Mutant: the attempts are not counted.
RetryUncounted(p) ==
    /\ Sends(p) /\ ~ Accepted(p) /\ Retried(p)
    /\ Goes(p, [script[p] EXCEPT !.stage = "ready"])
    /\ UNCHANGED elsewhere

Retry(p) ==
    /\ Sends(p) /\ ~ Accepted(p) /\ Retried(p)
    /\ Goes(p, [script[p] EXCEPT !.stage = "ready", !.attempt = @ + 1])
    /\ UNCHANGED elsewhere

Refused(p) ==
    /\ Sends(p) /\ ~ Accepted(p) /\ ~ Retried(p)
    /\ Goes(p, IF Tolerated(p) THEN After(p, 1)
               ELSE [script[p] EXCEPT !.stage = "failed"])
    /\ UNCHANGED elsewhere

\* confirmTransaction resolves for a failed transaction too.
Confirmed(p) ==
    /\ script[p].tx \in {"ok", "failed"}
    /\ Goes(p, After(p, 1))
    /\ UNCHANGED elsewhere

\* A run that ends with a transaction in flight leaves it behind.
End(p) ==
    /\ Goes(p, [script[p] EXCEPT !.stage = "failed", !.tx = "none"])
    /\ stray' = IF script[p].tx = "inflight" THEN stray \cup {Tx(p)} ELSE stray

\* Mutant: the script goes on when the confirmation times out.
TimeoutIgnored(p) ==
    /\ script[p].stage = "waiting"
    /\ Goes(p, After(p, 1))
    /\ stray' = IF script[p].tx = "inflight" THEN stray \cup {Tx(p)} ELSE stray
    /\ UNCHANGED <<clientVars, cluster, file, blob, spent>>

Timeout(p) ==
    /\ script[p].stage = "waiting"
    /\ End(p)
    /\ UNCHANGED <<clientVars, cluster, file, blob, spent>>

\* Ctrl-C, or a read that fails.
Kill(p) ==
    /\ Running(p)
    /\ spent.disturbances < MaxDisturbances
    /\ End(p)
    /\ spent' = [spent EXCEPT !.disturbances = @ + 1]
    /\ UNCHANGED <<clientVars, cluster, file, blob>>

-----------------------------------------------------------------------------
(* The metadata document: a label for each campaign it knows *)

NoLabel == "none"

\* doc.campaigns with the run's entries added or replaced.
Upsert(doc, base, labels) ==
    [c \in Campaigns |->
        IF c - base + 1 \in DOMAIN labels THEN labels[c - base + 1] ELSE doc[c]]

ReadDocument(p) ==
    /\ At(p, "step", "publish")
    /\ Goes(p, [script[p] EXCEPT
                    !.stage = "writing",
                    !.draft = Upsert(file, script[p].base, Step(p).labels)])
    /\ UNCHANGED elsewhere

WriteDocument(p) ==
    /\ script[p].stage = "writing"
    /\ file' = script[p].draft
    /\ Goes(p, [script[p] EXCEPT !.stage = "pushing"])
    /\ UNCHANGED <<clientVars, cluster, stray, blob, spent>>

\* The metadata API stores the document as it is, if it is configured and
\* its caller authorised.
StoreMetadata(doc) == blob' \in {blob, doc}

\* A push that is not configured, refused or failed is ignored.
Push(p) ==
    /\ script[p].stage = "pushing"
    /\ StoreMetadata(script[p].draft)
    /\ Goes(p, [After(p, 1) EXCEPT !.draft = << >>])
    /\ UNCHANGED <<clientVars, cluster, stray, file, spent>>

-----------------------------------------------------------------------------
(* The chain and everybody else *)

Includes(p) ==
    /\ script[p].tx = "inflight"
    /\ Apply(Tx(p))
    /\ Goes(p, [script[p] EXCEPT !.tx = "ok"])
    /\ UNCHANGED <<call, view, cluster, stray, file, blob, spent>>

IncludesFailed(p) ==
    /\ script[p].tx = "inflight"
    /\ ~ MayApply(Tx(p))
    /\ Goes(p, [script[p] EXCEPT !.tx = "failed"])
    /\ UNCHANGED elsewhere

IncludesStray(tx) ==
    /\ Apply(tx)
    /\ stray' = stray \ {tx}
    /\ UNCHANGED <<call, view, cluster, script, file, blob, spent>>

\* The validators' keys are derived from public labels, and settlement and
\* refund are open to everybody.
Outsider ==
    /\ spent.disturbances < MaxDisturbances
    /\ \E c \in Campaigns :
          \/ SubmitValidatorScore(c, V1, GoodScore)
          \/ SettleSuccess(c, Scored(c))
          \/ SettleTimeoutRefund(c)
          \/ ExpireRfq(c)
    /\ spent' = [spent EXCEPT !.disturbances = @ + 1]
    /\ UNCHANGED <<call, view, cluster, script, stray, file, blob>>

\* Time matters to the two scripts that wait for a deadline; no run lasts
\* for days.
SeedTick ==
    /\ \E p \in Scripts : Running(p) /\ script[p].plan \in {"local", "manual"}
    /\ \A p \in Scripts : Running(p) => now + 1 < script[p].started + Later - 1
    /\ now < LastTime
    /\ Tick
    /\ UNCHANGED <<call, view, cluster, script, stray, file, blob, spent>>

-----------------------------------------------------------------------------
(* Specification *)

SeedInit ==
    /\ ClientInit
    /\ cluster \in {"devnet", "localnet"}
    /\ script = [p \in Scripts |-> Off]
    /\ stray = {}
    /\ file = [c \in Campaigns |-> NoLabel]
    /\ blob = file
    /\ spent = [runs |-> 0, plans |-> {}, disturbances |-> 0]

\* Which idle process runs the next script makes no difference.
NextProcess ==
    CHOOSE p \in Scripts : Running(p) => \A q \in Scripts : Running(q)

Begins(p) ==
    /\ p = NextProcess
    /\ \E plan \in PlansOf(cluster) :
        \/ \E base \in IF cluster = "devnet" THEN GivenBases ELSE ClockBases :
              Begin(p, plan, base)
        \/ plan \in {"single", "bundle"} /\ BeginSearch(p, plan)

ScriptStep(p) ==
    \/ SearchFree(p)
    \/ SearchTaken(p)
    \/ ReadClock(p)
    \/ CheckConfig(p)
    \/ CheckExists(p)
    \/ CheckOpen(p)
    \/ Submit(p)
    \/ Retry(p)
    \/ Refused(p)
    \/ Confirmed(p)
    \/ Timeout(p)
    \/ ReadDocument(p)
    \/ WriteDocument(p)
    \/ Push(p)

SeedNext ==
    \/ \E p \in Scripts :
          \/ Begins(p)
          \/ ScriptStep(p)
          \/ Kill(p)
          \/ Includes(p)
          \/ IncludesFailed(p)
    \/ \E tx \in stray : IncludesStray(tx)
    \/ Outsider
    \/ SeedTick

SeedSpec == SeedInit /\ [][SeedNext]_seedVars

\* The event loop runs what is ready, and confirmTransaction ends.
FairSeedSpec == SeedSpec /\ \A p \in Scripts : WF_seedVars(ScriptStep(p))

-----------------------------------------------------------------------------
(* Properties *)

\* A seeder that completes has left the block it reports as described: all
\* its campaigns exist and those meant to be settled are, although it never
\* looks at the outcome of a transaction, other runs skip, fill and settle
\* the same ids, and runs cut off before it left transactions in flight.
CompletedMeansSeeded ==
    \A p \in Scripts :
        script[p].stage = "done" =>
            /\ \A slot \in Slots(script[p].plan) :
                  CampaignExists(script[p].base + slot)
            /\ \A slot \in SettledSlots(script[p].plan) :
                  Settled(script[p].base + slot)

\* The dashboard is never given the title of a campaign that does not
\* exist, in whatever order the seeders write the file and push the blob.
PublishedCampaignsExist ==
    \A c \in Campaigns :
        file[c] # NoLabel \/ blob[c] # NoLabel => CampaignExists(c)

\* Every run comes to an end: no search, retry or wait goes on for ever,
\* whatever the chain includes and whoever interferes (under FairSeedSpec).
SeedersEnd == \A p \in Scripts : Running(p) ~> ~ Running(p)

=============================================================================
