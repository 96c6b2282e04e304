--------------------------- MODULE SeedingProofs ---------------------------
(***************************************************************************)
(* Theorems about the seeding scripts, for any number of processes, runs,  *)
(* ids to start from and disturbances.                                     *)
(***************************************************************************)
EXTENDS Seeding, PoeClientProofs, SequenceTheorems

-----------------------------------------------------------------------------
(* The invariant *)

\* The ids a plan uses count from the run's base id.
Size(plan) == CASE plan = "init" -> 0
                [] plan = "single" -> 1
                [] plan = "bundle" -> 5
                [] OTHER -> 6

Block(run) == run.base .. run.base + Size(run.plan) - 1

\* A run that has its base id.
Placed(run) == run.stage \in {"step", "ready", "waiting", "writing", "pushing"}

Labels == {NoLabel, "single_live_demo", "open_direct", "open_rfq",
           "settled_success_example", "primary_live_demo", "fallback_live_demo"}

RunRecord ==
    [plan : DOMAIN Plan,
     stage : {"off", "search", "step", "ready", "waiting", "writing", "pushing",
              "done", "failed"},
     base : Nat, at : Nat, started : 0 .. LastTime,
     tx : {"none", "inflight", "ok", "failed"},
     attempt : Nat, draft : [Campaigns -> Labels] \cup {<< >>}]

SentSteps == {"config", "create", "score", "settle", "refund"}

RunTyped(run) ==
    /\ run \in RunRecord
    /\ Placed(run) =>
          /\ run.plan \in PlansOf(cluster)
          /\ run.at \in 1 .. Len(Plan[run.plan])
          /\ Block(run) \subseteq Campaigns
    /\ run.stage = "search" =>
          /\ run.plan \in PlansOf(cluster) \cap {"single", "bundle"}
          /\ Block(run) \subseteq Campaigns
    /\ run.stage = "done" =>
          run.at = Len(Plan[run.plan]) + 1 /\ Block(run) \subseteq Campaigns
    /\ run.stage \in {"ready", "waiting"} =>
          Plan[run.plan][run.at].do \in SentSteps
    /\ run.stage = "waiting" <=> run.tx # "none"
    /\ run.stage \in {"writing", "pushing"} =>
          /\ Plan[run.plan][run.at].do = "publish"
          /\ run.draft \in [Campaigns -> Labels]

\* A transaction of a script.
SeedArgs == {args \in CampaignArgs : args.amount = SeedAmount}

Creates == {"createCampaign", "createCampaignRfq"}

SeedTx(tx) ==
    LET request == tx.request IN
    /\ tx.payer \in Agents
    /\ request.op \in Creates \cup {"initialize_config", "submitValidatorScoreEr",
                          "triggerSettleSuccess", "triggerTimeoutRefund"}
    /\ request.op # "initialize_config" => request.c \in Campaigns
    /\ request.op \in Creates => request.args \in SeedArgs
    /\ request.op = "createCampaign" => request.executor \in Keys
    /\ request.op = "createCampaignRfq" =>
          request.rfqDeadline \in Deadlines /\ cluster = "devnet"
    /\ request.op = "submitValidatorScoreEr" => request.scoreBps = GoodScore
    /\ request.op = "triggerSettleSuccess" => request.used \in SUBSET Agents

SeedTypeOK ==
    /\ TypeOK
    /\ now <= LastTime
    /\ cluster \in {"devnet", "localnet"}
    /\ script \in [Scripts -> RunRecord]
    /\ \A p \in Scripts : RunTyped(script[p])
    /\ \A tx \in stray : SeedTx(tx)
    /\ file \in [Campaigns -> Labels] /\ blob \in [Campaigns -> Labels]
    /\ spent \in [runs : 0 .. MaxRuns, plans : SUBSET DOMAIN Plan,
                  disturbances : Nat]

\* On this chain validators are registered with their campaign, and bids are
\* asked for on devnet only, where the clock stands still.
ChainInv ==
    \A c \in Campaigns :
        /\ ~ CampaignExists(c) => vset[c] = << >>
        /\ CampaignExists(c) /\ campaign[c].mode = "rfq" =>
              cluster = "devnet" /\ now < campaign[c].rfq_deadline_unix

\* The ids that campaigns have or that a run or a stray transaction may take.
Created == {c \in Campaigns : CampaignExists(c)}

StrayIds == {tx.request.c : tx \in {t \in stray : t.request.op \in Creates}}

Claimed ==
    Created \cup StrayIds
        \cup UNION {Block(script[p]) : p \in {q \in Scripts : Placed(script[q])}}

Searching == {p \in Scripts : script[p].stage = "search"}

\* Every run takes six ids at most, and what it creates is paid for.
FundsInv ==
    /\ IsFiniteSet(Claimed) /\ IsFiniteSet(Searching)
    /\ Cardinality(Claimed) + 6 * Cardinality(Searching) <= 6 * spent.runs
    /\ wallet[Creator] + SeedAmount * Cardinality(Created) >= InitialWallet[Creator]

\* The deadlines of a run that has read the clock are days away.
TimeOf(run) ==
    Placed(run) => \A i \in 1 .. run.at - 1 :
        Plan[run.plan][i].do = "clock" => now + 1 < run.started + Later

TimeInv == \A p \in Scripts : TimeOf(script[p])

\* Steps after which something is on chain: a short-lived campaign may be
\* refused, but then the refund that follows is too.
Matters(step) ==
    \/ step.do = "create" /\ step.window = Later
    \/ step.do \in {"settle", "refund"}

Reached(step, base) ==
    IF step.do = "create" THEN CampaignExists(base + step.slot)
    ELSE Settled(base + step.slot)

\* What a run has passed is on chain.
PassedBy(run) ==
    Placed(run) \/ run.stage = "done" =>
        \A i \in 1 .. run.at - 1 :
            Matters(Plan[run.plan][i]) => Reached(Plan[run.plan][i], run.base)

PassedInv == \A p \in Scripts : PassedBy(script[p])

\* What it waits for will be, or is by somebody else's doing.
Possible ==
    /\ config # NoKey
    /\ SeedAmount > 0 /\ SeedThreshold \in 1 .. BPS_DENOMINATOR
    /\ MaxValidators >= 2

Allowed(step, base) ==
    LET c == base + step.slot IN
    \/ step.do = "create"
    \/ /\ step.do = "settle"
       /\ MaySettle(c, step.used) /\ campaign[c].executor = step.executor
    \/ step.do = "refund" /\ RefundAllowed(c)

WaitingOf(run) ==
    LET step == Plan[run.plan][run.at] IN
    run.stage = "waiting" =>
        /\ step.do = "create" => Possible
        /\ Matters(step) => \/ Reached(step, run.base)
                            \/ run.tx = "inflight" /\ Allowed(step, run.base)

WaitingInv == \A p \in Scripts : WaitingOf(script[p])

\* Labels are drafted, written and pushed for campaigns that exist.
Documented(doc) == \A c \in Campaigns : doc[c] # NoLabel => CampaignExists(c)

DraftOf(run) == run.stage \in {"writing", "pushing"} => Documented(run.draft)

DocumentInv ==
    /\ Documented(file) /\ Documented(blob)
    /\ \A p \in Scripts : DraftOf(script[p])

SeedInv ==
    /\ SeedTypeOK
    /\ InductiveInvariant
    /\ ChainInv
    /\ FundsInv
    /\ TimeInv
    /\ PassedInv
    /\ WaitingInv
    /\ DocumentInv

-----------------------------------------------------------------------------
(* The plans *)

Plans == {"single", "bundle", "local", "manual", "init"}

LEMMA LocalSteps ==
    /\ Len(LocalScript) = 18
    /\ \A i \in 1 .. 13 : LocalScript[i] = LocalSettled[i]
    /\ \A i \in 14 .. 18 : LocalScript[i] = LocalRefunded[i - 13]
<1> DEFINE S == {LocalSettled[i] : i \in 1 .. 13} \cup {LocalRefunded[i] : i \in 1 .. 5}
<1>1. Len(LocalSettled) = 13 /\ \A i \in 1 .. 13 : LocalSettled[i] \in S
  BY DEF LocalSettled
<1>2. Len(LocalRefunded) = 5 /\ \A i \in 1 .. 5 : LocalRefunded[i] \in S
  BY DEF LocalRefunded
<1>3. LocalSettled = [i \in 1 .. 13 |-> LocalSettled[i]]
  BY DEF LocalSettled
<1>4. LocalRefunded = [i \in 1 .. 5 |-> LocalRefunded[i]]
  BY DEF LocalRefunded
<1> HIDE DEF S
<1>5. LocalSettled \in Seq(S)
  BY <1>1, <1>3
<1>6. LocalRefunded \in Seq(S)
  BY <1>2, <1>4
<1> DEFINE s == LocalSettled \o LocalRefunded
<1>7. /\ Len(s) = 13 + 5
      /\ \A i \in 1 .. 13 + 5 :
            s[i] = IF i <= 13 THEN LocalSettled[i] ELSE LocalRefunded[i - 13]
  <2>1. /\ Len(s) = Len(LocalSettled) + Len(LocalRefunded)
        /\ \A i \in 1 .. Len(LocalSettled) + Len(LocalRefunded) :
              s[i] = IF i <= Len(LocalSettled) THEN LocalSettled[i]
                     ELSE LocalRefunded[i - Len(LocalSettled)]
    BY <1>5, <1>6, ConcatProperties, Zenon
  <2> HIDE DEF s
  <2> QED
    BY <1>1, <1>2, <2>1
<1>8. LocalScript = s
  BY DEF LocalScript
<1> HIDE DEF s
<1> QED
  BY <1>7, <1>8

LEMMA PlanLengths ==
    /\ DOMAIN Plan = Plans
    /\ Plan["single"] = SingleScript /\ Len(SingleScript) = 3
    /\ Plan["bundle"] = BundleScript /\ Len(BundleScript) = 11
    /\ Plan["local"] = LocalScript /\ Len(LocalScript) = 18
    /\ Plan["manual"] = ManualScript /\ Len(ManualScript) = 4
    /\ Plan["init"] = <<Config>> /\ Len(<<Config>>) = 1
<1>1. /\ DOMAIN Plan = Plans
      /\ Plan["single"] = SingleScript /\ Plan["bundle"] = BundleScript
      /\ Plan["local"] = LocalScript /\ Plan["manual"] = ManualScript
      /\ Plan["init"] = <<Config>>
  BY DEF Plan, Plans
<1>2. Len(SingleScript) = 3 /\ Len(BundleScript) = 11 /\ Len(ManualScript) = 4
  BY DEF SingleScript, BundleScript, ManualScript
<1> QED
  BY <1>1, <1>2, LocalSteps

LEMMA PlanDomains ==
    ASSUME NEW plan \in DOMAIN Plan
    PROVE  DOMAIN Plan[plan] = 1 .. Len(Plan[plan])
<1>1. /\ DOMAIN SingleScript = 1 .. 3 /\ DOMAIN BundleScript = 1 .. 11
      /\ DOMAIN ManualScript = 1 .. 4 /\ DOMAIN <<Config>> = 1 .. 1
  BY DEF SingleScript, BundleScript, ManualScript
<1>2. DOMAIN LocalScript = 1 .. Len(LocalScript)
  <2> DEFINE S == {LocalSettled[i] : i \in 1 .. 13} \cup {LocalRefunded[i] : i \in 1 .. 5}
             s == LocalSettled \o LocalRefunded
  <2>1. /\ \A i \in 1 .. 13 : LocalSettled[i] \in S
        /\ \A i \in 1 .. 5 : LocalRefunded[i] \in S
    OBVIOUS
  <2>2. LocalSettled = [i \in 1 .. 13 |-> LocalSettled[i]]
    BY DEF LocalSettled
  <2>3. LocalRefunded = [i \in 1 .. 5 |-> LocalRefunded[i]]
    BY DEF LocalRefunded
  <2> HIDE DEF S
  <2>4. LocalSettled \in Seq(S) /\ LocalRefunded \in Seq(S)
    BY <2>1, <2>2, <2>3
  <2>5. s \in Seq(S)
    BY <2>4, ConcatProperties, Zenon
  <2>6. s = LocalScript
    BY DEF LocalScript
  <2> HIDE DEF s
  <2>7. DOMAIN s = 1 .. Len(s)
    BY <2>5, LenProperties
  <2> QED
    BY <2>6, <2>7
<1> QED
  BY <1>1, <1>2, PlanLengths DEF Plans

\* Step i of a plan s that uses n ids.
StepWell(s, i, n) ==
    /\ s[i].do \in {"clock", "config", "create", "whenOpen", "score", "settle",
                    "refund", "publish"}
    /\ s[i].do \in {"create", "whenOpen", "score", "settle", "refund"} =>
          s[i].slot \in 0 .. n - 1
    /\ s[i].do = "create" =>
          /\ s[i].mode \in {"direct", "rfq"} /\ s[i].executor \in {NoKey, Alpha, Gamma}
          /\ s[i].window \in {Soon, Later}
          /\ s[i].mode = "rfq" => s[i].window = Later /\ n = 5
          /\ \E j \in 1 .. i - 1 : s[j].do = "clock"
          /\ \/ s[i].window = Later
             \/ \E j \in 1 .. Len(s) : s[j].do = "refund" /\ s[j].slot = s[i].slot
    /\ s[i].do = "score" => s[i].validator \in {V1, V2}
    /\ s[i].do = "settle" =>
          s[i].executor \in {Alpha, Gamma} /\ s[i].used \subseteq {V1, V2}

\* The steps that WhenOpen skips are about its slot, which was created before.
SkipsWell(s, i) ==
    s[i].do = "whenOpen" =>
        /\ s[i].skip \in Nat /\ i + 1 + s[i].skip <= Len(s)
        /\ \E j \in 1 .. i - 1 : /\ s[j].do = "create" /\ s[j].window = Later
                                 /\ s[j].slot = s[i].slot
        /\ \A j \in i + 1 .. i + s[i].skip :
              s[j].do \in {"score", "settle"} /\ s[j].slot = s[i].slot

\* What is published was created before.
PublishesWell(s, i) ==
    s[i].do = "publish" =>
        \A k \in DOMAIN s[i].labels :
            /\ k \in Int /\ s[i].labels[k] \in Labels
            /\ \E j \in 1 .. i - 1 : /\ s[j].do = "create" /\ s[j].window = Later
                                     /\ s[j].slot = k - 1

Well(s, n) ==
    \A i \in 1 .. Len(s) : StepWell(s, i, n) /\ SkipsWell(s, i) /\ PublishesWell(s, i)

LEMMA SingleWell == Well(SingleScript, 1)
<1>1. /\ Len(SingleScript) = 3 /\ SingleScript[1] = Clock
      /\ SingleScript[2] = CheckedCreate(0, "direct", Alpha)
      /\ SingleScript[3] = Publish(SingleLabels)
  BY DEF SingleScript
<1>2. DOMAIN SingleLabels = {1} /\ SingleLabels[1] = "single_live_demo"
  BY DEF SingleLabels
<1> USE DEF StepWell, SkipsWell, PublishesWell, Clock, CheckedCreate, Publish
<1> DEFINE s == SingleScript
<1>3. \A i \in 1 .. 3 : StepWell(s, i, 1)
  BY <1>1
<1>4. \A i \in 1 .. 3 : SkipsWell(s, i)
  BY <1>1
<1>5. \A i \in 1 .. 3 : PublishesWell(s, i)
  BY <1>1, <1>2 DEF Labels
<1> QED
  BY <1>1, <1>3, <1>4, <1>5 DEF Well

LEMMA BundleWell == Well(BundleScript, 5)
<1> DEFINE s == BundleScript
<1>1. /\ Len(s) = 11 /\ s[1] = Clock
      /\ s[2] = CheckedCreate(0, "direct", Alpha)
      /\ s[3] = CheckedCreate(1, "rfq", NoKey)
      /\ s[4] = CheckedCreate(2, "direct", Gamma) /\ s[5] = WhenOpen(2, 3)
      /\ s[6] = Score(2, V1, TRUE) /\ s[7] = Score(2, V2, TRUE)
      /\ s[8] = Settle(2, Gamma, {V1, V2})
      /\ s[9] = CheckedCreate(3, "direct", Alpha)
      /\ s[10] = CheckedCreate(4, "direct", Alpha)
      /\ s[11] = Publish(BundleLabels)
  BY DEF BundleScript
<1>2. DOMAIN BundleLabels = 1 .. 5 /\ \A k \in 1 .. 5 : BundleLabels[k] \in Labels
  BY DEF BundleLabels, Labels
<1> HIDE DEF s
<1> USE DEF Clock, CheckedCreate, WhenOpen, Score, Settle, Publish
<1>3. \A i \in 1 .. 11 : StepWell(s, i, 5)
  BY <1>1 DEF StepWell
<1>4. \A i \in 1 .. 11 : SkipsWell(s, i)
  <2>1. SkipsWell(s, 5)
    BY <1>1 DEF SkipsWell
  <2>2. \A i \in 1 .. 11 : i # 5 => s[i].do # "whenOpen"
    BY <1>1
  <2> QED
    BY <2>1, <2>2 DEF SkipsWell
<1>5. \A i \in 1 .. 11 : PublishesWell(s, i)
  <2>1. \A i \in 1 .. 10 : s[i].do # "publish"
    BY <1>1
  <2>2. \A k \in 1 .. 5 : \E j \in 1 .. 10 :
            s[j].do = "create" /\ s[j].window = Later /\ s[j].slot = k - 1
    BY <1>1
  <2>3. PublishesWell(s, 11)
    BY <1>1, <1>2, <2>2 DEF PublishesWell
  <2> QED
    BY <2>1, <2>3 DEF PublishesWell
<1> QED
  BY <1>1, <1>3, <1>4, <1>5 DEF Well, s

LEMMA LocalWell == Well(LocalScript, 6)
<1> DEFINE s == LocalScript
<1>1. /\ Len(s) = 18 /\ s[1] = Config /\ s[2] = Clock
      /\ s[3] = Create(0, Alpha, Later) /\ s[4] = Score(0, V1, FALSE)
      /\ s[5] = Score(0, V2, FALSE) /\ s[6] = Create(1, Gamma, Later)
      /\ s[7] = Create(2, Alpha, Later) /\ s[8] = Score(2, V1, FALSE)
      /\ s[9] = Score(2, V2, FALSE) /\ s[10] = Settle(2, Alpha, {V1, V2})
      /\ s[11] = Create(3, Gamma, Later) /\ s[12] = Score(3, V1, FALSE)
      /\ s[13] = Settle(3, Gamma, {V1})
  <2>1. \A i \in 1 .. 13 : s[i] = LocalSettled[i]
    BY LocalSteps
  <2> DEFINE t == LocalSettled
  <2>2. /\ t[1] = Config /\ t[2] = Clock
        /\ t[3] = Create(0, Alpha, Later) /\ t[4] = Score(0, V1, FALSE)
        /\ t[5] = Score(0, V2, FALSE) /\ t[6] = Create(1, Gamma, Later)
        /\ t[7] = Create(2, Alpha, Later) /\ t[8] = Score(2, V1, FALSE)
        /\ t[9] = Score(2, V2, FALSE) /\ t[10] = Settle(2, Alpha, {V1, V2})
        /\ t[11] = Create(3, Gamma, Later) /\ t[12] = Score(3, V1, FALSE)
        /\ t[13] = Settle(3, Gamma, {V1})
    BY DEF LocalSettled
  <2> HIDE DEF s, t
  <2>3. \A i \in 1 .. 13 : s[i] = t[i]
    BY <2>1 DEF t
  <2>4. Len(s) = 18
    BY LocalSteps DEF s
  <2>5. /\ s[1] = t[1] /\ s[2] = t[2] /\ s[3] = t[3] /\ s[4] = t[4]
        /\ s[5] = t[5] /\ s[6] = t[6] /\ s[7] = t[7] /\ s[8] = t[8]
        /\ s[9] = t[9] /\ s[10] = t[10] /\ s[11] = t[11] /\ s[12] = t[12]
        /\ s[13] = t[13]
    BY <2>3
  <2> QED
    BY <2>2, <2>4, <2>5
<1>2. /\ s[14] = Clock /\ s[15] = Create(4, Gamma, Soon)
      /\ s[16] = Refund(4, "deadline") /\ s[17] = Create(5, Gamma, Later)
      /\ s[18] = Score(5, V1, FALSE)
  <2>1. \A i \in 14 .. 18 : s[i] = LocalRefunded[i - 13]
    BY LocalSteps
  <2> DEFINE t == LocalRefunded
  <2>2. /\ t[1] = Clock /\ t[2] = Create(4, Gamma, Soon)
        /\ t[3] = Refund(4, "deadline") /\ t[4] = Create(5, Gamma, Later)
        /\ t[5] = Score(5, V1, FALSE)
    BY DEF LocalRefunded
  <2> HIDE DEF s, t
  <2>3. \A i \in 14 .. 18 : s[i] = t[i - 13]
    BY <2>1 DEF t
  <2>4. /\ s[14] = t[1] /\ s[15] = t[2] /\ s[16] = t[3] /\ s[17] = t[4]
        /\ s[18] = t[5]
    BY <2>3
  <2> QED
    BY <2>2, <2>4
<1> HIDE DEF s
<1> USE DEF Config, Clock, Create, Score, Settle, Refund
<1>3. \A i \in 1 .. 18 : StepWell(s, i, 6)
  <2>1. \A i \in 1 .. 13 : StepWell(s, i, 6)
    BY <1>1 DEF StepWell
  <2>2. \A i \in 14 .. 18 : StepWell(s, i, 6)
    BY <1>1, <1>2 DEF StepWell
  <2> QED
    BY <2>1, <2>2
<1>4. \A i \in 1 .. 18 : s[i].do # "whenOpen" /\ s[i].do # "publish"
  BY <1>1, <1>2
<1> QED
  BY <1>1, <1>3, <1>4 DEF Well, SkipsWell, PublishesWell, s

LEMMA ManualWell == Well(ManualScript, 6)
<1> DEFINE s == ManualScript
<1>1. /\ Len(s) = 4 /\ s[1] = Clock /\ s[2] = Config
      /\ s[3] = Create(0, Alpha, Soon) /\ s[4] = Refund(0, "any")
  BY DEF ManualScript
<1> HIDE DEF s
<1> USE DEF Config, Clock, Create, Refund
<1>2. \A i \in 1 .. 4 : StepWell(s, i, 6)
  BY <1>1 DEF StepWell
<1>3. \A i \in 1 .. 4 : s[i].do # "whenOpen" /\ s[i].do # "publish"
  BY <1>1
<1> QED
  BY <1>1, <1>2, <1>3 DEF Well, SkipsWell, PublishesWell, s

LEMMA InitWell == Well(<<Config>>, 0)
<1> DEFINE s == <<Config>>
<1>1. Len(s) = 1 /\ s[1].do = "config"
  BY DEF Config
<1> HIDE DEF s
<1> QED
  BY <1>1 DEF Well, StepWell, SkipsWell, PublishesWell, s

LEMMA PlansWell ==
    ASSUME NEW plan \in DOMAIN Plan
    PROVE  Well(Plan[plan], Size(plan)) /\ Len(Plan[plan]) \in Nat \ {0}
<1> USE DEF Size
<1>1. CASE plan = "single"
  BY <1>1, PlanLengths, SingleWell
<1>2. CASE plan = "bundle"
  BY <1>2, PlanLengths, BundleWell
<1>3. CASE plan = "local"
  BY <1>3, PlanLengths, LocalWell
<1>4. CASE plan = "manual"
  BY <1>4, PlanLengths, ManualWell
<1>5. CASE plan = "init"
  BY <1>5, PlanLengths, InitWell
<1> QED
  BY <1>1, <1>2, <1>3, <1>4, <1>5, PlanLengths DEF Plans

-----------------------------------------------------------------------------
(* The transactions of the scripts *)

LEMMA Arguments ==
    /\ {Creator, V1, V2, Alpha, Gamma} \subseteq Agents
    /\ <<V1, V2>> \in ValidatorLists /\ SeedAmount \in Amounts
    /\ SeedThreshold \in Thresholds /\ GoodScore \in Scores
    /\ Soon \in Nat /\ Later \in Nat /\ Later > 1 /\ LastTime \in Nat
    /\ \A t \in 0 .. LastTime :
          {t + Soon, t + Later, t + Later - 1} \subseteq Deadlines
BY ScriptArguments, Zenon

LEMMA Setting ==
    /\ Campaigns \subseteq Nat \ {0}
    /\ \A c \in Campaigns : CreatorOf[c] = Creator
    /\ MaxRuns \in Nat
    /\ SeedAmount \in Nat /\ SeedThreshold \in Nat
    /\ NoKey \notin Agents
<1>1. Campaigns \subseteq Nat \ {0} /\ \A c \in Campaigns : CreatorOf[c] = Creator
  BY SeedingAssumption, Zenon
<1>2. MaxRuns \in Nat
  BY BasesAssumption, Zenon
<1>3. Amounts \subseteq Nat /\ Thresholds \subseteq Nat
  BY ArgumentsAssumption, Zenon
<1>4. NoKey \notin Agents
  BY KeysAssumption, Zenon
<1> QED
  BY <1>1, <1>2, <1>3, <1>4, Arguments

LEMMA RunFacts ==
    ASSUME NEW run, RunTyped(run), Placed(run)
    PROVE  /\ run.plan \in DOMAIN Plan /\ run.base \in Nat /\ run.at \in Nat
           /\ run.at \in 1 .. Len(Plan[run.plan]) /\ Len(Plan[run.plan]) \in Nat
           /\ run.started \in 0 .. LastTime
           /\ Block(run) \subseteq Campaigns
           /\ run.plan = "bundle" => cluster = "devnet"
           /\ StepWell(Plan[run.plan], run.at, Size(run.plan))
           /\ SkipsWell(Plan[run.plan], run.at)
           /\ PublishesWell(Plan[run.plan], run.at)
<1>1. /\ run.plan \in DOMAIN Plan /\ run.base \in Nat /\ run.at \in Nat
      /\ run.started \in 0 .. LastTime
      /\ run.at \in 1 .. Len(Plan[run.plan]) /\ Block(run) \subseteq Campaigns
      /\ run.plan \in PlansOf(cluster)
  BY DEF RunTyped, RunRecord
<1>2. Well(Plan[run.plan], Size(run.plan)) /\ Len(Plan[run.plan]) \in Nat
  BY <1>1, PlansWell
<1>3. run.plan = "bundle" => cluster = "devnet"
  BY <1>1 DEF PlansOf
<1> QED
  BY <1>1, <1>2, <1>3 DEF Well

\* Ids of the steps of a run.
LEMMA TargetInBlock ==
    ASSUME NEW run, RunTyped(run), Placed(run), NEW slot \in 0 .. Size(run.plan) - 1
    PROVE  run.base + slot \in Block(run) /\ run.base + slot \in Campaigns
<1>1. run.base \in Nat /\ Block(run) \subseteq Campaigns
  BY RunFacts
<1>2. Size(run.plan) \in Nat
  BY DEF Size
<1> QED
  BY <1>1, <1>2 DEF Block

LEMMA CreateArgsTyped ==
    ASSUME NEW p \in Scripts, RunTyped(script[p]), Placed(script[p]),
           Step(p).do = "create"
    PROVE  /\ CreateArgs(p) \in SeedArgs
           /\ CreateArgs(p).amount = SeedAmount
           /\ CreateArgs(p).threshold_bps = SeedThreshold
           /\ CreateArgs(p).validators = <<V1, V2>>
           /\ CreateArgs(p).deadline_unix = script[p].started + Step(p).window
           /\ script[p].started + Later - 1 \in Deadlines
<1>1. script[p].started \in 0 .. LastTime /\ Step(p).window \in {Soon, Later}
  BY RunFacts DEF Step, StepWell
<1>2. /\ script[p].started + Step(p).window \in Deadlines
      /\ script[p].started + Later - 1 \in Deadlines
  BY <1>1, Arguments
<1> DEFINE deadline == script[p].started + Step(p).window
<1>3. CreateArgs(p) = [validators |-> <<V1, V2>>, threshold_bps |-> SeedThreshold,
                       amount |-> SeedAmount, deadline_unix |-> deadline]
  BY DEF CreateArgs
<1> DEFINE list == <<V1, V2>>
<1>4. list \in ValidatorLists /\ SeedAmount \in Amounts /\ SeedThreshold \in Thresholds
  BY Arguments
<1> HIDE DEF deadline, list
<1>5. CreateArgs(p) = [validators |-> list, threshold_bps |-> SeedThreshold,
                       amount |-> SeedAmount, deadline_unix |-> deadline]
  BY <1>3 DEF list
<1>6. deadline \in Deadlines
  BY <1>2 DEF deadline
<1>7. CreateArgs(p) \in SeedArgs
  BY <1>4, <1>5, <1>6 DEF SeedArgs, CampaignArgs
<1>8. CreateArgs(p).deadline_unix = deadline
  BY <1>5
<1>9. CreateArgs(p).validators = list
  BY <1>5
<1> QED
  BY <1>2, <1>5, <1>7, <1>8, <1>9 DEF deadline, list

\* What the transaction of a step asks for.
LEMMA TxForms ==
    ASSUME NEW p, Step(p).do \in SentSteps
    PROVE  /\ Step(p).do = "config" =>
                 Tx(p).request = [op |-> "initialize_config"] /\ Tx(p).payer = Creator
           /\ Step(p).do = "create" /\ Step(p).mode = "direct" =>
                 /\ Tx(p).request = [op |-> "createCampaign", c |-> Target(p),
                           args |-> CreateArgs(p), executor |-> Step(p).executor]
                 /\ Tx(p).payer = Creator
           /\ Step(p).do = "create" /\ Step(p).mode = "rfq" =>
                 /\ Tx(p).request = [op |-> "createCampaignRfq", c |-> Target(p),
                           args |-> CreateArgs(p),
                           rfqDeadline |-> script[p].started + Later - 1]
                 /\ Tx(p).payer = Creator
           /\ Step(p).do = "score" =>
                 /\ Tx(p).request = [op |-> "submitValidatorScoreEr",
                           c |-> Target(p), scoreBps |-> GoodScore]
                 /\ Tx(p).payer = Step(p).validator
           /\ Step(p).do = "settle" =>
                 /\ Tx(p).request = [op |-> "triggerSettleSuccess",
                           c |-> Target(p), used |-> Step(p).used]
                 /\ Tx(p).payer = Creator /\ Tx(p).to = Step(p).executor
           /\ Step(p).do = "refund" =>
                 /\ Tx(p).request = [op |-> "triggerTimeoutRefund", c |-> Target(p)]
                 /\ Tx(p).payer = Creator
BY DEF Tx, SentSteps

LEMMA TxTyped ==
    ASSUME NEW p \in Scripts, RunTyped(script[p]), Placed(script[p]),
           Step(p).do \in SentSteps
    PROVE  /\ SeedTx(Tx(p))
           /\ Step(p).do # "config" =>
                 /\ Tx(p).request.c = Target(p)
                 /\ Target(p) \in Block(script[p]) /\ Target(p) \in Campaigns
           /\ Tx(p).request.op \in Creates <=> Step(p).do = "create"
           /\ Tx(p).request.op = "initialize_config" <=> Step(p).do = "config"
<1> DEFINE step == Step(p)
           c == Target(p)
<1>1. StepWell(Plan[script[p].plan], script[p].at, Size(script[p].plan))
  BY RunFacts
<1>2. step.do # "config" => step.slot \in 0 .. Size(script[p].plan) - 1
  BY <1>1 DEF StepWell, Step, SentSteps
<1>3. step.do # "config" => c \in Block(script[p]) /\ c \in Campaigns
  BY <1>2, TargetInBlock DEF Target
<1>4. Creator \in Agents
  BY Arguments
<1> DEFINE Fits(tx) ==
             /\ SeedTx(tx)
             /\ step.do # "config" => tx.request.c = c
             /\ tx.request.op \in Creates <=> step.do = "create"
             /\ tx.request.op = "initialize_config" <=> step.do = "config"
<1> SUFFICES Fits(Tx(p))
  BY <1>3
<1> HIDE DEF step, c
<1> USE DEF SeedTx, Creates
<1>5. ASSUME NEW tx, step.do = "config", tx.payer = Creator,
             tx.request = [op |-> "initialize_config"]
      PROVE  Fits(tx)
  BY <1>4, <1>5
<1>6. ASSUME NEW tx, step.do = "create", tx.payer = Creator, NEW args \in SeedArgs,
             NEW executor \in Keys,
             tx.request = [op |-> "createCampaign", c |-> c, args |-> args,
                           executor |-> executor]
      PROVE  Fits(tx)
  BY <1>3, <1>4, <1>6
<1>7. ASSUME NEW tx, step.do = "create", tx.payer = Creator, NEW args \in SeedArgs,
             NEW rfqDeadline \in Deadlines, cluster = "devnet",
             tx.request = [op |-> "createCampaignRfq", c |-> c, args |-> args,
                           rfqDeadline |-> rfqDeadline]
      PROVE  Fits(tx)
  BY <1>3, <1>4, <1>7
<1>8. ASSUME NEW tx, step.do = "score", tx.payer \in Agents,
             tx.request = [op |-> "submitValidatorScoreEr", c |-> c,
                           scoreBps |-> GoodScore]
      PROVE  Fits(tx)
  BY <1>3, <1>8
<1>9. ASSUME NEW tx, step.do = "settle", tx.payer = Creator,
             NEW used \in SUBSET Agents,
             tx.request = [op |-> "triggerSettleSuccess", c |-> c, used |-> used]
      PROVE  Fits(tx)
  BY <1>3, <1>4, <1>9
<1>10. ASSUME NEW tx, step.do = "refund", tx.payer = Creator,
              tx.request = [op |-> "triggerTimeoutRefund", c |-> c]
       PROVE  Fits(tx)
  BY <1>3, <1>4, <1>10
<1> HIDE DEF Fits
<1>11. CASE step.do = "config"
  BY <1>5, <1>11, TxForms DEF step
<1>12. CASE step.do = "create" /\ step.mode = "direct"
  <2>1. step.executor \in Keys
    BY <1>1, <1>12, Arguments DEF StepWell, Step, Keys, step
  <2>2. CreateArgs(p) \in SeedArgs
    BY <1>12, CreateArgsTyped DEF step
  <2> QED
    BY <1>6, <1>12, <2>1, <2>2, TxForms DEF step, c
<1>13. CASE step.do = "create" /\ step.mode = "rfq"
  <2>1. Size(script[p].plan) = 5
    BY <1>1, <1>13 DEF StepWell, Step, step
  <2>2. script[p].plan = "bundle"
    BY <2>1 DEF Size
  <2>3. cluster = "devnet"
    BY <2>2, RunFacts
  <2>4. CreateArgs(p) \in SeedArgs /\ script[p].started + Later - 1 \in Deadlines
    BY <1>13, CreateArgsTyped DEF step
  <2> QED
    BY <1>7, <1>13, <2>3, <2>4, TxForms DEF step, c
<1>14. CASE step.do = "score"
  <2>1. step.validator \in Agents
    BY <1>1, <1>14, Arguments DEF StepWell, Step, step
  <2> QED
    BY <1>8, <1>14, <2>1, TxForms DEF step, c
<1>15. CASE step.do = "settle"
  <2>1. step.used \in SUBSET Agents
    BY <1>1, <1>15, Arguments DEF StepWell, Step, step
  <2> QED
    BY <1>9, <1>15, <2>1, TxForms DEF step, c
<1>16. CASE step.do = "refund"
  BY <1>10, <1>16, TxForms DEF step, c
<1>17. step.do = "create" => step.mode \in {"direct", "rfq"}
  BY <1>1 DEF StepWell, Step, step
<1> QED
  BY <1>11, <1>12, <1>13, <1>14, <1>15, <1>16, <1>17 DEF SentSteps, step

-----------------------------------------------------------------------------
(* What happens to the program's state *)

SeedCreates(c) ==
    \E args \in SeedArgs, mode \in {"direct", "rfq"}, executor \in Keys,
       rfqDeadline \in Deadlines \cup {0} :
          /\ mode = "rfq" => /\ executor = NoKey /\ cluster = "devnet"
                             /\ now < rfqDeadline
          /\ CreateAtOnce(c, args, NewCampaign(mode, executor, args, rfqDeadline))

SeedChain ==
    \/ UNCHANGED vars
    \/ \E authority \in Agents : InitializeConfig(authority)
    \/ \E c \in Campaigns \cap Claimed : SeedCreates(c)
    \/ \E c \in Campaigns : Settlement(c) \/ ExpireRfq(c)
    \/ Tick /\ cluster = "localnet"

LEMMA ApplyOnChain ==
    ASSUME NEW tx, SeedTx(tx), Apply(tx),
           tx.request.op \in Creates => tx.request.c \in Claimed
    PROVE  SeedChain
<1> DEFINE request == tx.request
           c == request.c
<1>1. CASE request.op = "initialize_config"
  BY <1>1 DEF Apply, SeedTx, SeedChain
<1>2. CASE request.op = "createCampaign"
  <2>1. /\ CreateAtOnce(c, request.args,
                NewCampaign("direct", request.executor, request.args, 0))
        /\ request.args \in SeedArgs /\ request.executor \in Keys
        /\ c \in Campaigns \cap Claimed
    BY <1>2 DEF Apply, SeedTx, Run, Creates
  <2>2. SeedCreates(c)
    BY <2>1 DEF SeedCreates
  <2> QED
    BY <2>1, <2>2 DEF SeedChain
<1>3. CASE request.op = "createCampaignRfq"
  <2>1. /\ CreateAtOnce(c, request.args,
                NewCampaign("rfq", NoKey, request.args, request.rfqDeadline))
        /\ now < request.rfqDeadline
        /\ request.args \in SeedArgs /\ request.rfqDeadline \in Deadlines
        /\ cluster = "devnet" /\ c \in Campaigns \cap Claimed
    <3>1. MayOpenRfq(request.args, request.rfqDeadline)
      BY <1>3 DEF Apply, Run
    <3>2. request.rfqDeadline \in Deadlines
      BY <1>3 DEF SeedTx
    <3>3. \E t : t = request.rfqDeadline /\ t > now
      BY <3>1 DEF MayOpenRfq
    <3>4. now < request.rfqDeadline
      BY <3>3
    <3> QED
      BY <1>3, <3>4 DEF Apply, SeedTx, Run, Creates
  <2>2. NoKey \in Keys
    BY DEF Keys
  <2>3. SeedCreates(c)
    BY <2>1, <2>2 DEF SeedCreates
  <2> QED
    BY <2>1, <2>3 DEF SeedChain
<1>4. CASE request.op = "submitValidatorScoreEr"
  <2>1. SubmitValidatorScore(c, tx.payer, request.scoreBps)
    BY <1>4 DEF Apply, Run
  <2>2. c \in Campaigns /\ tx.payer \in Agents /\ request.scoreBps \in Scores
    BY <1>4, Arguments DEF SeedTx
  <2>3. Settlement(c)
    BY <2>1, <2>2 DEF Settlement
  <2> QED
    BY <2>2, <2>3 DEF SeedChain
<1>5. CASE request.op = "triggerSettleSuccess"
  <2>1. SettleSuccess(c, request.used)
    BY <1>5 DEF Apply, Run
  <2>2. c \in Campaigns /\ request.used \in SUBSET Agents
    BY <1>5 DEF SeedTx
  <2>3. Settlement(c)
    BY <2>1, <2>2 DEF Settlement
  <2> QED
    BY <2>2, <2>3 DEF SeedChain
<1>6. CASE request.op = "triggerTimeoutRefund"
  <2>1. SettleTimeoutRefund(c) /\ c \in Campaigns
    BY <1>6 DEF Apply, Run, SeedTx
  <2> QED
    BY <2>1 DEF Settlement, SeedChain
<1> QED
  BY <1>1, <1>2, <1>3, <1>4, <1>5, <1>6 DEF SeedTx, Creates

LEMMA ChainIsProgramStep ==
    ASSUME SeedChain
    PROVE  ProgramStep
<1>1. ASSUME NEW c \in Campaigns, SeedCreates(c)
      PROVE  CreatesAtOnce
  <2>1. PICK args \in SeedArgs, mode \in {"direct", "rfq"}, executor \in Keys,
             rfqDeadline \in Deadlines \cup {0} :
               /\ mode = "rfq" => executor = NoKey
               /\ CreateAtOnce(c, args, NewCampaign(mode, executor, args, rfqDeadline))
    BY <1>1 DEF SeedCreates
  <2>2. args \in CampaignArgs
    BY DEF SeedArgs
  <2> QED
    BY <2>1, <2>2 DEF CreatesAtOnce
<1> QED
  BY <1>1 DEF SeedChain, ProgramStep, Next, Bidding

\* What a created campaign looks like.
LEMMA SeedCreation ==
    ASSUME TypeOK, NEW c \in Campaigns, SeedCreates(c)
    PROVE  /\ ~ CampaignExists(c) /\ CampaignExists(c)'
           /\ campaign'[c].mode = "rfq" =>
                 cluster = "devnet" /\ now < campaign'[c].rfq_deadline_unix
           /\ \A d \in Campaigns \ {c} : campaign'[d] = campaign[d] /\ vset'[d] = vset[d]
           /\ UNCHANGED <<now, config>>
           /\ wallet'[Creator] = wallet[Creator] - SeedAmount
<1>1. PICK args \in SeedArgs, mode \in {"direct", "rfq"}, executor \in Keys,
           rfqDeadline \in Deadlines \cup {0} :
             /\ mode = "rfq" => cluster = "devnet" /\ now < rfqDeadline
             /\ CreateAtOnce(c, args, NewCampaign(mode, executor, args, rfqDeadline))
  BY DEF SeedCreates
<1> DEFINE account == NewCampaign(mode, executor, args, rfqDeadline)
<1>2. /\ campaign[c] = NoCampaign
      /\ campaign' = [campaign EXCEPT ![c] = account]
      /\ vset' = [vset EXCEPT ![c] = args.validators]
      /\ wallet' = [wallet EXCEPT ![CreatorOf[c]] = @ - args.amount]
      /\ UNCHANGED <<now, config>>
  BY <1>1 DEF CreateAtOnce, MayCreateAtOnce, MayCreate, FundEscrow
<1>3. account.status = "open" /\ account.mode = mode
      /\ account.rfq_deadline_unix = rfqDeadline
  BY DEF NewCampaign
<1> HIDE DEF account
<1>4. campaign'[c] = account
  BY <1>2 DEF TypeOK
<1>5. ~ CampaignExists(c) /\ CampaignExists(c)'
  BY <1>2, <1>3, <1>4, AccountFacts DEF CampaignExists
<1>6. \A d \in Campaigns \ {c} : campaign'[d] = campaign[d] /\ vset'[d] = vset[d]
  BY <1>2 DEF TypeOK
<1>7. wallet'[Creator] = wallet[Creator] - SeedAmount
  <2>1. CreatorOf[c] = Creator /\ Creator \in Keys /\ args.amount = SeedAmount
    BY Setting, Arguments DEF Keys, SeedArgs
  <2> QED
    BY <1>2, <2>1 DEF TypeOK
<1> QED
  BY <1>1, <1>2, <1>3, <1>4, <1>5, <1>6, <1>7

\* All other steps create nothing and cost the creator nothing.
LEMMA NoCreation ==
    ASSUME TypeOK, SeedChain, ~ \E c \in Campaigns \cap Claimed : SeedCreates(c)
    PROVE  /\ \A c \in Campaigns :
                 /\ CampaignExists(c)' <=> CampaignExists(c)
                 /\ vset'[c] = vset[c]
           /\ config # NoKey => config' = config
           /\ now' = now \/ (now' = now + 1 /\ cluster = "localnet")
           /\ wallet'[Creator] >= wallet[Creator]
<1> DEFINE Goal == /\ \A c \in Campaigns :
                         /\ CampaignExists(c)' <=> CampaignExists(c)
                         /\ vset'[c] = vset[c]
                   /\ config # NoKey => config' = config
                   /\ now' = now \/ (now' = now + 1 /\ cluster = "localnet")
                   /\ wallet'[Creator] >= wallet[Creator]
<1> SUFFICES Goal
  OBVIOUS
<1>0. Creator \in Keys /\ wallet \in [Keys -> Nat] /\ escrow \in [Campaigns -> Nat]
  BY Arguments DEF Keys, TypeOK
<1>1. CASE UNCHANGED <<campaign, vset, wallet>> /\ (config' = config \/ config = NoKey)
            /\ (now' = now \/ (now' = now + 1 /\ cluster = "localnet"))
  BY <1>0, <1>1 DEF CampaignExists
<1>2. ASSUME NEW c \in Campaigns, NEW status, NEW key, campaign[c] # NoCampaign,
             campaign' = [campaign EXCEPT ![c].status = status], status # "none",
             \/ wallet' = wallet
             \/ wallet' = [wallet EXCEPT ![key] = @ + escrow[c]],
             UNCHANGED <<now, config, vset>>
      PROVE  Goal
  <2>1. campaign[c] \in CampaignAccount
    BY <1>2 DEF TypeOK
  <2>2. campaign'[c].status = status
    BY <1>2, <2>1 DEF TypeOK, CampaignAccount
  <2>3. \A d \in Campaigns \ {c} : campaign'[d] = campaign[d]
    BY <1>2 DEF TypeOK
  <2>4. \A d \in Campaigns : CampaignExists(d)' <=> CampaignExists(d)
    BY <1>2, <2>2, <2>3, AccountFacts DEF CampaignExists
  <2>5. wallet'[Creator] >= wallet[Creator]
    BY <1>0, <1>2
  <2> QED
    BY <1>2, <2>4, <2>5
<1> HIDE DEF Goal
<1>3. ASSUME NEW c \in Campaigns, Settlement(c) \/ ExpireRfq(c)
      PROVE  Goal
  <2>0. campaign[c] = NoCampaign => campaign[c].status = "none"
    BY AccountFacts
  <2>1. ASSUME NEW used, SettleSuccess(c, used) PROVE Goal
    <3>1. /\ campaign' = [campaign EXCEPT ![c].status = "settled_success"]
          /\ wallet' = [wallet EXCEPT ![campaign[c].executor] = @ + escrow[c]]
          /\ UNCHANGED <<now, config, vset>>
      BY <2>1 DEF SettleSuccess
    <3>2. campaign[c] # NoCampaign
      BY <2>0, <2>1 DEF SettleSuccess, MaySettle, IsOpen
    <3> DEFINE status == "settled_success"
               key == campaign[c].executor
    <3>3. status # "none" /\ campaign' = [campaign EXCEPT ![c].status = status]
          /\ wallet' = [wallet EXCEPT ![key] = @ + escrow[c]]
      BY <3>1
    <3> HIDE DEF status, key
    <3> QED
      BY <1>2, <3>1, <3>2, <3>3
  <2>2. CASE SettleTimeoutRefund(c)
    <3>1. /\ campaign' = [campaign EXCEPT ![c].status = "settled_refund"]
          /\ wallet' = [wallet EXCEPT ![CreatorOf[c]] = @ + escrow[c]]
          /\ UNCHANGED <<now, config, vset>>
      BY <2>2 DEF SettleTimeoutRefund
    <3>2. campaign[c] # NoCampaign
      BY <2>0, <2>2 DEF SettleTimeoutRefund, RefundAllowed, IsOpen
    <3> DEFINE status == "settled_refund"
               key == CreatorOf[c]
    <3>3. status # "none" /\ campaign' = [campaign EXCEPT ![c].status = status]
          /\ wallet' = [wallet EXCEPT ![key] = @ + escrow[c]]
      BY <3>1
    <3> HIDE DEF status, key
    <3> QED
      BY <1>2, <3>1, <3>2, <3>3
  <2>3. ASSUME NEW v, NEW s, SubmitValidatorScore(c, v, s) PROVE Goal
    BY <1>1, <2>3 DEF SubmitValidatorScore
  <2>4. CASE ExpireRfq(c)
    <3>1. campaign' = [campaign EXCEPT ![c].status = "rfq_expired"]
          /\ UNCHANGED <<now, config, vset, wallet>>
      BY <2>4 DEF ExpireRfq
    <3>2. campaign[c] # NoCampaign
      BY <2>0, <2>4 DEF ExpireRfq, MayExpire, AwaitingBid, IsOpen
    <3> DEFINE status == "rfq_expired"
    <3>3. status # "none" /\ campaign' = [campaign EXCEPT ![c].status = status]
      BY <3>1
    <3> HIDE DEF status
    <3> QED
      BY <1>2, <3>1, <3>2, <3>3
  <2> QED
    BY <1>3, <2>1, <2>2, <2>3, <2>4 DEF Settlement
<1>4. CASE UNCHANGED vars
  BY <1>1, <1>4 DEF vars
<1>5. ASSUME NEW authority, InitializeConfig(authority) PROVE Goal
  <2>1. UNCHANGED <<campaign, vset, wallet, now>> /\ config = NoKey
    BY <1>5 DEF InitializeConfig
  <2> QED
    BY <1>1, <2>1
<1>6. CASE Tick /\ cluster = "localnet"
  <2>1. UNCHANGED <<campaign, vset, wallet, config>> /\ now' = now + 1
    BY <1>6 DEF Tick
  <2> QED
    BY <1>1, <1>6, <2>1
<1> QED
  BY <1>3, <1>4, <1>5, <1>6 DEF SeedChain

\* Nobody ever marks a campaign of the scripts expired.
LEMMA OpenOrSettled ==
    ASSUME TypeOK, InductiveInvariant, ChainInv, NEW c \in Campaigns,
           CampaignExists(c), ~ IsOpen(c)
    PROVE  Settled(c)
<1>1. campaign[c] \in CampaignAccount
  BY DEF TypeOK, CampaignExists
<1>2. campaign[c].status \in {"open", "settled_success", "settled_refund", "rfq_expired"}
  BY <1>1 DEF CampaignAccount
<1>3. campaign[c].status # "rfq_expired"
  <2> SUFFICES ASSUME campaign[c].status = "rfq_expired"
               PROVE  FALSE
    OBVIOUS
  <2>1. campaign[c].mode = "rfq" /\ now > campaign[c].rfq_deadline_unix
    BY DEF InductiveInvariant, ExpiredAfterWindow
  <2>2. now < campaign[c].rfq_deadline_unix
    BY <2>1 DEF ChainInv
  <2>3. now \in Int /\ campaign[c].rfq_deadline_unix \in Int
    <3>1. campaign[c].rfq_deadline_unix \in Deadlines \cup {0}
      BY <1>1 DEF CampaignAccount
    <3>2. MaxTime \in Nat /\ Deadlines \subseteq 0 .. MaxTime - 1
      BY ClockAssumption
    <3>3. MaxTime - 1 \in Int /\ now \in Int
      BY <3>2 DEF TypeOK
    <3>4. \A t \in Deadlines : t \in Int
      BY <3>2, <3>3
    <3> QED
      BY <3>1, <3>3, <3>4
  <2> QED
    BY <2>1, <2>2, <2>3
<1> QED
  BY <1>2, <1>3 DEF IsOpen, Settled

\* What is created or settled stays so, what may be settled is or still may
\* be, and the creator pays for what is created.
LEMMA ChainFacts ==
    ASSUME TypeOK, InductiveInvariant, ChainInv, SeedChain, cluster' = cluster
    PROVE  /\ TypeOK' /\ InductiveInvariant' /\ ChainInv'
           /\ \A c \in Campaigns :
                 /\ CampaignExists(c) => CampaignExists(c)'
                 /\ Settled(c) => Settled(c)'
                 /\ \A used \in SUBSET Agents :
                       MaySettle(c, used) => MaySettle(c, used)' \/ Settled(c)'
                 /\ RefundAllowed(c) => RefundAllowed(c)' \/ Settled(c)'
                 /\ CampaignExists(c) => campaign'[c].mode = campaign[c].mode
                 /\ CampaignExists(c) /\ campaign[c].executor # NoKey =>
                       campaign'[c].executor = campaign[c].executor
           /\ config # NoKey => config' # NoKey
           /\ now' \in Nat /\ now' >= now /\ (now' # now => cluster = "localnet")
           /\ \/ /\ Created' = Created
                 /\ wallet'[Creator] >= wallet[Creator]
              \/ /\ \E c \in Claimed \ Created : Created' = Created \cup {c}
                 /\ wallet'[Creator] = wallet[Creator] - SeedAmount
<1>1. ProgramStep
  BY ChainIsProgramStep
<1>2. TypeOK' /\ InductiveInvariant'
  BY <1>1, ProgramTypeStep, ProgramInvariantStep
<1>3. \A c \in Campaigns : KeepsTerms(c)
  BY <1>1, ProgramTermsStep
<1>4. \A c \in Campaigns :
          /\ Settled(c) => Settled(c)'
          /\ \A used \in SUBSET Agents :
                MaySettle(c, used) => MaySettle(c, used)' \/ Settled(c)'
          /\ RefundAllowed(c) => RefundAllowed(c)' \/ Settled(c)'
  BY <1>1, SettlementStays
<1>5. now \in Nat
  BY DEF TypeOK
<1>6. \A c \in Campaigns : CampaignExists(c) =>
          /\ campaign'[c].mode = campaign[c].mode
          /\ campaign'[c].rfq_deadline_unix = campaign[c].rfq_deadline_unix
          /\ campaign[c].executor # NoKey =>
                campaign'[c].executor = campaign[c].executor
  BY <1>3 DEF KeepsTerms, TermsOf
<1>7. CASE \E c \in Campaigns \cap Claimed : SeedCreates(c)
  <2>1. PICK c \in Campaigns \cap Claimed : SeedCreates(c)
    BY <1>7
  <2>2. /\ ~ CampaignExists(c) /\ CampaignExists(c)'
        /\ campaign'[c].mode = "rfq" =>
              cluster = "devnet" /\ now < campaign'[c].rfq_deadline_unix
        /\ \A d \in Campaigns \ {c} : campaign'[d] = campaign[d] /\ vset'[d] = vset[d]
        /\ UNCHANGED <<now, config>>
        /\ wallet'[Creator] = wallet[Creator] - SeedAmount
    BY <2>1, SeedCreation
  <2>3. \A d \in Campaigns \ {c} : CampaignExists(d)' <=> CampaignExists(d)
    BY <2>2 DEF CampaignExists
  <2>4. ChainInv'
    BY <2>2, <2>3 DEF ChainInv
  <2>5. \A d \in Campaigns : CampaignExists(d) => CampaignExists(d)'
    BY <2>2, <2>3
  <2>6. Created' = Created \cup {c} /\ c \in Claimed \ Created
    BY <2>2, <2>3 DEF Created
  <2> QED
    BY <1>2, <1>4, <1>5, <1>6, <2>2, <2>4, <2>5, <2>6
<1>8. CASE ~ \E c \in Campaigns \cap Claimed : SeedCreates(c)
  <2>1. /\ \A c \in Campaigns :
             /\ CampaignExists(c)' <=> CampaignExists(c)
             /\ vset'[c] = vset[c]
        /\ config # NoKey => config' = config
        /\ now' = now \/ (now' = now + 1 /\ cluster = "localnet")
        /\ wallet'[Creator] >= wallet[Creator]
    BY <1>8, NoCreation
  <2>2. Created' = Created
    BY <2>1 DEF Created
  <2>3. ChainInv'
    <3>1. ASSUME NEW c \in Campaigns, CampaignExists(c)', campaign'[c].mode = "rfq"
          PROVE  cluster' = "devnet" /\ now' < campaign'[c].rfq_deadline_unix
      <4>1. cluster = "devnet" /\ now < campaign[c].rfq_deadline_unix
        BY <1>6, <2>1, <3>1 DEF ChainInv
      <4>2. now' = now
        BY <2>1, <4>1
      <4> QED
        BY <1>6, <2>1, <3>1, <4>1, <4>2
    <3>2. \A c \in Campaigns : ~ CampaignExists(c)' => vset'[c] = << >>
      BY <2>1 DEF ChainInv
    <3> QED
      BY <3>1, <3>2 DEF ChainInv
  <2>4. now' \in Nat /\ now' >= now /\ (now' # now => cluster = "localnet")
    BY <1>5, <2>1
  <2> QED
    BY <1>2, <1>4, <1>6, <2>1, <2>2, <2>3, <2>4
<1> QED
  BY <1>7, <1>8

-----------------------------------------------------------------------------
(* What a step of the scripts' world is on chain *)

\* The clock moves only where no run's deadlines come near.
ClockMoves ==
    \/ now' = now
    \/ /\ script' = script
       /\ \A p \in Scripts : Running(p) => now' + 1 < script[p].started + Later

LEMMA OutsiderOnChain ==
    ASSUME Outsider
    PROVE  SeedChain
<1>1. PICK c \in Campaigns :
         \/ SubmitValidatorScore(c, V1, GoodScore)
         \/ SettleSuccess(c, Scored(c))
         \/ SettleTimeoutRefund(c)
         \/ ExpireRfq(c)
  BY DEF Outsider
<1>2. V1 \in Agents /\ GoodScore \in Scores
  BY Arguments
<1>3. Scored(c) \in SUBSET Agents
  BY DEF Scored
<1>4. Settlement(c) \/ ExpireRfq(c)
  BY <1>1, <1>2, <1>3 DEF Settlement
<1> QED
  BY <1>4 DEF SeedChain

LEMMA InFlight ==
    ASSUME SeedTypeOK, NEW p \in Scripts, script[p].tx = "inflight"
    PROVE  /\ script[p].stage = "waiting" /\ Placed(script[p])
           /\ Step(p).do \in SentSteps /\ RunTyped(script[p])
<1>1. RunTyped(script[p])
  BY DEF SeedTypeOK
<1> QED
  BY <1>1 DEF RunTyped, Placed, Step

LEMMA IncludesOnChain ==
    ASSUME SeedTypeOK, NEW p \in Scripts, Includes(p)
    PROVE  SeedChain
<1>1. Placed(script[p]) /\ Step(p).do \in SentSteps /\ RunTyped(script[p])
  BY InFlight DEF Includes
<1>2. /\ SeedTx(Tx(p))
      /\ Tx(p).request.op \in Creates => Tx(p).request.c \in Block(script[p])
  BY <1>1, TxTyped, Zenon DEF Creates
<1>3. Block(script[p]) \subseteq Claimed
  BY <1>1 DEF Claimed
<1> QED
  BY <1>2, <1>3, ApplyOnChain DEF Includes

LEMMA IncludesStrayOnChain ==
    ASSUME SeedTypeOK, NEW tx \in stray, IncludesStray(tx)
    PROVE  SeedChain
<1>1. SeedTx(tx)
  BY DEF SeedTypeOK
<1>2. tx.request.op \in Creates => tx.request.c \in Claimed
  BY DEF Claimed, StrayIds
<1> QED
  BY <1>1, <1>2, ApplyOnChain DEF IncludesStray

LEMMA TickOnChain ==
    ASSUME SeedTypeOK, SeedTick
    PROVE  /\ SeedChain /\ ClockMoves /\ cluster' = cluster
           /\ now' = now + 1 /\ now' <= LastTime
<1>1. PICK p \in Scripts : Running(p) /\ script[p].plan \in {"local", "manual"}
  BY DEF SeedTick
<1>2. RunTyped(script[p])
  BY DEF SeedTypeOK
<1>3. script[p].stage # "search" /\ script[p].stage \notin {"off", "done", "failed"}
  BY <1>1, <1>2 DEF RunTyped, Running
<1>4. Placed(script[p])
  BY <1>2, <1>3 DEF RunTyped, RunRecord, Placed
<1>5. script[p].plan \in PlansOf(cluster)
  BY <1>2, <1>4 DEF RunTyped
<1>6. cluster = "localnet"
  BY <1>1, <1>5 DEF PlansOf, SeedTypeOK
<1>7. Tick /\ now' = now + 1 /\ script' = script /\ cluster' = cluster
  BY DEF SeedTick, Tick
<1>8. now \in Nat /\ LastTime \in Nat /\ Later \in Nat
  BY Arguments DEF SeedTypeOK, TypeOK
<1>9. \A q \in Scripts : Running(q) => now' + 1 < script[q].started + Later
  <2> TAKE q \in Scripts
  <2> HAVE Running(q)
  <2>1. now + 1 < script[q].started + Later - 1
    BY DEF SeedTick
  <2>2. script[q].started \in Int
    BY Arguments DEF SeedTypeOK, RunTyped, RunRecord
  <2> QED
    BY <1>7, <1>8, <2>1, <2>2
<1> QED
  BY <1>6, <1>7, <1>8, <1>9 DEF SeedChain, ClockMoves, SeedTick

\* The runs' own steps leave the chain alone.
LEMMA OwnStep ==
    ASSUME NEW p, Begins(p) \/ ScriptStep(p) \/ Kill(p) \/ IncludesFailed(p)
    PROVE  UNCHANGED <<clientVars, cluster>>
<1>1. CASE Begins(p)
  BY <1>1 DEF Begins, Begin, BeginSearch
<1>2. CASE ScriptStep(p)
  BY <1>2 DEF ScriptStep, SearchFree, SearchTaken, ReadClock, CheckConfig, CheckExists,
              CheckOpen, Submit, Retry, Refused, Confirmed, Timeout, ReadDocument,
              WriteDocument, Push, elsewhere
<1>3. CASE Kill(p) \/ IncludesFailed(p)
  BY <1>3 DEF Kill, IncludesFailed, elsewhere
<1> QED
  BY <1>1, <1>2, <1>3

LEMMA SeedStepOnChain ==
    ASSUME SeedTypeOK, [SeedNext]_seedVars
    PROVE  /\ SeedChain /\ ClockMoves /\ cluster' = cluster
           /\ now' <= LastTime
<1>0. now <= LastTime
  BY DEF SeedTypeOK
<1>1. CASE UNCHANGED seedVars
  BY <1>0, <1>1 DEF seedVars, clientVars, vars, SeedChain, ClockMoves
<1>2. CASE SeedTick
  BY <1>2, TickOnChain
<1>3. ASSUME NEW p \in Scripts, Begins(p) \/ ScriptStep(p) \/ Kill(p) \/ IncludesFailed(p)
      PROVE  /\ SeedChain /\ ClockMoves /\ cluster' = cluster /\ now' <= LastTime
  BY <1>0, <1>3, OwnStep DEF clientVars, vars, SeedChain, ClockMoves
<1>4. ASSUME NEW p \in Scripts, Includes(p)
      PROVE  now' = now /\ cluster' = cluster
  BY <1>4 DEF Includes, Apply, InitializeConfig, Run, CreateAtOnce, SubmitBid, WithdrawBid,
              AcceptBid, ExpireRfq, SubmitValidatorScore, SettleSuccess,
              SettleTimeoutRefund, vars
<1>5. ASSUME NEW tx \in stray, IncludesStray(tx)
      PROVE  now' = now /\ cluster' = cluster
  BY <1>5 DEF IncludesStray, Apply, InitializeConfig, Run, CreateAtOnce, SubmitBid,
              WithdrawBid, AcceptBid, ExpireRfq, SubmitValidatorScore, SettleSuccess,
              SettleTimeoutRefund, vars
<1>6. ASSUME Outsider
      PROVE  now' = now /\ cluster' = cluster
  BY <1>6 DEF Outsider, ExpireRfq, SubmitValidatorScore, SettleSuccess,
              SettleTimeoutRefund
<1>7. ASSUME NEW p \in Scripts, Includes(p)
      PROVE  /\ SeedChain /\ ClockMoves /\ cluster' = cluster /\ now' <= LastTime
  BY <1>0, <1>4, <1>7, IncludesOnChain DEF ClockMoves
<1>8. ASSUME NEW tx \in stray, IncludesStray(tx)
      PROVE  /\ SeedChain /\ ClockMoves /\ cluster' = cluster /\ now' <= LastTime
  BY <1>0, <1>5, <1>8, IncludesStrayOnChain DEF ClockMoves
<1>9. CASE Outsider
  BY <1>0, <1>6, <1>9, OutsiderOnChain DEF ClockMoves
<1> QED
  BY <1>1, <1>2, <1>3, <1>7, <1>8, <1>9 DEF SeedNext

-----------------------------------------------------------------------------
(* What a run's own steps make of it *)

Sound(run) == RunTyped(run) /\ TimeOf(run) /\ PassedBy(run) /\ DraftOf(run)

\* A step that leaves the run at the same place in its plan.
LEMMA Keeping ==
    ASSUME NEW run, Sound(run), Placed(run), NEW next \in RunRecord, Placed(next),
           next.plan = run.plan, next.base = run.base, next.at = run.at,
           next.started = run.started,
           next.stage \in {"ready", "waiting"} =>
               Plan[run.plan][run.at].do \in SentSteps,
           next.stage = "waiting" <=> next.tx # "none",
           next.stage \in {"writing", "pushing"} =>
               /\ Plan[run.plan][run.at].do = "publish"
               /\ next.draft \in [Campaigns -> Labels] /\ Documented(next.draft)
    PROVE  Sound(next)
<1>1. next.stage \notin {"search", "done"}
  BY DEF Placed
<1>2. Block(next) = Block(run)
  BY DEF Block
<1>3. RunTyped(next)
  BY <1>1, <1>2 DEF Sound, RunTyped
<1>4. TimeOf(next) /\ PassedBy(next)
  BY <1>1 DEF Sound, TimeOf, PassedBy
<1> QED
  BY <1>3, <1>4 DEF Sound, DraftOf

LEMMA Ending ==
    ASSUME NEW next \in RunRecord, next.stage = "failed", next.tx = "none"
    PROVE  Sound(next)
BY DEF Sound, RunTyped, TimeOf, PassedBy, DraftOf, Placed

\* A run at the start of its plan.
LEMMA Starting ==
    ASSUME NEW next \in RunRecord, next.stage = "step", next.tx = "none", next.at = 1,
           next.plan \in PlansOf(cluster), Block(next) \subseteq Campaigns
    PROVE  Sound(next)
<1>1. 1 \in 1 .. Len(Plan[next.plan])
  BY PlansWell DEF RunRecord
<1>2. RunTyped(next)
  BY <1>1 DEF RunTyped
<1> QED
  BY <1>2 DEF Sound, TimeOf, PassedBy, DraftOf

\* A run that still looks for its ids.
LEMMA Looking ==
    ASSUME NEW next \in RunRecord, next.stage = "search", next.tx = "none",
           next.plan \in PlansOf(cluster) \cap {"single", "bundle"},
           Block(next) \subseteq Campaigns
    PROVE  Sound(next)
BY DEF Sound, RunTyped, TimeOf, PassedBy, DraftOf, Placed

\* A run that passes k steps.
LEMMA Passing ==
    ASSUME NEW run, Sound(run), Placed(run), NEW k \in Nat \ {0},
           run.at + k <= Len(Plan[run.plan]) + 1,
           NEW next \in RunRecord,
           next.plan = run.plan, next.base = run.base, next.at = run.at + k,
           next.tx = "none",
           next.stage = IF next.at > Len(Plan[run.plan]) THEN "done" ELSE "step",
           \/ now + 1 < next.started + Later
           \/ /\ next.started = run.started
              /\ \A i \in run.at .. run.at + k - 1 : Plan[run.plan][i].do # "clock",
           \A i \in run.at .. run.at + k - 1 :
               Matters(Plan[run.plan][i]) => Reached(Plan[run.plan][i], run.base)
    PROVE  Sound(next)
<1> DEFINE s == Plan[run.plan]
<1>1. /\ run.at \in 1 .. Len(s) /\ Len(s) \in Nat /\ run.plan \in PlansOf(cluster)
      /\ Block(run) \subseteq Campaigns
  BY RunFacts DEF Sound, RunTyped
<1>2. Block(next) = Block(run)
  BY DEF Block
<1>3. next.stage = "done" => next.at = Len(s) + 1
  <2>1. next.at \in Nat /\ next.at <= Len(s) + 1
    BY <1>1
  <2>2. next.stage = "done" => next.at > Len(s)
    OBVIOUS
  <2>3. \A m, n \in Nat : m <= n + 1 /\ m > n => m = n + 1
    OBVIOUS
  <2> QED
    BY <1>1, <2>1, <2>2, <2>3
<1>4. next.stage # "done" => next.at \in 1 .. Len(s)
  BY <1>1
<1>5. RunTyped(next)
  BY <1>1, <1>2, <1>3, <1>4 DEF RunTyped, Placed
<1>6. \A i \in 1 .. next.at - 1 : i \in 1 .. run.at - 1 \/ i \in run.at .. run.at + k - 1
  BY <1>1
<1>7. TimeOf(next)
  BY <1>6 DEF Sound, TimeOf
<1>8. PassedBy(next)
  BY <1>6 DEF Sound, PassedBy
<1> QED
  BY <1>5, <1>7, <1>8 DEF Sound, DraftOf

\* What After builds.
LEMMA AfterFacts ==
    ASSUME NEW p \in Scripts, RunTyped(script[p]), Placed(script[p]), NEW k \in Nat \ {0}
    PROVE  LET next == After(p, k)
               s == Plan[script[p].plan]
           IN /\ next \in RunRecord
              /\ next.plan = script[p].plan /\ next.base = script[p].base
              /\ next.at = script[p].at + k /\ next.started = script[p].started
              /\ next.tx = "none" /\ next.attempt = 0 /\ next.draft = script[p].draft
              /\ next.stage = IF next.at > Len(s) THEN "done" ELSE "step"
<1> DEFINE at == script[p].at + k
           stage == IF at > Len(Plan[script[p].plan]) THEN "done" ELSE "step"
<1>1. at \in Nat /\ stage \in {"done", "step"}
  BY DEF RunTyped, RunRecord
<1>2. After(p, k) = [script[p] EXCEPT !.at = at, !.tx = "none", !.attempt = 0,
                                      !.stage = stage]
  BY DEF After
<1>3. script[p] \in RunRecord
  BY DEF RunTyped
<1>4. stage = IF at > Len(Plan[script[p].plan]) THEN "done" ELSE "step"
  OBVIOUS
<1> HIDE DEF stage
<1> SUFFICES /\ After(p, k) \in RunRecord
             /\ After(p, k).plan = script[p].plan /\ After(p, k).base = script[p].base
             /\ After(p, k).at = at /\ After(p, k).started = script[p].started
             /\ After(p, k).tx = "none" /\ After(p, k).attempt = 0
             /\ After(p, k).draft = script[p].draft /\ After(p, k).stage = stage
  BY <1>4
<1> HIDE DEF at
<1> DEFINE r == script[p]
<1>5. After(p, k) = [plan |-> r.plan, stage |-> stage, base |-> r.base, at |-> at,
                     started |-> r.started, tx |-> "none", attempt |-> 0,
                     draft |-> r.draft]
  BY <1>2, <1>3 DEF RunRecord
<1>6. /\ r.plan \in DOMAIN Plan /\ r.base \in Nat /\ r.started \in 0 .. LastTime
      /\ r.draft \in [Campaigns -> Labels] \cup {<< >>}
  BY <1>3 DEF RunRecord
<1> HIDE DEF r
<1>7. After(p, k) \in RunRecord
  BY <1>1, <1>5, <1>6 DEF RunRecord
<1> QED
  BY <1>5, <1>7 DEF r

\* A run that passes the step it is at.
LEMMA PassingOne ==
    ASSUME NEW p \in Scripts, Sound(script[p]), Placed(script[p]),
           Step(p).do # "clock", Matters(Step(p)) => Reached(Step(p), script[p].base)
    PROVE  Sound(After(p, 1))
<1>1. RunTyped(script[p])
  BY DEF Sound
<1>2. /\ script[p].at \in 1 .. Len(Plan[script[p].plan]) /\ script[p].at \in Nat
      /\ Len(Plan[script[p].plan]) \in Nat
  BY <1>1, RunFacts
<1> DEFINE run == script[p]
           next == After(p, 1)
<1>3. /\ next \in RunRecord
      /\ next.plan = run.plan /\ next.base = run.base
      /\ next.at = run.at + 1 /\ next.started = run.started /\ next.tx = "none"
      /\ next.stage = IF next.at > Len(Plan[run.plan]) THEN "done" ELSE "step"
  BY <1>1, AfterFacts
<1> DEFINE k == 1
<1>4. /\ k \in Nat \ {0} /\ run.at + k <= Len(Plan[run.plan]) + 1
      /\ next.at = run.at + k
  BY <1>2, <1>3
<1>5. ASSUME NEW i \in run.at .. run.at + k - 1
      PROVE  i = run.at
  BY <1>2
<1>6. \A i \in run.at .. run.at + k - 1 : Plan[run.plan][i] = Step(p)
  BY <1>5 DEF Step
<1>7. \A i \in run.at .. run.at + k - 1 : Plan[run.plan][i].do # "clock"
  BY <1>6
<1>8. \A i \in run.at .. run.at + k - 1 :
          Matters(Plan[run.plan][i]) => Reached(Plan[run.plan][i], run.base)
  BY <1>6
<1> HIDE DEF next, k
<1>9. Sound(run) /\ Placed(run)
  OBVIOUS
<1> HIDE DEF run
<1>10. Sound(next)
  BY <1>3, <1>4, <1>7, <1>8, <1>9, Passing
<1> QED
  BY <1>10 DEF next

Becomes(p) == \E next : Sound(next) /\ script' = [script EXCEPT ![p] = next]

LEMMA OldSound ==
    ASSUME SeedInv, NEW p \in Scripts
    PROVE  /\ Sound(script[p]) /\ RunTyped(script[p]) /\ script[p] \in RunRecord
           /\ Placed(script[p]) =>
                 /\ script[p].at \in 1 .. Len(Plan[script[p].plan])
                 /\ Len(Plan[script[p].plan]) \in Nat
                 /\ script[p].at \in Nat
BY RunFacts DEF SeedInv, SeedTypeOK, TimeInv, PassedInv, DocumentInv, Sound, RunTyped

LEMMA BeginSound ==
    ASSUME NEW p \in Scripts, NEW plan \in PlansOf(cluster),
           NEW base \in GivenBases \cup ClockBases \cup {1}
    PROVE  /\ Begin(p, plan, base) => Becomes(p)
           /\ BeginSearch(p, plan) /\ plan \in {"single", "bundle"} => Becomes(p)
<1>1. \A b \in GivenBases \cup ClockBases \cup {1} : b \in Nat /\ b .. b + 5 \subseteq Campaigns
  BY BasesAssumption
<1>2. Size(plan) \in 0 .. 6
  BY DEF Size
<1>3. plan \in DOMAIN Plan
  BY PlanLengths DEF PlansOf, Plans
<1>4. 0 \in 0 .. LastTime
  BY Arguments
<1>5. Off \in RunRecord /\ Off.tx = "none" /\ Off.at = 1
  BY <1>4, PlanLengths DEF Off, RunRecord, Plans
<1>6. ASSUME Begin(p, plan, base)
      PROVE  Becomes(p)
  <2> DEFINE next == [Off EXCEPT !.plan = plan, !.stage = "step", !.base = base]
  <2>1. /\ next.plan = plan /\ next.stage = "step" /\ next.base = base
        /\ next.at = 1 /\ next.tx = "none"
    BY <1>5 DEF RunRecord
  <2>2. next \in RunRecord
    BY <1>1, <1>3, <1>5 DEF RunRecord
  <2> HIDE DEF next
  <2>3. Block(next) \subseteq Campaigns
    BY <1>1, <1>2, <2>1 DEF Block
  <2>4. Sound(next)
    BY <2>1, <2>2, <2>3, Starting
  <2>5. script' = [script EXCEPT ![p] = next]
    BY <1>6 DEF Begin, Goes, next
  <2> QED
    BY <2>4, <2>5 DEF Becomes
<1>7. ASSUME BeginSearch(p, plan), plan \in {"single", "bundle"}
      PROVE  Becomes(p)
  <2> DEFINE next == [Off EXCEPT !.plan = plan, !.stage = "search", !.base = 1,
                                 !.at = 0]
  <2>1. /\ next.plan = plan /\ next.stage = "search" /\ next.base = 1
        /\ next.tx = "none"
    BY <1>5 DEF RunRecord
  <2>2. next \in RunRecord
    BY <1>1, <1>3, <1>5 DEF RunRecord
  <2> HIDE DEF next
  <2>3. Block(next) \subseteq Campaigns
    <3>1. 1 .. 1 + 5 \subseteq Campaigns
      BY <1>1
    <3> QED
      BY <1>2, <2>1, <3>1 DEF Block
  <2>4. Sound(next)
    BY <1>7, <2>1, <2>2, <2>3, Looking
  <2>5. script' = [script EXCEPT ![p] = next]
    BY <1>7 DEF BeginSearch, Goes, next
  <2> QED
    BY <2>4, <2>5 DEF Becomes
<1> QED
  BY <1>6, <1>7

LEMMA SearchSound ==
    ASSUME SeedInv, NEW p \in Scripts, SearchFree(p) \/ SearchTaken(p)
    PROVE  Becomes(p)
<1> DEFINE run == script[p]
<1>1. /\ run.stage = "search" /\ run \in RunRecord /\ run.tx = "none"
      /\ run.plan \in PlansOf(cluster) \cap {"single", "bundle"}
      /\ Block(run) \subseteq Campaigns
  BY OldSound DEF SearchFree, SearchTaken, RunTyped
<1>2. run.at \in Nat /\ run.base \in Nat
  BY <1>1 DEF RunRecord
<1>3. BlockSize(run.plan) = Size(run.plan) /\ Size(run.plan) \in Nat
  BY <1>1 DEF BlockSize, Size
<1>4. CASE SearchFree(p) /\ run.at + 1 = BlockSize(run.plan)
  <2> DEFINE next == [run EXCEPT !.at = 1, !.stage = "step"]
  <2>1. next \in RunRecord /\ next.stage = "step" /\ next.at = 1 /\ next.tx = "none"
        /\ next.plan = run.plan /\ next.base = run.base
    BY <1>1 DEF RunRecord
  <2>2. script' = [script EXCEPT ![p] = next]
    BY <1>4 DEF SearchFree, Goes
  <2> HIDE DEF next
  <2>3. Sound(next)
    BY <1>1, <2>1, Starting DEF Block
  <2> QED
    BY <2>2, <2>3 DEF Becomes
<1>5. CASE SearchFree(p) /\ run.at + 1 # BlockSize(run.plan)
  <2> DEFINE next == [run EXCEPT !.at = @ + 1]
  <2>1. next \in RunRecord /\ next.stage = "search" /\ next.tx = "none"
        /\ next.plan = run.plan /\ next.base = run.base
    BY <1>1, <1>2 DEF RunRecord
  <2>2. script' = [script EXCEPT ![p] = next]
    BY <1>5 DEF SearchFree, Goes
  <2> HIDE DEF next
  <2>3. Sound(next)
    BY <1>1, <2>1, Looking DEF Block
  <2> QED
    BY <2>2, <2>3 DEF Becomes
<1>6. CASE SearchTaken(p)
  <2> DEFINE base == run.base + BlockSize(run.plan)
             next == [run EXCEPT !.at = 0, !.base = base]
  <2>1. script' = [script EXCEPT ![p] = next]
        /\ base .. base + BlockSize(run.plan) - 1 \subseteq Campaigns
    BY <1>6 DEF SearchTaken, Goes
  <2>2. base \in Nat
    BY <1>2, <1>3
  <2> HIDE DEF base
  <2>3. next \in RunRecord /\ next.stage = "search" /\ next.tx = "none"
        /\ next.plan = run.plan /\ next.base = base
    BY <1>1, <1>2, <2>2 DEF RunRecord
  <2> HIDE DEF next
  <2>4. Block(next) \subseteq Campaigns
    BY <1>3, <2>1, <2>3 DEF Block
  <2>5. Sound(next)
    BY <1>1, <2>3, <2>4, Looking
  <2> QED
    BY <2>1, <2>5 DEF Becomes
<1> QED
  BY <1>4, <1>5, <1>6

\* Sends and the stages of At are those of a placed run.
LEMMA StagePlaced ==
    ASSUME SeedInv, NEW p \in Scripts
    PROVE  /\ script[p].stage \in {"step", "ready", "waiting", "writing", "pushing"} =>
                 Placed(script[p])
           /\ Sends(p) => /\ Placed(script[p]) /\ Step(p).do \in SentSteps
                          /\ script[p].tx = "none"
           /\ script[p].tx # "none" => script[p].stage = "waiting"
           /\ script[p].stage \in {"ready", "waiting"} => Step(p).do \in SentSteps
           /\ script[p].stage # "waiting" => script[p].tx = "none"
<1>1. RunTyped(script[p])
  BY OldSound
<1> QED
  BY <1>1 DEF RunTyped, Placed, Sends, Step, SentSteps

LEMMA ReadClockSound ==
    ASSUME SeedInv, NEW p \in Scripts, ReadClock(p)
    PROVE  Becomes(p)
<1> DEFINE run == script[p]
           k == 1
           passed == After(p, 1)
           next == [passed EXCEPT !.started = now]
<1>1. Placed(run) /\ Step(p).do = "clock"
  BY DEF ReadClock, At, Placed
<1>2. Sound(run) /\ RunTyped(run)
  BY OldSound
<1>3. run.at \in 1 .. Len(Plan[run.plan]) /\ Len(Plan[run.plan]) \in Nat
  BY <1>1, OldSound
<1>4. now \in 0 .. LastTime /\ now + 1 < now + Later
  BY Arguments DEF SeedInv, SeedTypeOK, TypeOK
<1>5. /\ passed \in RunRecord
      /\ passed.plan = run.plan /\ passed.base = run.base
      /\ passed.at = run.at + 1 /\ passed.tx = "none"
      /\ passed.stage = IF passed.at > Len(Plan[run.plan]) THEN "done" ELSE "step"
  BY <1>1, <1>2, AfterFacts
<1>6. script' = [script EXCEPT ![p] = next]
  BY DEF ReadClock, Goes
<1> HIDE DEF passed
<1>7. /\ next \in RunRecord /\ next.started = now
      /\ next.plan = passed.plan /\ next.base = passed.base
      /\ next.at = passed.at /\ next.tx = passed.tx /\ next.stage = passed.stage
  BY <1>4, <1>5 DEF RunRecord
<1> HIDE DEF next
<1>8. \A i \in run.at .. run.at + k - 1 : Plan[run.plan][i] = Step(p)
  BY <1>3 DEF Step
<1>9. ~ Matters(Step(p))
  BY <1>1 DEF Matters
<1>10. k \in Nat \ {0} /\ run.at + k <= Len(Plan[run.plan]) + 1
  BY <1>3
<1>11. /\ next.plan = run.plan /\ next.base = run.base /\ next.at = run.at + k
       /\ next.tx = "none" /\ now + 1 < next.started + Later
       /\ next.stage = IF next.at > Len(Plan[run.plan]) THEN "done" ELSE "step"
       /\ \A i \in run.at .. run.at + k - 1 :
             Matters(Plan[run.plan][i]) => Reached(Plan[run.plan][i], run.base)
  BY <1>4, <1>5, <1>7, <1>8, <1>9
<1> HIDE DEF run, k
<1>12. Sound(next)
  BY <1>1, <1>2, <1>7, <1>10, <1>11, Passing
<1> QED
  BY <1>6, <1>12 DEF Becomes, run

\* The steps that look before they send.
LEMMA CheckSound ==
    ASSUME SeedInv, NEW p \in Scripts, CheckConfig(p) \/ CheckExists(p)
    PROVE  Becomes(p)
<1> DEFINE run == script[p]
           next == [run EXCEPT !.stage = "ready"]
<1>1. Placed(run) /\ Step(p).do \in {"config", "create"}
  BY DEF CheckConfig, CheckExists, At, Placed
<1>2. Sound(run) /\ run \in RunRecord /\ run.tx = "none"
  BY OldSound, StagePlaced DEF CheckConfig, CheckExists, At
<1>3. CASE script' = [script EXCEPT ![p] = next]
  <2>1. /\ next \in RunRecord /\ next.plan = run.plan /\ next.base = run.base
        /\ next.at = run.at /\ next.started = run.started /\ next.stage = "ready"
        /\ next.tx = "none"
    BY <1>2 DEF RunRecord
  <2> HIDE DEF next
  <2>2. Plan[run.plan][run.at].do \in SentSteps
    BY <1>1 DEF Step, SentSteps
  <2>3. Placed(next)
    BY <2>1 DEF Placed
  <2> HIDE DEF run
  <2>4. Sound(next)
    BY <1>1, <1>2, <2>1, <2>2, <2>3, Keeping
  <2> QED
    BY <1>3, <2>4 DEF Becomes
<1>4. CASE script' = [script EXCEPT ![p] = After(p, 1)]
  <2>1. CASE Step(p).do = "config"
    BY <1>1, <1>2, <1>4, <2>1, PassingOne DEF Becomes, Matters
  <2>2. CASE Step(p).do = "create" /\ CampaignExists(Target(p))
    <3>1. Reached(Step(p), run.base)
      BY <2>2 DEF Reached, Target
    <3> QED
      BY <1>1, <1>2, <1>4, <2>2, <3>1, PassingOne DEF Becomes
  <2>3. CASE Step(p).do = "create" /\ ~ CampaignExists(Target(p))
    <3>1. script' = [script EXCEPT ![p] = next]
      BY <2>3 DEF CheckConfig, CheckExists, At, Goes
    <3> QED
      BY <1>3, <3>1
  <2> QED
    BY <1>1, <2>1, <2>2, <2>3
<1> QED
  BY <1>3, <1>4 DEF CheckConfig, CheckExists, Goes

LEMMA CheckOpenSound ==
    ASSUME SeedInv, NEW p \in Scripts, CheckOpen(p)
    PROVE  Becomes(p)
<1> DEFINE run == script[p]
           s == Plan[run.plan]
           step == Step(p)
           c == Target(p)
<1>1. Placed(run) /\ step.do = "whenOpen"
  BY DEF CheckOpen, At, Placed
<1>2. Sound(run) /\ RunTyped(run)
  BY OldSound
<1>3. run.at \in 1 .. Len(s) /\ Len(s) \in Nat
  BY <1>1, OldSound
<1>4. ~ Matters(step)
  BY <1>1 DEF Matters
<1>5. CASE IsOpen(c)
  <2>1. script' = [script EXCEPT ![p] = After(p, 1)]
    BY <1>5 DEF CheckOpen, Goes
  <2>2. Sound(After(p, 1))
    BY <1>1, <1>2, <1>4, PassingOne
  <2> QED
    BY <2>1, <2>2 DEF Becomes
<1>6. CASE ~ IsOpen(c)
  <2> DEFINE k == 1 + step.skip
             next == After(p, k)
  <2>1. script' = [script EXCEPT ![p] = next]
    BY <1>6 DEF CheckOpen, Goes
  <2>2. SkipsWell(s, run.at) /\ StepWell(s, run.at, Size(run.plan)) /\ s[run.at] = step
    BY <1>1, <1>2, RunFacts DEF Step
  <2>3. /\ step.skip \in Nat /\ run.at + 1 + step.skip <= Len(s)
        /\ \E j \in 1 .. run.at - 1 : /\ s[j].do = "create" /\ s[j].window = Later
                                      /\ s[j].slot = step.slot
        /\ \A j \in run.at + 1 .. run.at + step.skip :
              s[j].do \in {"score", "settle"} /\ s[j].slot = step.slot
    BY <1>1, <2>2 DEF SkipsWell
  <2>4. k \in Nat \ {0} /\ run.at + k <= Len(s) + 1
    BY <1>3, <2>3
  <2>5. CampaignExists(c)
    <3>1. PICK j \in 1 .. run.at - 1 : /\ s[j].do = "create" /\ s[j].window = Later
                                       /\ s[j].slot = step.slot
      BY <2>3
    <3>2. Matters(s[j]) => Reached(s[j], run.base)
      BY <1>1, <1>2 DEF Sound, PassedBy
    <3> QED
      BY <3>1, <3>2 DEF Matters, Reached, Target
  <2>6. c \in Campaigns
    BY <1>1, <1>2, <2>2, TargetInBlock DEF StepWell, Target
  <2>7. Settled(c)
    BY <1>6, <2>5, <2>6, OpenOrSettled DEF SeedInv, SeedTypeOK
  <2>8. \A i \in run.at .. run.at + k - 1 :
            i = run.at \/ i \in run.at + 1 .. run.at + step.skip
    BY <1>3, <2>3
  <2>9. \A i \in run.at .. run.at + k - 1 : s[i].do # "clock"
    BY <1>1, <2>2, <2>3, <2>8
  <2>10. ASSUME NEW i \in run.at .. run.at + k - 1, Matters(s[i])
         PROVE  Reached(s[i], run.base)
    <3>1. s[i].do \in {"score", "settle"} /\ s[i].slot = step.slot
      BY <1>4, <2>2, <2>3, <2>8, <2>10
    <3> QED
      BY <2>7, <3>1 DEF Reached, Target
  <2>11. /\ next \in RunRecord
         /\ next.plan = run.plan /\ next.base = run.base
         /\ next.at = run.at + k /\ next.started = run.started /\ next.tx = "none"
         /\ next.stage = IF next.at > Len(s) THEN "done" ELSE "step"
    BY <1>1, <1>2, <2>4, AfterFacts
  <2> HIDE DEF next, k, step, c
  <2>12. Sound(run) /\ Placed(run)
    BY <1>1, <1>2
  <2> HIDE DEF run
  <2>13. Sound(next)
    BY <2>4, <2>9, <2>10, <2>11, <2>12, Passing
  <2> QED
    BY <2>1, <2>13 DEF Becomes
<1> QED
  BY <1>5, <1>6

\* The steps that leave the run where it is, with a transaction or a document.
LEMMA SendSound ==
    ASSUME SeedInv, NEW p \in Scripts,
           Submit(p) \/ Retry(p) \/ Includes(p) \/ IncludesFailed(p)
    PROVE  Becomes(p)
<1> DEFINE run == script[p]
           Fits(next) ==
               /\ next \in RunRecord /\ next.plan = run.plan /\ next.base = run.base
               /\ next.at = run.at /\ next.started = run.started
               /\ \/ next.stage = "ready" /\ next.tx = "none"
                  \/ next.stage = "waiting" /\ next.tx # "none"
<1>1. /\ Placed(run) /\ Step(p).do \in SentSteps
      /\ script[p].tx = "inflight" => run.stage = "waiting"
  BY StagePlaced DEF Submit, Retry, Includes, IncludesFailed, Placed
<1>2. Sound(run) /\ run \in RunRecord
  BY OldSound
<1>3. run.attempt \in Nat
  BY <1>2 DEF RunRecord
<1>4. ASSUME NEW next, Fits(next), script' = [script EXCEPT ![p] = next]
      PROVE  Becomes(p)
  <2>1. Placed(next) /\ next.stage \notin {"writing", "pushing"}
    BY <1>4 DEF Placed
  <2>2. Plan[run.plan][run.at].do \in SentSteps
    BY <1>1 DEF Step
  <2>3. /\ next \in RunRecord /\ next.plan = run.plan /\ next.base = run.base
        /\ next.at = run.at /\ next.started = run.started
        /\ next.stage = "waiting" <=> next.tx # "none"
    BY <1>4
  <2> HIDE DEF run, Fits
  <2>4. Sound(next)
    BY <1>1, <1>2, <2>1, <2>2, <2>3, Keeping
  <2> QED
    BY <1>4, <2>4 DEF Becomes
<1>5. CASE Submit(p)
  <2> DEFINE next == [run EXCEPT !.stage = "waiting", !.tx = "inflight"]
  <2>1. Fits(next)
    BY <1>2 DEF RunRecord
  <2>2. script' = [script EXCEPT ![p] = next]
    BY <1>5 DEF Submit, Goes
  <2> HIDE DEF next, Fits
  <2> QED
    BY <1>4, <2>1, <2>2
<1>6. CASE Retry(p)
  <2> DEFINE next == [run EXCEPT !.stage = "ready", !.attempt = @ + 1]
  <2>1. run.tx = "none"
    BY <1>6, StagePlaced DEF Retry
  <2> DEFINE attempt == run.attempt + 1
  <2>2. attempt \in Nat /\ next = [run EXCEPT !.stage = "ready", !.attempt = attempt]
    BY <1>3
  <2>3. script' = [script EXCEPT ![p] = next]
    BY <1>6 DEF Retry, Goes
  <2> HIDE DEF attempt, next
  <2>4. Fits(next)
    BY <1>2, <2>1, <2>2 DEF RunRecord
  <2> HIDE DEF Fits
  <2> QED
    BY <1>4, <2>3, <2>4
<1>7. CASE Includes(p)
  <2> DEFINE next == [run EXCEPT !.tx = "ok"]
  <2>1. run.stage = "waiting"
    BY <1>1, <1>7 DEF Includes
  <2>2. Fits(next)
    BY <1>2, <2>1 DEF RunRecord
  <2>3. script' = [script EXCEPT ![p] = next]
    BY <1>7 DEF Includes, Goes
  <2> HIDE DEF next, Fits
  <2> QED
    BY <1>4, <2>2, <2>3
<1>8. CASE IncludesFailed(p)
  <2> DEFINE next == [run EXCEPT !.tx = "failed"]
  <2>1. run.stage = "waiting"
    BY <1>1, <1>8 DEF IncludesFailed
  <2>2. Fits(next)
    BY <1>2, <2>1 DEF RunRecord
  <2>3. script' = [script EXCEPT ![p] = next]
    BY <1>8 DEF IncludesFailed, Goes
  <2> HIDE DEF next, Fits
  <2> QED
    BY <1>4, <2>2, <2>3
<1> QED
  BY <1>5, <1>6, <1>7, <1>8

LEMMA EndSound ==
    ASSUME SeedInv, NEW p \in Scripts, NEW next,
           next = [script[p] EXCEPT !.stage = "failed", !.tx = "none"],
           script' = [script EXCEPT ![p] = next]
    PROVE  Becomes(p)
<1>1. next \in RunRecord /\ next.stage = "failed" /\ next.tx = "none"
  BY OldSound DEF RunRecord
<1>2. Sound(next)
  BY <1>1, Ending
<1> QED
  BY <1>2 DEF Becomes

LEMMA RefusedSound ==
    ASSUME SeedInv, NEW p \in Scripts, Refused(p)
    PROVE  Becomes(p)
<1>1. Placed(script[p]) /\ script[p].tx = "none" /\ Sound(script[p]) /\ script[p] \in RunRecord
  BY StagePlaced, OldSound DEF Refused
<1>2. CASE Tolerated(p)
  <2>1. Step(p).do # "clock" /\ ~ Matters(Step(p))
    BY <1>2 DEF Tolerated, Matters
  <2>2. Sound(After(p, 1))
    BY <1>1, <2>1, PassingOne
  <2>3. script' = [script EXCEPT ![p] = After(p, 1)]
    BY <1>2 DEF Refused, Goes
  <2> QED
    BY <2>2, <2>3 DEF Becomes
<1>3. CASE ~ Tolerated(p)
  <2>1. script' = [script EXCEPT ![p] = [script[p] EXCEPT !.stage = "failed"]]
    BY <1>3 DEF Refused, Goes
  <2> DEFINE next == [script[p] EXCEPT !.stage = "failed"]
  <2>2. next \in RunRecord /\ next.stage = "failed" /\ next.tx = "none"
    BY <1>1 DEF RunRecord
  <2>3. script' = [script EXCEPT ![p] = next]
    BY <2>1
  <2> HIDE DEF next
  <2>4. Sound(next)
    BY <2>2, Ending
  <2> QED
    BY <2>3, <2>4 DEF Becomes
<1> QED
  BY <1>2, <1>3

LEMMA ConfirmedSound ==
    ASSUME SeedInv, NEW p \in Scripts, Confirmed(p)
    PROVE  Becomes(p)
<1>1. /\ script[p].stage = "waiting" /\ Placed(script[p]) /\ Sound(script[p])
      /\ Step(p).do \in SentSteps
  BY StagePlaced, OldSound DEF Confirmed
<1>2. Matters(Step(p)) => Reached(Step(p), script[p].base)
  BY <1>1 DEF SeedInv, WaitingInv, WaitingOf, Confirmed, Step
<1>3. Step(p).do # "clock"
  BY <1>1 DEF SentSteps
<1>4. Sound(After(p, 1))
  BY <1>1, <1>2, <1>3, PassingOne
<1> QED
  BY <1>4 DEF Confirmed, Goes, Becomes

\* The labels a seeder adds are those of campaigns it has created.
LEMMA DraftDocumented ==
    ASSUME SeedInv, NEW p \in Scripts, At(p, "step", "publish")
    PROVE  LET draft == Upsert(file, script[p].base, Step(p).labels)
           IN draft \in [Campaigns -> Labels] /\ Documented(draft)
<1> DEFINE run == script[p]
           s == Plan[run.plan]
           labels == Step(p).labels
           draft == Upsert(file, run.base, labels)
<1>1. Placed(run) /\ Sound(run) /\ RunTyped(run)
  BY OldSound DEF At, Placed
<1>2. /\ run.base \in Nat /\ run.at \in Nat
      /\ PublishesWell(s, run.at) /\ s[run.at] = Step(p)
  BY <1>1, RunFacts DEF Step
<1>3. \A k \in DOMAIN labels :
          /\ k \in Int /\ labels[k] \in Labels
          /\ \E j \in 1 .. run.at - 1 : /\ s[j].do = "create" /\ s[j].window = Later
                                        /\ s[j].slot = k - 1
  BY <1>2 DEF PublishesWell, At
<1>4. Campaigns \subseteq Int
  BY Setting
<1>5. file \in [Campaigns -> Labels] /\ Documented(file)
  BY DEF SeedInv, SeedTypeOK, DocumentInv
<1>6. draft = [c \in Campaigns |-> IF c - run.base + 1 \in DOMAIN labels
                                     THEN labels[c - run.base + 1] ELSE file[c]]
  BY DEF Upsert
<1> HIDE DEF draft, labels
<1>7. draft \in [Campaigns -> Labels]
  BY <1>3, <1>5, <1>6
<1>8. ASSUME NEW c \in Campaigns, draft[c] # NoLabel
      PROVE  CampaignExists(c)
  <2>1. CASE c - run.base + 1 \in DOMAIN labels
    <3> DEFINE k == c - run.base + 1
    <3>1. run.base + (k - 1) = c
      BY <1>2, <1>4
    <3>2. k \in DOMAIN labels
      BY <2>1
    <3> HIDE DEF k
    <3>3. PICK j \in 1 .. run.at - 1 : /\ s[j].do = "create" /\ s[j].window = Later
                                       /\ s[j].slot = k - 1
      BY <1>3, <3>2
    <3>4. Reached(s[j], run.base)
      BY <1>1, <3>3 DEF Sound, PassedBy, Matters
    <3> QED
      BY <3>1, <3>3, <3>4 DEF Reached
  <2>2. CASE c - run.base + 1 \notin DOMAIN labels
    BY <1>5, <1>6, <1>8, <2>2 DEF Documented
  <2> QED
    BY <2>1, <2>2
<1> QED
  BY <1>7, <1>8 DEF Documented, draft, labels

LEMMA DocumentSound ==
    ASSUME SeedInv, NEW p \in Scripts, ReadDocument(p) \/ WriteDocument(p) \/ Push(p)
    PROVE  Becomes(p)
<1> DEFINE run == script[p]
           Fits(next) ==
               /\ next \in RunRecord /\ next.plan = run.plan /\ next.base = run.base
               /\ next.at = run.at /\ next.started = run.started
               /\ next.stage \in {"writing", "pushing"} /\ next.tx = "none"
               /\ next.draft \in [Campaigns -> Labels] /\ Documented(next.draft)
<1>1. Placed(run) /\ run.tx = "none"
  BY StagePlaced DEF ReadDocument, WriteDocument, Push, At
<1>2. Sound(run) /\ RunTyped(run) /\ run \in RunRecord
  BY OldSound
<1>3. Step(p).do = "publish"
  BY <1>2 DEF ReadDocument, WriteDocument, Push, At, RunTyped, Step
<1>4. ASSUME NEW next, Fits(next), script' = [script EXCEPT ![p] = next]
      PROVE  Becomes(p)
  <2>1. /\ Placed(next) /\ next.stage \notin {"ready", "waiting"}
        /\ next.stage = "waiting" <=> next.tx # "none"
    BY <1>4 DEF Placed
  <2>2. Plan[run.plan][run.at].do = "publish"
    BY <1>3 DEF Step
  <2>3. /\ next \in RunRecord /\ next.plan = run.plan /\ next.base = run.base
        /\ next.at = run.at /\ next.started = run.started
        /\ next.draft \in [Campaigns -> Labels] /\ Documented(next.draft)
    BY <1>4
  <2> HIDE DEF run, Fits
  <2>4. Sound(next)
    BY <1>1, <1>2, <2>1, <2>2, <2>3, Keeping
  <2> QED
    BY <1>4, <2>4 DEF Becomes
<1>5. CASE ReadDocument(p)
  <2> DEFINE draft == Upsert(file, run.base, Step(p).labels)
             next == [run EXCEPT !.stage = "writing", !.draft = draft]
  <2>1. draft \in [Campaigns -> Labels] /\ Documented(draft)
    BY <1>5, DraftDocumented DEF ReadDocument
  <2>2. script' = [script EXCEPT ![p] = next]
    BY <1>5 DEF ReadDocument, Goes
  <2> HIDE DEF draft
  <2>3. Fits(next)
    BY <1>1, <1>2, <2>1 DEF RunRecord
  <2> HIDE DEF next, Fits
  <2> QED
    BY <1>4, <2>2, <2>3
<1>6. CASE WriteDocument(p)
  <2> DEFINE next == [run EXCEPT !.stage = "pushing"]
  <2>1. run.draft \in [Campaigns -> Labels] /\ Documented(run.draft)
    BY <1>2, <1>6 DEF WriteDocument, RunTyped, Sound, DraftOf
  <2>2. script' = [script EXCEPT ![p] = next]
    BY <1>6 DEF WriteDocument, Goes
  <2>3. Fits(next)
    BY <1>1, <1>2, <2>1 DEF RunRecord
  <2> HIDE DEF next, Fits
  <2> QED
    BY <1>4, <2>2, <2>3
<1>7. CASE Push(p)
  <2> DEFINE passed == After(p, 1)
             next == [passed EXCEPT !.draft = << >>]
  <2>1. script' = [script EXCEPT ![p] = next]
    BY <1>7 DEF Push, Goes
  <2>2. Sound(passed)
    BY <1>1, <1>2, <1>3, PassingOne DEF Matters
  <2>3. passed \in RunRecord /\ passed.stage \in {"done", "step"}
    BY <1>1, <1>2, AfterFacts
  <2> HIDE DEF passed
  <2>4. /\ next \in RunRecord /\ next.plan = passed.plan /\ next.base = passed.base
        /\ next.at = passed.at /\ next.started = passed.started
        /\ next.stage = passed.stage /\ next.tx = passed.tx
    BY <2>3 DEF RunRecord
  <2> HIDE DEF next
  <2>5. RunTyped(next)
    BY <2>2, <2>3, <2>4 DEF Sound, RunTyped, Placed, Block
  <2>6. Sound(next)
    BY <2>2, <2>3, <2>4, <2>5 DEF Sound, TimeOf, PassedBy, DraftOf, Placed
  <2> QED
    BY <2>1, <2>6 DEF Becomes
<1> QED
  BY <1>5, <1>6, <1>7

LEMMA OwnStepSound ==
    ASSUME SeedInv, NEW p \in Scripts,
           \/ Begins(p) \/ ScriptStep(p) \/ Kill(p)
           \/ Includes(p) \/ IncludesFailed(p)
    PROVE  Becomes(p)
<1>1. CASE Begins(p)
  <2>1. PICK plan \in PlansOf(cluster) :
          \/ \E base \in IF cluster = "devnet" THEN GivenBases ELSE ClockBases :
                Begin(p, plan, base)
          \/ plan \in {"single", "bundle"} /\ BeginSearch(p, plan)
    BY <1>1 DEF Begins
  <2> QED
    BY <2>1, BeginSound
<1>2. CASE Kill(p) \/ Timeout(p)
  BY <1>2, EndSound DEF Kill, Timeout, End, Goes
<1> QED
  BY <1>1, <1>2, SearchSound, ReadClockSound, CheckSound, CheckOpenSound, SendSound,
     RefusedSound, ConfirmedSound, DocumentSound DEF ScriptStep

-----------------------------------------------------------------------------
(* The invariant is inductive *)

LEMMA RunsStep ==
    ASSUME SeedInv, [SeedNext]_seedVars
    PROVE  /\ script' \in [Scripts -> RunRecord]
           /\ \A q \in Scripts : Sound(script'[q])
<1>1. script \in [Scripts -> RunRecord] /\ \A q \in Scripts : Sound(script[q])
  BY OldSound DEF SeedInv, SeedTypeOK
<1>2. CASE script' = script
  BY <1>1, <1>2
<1>3. ASSUME NEW p \in Scripts, Becomes(p)
      PROVE  /\ script' \in [Scripts -> RunRecord]
             /\ \A q \in Scripts : Sound(script'[q])
  <2>1. PICK next : Sound(next) /\ script' = [script EXCEPT ![p] = next]
    BY <1>3 DEF Becomes
  <2>2. next \in RunRecord
    BY <2>1 DEF Sound, RunTyped
  <2>3. script'[p] = next /\ \A q \in Scripts \ {p} : script'[q] = script[q]
    BY <1>1, <2>1
  <2> QED
    BY <1>1, <2>1, <2>2, <2>3
<1>4. CASE Outsider \/ SeedTick \/ \E tx \in stray : IncludesStray(tx)
  BY <1>2, <1>4 DEF Outsider, SeedTick, IncludesStray
<1>5. CASE UNCHANGED seedVars
  BY <1>2, <1>5 DEF seedVars
<1> QED
  BY <1>3, <1>4, <1>5, OwnStepSound DEF SeedNext

\* The ids of the steps a run has passed.
LEMMA PassedId ==
    ASSUME NEW run, RunTyped(run), Placed(run) \/ run.stage = "done",
           NEW i \in 1 .. run.at - 1, Matters(Plan[run.plan][i])
    PROVE  run.base + Plan[run.plan][i].slot \in Campaigns
<1> DEFINE s == Plan[run.plan]
<1>1. /\ run.plan \in DOMAIN Plan /\ run.base \in Nat /\ run.at \in Nat
      /\ run.at <= Len(s) + 1 /\ Block(run) \subseteq Campaigns
      /\ Len(s) \in Nat
  <2>1. run.plan \in DOMAIN Plan /\ run.base \in Nat /\ run.at \in Nat
    BY DEF RunTyped, RunRecord
  <2>2. Len(s) \in Nat
    BY <2>1, PlansWell
  <2>3. CASE Placed(run)
    BY <2>1, <2>2, <2>3 DEF RunTyped
  <2>4. CASE run.stage = "done"
    BY <2>1, <2>2, <2>4 DEF RunTyped
  <2> QED
    BY <2>1, <2>2, <2>3, <2>4
<1>2. StepWell(s, i, Size(run.plan))
  BY <1>1, PlansWell DEF Well
<1>3. s[i].slot \in 0 .. Size(run.plan) - 1
  BY <1>2 DEF StepWell, Matters
<1>4. Size(run.plan) \in Nat
  BY DEF Size
<1> QED
  BY <1>1, <1>3, <1>4 DEF Block

\* What is true of a run stays true while the chain moves on.
LEMMA SoundStays ==
    ASSUME SeedInv, SeedChain, cluster' = cluster, NEW q \in Scripts,
           Sound(script'[q]),
           \/ now' = now
           \/ Placed(script'[q]) => now' + 1 < script'[q].started + Later
    PROVE  /\ RunTyped(script[q])' /\ TimeOf(script[q])'
           /\ PassedBy(script[q])' /\ DraftOf(script[q])'
<1> DEFINE Exists(c) == campaign'[c] # NoCampaign
           Done(c) == campaign'[c].status \in {"settled_success", "settled_refund"}
<1>1. \A c \in Campaigns :
          /\ CampaignExists(c) => Exists(c)
          /\ Settled(c) => Done(c)
  BY ChainFacts DEF SeedInv, SeedTypeOK, CampaignExists, Settled
<1>2. RunTyped(script[q])'
  BY DEF Sound, RunTyped, Placed, Block, PlansOf
<1>3. TimeOf(script[q])'
  BY DEF Sound, TimeOf, Placed
<1>4. PassedBy(script[q])'
  <2> DEFINE Onward(r) ==
               Placed(r) \/ r.stage = "done" =>
                   \A i \in 1 .. r.at - 1 :
                       LET step == Plan[r.plan][i]
                           c == r.base + step.slot
                       IN Matters(step) => IF step.do = "create" THEN Exists(c)
                                           ELSE Done(c)
  <2>1. ASSUME NEW r, Sound(r)
        PROVE  Onward(r)
    <3> SUFFICES ASSUME Placed(r) \/ r.stage = "done",
                        NEW i \in 1 .. r.at - 1, Matters(Plan[r.plan][i])
                 PROVE  IF Plan[r.plan][i].do = "create"
                          THEN Exists(r.base + Plan[r.plan][i].slot)
                          ELSE Done(r.base + Plan[r.plan][i].slot)
      OBVIOUS
    <3>1. r.base + Plan[r.plan][i].slot \in Campaigns
      BY <2>1, PassedId DEF Sound
    <3>2. Reached(Plan[r.plan][i], r.base)
      BY <2>1 DEF Sound, PassedBy
    <3> QED
      BY <1>1, <3>1, <3>2 DEF Reached
  <2>2. Onward(script'[q])
    BY <2>1
  <2> QED
    BY <2>2 DEF PassedBy, Reached, Placed, Matters, CampaignExists, Settled
<1>5. DraftOf(script[q])'
  BY <1>1 DEF Sound, DraftOf, Documented, CampaignExists
<1> QED
  BY <1>2, <1>3, <1>4, <1>5

LEMMA RunsStay ==
    ASSUME SeedInv, [SeedNext]_seedVars
    PROVE  \A q \in Scripts :
              /\ RunTyped(script[q])' /\ TimeOf(script[q])'
              /\ PassedBy(script[q])' /\ DraftOf(script[q])'
<1>1. SeedChain /\ ClockMoves /\ cluster' = cluster
  BY SeedStepOnChain DEF SeedInv
<1> TAKE q \in Scripts
<1>2. Sound(script'[q])
  BY RunsStep
<1>3. ASSUME script' = script, Running(q) => now' + 1 < script[q].started + Later
      PROVE  Placed(script'[q]) => now' + 1 < script'[q].started + Later
  BY <1>3 DEF Running, Placed
<1> QED
  BY <1>1, <1>2, <1>3, SoundStays DEF ClockMoves

\* Transactions that their runs leave behind.
LEMMA StrayStep ==
    ASSUME [SeedNext]_seedVars, NEW tx \in stray'
    PROVE  tx \in stray \/ \E p \in Scripts : /\ script[p].tx = "inflight" /\ tx = Tx(p)
                                              /\ Kill(p) \/ Timeout(p)
<1>1. ASSUME NEW p \in Scripts, Kill(p) \/ Timeout(p)
      PROVE  tx \in stray \/ (script[p].tx = "inflight" /\ tx = Tx(p))
  BY <1>1 DEF Kill, Timeout, End
<1>2. ASSUME NEW p \in Scripts, ~ Timeout(p),
             Begins(p) \/ ScriptStep(p) \/ Includes(p) \/ IncludesFailed(p)
      PROVE  stray' = stray
  BY <1>2 DEF Begins, Begin, BeginSearch, ScriptStep, SearchFree, SearchTaken, ReadClock,
              CheckConfig, CheckExists, CheckOpen, Submit, Retry, Refused, Confirmed,
              ReadDocument, WriteDocument, Push, Includes, IncludesFailed, elsewhere
<1>3. CASE Outsider \/ SeedTick \/ UNCHANGED seedVars \/ \E t \in stray : IncludesStray(t)
  BY <1>3 DEF Outsider, SeedTick, seedVars, IncludesStray
<1> QED
  BY <1>1, <1>2, <1>3 DEF SeedNext

LEMMA DocumentsStep ==
    ASSUME [SeedNext]_seedVars
    PROVE  /\ \/ file' = file
              \/ \E p \in Scripts : script[p].stage = "writing" /\ file' = script[p].draft
           /\ \/ blob' = blob
              \/ \E p \in Scripts : script[p].stage = "pushing" /\ blob' = script[p].draft
<1>1. ASSUME NEW p \in Scripts, WriteDocument(p) \/ Push(p)
      PROVE  /\ file' = file \/ (script[p].stage = "writing" /\ file' = script[p].draft)
             /\ blob' = blob \/ (script[p].stage = "pushing" /\ blob' = script[p].draft)
  BY <1>1 DEF WriteDocument, Push, StoreMetadata
<1>2. ASSUME NEW p \in Scripts, ~ WriteDocument(p), ~ Push(p),
             Begins(p) \/ ScriptStep(p) \/ Kill(p) \/ Includes(p) \/ IncludesFailed(p)
      PROVE  file' = file /\ blob' = blob
  BY <1>2 DEF Begins, Begin, BeginSearch, ScriptStep, SearchFree, SearchTaken, ReadClock,
              CheckConfig, CheckExists, CheckOpen, Submit, Retry, Refused, Confirmed,
              ReadDocument, Timeout, Kill, Includes, IncludesFailed, elsewhere
<1>3. CASE Outsider \/ SeedTick \/ UNCHANGED seedVars \/ \E t \in stray : IncludesStray(t)
  BY <1>3 DEF Outsider, SeedTick, seedVars, IncludesStray
<1> QED
  BY <1>1, <1>2, <1>3 DEF SeedNext

LEMMA SpentStep ==
    ASSUME SeedInv, [SeedNext]_seedVars
    PROVE  /\ spent' \in [runs : 0 .. MaxRuns, plans : SUBSET DOMAIN Plan,
                          disturbances : Nat]
           /\ spent'.runs >= spent.runs
<1>1. /\ spent \in [runs : 0 .. MaxRuns, plans : SUBSET DOMAIN Plan, disturbances : Nat]
      /\ spent.runs \in 0 .. MaxRuns /\ spent.disturbances \in Nat /\ MaxRuns \in Nat
      /\ spent.plans \in SUBSET DOMAIN Plan
  BY Setting DEF SeedInv, SeedTypeOK
<1>2. CASE spent' = spent
  BY <1>1, <1>2
<1>3. CASE spent' = [spent EXCEPT !.disturbances = @ + 1]
  BY <1>1, <1>3
<1>4. ASSUME NEW p \in Scripts, NEW plan \in PlansOf(cluster), MayBegin(p, plan), Counts(plan)
      PROVE  /\ spent' \in [runs : 0 .. MaxRuns, plans : SUBSET DOMAIN Plan,
                            disturbances : Nat]
             /\ spent'.runs >= spent.runs
  <2> DEFINE runs == IF plan = "init" THEN spent.runs ELSE spent.runs + 1
             plans == spent.plans \cup ({plan} \ Repeated)
  <2>1. spent' = [spent EXCEPT !.runs = runs, !.plans = plans]
    BY <1>1, <1>4 DEF Counts
  <2>2. runs \in 0 .. MaxRuns /\ runs >= spent.runs
    BY <1>1, <1>4 DEF MayBegin
  <2>3. plan \in DOMAIN Plan
    BY PlanLengths DEF PlansOf, Plans
  <2>4. plans \in SUBSET DOMAIN Plan
    BY <1>1, <2>3
  <2> HIDE DEF runs, plans
  <2> QED
    BY <1>1, <2>1, <2>2, <2>4
<1>5. ASSUME NEW p \in Scripts, Begins(p)
      PROVE  /\ spent' \in [runs : 0 .. MaxRuns, plans : SUBSET DOMAIN Plan,
                            disturbances : Nat]
             /\ spent'.runs >= spent.runs
  BY <1>4, <1>5 DEF Begins, Begin, BeginSearch
<1>6. ASSUME NEW p \in Scripts, ScriptStep(p) \/ Includes(p) \/ IncludesFailed(p)
      PROVE  spent' = spent
  BY <1>6 DEF ScriptStep, SearchFree, SearchTaken, ReadClock,
              CheckConfig, CheckExists, CheckOpen, Submit, Retry, Refused, Confirmed,
              ReadDocument, WriteDocument, Push, Timeout, Includes, IncludesFailed,
              elsewhere
<1>7. ASSUME NEW p \in Scripts, Kill(p)
      PROVE  spent' = [spent EXCEPT !.disturbances = @ + 1]
  BY <1>7 DEF Kill
<1>8. CASE Outsider
  BY <1>3, <1>8 DEF Outsider
<1>9. CASE SeedTick \/ UNCHANGED seedVars \/ \E t \in stray : IncludesStray(t)
  BY <1>2, <1>9 DEF SeedTick, seedVars, IncludesStray
<1> QED
  BY <1>2, <1>3, <1>5, <1>6, <1>7, <1>8, <1>9 DEF SeedNext

LEMMA SeedTypeStep ==
    ASSUME SeedInv, [SeedNext]_seedVars
    PROVE  SeedTypeOK'
<1>1. /\ TypeOK' /\ now' <= LastTime /\ cluster' = cluster
  BY SeedStepOnChain, ChainFacts DEF SeedInv, SeedTypeOK
<1>2. script' \in [Scripts -> RunRecord] /\ \A p \in Scripts : RunTyped(script[p])'
  BY RunsStep, RunsStay
<1>3. ASSUME NEW tx \in stray'
      PROVE  SeedTx(tx)
  <2>1. CASE tx \in stray
    BY <2>1 DEF SeedInv, SeedTypeOK
  <2>2. ASSUME NEW p \in Scripts, script[p].tx = "inflight", tx = Tx(p)
        PROVE  SeedTx(tx)
    BY <2>2, InFlight, TxTyped DEF SeedInv
  <2> QED
    BY <2>1, <2>2, StrayStep
<1>4. \A tx \in stray' : SeedTx(tx)'
  BY <1>1, <1>3 DEF SeedTx
<1>5. file' \in [Campaigns -> Labels] /\ blob' \in [Campaigns -> Labels]
  <2>1. file \in [Campaigns -> Labels] /\ blob \in [Campaigns -> Labels]
    BY DEF SeedInv, SeedTypeOK
  <2>2. \A p \in Scripts : script[p].stage \in {"writing", "pushing"} =>
            script[p].draft \in [Campaigns -> Labels]
    BY OldSound DEF RunTyped
  <2> QED
    BY <2>1, <2>2, DocumentsStep
<1> QED
  BY <1>1, <1>2, <1>4, <1>5, SpentStep DEF SeedInv, SeedTypeOK

LEMMA DocumentStep ==
    ASSUME SeedInv, [SeedNext]_seedVars
    PROVE  TimeInv' /\ PassedInv' /\ DocumentInv'
<1>1. TimeInv' /\ PassedInv'
  BY RunsStay DEF TimeInv, PassedInv
<1>2. \A c \in Campaigns : CampaignExists(c) => CampaignExists(c)'
  BY SeedStepOnChain, ChainFacts DEF SeedInv, SeedTypeOK
<1>3. ASSUME NEW doc, Documented(doc)
      PROVE  \A c \in Campaigns : doc[c] # NoLabel => CampaignExists(c)'
  BY <1>2, <1>3 DEF Documented
<1>4. Documented(file) /\ Documented(blob)
  BY DEF SeedInv, DocumentInv
<1>5. \A p \in Scripts : script[p].stage \in {"writing", "pushing"} =>
          Documented(script[p].draft)
  BY DEF SeedInv, DocumentInv, DraftOf
<1>6. \A c \in Campaigns : file'[c] # NoLabel => CampaignExists(c)'
  BY <1>3, <1>4, <1>5, DocumentsStep
<1>7. \A c \in Campaigns : blob'[c] # NoLabel => CampaignExists(c)'
  BY <1>3, <1>4, <1>5, DocumentsStep
<1>8. Documented(file)' /\ Documented(blob)'
  BY <1>6, <1>7 DEF Documented
<1> QED
  BY <1>1, <1>8, RunsStay DEF DocumentInv

\* A run that stays with its ids, or that takes none.
StaysPut(run, next) ==
    /\ Placed(next) => /\ Placed(run)
                       /\ next.plan = run.plan /\ next.base = run.base
    /\ next.stage = "search" => run.stage = "search"

LEMMA OtherStepsStayPut ==
    ASSUME SeedInv, NEW p \in Scripts, ~ SearchFree(p),
           ScriptStep(p) \/ Kill(p) \/ Includes(p) \/ IncludesFailed(p)
    PROVE  \A q \in Scripts : StaysPut(script[q], script'[q])
<1> DEFINE run == script[p]
<1>1. script \in [Scripts -> RunRecord] /\ run \in RunRecord
  BY OldSound DEF SeedInv, SeedTypeOK
<1>2. \A q \in Scripts : StaysPut(script[q], script[q])
  BY DEF StaysPut
<1>3. ASSUME NEW next, script' = [script EXCEPT ![p] = next], StaysPut(run, next)
      PROVE  \A q \in Scripts : StaysPut(script[q], script'[q])
  BY <1>1, <1>2, <1>3
<1>4. \A k : /\ After(p, k).plan = run.plan /\ After(p, k).base = run.base
             /\ After(p, k).stage # "search"
             /\ After(p, k) \in [plan : {run.plan}, base : {run.base}, stage : {"done", "step"},
                                 at : {run.at + k}, started : {run.started}, tx : {"none"},
                                 attempt : {0}, draft : {run.draft}]
  BY <1>1 DEF After, RunRecord
<1>5. ASSUME NEW k, Placed(run)
      PROVE  StaysPut(run, After(p, k))
  BY <1>4, <1>5 DEF StaysPut
<1> USE DEF Goes
<1>6. CASE SearchTaken(p)
  <2> DEFINE next == [run EXCEPT !.at = 0, !.base = run.base + BlockSize(run.plan)]
  <2>1. script' = [script EXCEPT ![p] = next] /\ run.stage = "search"
    BY <1>6 DEF SearchTaken
  <2>2. next.stage = "search"
    BY <1>1, <2>1 DEF RunRecord
  <2> HIDE DEF next
  <2>3. StaysPut(run, next)
    BY <2>1, <2>2 DEF StaysPut, Placed
  <2> QED
    BY <1>3, <2>1, <2>3
<1>7. CASE ReadClock(p)
  <2> DEFINE passed == After(p, 1)
             next == [passed EXCEPT !.started = now]
  <2>1. script' = [script EXCEPT ![p] = next] /\ Placed(run)
    BY <1>7 DEF ReadClock, At, Placed
  <2>2. next.plan = run.plan /\ next.base = run.base /\ next.stage # "search"
    <3> HIDE DEF passed
    <3>1. /\ passed.plan = run.plan /\ passed.base = run.base /\ passed.stage # "search"
          /\ passed \in [plan : {run.plan}, base : {run.base}, stage : {"done", "step"},
                                 at : {run.at + 1}, started : {run.started}, tx : {"none"},
                                 attempt : {0}, draft : {run.draft}]
      BY <1>4 DEF passed
    <3> QED
      BY <3>1
  <2> HIDE DEF next
  <2> QED
    BY <1>3, <2>1, <2>2 DEF StaysPut
<1>8. CASE Push(p)
  <2> DEFINE passed == After(p, 1)
             next == [passed EXCEPT !.draft = << >>]
  <2>1. script' = [script EXCEPT ![p] = next] /\ Placed(run)
    BY <1>8 DEF Push, Placed
  <2>2. next.plan = run.plan /\ next.base = run.base /\ next.stage # "search"
    <3> HIDE DEF passed
    <3>1. /\ passed.plan = run.plan /\ passed.base = run.base /\ passed.stage # "search"
          /\ passed \in [plan : {run.plan}, base : {run.base}, stage : {"done", "step"},
                                 at : {run.at + 1}, started : {run.started}, tx : {"none"},
                                 attempt : {0}, draft : {run.draft}]
      BY <1>4 DEF passed
    <3> QED
      BY <3>1
  <2> HIDE DEF next
  <2> QED
    BY <1>3, <2>1, <2>2 DEF StaysPut
<1>9. ASSUME Placed(run), NEW k, script' = [script EXCEPT ![p] = After(p, k)]
      PROVE  \A q \in Scripts : StaysPut(script[q], script'[q])
  BY <1>3, <1>5, <1>9
<1>10. ASSUME NEW next, Placed(run), next.plan = run.plan, next.base = run.base,
              next.stage # "search", script' = [script EXCEPT ![p] = next]
       PROVE  \A q \in Scripts : StaysPut(script[q], script'[q])
  BY <1>3, <1>10 DEF StaysPut
<1>11. ASSUME NEW next, next.stage = "failed", script' = [script EXCEPT ![p] = next]
       PROVE  \A q \in Scripts : StaysPut(script[q], script'[q])
  BY <1>3, <1>11 DEF StaysPut, Placed
<1>12. CASE CheckConfig(p) \/ CheckExists(p)
  <2> DEFINE next == [run EXCEPT !.stage = "ready"]
  <2>1. next.plan = run.plan /\ next.base = run.base /\ next.stage # "search"
    BY <1>1 DEF RunRecord
  <2>2. \/ script' = [script EXCEPT ![p] = After(p, 1)]
        \/ script' = [script EXCEPT ![p] = next]
    BY <1>12 DEF CheckConfig, CheckExists
  <2>3. Placed(run)
    BY <1>12 DEF CheckConfig, CheckExists, At, Placed
  <2> HIDE DEF next
  <2> QED
    BY <1>9, <1>10, <2>1, <2>2, <2>3
<1>13. CASE CheckOpen(p) \/ Confirmed(p)
  <2>1. \E k : script' = [script EXCEPT ![p] = After(p, k)]
    BY <1>13 DEF CheckOpen, Confirmed
  <2>2. Placed(run)
    BY <1>13, StagePlaced DEF CheckOpen, Confirmed, At
  <2> QED
    BY <1>9, <2>1, <2>2
<1>14. CASE Refused(p)
  <2> DEFINE next == [run EXCEPT !.stage = "failed"]
  <2>1. next.stage = "failed"
    BY <1>1 DEF RunRecord
  <2>2. \/ script' = [script EXCEPT ![p] = After(p, 1)]
        \/ script' = [script EXCEPT ![p] = next]
    BY <1>14 DEF Refused
  <2>3. Placed(run)
    BY <1>14, StagePlaced DEF Refused
  <2> HIDE DEF next
  <2> QED
    BY <1>9, <1>11, <2>1, <2>2, <2>3
<1>15. CASE Timeout(p) \/ Kill(p)
  <2> DEFINE next == [run EXCEPT !.stage = "failed", !.tx = "none"]
  <2>1. next.stage = "failed"
    BY <1>1 DEF RunRecord
  <2>2. script' = [script EXCEPT ![p] = next]
    BY <1>15 DEF Timeout, Kill, End
  <2> HIDE DEF next
  <2> QED
    BY <1>11, <2>1, <2>2
<1>16. CASE Submit(p) \/ Retry(p) \/ Includes(p) \/ IncludesFailed(p)
            \/ ReadDocument(p) \/ WriteDocument(p)
  <2> DEFINE Fits(next) == /\ next.plan = run.plan /\ next.base = run.base
                           /\ next.stage # "search"
  <2>1. Placed(run) /\ run.stage # "search"
    <3>1. CASE Sends(p)
      BY <3>1, StagePlaced DEF Placed
    <3>2. CASE script[p].tx = "inflight"
      BY <3>2, StagePlaced DEF Placed
    <3>3. CASE script[p].stage \in {"step", "writing"}
      BY <3>3 DEF Placed
    <3> QED
      BY <1>16, <3>1, <3>2, <3>3 DEF Submit, Retry, Includes, IncludesFailed, ReadDocument,
                                     WriteDocument, At
  <2>2. \A x, y, z : /\ Fits([run EXCEPT !.stage = "waiting", !.tx = x])
                     /\ Fits([run EXCEPT !.stage = "ready", !.attempt = y])
                     /\ Fits([run EXCEPT !.tx = x])
                     /\ Fits([run EXCEPT !.stage = "writing", !.draft = z])
                     /\ Fits([run EXCEPT !.stage = "pushing"])
    BY <1>1, <2>1 DEF RunRecord
  <2>3. \E next : Fits(next) /\ script' = [script EXCEPT ![p] = next]
    <3>1. CASE Submit(p)
      BY <2>2, <3>1 DEF Submit
    <3>2. CASE Retry(p)
      BY <2>2, <3>2 DEF Retry
    <3>3. CASE Includes(p) \/ IncludesFailed(p)
      BY <2>2, <3>3 DEF Includes, IncludesFailed
    <3>4. CASE ReadDocument(p) \/ WriteDocument(p)
      BY <2>2, <3>4 DEF ReadDocument, WriteDocument
    <3> QED
      BY <1>16, <3>1, <3>2, <3>3, <3>4
  <2> QED
    BY <1>10, <2>1, <2>3
<1> QED
  BY <1>6, <1>7, <1>8, <1>12, <1>13, <1>14, <1>15, <1>16 DEF ScriptStep

\* The ids a step takes are new to the runs, and are accounted for by a run
\* that begins or by a search that ends.
Takes(ids) ==
    /\ IsFiniteSet(ids) /\ IsFiniteSet(Searching')
    /\ Cardinality(ids) + 6 * Cardinality(Searching')
          <= 6 * Cardinality(Searching) + 6 * (spent'.runs - spent.runs)
    /\ \A q \in Scripts :
          Placed(script'[q]) =>
              \/ Placed(script[q]) /\ Block(script'[q]) = Block(script[q])
              \/ Block(script'[q]) \subseteq ids

LEMMA BlockSizes ==
    ASSUME NEW base \in Nat, NEW plan, NEW run, run.base = base, run.plan = plan
    PROVE  /\ IsFiniteSet(Block(run)) /\ Cardinality(Block(run)) \in 0 .. 6
           /\ plan = "init" => Cardinality(Block(run)) = 0
<1>1. Size(plan) \in 0 .. 6 /\ (plan = "init" => Size(plan) = 0)
  BY DEF Size
<1> DEFINE b == base + Size(plan) - 1
<1>2. b \in Int /\ Block(run) = base .. b
  BY <1>1 DEF Block
<1>3. Cardinality(Block(run)) = IF base > b THEN 0 ELSE b - base + 1
  BY <1>2, FS_Interval
<1>4. IsFiniteSet(Block(run))
  BY <1>2, FS_Interval
<1> QED
  BY <1>1, <1>3, <1>4

LEMMA TakesIds ==
    ASSUME SeedInv, [SeedNext]_seedVars
    PROVE  \E ids : Takes(ids)
<1>0. /\ spent \in [runs : 0 .. MaxRuns, plans : SUBSET DOMAIN Plan, disturbances : Nat]
      /\ spent.runs \in Int /\ spent'.runs \in Int /\ spent'.runs >= spent.runs
      /\ script \in [Scripts -> RunRecord]
  BY SpentStep, Setting DEF SeedInv, SeedTypeOK
<1>1. IsFiniteSet(Searching) /\ Cardinality(Searching) \in Nat
  BY FS_CardinalityType DEF SeedInv, FundsInv
<1>2. IsFiniteSet({}) /\ Cardinality({}) = 0
  BY FS_EmptySet
<1>3. ASSUME \A q \in Scripts : StaysPut(script[q], script'[q])
      PROVE  Takes({})
  <2>1. Searching' \subseteq Searching
    BY <1>3 DEF Searching, StaysPut
  <2>2. IsFiniteSet(Searching') /\ Cardinality(Searching') <= Cardinality(Searching)
    BY <1>1, <2>1, FS_Subset
  <2>3. Cardinality(Searching') \in Nat
    BY <2>2, FS_CardinalityType
  <2>4. \A q \in Scripts : Placed(script'[q]) =>
            Placed(script[q]) /\ Block(script'[q]) = Block(script[q])
    BY <1>3 DEF StaysPut, Block
  <2> QED
    BY <1>0, <1>1, <1>2, <2>2, <2>3, <2>4 DEF Takes
<1>4. CASE script' = script
  BY <1>3, <1>4 DEF StaysPut
<1>5. ASSUME NEW p \in Scripts, NEW plan \in PlansOf(cluster),
             NEW base \in GivenBases \cup ClockBases, Begin(p, plan, base)
      PROVE  \E ids : Takes(ids)
  <2> DEFINE next == [Off EXCEPT !.plan = plan, !.stage = "step", !.base = base]
             ids == Block(next)
  <2>1. base \in Nat
    BY BasesAssumption
  <2>2. next.plan = plan /\ next.base = base /\ next.stage = "step"
    BY DEF Off
  <2>3. script' = [script EXCEPT ![p] = next]
    BY <1>5 DEF Begin, Goes
  <2> HIDE DEF next
  <2>4. IsFiniteSet(ids) /\ Cardinality(ids) \in 0 .. 6 /\ (plan = "init" => Cardinality(ids) = 0)
    BY <2>1, <2>2, BlockSizes
  <2>5. spent'.runs = IF plan = "init" THEN spent.runs ELSE spent.runs + 1
    BY <1>0, <1>5 DEF Begin, Counts
  <2>6. script'[p] = next /\ \A q \in Scripts \ {p} : script'[q] = script[q]
    BY <1>0, <2>3
  <2>7. Searching' \subseteq Searching
    BY <2>2, <2>6 DEF Searching
  <2>8. IsFiniteSet(Searching') /\ Cardinality(Searching') <= Cardinality(Searching)
    BY <1>1, <2>7, FS_Subset
  <2>9. Cardinality(Searching') \in Nat
    BY <2>8, FS_CardinalityType
  <2>10. \A q \in Scripts : Placed(script'[q]) =>
            \/ Placed(script[q]) /\ Block(script'[q]) = Block(script[q])
            \/ Block(script'[q]) \subseteq ids
    BY <2>6
  <2> HIDE DEF ids
  <2>11. Cardinality(ids) + 6 * Cardinality(Searching')
            <= 6 * Cardinality(Searching) + 6 * (spent'.runs - spent.runs)
    BY <1>0, <1>1, <2>4, <2>5, <2>8, <2>9
  <2> QED
    BY <2>4, <2>8, <2>10, <2>11 DEF Takes
<1>6. ASSUME NEW p \in Scripts, NEW plan \in {"single", "bundle"}, BeginSearch(p, plan)
      PROVE  Takes({})
  <2> DEFINE next == [Off EXCEPT !.plan = plan, !.stage = "search", !.base = 1,
                                 !.at = 0]
  <2>1. next.stage = "search"
    BY DEF Off
  <2>2. script' = [script EXCEPT ![p] = next]
    BY <1>6 DEF BeginSearch, Goes
  <2> HIDE DEF next
  <2>3. spent'.runs = spent.runs + 1
    BY <1>0, <1>6 DEF BeginSearch, Counts
  <2>4. script'[p] = next /\ \A q \in Scripts \ {p} : script'[q] = script[q]
    BY <1>0, <2>2
  <2>5. Searching' = Searching \cup {p}
    BY <2>1, <2>4 DEF Searching
  <2>6. /\ IsFiniteSet(Searching \cup {p})
        /\ Cardinality(Searching \cup {p}) <= Cardinality(Searching) + 1
        /\ Cardinality(Searching \cup {p}) \in Nat
    <3>1. /\ IsFiniteSet(Searching \cup {p})
          /\ Cardinality(Searching \cup {p}) =
                IF p \in Searching THEN Cardinality(Searching) ELSE Cardinality(Searching) + 1
      BY <1>1, FS_AddElement
    <3> QED
      BY <1>1, <3>1
  <2>7. \A q \in Scripts : Placed(script'[q]) =>
            Placed(script[q]) /\ Block(script'[q]) = Block(script[q])
    BY <2>1, <2>4 DEF Placed
  <2>8. 0 + 6 * Cardinality(Searching')
            <= 6 * Cardinality(Searching) + 6 * (spent'.runs - spent.runs)
    BY <1>0, <1>1, <2>3, <2>5, <2>6
  <2> QED
    BY <1>2, <2>5, <2>6, <2>7, <2>8 DEF Takes
<1>7. ASSUME NEW p \in Scripts, SearchFree(p)
      PROVE  \E ids : Takes(ids)
  <2> DEFINE run == script[p]
  <2>1. spent' = spent /\ run.stage = "search" /\ run \in RunRecord /\ p \in Searching
    BY <1>0, <1>7 DEF SearchFree, elsewhere, Searching
  <2>2. CASE run.at + 1 = BlockSize(run.plan)
    <3> DEFINE next == [run EXCEPT !.at = 1, !.stage = "step"]
               ids == Block(next)
    <3>1. next.plan = run.plan /\ next.base = run.base /\ next.stage = "step"
          /\ run.base \in Nat
      BY <2>1 DEF RunRecord
    <3>2. script' = [script EXCEPT ![p] = next]
      BY <1>7, <2>2 DEF SearchFree, Goes
    <3> HIDE DEF next
    <3>3. IsFiniteSet(ids) /\ Cardinality(ids) \in 0 .. 6
      BY <3>1, BlockSizes
    <3>4. script'[p] = next /\ \A q \in Scripts \ {p} : script'[q] = script[q]
      BY <1>0, <3>2
    <3>5. Searching' = Searching \ {p}
      BY <3>1, <3>4 DEF Searching
    <3>6. IsFiniteSet(Searching \ {p}) /\ Cardinality(Searching \ {p}) = Cardinality(Searching) - 1
      BY <1>1, <2>1, FS_RemoveElement
    <3>7. \A q \in Scripts : Placed(script'[q]) =>
            \/ Placed(script[q]) /\ Block(script'[q]) = Block(script[q])
            \/ Block(script'[q]) \subseteq ids
      BY <3>4
    <3> HIDE DEF ids
    <3>8. Cardinality(ids) + 6 * Cardinality(Searching')
            <= 6 * Cardinality(Searching) + 6 * (spent'.runs - spent.runs)
      BY <1>0, <1>1, <2>1, <3>3, <3>5, <3>6
    <3> QED
      BY <3>3, <3>5, <3>6, <3>7, <3>8 DEF Takes
  <2>3. CASE run.at + 1 # BlockSize(run.plan)
    <3> DEFINE next == [run EXCEPT !.at = @ + 1]
    <3>1. next.stage = "search"
      BY <2>1 DEF RunRecord
    <3>2. script' = [script EXCEPT ![p] = next]
      BY <1>7, <2>3 DEF SearchFree, Goes
    <3> HIDE DEF next
    <3>3. script'[p] = next /\ \A q \in Scripts \ {p} : script'[q] = script[q]
      BY <1>0, <3>2
    <3>4. \A q \in Scripts : StaysPut(script[q], script'[q])
      BY <2>1, <3>1, <3>3 DEF StaysPut, Placed
    <3> QED
      BY <1>3, <3>4
  <2> QED
    BY <2>2, <2>3
<1>8. ASSUME NEW p \in Scripts, Begins(p)
      PROVE  \E ids : Takes(ids)
  <2>1. PICK plan \in PlansOf(cluster) :
          \/ \E base \in IF cluster = "devnet" THEN GivenBases ELSE ClockBases :
                Begin(p, plan, base)
          \/ plan \in {"single", "bundle"} /\ BeginSearch(p, plan)
    BY <1>8 DEF Begins
  <2> QED
    BY <1>5, <1>6, <2>1
<1>9. CASE Outsider \/ SeedTick \/ UNCHANGED seedVars \/ \E t \in stray : IncludesStray(t)
  BY <1>4, <1>9 DEF Outsider, SeedTick, seedVars, IncludesStray
<1> QED
  BY <1>3, <1>7, <1>8, <1>9, OtherStepsStayPut DEF SeedNext

LEMMA ClaimedStep ==
    ASSUME SeedInv, [SeedNext]_seedVars, NEW ids, Takes(ids)
    PROVE  Claimed' \subseteq Claimed \cup ids
<1>1. Created' \subseteq Claimed
  <2>1. \/ Created' = Created
        \/ \E c \in Claimed \ Created : Created' = Created \cup {c}
    BY SeedStepOnChain, ChainFacts DEF SeedInv, SeedTypeOK
  <2> QED
    BY <2>1 DEF Claimed
<1>2. ASSUME NEW tx \in stray', tx.request.op \in Creates
      PROVE  tx.request.c \in Claimed
  <2>1. CASE tx \in stray
    BY <1>2, <2>1 DEF Claimed, StrayIds
  <2>2. ASSUME NEW p \in Scripts, script[p].tx = "inflight", tx = Tx(p)
        PROVE  tx.request.c \in Claimed
    <3>1. Placed(script[p]) /\ Step(p).do \in SentSteps /\ RunTyped(script[p])
      BY <2>2, InFlight DEF SeedInv
    <3>2. tx.request.c \in Block(script[p])
      BY <1>2, <2>2, <3>1, TxTyped DEF Creates
    <3> QED
      BY <3>1, <3>2 DEF Claimed
  <2> QED
    BY <2>1, <2>2, StrayStep
<1>3. StrayIds' \subseteq Claimed
  BY <1>2 DEF StrayIds
<1>4. ASSUME NEW q \in Scripts, Placed(script'[q])
      PROVE  Block(script'[q]) \subseteq Claimed \cup ids
  <2>1. Placed(script[q]) => Block(script[q]) \subseteq Claimed
    BY DEF Claimed
  <2> QED
    BY <1>4, <2>1 DEF Takes
<1>5. ASSUME NEW c \in Claimed'
      PROVE  c \in Claimed \cup ids
  <2>1. \/ c \in Created' \/ c \in StrayIds'
        \/ \E q \in Scripts : Placed(script'[q]) /\ c \in Block(script'[q])
    BY <1>5 DEF Claimed, Placed, Block
  <2> QED
    BY <1>1, <1>3, <1>4, <2>1
<1> QED
  BY <1>5

LEMMA FundsStep ==
    ASSUME SeedInv, [SeedNext]_seedVars
    PROVE  FundsInv'
<1>1. PICK ids : Takes(ids)
  BY TakesIds
<1>2. Claimed' \subseteq Claimed \cup ids
  BY <1>1, ClaimedStep
<1>3. IsFiniteSet(Claimed) /\ IsFiniteSet(Searching) /\ IsFiniteSet(ids) /\ IsFiniteSet(Searching')
  BY <1>1 DEF SeedInv, FundsInv, Takes
<1>4. /\ Cardinality(Claimed) \in Nat /\ Cardinality(Searching) \in Nat
      /\ Cardinality(ids) \in Nat /\ Cardinality(Searching') \in Nat
  BY <1>3, FS_CardinalityType
<1>5. IsFiniteSet(Claimed \cup ids) /\ Cardinality(Claimed \cup ids) \in Nat
      /\ Cardinality(Claimed \cup ids) <= Cardinality(Claimed) + Cardinality(ids)
  <2>1. /\ IsFiniteSet(Claimed \cup ids)
        /\ Cardinality(Claimed \cup ids)
              = Cardinality(Claimed) + Cardinality(ids) - Cardinality(Claimed \cap ids)
    BY <1>3, FS_Union
  <2>2. IsFiniteSet(Claimed \cap ids)
    BY <1>3, FS_Subset
  <2>3. Cardinality(Claimed \cap ids) \in Nat /\ Cardinality(Claimed \cup ids) \in Nat
    BY <2>1, <2>2, FS_CardinalityType
  <2> QED
    BY <1>4, <2>1, <2>3
<1>6. IsFiniteSet(Claimed') /\ Cardinality(Claimed') <= Cardinality(Claimed \cup ids)
  BY <1>2, <1>5, FS_Subset
<1>7. Cardinality(Claimed') \in Nat
  BY <1>6, FS_CardinalityType
<1>8. spent.runs \in Int /\ spent'.runs \in Int
  BY SpentStep, Setting DEF SeedInv, SeedTypeOK
<1>9. Cardinality(Claimed') + 6 * Cardinality(Searching') <= 6 * spent'.runs
  <2>1. Cardinality(Claimed) + 6 * Cardinality(Searching) <= 6 * spent.runs
    BY DEF SeedInv, FundsInv
  <2>2. Cardinality(ids) + 6 * Cardinality(Searching')
            <= 6 * Cardinality(Searching) + 6 * (spent'.runs - spent.runs)
    BY <1>1 DEF Takes
  <2> QED
    BY <1>4, <1>5, <1>6, <1>7, <1>8, <2>1, <2>2
<1>10. wallet'[Creator] + SeedAmount * Cardinality(Created') >= InitialWallet[Creator]
  <2>1. /\ wallet[Creator] \in Nat /\ InitialWallet[Creator] \in Nat /\ SeedAmount \in Nat
        /\ wallet'[Creator] \in Nat
    <3>1. TypeOK /\ TypeOK'
      BY SeedTypeStep DEF SeedInv, SeedTypeOK
    <3>2. Creator \in Keys
      BY Arguments DEF Keys
    <3> QED
      BY <3>1, <3>2, Setting, KeysAssumption DEF TypeOK
  <2>2. wallet[Creator] + SeedAmount * Cardinality(Created) >= InitialWallet[Creator]
    BY DEF SeedInv, FundsInv
  <2>3. IsFiniteSet(Created) /\ Cardinality(Created) \in Nat
    BY <1>3, FS_Subset, FS_CardinalityType DEF Claimed
  <2>4. \/ /\ Created' = Created
           /\ wallet'[Creator] >= wallet[Creator]
        \/ /\ \E c \in Claimed \ Created : Created' = Created \cup {c}
           /\ wallet'[Creator] = wallet[Creator] - SeedAmount
    BY SeedStepOnChain, ChainFacts DEF SeedInv, SeedTypeOK
  <2>5. CASE Created' = Created /\ wallet'[Creator] >= wallet[Creator]
    <3>1. SeedAmount * Cardinality(Created) \in Nat
      BY <2>1, <2>3
    <3> QED
      BY <2>1, <2>2, <2>5, <3>1
  <2>6. CASE /\ \E c \in Claimed \ Created : Created' = Created \cup {c}
             /\ wallet'[Creator] = wallet[Creator] - SeedAmount
    <3>1. Cardinality(Created') = Cardinality(Created) + 1
      BY <2>3, <2>6, FS_AddElement
    <3> DEFINE n == Cardinality(Created)
    <3>2. SeedAmount * (n + 1) = SeedAmount * n + SeedAmount /\ SeedAmount * n \in Nat
      BY <2>1, <2>3
    <3> QED
      BY <2>1, <2>2, <2>6, <3>1, <3>2
  <2> QED
    BY <2>4, <2>5, <2>6
<1> QED
  BY <1>3, <1>6, <1>9, <1>10 DEF FundsInv

\* Which runs wait after a step.
LEMMA WaitingCases ==
    ASSUME SeedInv, [SeedNext]_seedVars, NEW q \in Scripts, script'[q].stage = "waiting"
    PROVE  script'[q] = script[q] \/ Submit(q) \/ Includes(q) \/ IncludesFailed(q)
<1>1. script \in [Scripts -> RunRecord]
  BY DEF SeedInv, SeedTypeOK
<1>2. ASSUME NEW p \in Scripts, NEW next, next.stage # "waiting",
             script' = [script EXCEPT ![p] = next]
      PROVE  script'[q] = script[q]
  BY <1>1, <1>2
<1>3. ASSUME NEW p \in Scripts, NEW next, script' = [script EXCEPT ![p] = next]
      PROVE  p # q => script'[q] = script[q]
  BY <1>1, <1>3
<1> USE DEF Goes
<1>4. ASSUME NEW p \in Scripts, Submit(p) \/ Includes(p) \/ IncludesFailed(p)
      PROVE  script'[q] = script[q] \/ p = q
  BY <1>3, <1>4 DEF Submit, Includes, IncludesFailed
<1>5. ASSUME NEW p \in Scripts, NEW k, script' = [script EXCEPT ![p] = After(p, k)]
      PROVE  script'[q] = script[q]
  <2>1. After(p, k).stage # "waiting"
    BY <1>1 DEF After, RunRecord
  <2> QED
    BY <1>2, <1>5, <2>1
<1>6. ASSUME NEW p \in Scripts, NEW x, \/ script' = [script EXCEPT ![p] =
                                               [After(p, 1) EXCEPT !.started = x]]
                                       \/ script' = [script EXCEPT ![p] =
                                               [After(p, 1) EXCEPT !.draft = x]]
      PROVE  script'[q] = script[q]
  <2> DEFINE passed == After(p, 1)
             next == [passed EXCEPT !.started = x]
             other == [passed EXCEPT !.draft = x]
  <2>1. passed.stage # "waiting" /\ passed = [passed EXCEPT !.stage = @]
    BY <1>1 DEF After, RunRecord
  <2>2. script' = [script EXCEPT ![p] = next] \/ script' = [script EXCEPT ![p] = other]
    BY <1>6
  <2> HIDE DEF passed
  <2>3. next.stage # "waiting" /\ other.stage # "waiting"
    BY <2>1
  <2> HIDE DEF next, other
  <2> QED
    BY <1>2, <2>2, <2>3
<1>7. ASSUME NEW p \in Scripts
      PROVE  \A x :
                LET run == script[p] IN
                /\ [run EXCEPT !.stage = "ready"].stage # "waiting"
                /\ [run EXCEPT !.stage = "ready", !.attempt = x].stage # "waiting"
                /\ [run EXCEPT !.stage = "failed"].stage # "waiting"
                /\ [run EXCEPT !.stage = "failed", !.tx = "none"].stage # "waiting"
                /\ [run EXCEPT !.stage = "writing", !.draft = x].stage # "waiting"
                /\ [run EXCEPT !.stage = "pushing"].stage # "waiting"
                /\ [run EXCEPT !.at = x, !.stage = "step"].stage # "waiting"
                /\ run.stage = "search" => [run EXCEPT !.at = x].stage # "waiting"
  BY <1>1 DEF RunRecord
<1>8. ASSUME NEW p \in Scripts,
             CheckConfig(p) \/ CheckExists(p) \/ CheckOpen(p) \/ Refused(p) \/ Confirmed(p)
      PROVE  script'[q] = script[q]
  <2>1. \/ \E k : script' = [script EXCEPT ![p] = After(p, k)]
        \/ script' = [script EXCEPT ![p] = [script[p] EXCEPT !.stage = "ready"]]
        \/ script' = [script EXCEPT ![p] = [script[p] EXCEPT !.stage = "failed"]]
    BY <1>8 DEF CheckConfig, CheckExists, CheckOpen, Refused, Confirmed
  <2> QED
    BY <1>2, <1>5, <1>7, <2>1
<1>9. ASSUME NEW p \in Scripts, ReadClock(p) \/ Push(p)
      PROVE  script'[q] = script[q]
  BY <1>6, <1>9 DEF ReadClock, Push
<1>10. ASSUME NEW p \in Scripts, Retry(p) \/ ReadDocument(p) \/ WriteDocument(p)
       PROVE  script'[q] = script[q]
  BY <1>2, <1>7, <1>10 DEF Retry, ReadDocument, WriteDocument
<1>11. ASSUME NEW p \in Scripts, Timeout(p) \/ Kill(p)
       PROVE  script'[q] = script[q]
  BY <1>2, <1>7, <1>11 DEF Timeout, Kill, End
<1>12. ASSUME NEW p \in Scripts, SearchFree(p) \/ SearchTaken(p)
       PROVE  script'[q] = script[q]
  <2>1. /\ script[p].stage = "search"
        /\ \/ \E x : script' = [script EXCEPT ![p] = [script[p] EXCEPT !.at = x, !.stage = "step"]]
           \/ \E x : script' = [script EXCEPT ![p] = [script[p] EXCEPT !.at = x]]
           \/ \E x, y : script' = [script EXCEPT ![p] = [script[p] EXCEPT !.at = x, !.base = y]]
    <3>1. CASE SearchFree(p)
      BY <3>1 DEF SearchFree
    <3>2. CASE SearchTaken(p)
      BY <3>2 DEF SearchTaken
    <3> QED
      BY <1>12, <3>1, <3>2
  <2>2. CASE \E x : script' = [script EXCEPT ![p] = [script[p] EXCEPT !.at = x, !.stage = "step"]]
    BY <1>2, <1>7, <2>2
  <2>3. CASE \E x : script' = [script EXCEPT ![p] = [script[p] EXCEPT !.at = x]]
    BY <1>2, <1>7, <2>1, <2>3
  <2>4. CASE \E x, y : script' = [script EXCEPT ![p] = [script[p] EXCEPT !.at = x, !.base = y]]
    <3>1. PICK x, y :
            script' = [script EXCEPT ![p] = [script[p] EXCEPT !.at = x, !.base = y]]
      BY <2>4
    <3> DEFINE next == [script[p] EXCEPT !.at = x, !.base = y]
    <3>2. next.stage # "waiting" /\ script' = [script EXCEPT ![p] = next]
      BY <1>1, <2>1, <3>1 DEF RunRecord
    <3> HIDE DEF next
    <3> QED
      BY <1>2, <3>2
  <2> QED
    BY <2>1, <2>2, <2>3, <2>4
<1>13. ASSUME NEW p \in Scripts, Begins(p)
       PROVE  script'[q] = script[q]
  <2>1. \E next : next.stage # "waiting" /\ script' = [script EXCEPT ![p] = next]
    BY <1>13 DEF Begins, Begin, BeginSearch, Off
  <2> QED
    BY <1>2, <2>1
<1>14. CASE Outsider \/ SeedTick \/ UNCHANGED seedVars \/ \E t \in stray : IncludesStray(t)
  BY <1>14 DEF Outsider, SeedTick, seedVars, IncludesStray
<1> QED
  BY <1>4, <1>8, <1>9, <1>10, <1>11, <1>12, <1>13, <1>14 DEF SeedNext, ScriptStep

\* The fields of the requests, by the step that sends them.
LEMMA RequestFields ==
    ASSUME NEW p, Step(p).do \in SentSteps
    PROVE  /\ Step(p).do = "create" /\ Step(p).mode = "direct" =>
                 /\ Tx(p).request.op = "createCampaign" /\ Tx(p).request.c = Target(p)
                 /\ Tx(p).request.args = CreateArgs(p)
           /\ Step(p).do = "create" /\ Step(p).mode = "rfq" =>
                 /\ Tx(p).request.op = "createCampaignRfq" /\ Tx(p).request.c = Target(p)
                 /\ Tx(p).request.args = CreateArgs(p)
                 /\ Tx(p).request.rfqDeadline = script[p].started + Later - 1
           /\ Step(p).do = "settle" =>
                 /\ Tx(p).request.op = "triggerSettleSuccess" /\ Tx(p).request.c = Target(p)
                 /\ Tx(p).request.used = Step(p).used /\ Tx(p).to = Step(p).executor
           /\ Step(p).do = "refund" =>
                 /\ Tx(p).request.op = "triggerTimeoutRefund"
                 /\ Tx(p).request.c = Target(p)
<1> DEFINE tx == Tx(p)
           c == Target(p)
           args == CreateArgs(p)
           step == Step(p)
           deadline == script[p].started + Later - 1
<1>1. /\ step.do = "create" /\ step.mode = "direct" =>
            tx.request = [op |-> "createCampaign", c |-> c, args |-> args,
                          executor |-> step.executor]
      /\ step.do = "create" /\ step.mode = "rfq" =>
            tx.request = [op |-> "createCampaignRfq", c |-> c, args |-> args,
                          rfqDeadline |-> deadline]
      /\ step.do = "settle" =>
            /\ tx.request = [op |-> "triggerSettleSuccess", c |-> c, used |-> step.used]
            /\ tx.to = step.executor
      /\ step.do = "refund" =>
            tx.request = [op |-> "triggerTimeoutRefund", c |-> c]
  BY TxForms
<1> HIDE DEF tx, c, args, step, deadline
<1>2. /\ step.do = "create" /\ step.mode = "direct" =>
            /\ tx.request.op = "createCampaign" /\ tx.request.c = c
            /\ tx.request.args = args
      /\ step.do = "create" /\ step.mode = "rfq" =>
            /\ tx.request.op = "createCampaignRfq" /\ tx.request.c = c
            /\ tx.request.args = args /\ tx.request.rfqDeadline = deadline
      /\ step.do = "settle" =>
            /\ tx.request.op = "triggerSettleSuccess" /\ tx.request.c = c
            /\ tx.request.used = step.used /\ tx.to = step.executor
      /\ step.do = "refund" =>
            tx.request.op = "triggerTimeoutRefund" /\ tx.request.c = c
  BY <1>1
<1> QED
  BY <1>2, Zenon DEF tx, c, args, step, deadline

\* The chain has no reason to refuse a campaign that a run waits for.
LEMMA CreateIsPossible ==
    ASSUME SeedInv, NEW p \in Scripts, script[p].stage = "waiting", Possible,
           Step(p).do = "create", Step(p).window = Later, ~ CampaignExists(Target(p))
    PROVE  MayApply(Tx(p))
<1> DEFINE run == script[p]
           c == Target(p)
           args == CreateArgs(p)
           deadline == run.started + Later
<1>1. Placed(run) /\ RunTyped(run) /\ Step(p).do \in SentSteps
  BY OldSound, StagePlaced DEF SentSteps
<1>2. /\ args.amount = SeedAmount /\ args.threshold_bps = SeedThreshold
      /\ args.validators = <<V1, V2>> /\ args.deadline_unix = deadline
  BY <1>1, CreateArgsTyped
<1>3. c \in Campaigns /\ c \in Claimed
  BY <1>1, TxTyped DEF SentSteps, Claimed
<1>4. now + 1 < deadline /\ now \in Nat /\ deadline \in Int
  <2>1. \E j \in 1 .. run.at - 1 : Plan[run.plan][j].do = "clock"
    BY <1>1, RunFacts DEF StepWell, Step
  <2>2. now + 1 < deadline
    BY <1>1, <2>1 DEF SeedInv, TimeInv, TimeOf
  <2>3. run.started \in Int
    BY <1>1, Arguments DEF RunTyped, RunRecord
  <2> QED
    BY <2>2, <2>3, Arguments DEF SeedInv, SeedTypeOK, TypeOK
<1>5. wallet[CreatorOf[c]] >= SeedAmount
  <2>1. c \in Claimed \ Created /\ Created \subseteq Claimed
    BY <1>3 DEF Created, Claimed
  <2>2. IsFiniteSet(Claimed)
    BY DEF SeedInv, FundsInv
  <2>3. IsFiniteSet(Created) /\ Cardinality(Created) \in Nat /\ Cardinality(Claimed) \in Nat
    BY <2>1, <2>2, FS_Subset, FS_CardinalityType
  <2>4. Cardinality(Created) + 1 <= Cardinality(Claimed)
    <3>1. Cardinality(Created \cup {c}) = Cardinality(Created) + 1
      BY <2>1, <2>3, FS_AddElement
    <3>2. Created \cup {c} \in SUBSET Claimed
      BY <2>1
    <3> QED
      BY <2>2, <3>1, <3>2, FS_Subset
  <2>5. Cardinality(Claimed) <= 6 * MaxRuns
    <3>1. Cardinality(Searching) \in Nat /\ spent.runs \in 0 .. MaxRuns /\ MaxRuns \in Nat
      BY FS_CardinalityType, Setting DEF SeedInv, FundsInv, SeedTypeOK
    <3>2. Cardinality(Claimed) + 6 * Cardinality(Searching) <= 6 * spent.runs
      BY DEF SeedInv, FundsInv
    <3> QED
      BY <2>3, <3>1, <3>2
  <2>6. wallet[Creator] + SeedAmount * Cardinality(Created) >= InitialWallet[Creator]
    BY DEF SeedInv, FundsInv
  <2>7. InitialWallet[Creator] >= 6 * MaxRuns * SeedAmount
    BY AmpleFunds
  <2>8. /\ wallet[Creator] \in Nat /\ InitialWallet[Creator] \in Nat /\ SeedAmount \in Nat
        /\ MaxRuns \in Nat
    <3>1. Creator \in Keys
      BY Arguments DEF Keys
    <3> QED
      BY <3>1, Setting, KeysAssumption DEF SeedInv, SeedTypeOK, TypeOK
  <2>9. ASSUME NEW m \in Nat, NEW n \in Nat, NEW a \in Nat, m + 1 <= n
        PROVE  n * a >= m * a + a
    <3>1. PICK d \in Nat : n = m + 1 + d
      <4>1. n - (m + 1) \in Nat /\ n = m + 1 + (n - (m + 1))
        BY <2>9
      <4> QED
        BY <4>1
    <3>2. n * a = m * a + a + d * a
      BY <3>1
    <3>3. d * a \in Nat /\ m * a \in Nat
      OBVIOUS
    <3> QED
      BY <3>2, <3>3
  <2> DEFINE m == Cardinality(Created)
             n == 6 * MaxRuns
  <2>10. m \in Nat /\ n \in Nat /\ m + 1 <= n
    BY <2>3, <2>4, <2>5, <2>8
  <2>11. n * SeedAmount >= m * SeedAmount + SeedAmount
    BY <2>8, <2>9, <2>10
  <2>12. SeedAmount * m = m * SeedAmount /\ m * SeedAmount \in Nat
    BY <2>8, <2>10
  <2>13. wallet[Creator] + m * SeedAmount >= n * SeedAmount
         /\ n * SeedAmount \in Nat
    BY <2>6, <2>7, <2>8, <2>10, <2>12
  <2>14. wallet[Creator] >= SeedAmount
    <3> HIDE DEF m, n
    <3> QED
      BY <2>8, <2>11, <2>12, <2>13
  <2>15. CreatorOf[c] = Creator
    BY <1>3, Setting
  <2> QED
    BY <2>14, <2>15
<1>6. MayCreateAtOnce(c, args)
  <2>1. vset[c] = << >> /\ campaign[c] = NoCampaign
    BY <1>3 DEF SeedInv, ChainInv, CampaignExists
  <2>2. args.validators # << >> /\ Len(args.validators) = 2
    BY <1>2
  <2>3. SeedThreshold > 0 /\ SeedThreshold <= BPS_DENOMINATOR
    BY DEF Possible, BPS_DENOMINATOR
  <2>4. deadline > now
    BY <1>4
  <2> HIDE DEF args, c, deadline
  <2>5. MayRegister(c, args.validators)
    BY <2>1, <2>2 DEF MayRegister, Possible
  <2>6. MayCreate(c, args, args.validators)
    BY <1>2, <1>5, <2>1, <2>2, <2>3, <2>4 DEF MayCreate, Possible
  <2> QED
    BY <2>5, <2>6 DEF MayCreateAtOnce
<1>7. Step(p).mode \in {"direct", "rfq"}
  BY <1>1, RunFacts DEF StepWell, Step
<1>8. CASE Step(p).mode = "direct"
  <2>1. /\ Tx(p).request.op = "createCampaign" /\ Tx(p).request.c = c
        /\ Tx(p).request.args = args
    BY <1>1, <1>8, RequestFields
  <2> HIDE DEF c, args
  <2>2. MayRun(Tx(p).payer, Tx(p).request)
    BY <1>6, <2>1 DEF MayRun
  <2> QED
    BY <2>1, <2>2 DEF MayApply
<1>9. CASE Step(p).mode = "rfq"
  <2>1. /\ Tx(p).request.op = "createCampaignRfq" /\ Tx(p).request.c = c
        /\ Tx(p).request.args = args /\ Tx(p).request.rfqDeadline = run.started + Later - 1
    BY <1>1, <1>9, RequestFields, Zenon
  <2>5. run.started + Later - 1 = deadline - 1
    <3>1. run.started \in 0 .. LastTime /\ LastTime \in Nat /\ Later \in Nat
      BY <1>1, Arguments, RunFacts
    <3> HIDE DEF run
    <3> QED
      BY <3>1
  <2>2. deadline - 1 > now /\ deadline - 1 < args.deadline_unix
    BY <1>2, <1>4
  <2> HIDE DEF c, args, deadline
  <2>3. MayOpenRfq(args, deadline - 1)
    BY <2>2 DEF MayOpenRfq
  <2>4. MayRun(Tx(p).payer, Tx(p).request)
    BY <1>6, <2>1, <2>3, <2>5 DEF MayRun
  <2> QED
    BY <2>1, <2>4 DEF MayApply
<1> QED
  BY <1>7, <1>8, <1>9

\* What a step that matters needs, in terms of its id.
LEMMA MatteringStep ==
    ASSUME NEW run, RunTyped(run), Placed(run), NEW step,
           step = Plan[run.plan][run.at], Matters(step)
    PROVE  /\ run.base + step.slot \in Campaigns
           /\ step.do \in {"create", "settle", "refund"}
           /\ step.do = "create" => step.mode \in {"direct", "rfq"}
           /\ step.do = "settle" => /\ step.used \in SUBSET Agents
                                    /\ step.executor # NoKey
<1>1. StepWell(Plan[run.plan], run.at, Size(run.plan))
  BY RunFacts
<1>2. step.do \in {"create", "settle", "refund"}
  BY DEF Matters
<1>3. step.slot \in 0 .. Size(run.plan) - 1
  BY <1>1, <1>2 DEF StepWell
<1>4. run.base + step.slot \in Campaigns
  BY <1>3, TargetInBlock
<1>5. step.do = "settle" => step.used \in SUBSET Agents /\ step.executor # NoKey
  BY <1>1, Arguments, Setting DEF StepWell
<1> QED
  BY <1>1, <1>2, <1>4, <1>5 DEF StepWell

\* A transaction that the preflight accepts is one the run may wait for.
LEMMA SubmitWaits ==
    ASSUME SeedInv, NEW p \in Scripts, Submit(p)
    PROVE  /\ Step(p).do = "create" => Possible
           /\ Matters(Step(p)) => Allowed(Step(p), script[p].base)
<1> DEFINE c == Target(p)
           args == CreateArgs(p)
<1>1. /\ Placed(script[p]) /\ RunTyped(script[p]) /\ Step(p).do \in SentSteps
      /\ MayApply(Tx(p))
  BY OldSound, StagePlaced DEF Submit, Accepted
<1>2. CASE Step(p).do = "create"
  <2>1. Step(p).mode \in {"direct", "rfq"}
    BY <1>1, <1>2, RunFacts DEF StepWell, Step
  <2>2. /\ Tx(p).request.op \in {"createCampaign", "createCampaignRfq"}
        /\ Tx(p).request.c = c /\ Tx(p).request.args = args
    BY <1>1, <1>2, <2>1, RequestFields
  <2>3. /\ args.amount = SeedAmount /\ args.threshold_bps = SeedThreshold
        /\ args.validators = <<V1, V2>>
    BY <1>1, <1>2, CreateArgsTyped
  <2> HIDE DEF c, args
  <2>4. MayCreateAtOnce(c, args)
    BY <1>1, <2>2 DEF MayApply, MayRun
  <2>5. Len(args.validators) = 2
    BY <2>3
  <2>6. MaxValidators >= 2
    BY <2>4, <2>5 DEF MayCreateAtOnce, MayRegister
  <2>7. /\ config # NoKey /\ SeedAmount > 0
        /\ SeedThreshold > 0 /\ SeedThreshold <= BPS_DENOMINATOR
    BY <2>3, <2>4 DEF MayCreateAtOnce, MayCreate
  <2>8. Possible
    BY <2>6, <2>7, Setting DEF Possible, BPS_DENOMINATOR
  <2> QED
    BY <1>2, <2>8 DEF Allowed
<1>3. CASE Step(p).do = "settle"
  <2>1. /\ Tx(p).request.op = "triggerSettleSuccess" /\ Tx(p).request.c = c
        /\ Tx(p).request.used = Step(p).used /\ Tx(p).to = Step(p).executor
    BY <1>1, <1>3, RequestFields
  <2>2. MaySettle(c, Step(p).used) /\ campaign[c].executor = Step(p).executor
    <3> HIDE DEF c
    <3> QED
      BY <1>1, <2>1 DEF MayApply, MayRun
  <2> QED
    BY <1>3, <2>2 DEF Allowed, Target
<1>4. CASE Step(p).do = "refund"
  <2>1. Tx(p).request.op = "triggerTimeoutRefund" /\ Tx(p).request.c = c
    BY <1>1, <1>4, RequestFields
  <2>2. RefundAllowed(c)
    <3> HIDE DEF c
    <3> QED
      BY <1>1, <2>1 DEF MayApply, MayRun
  <2> QED
    BY <1>4, <2>2 DEF Allowed, Target
<1> QED
  BY <1>2, <1>3, <1>4 DEF Matters

\* What is waited for is done when it is included.
LEMMA IncludedReaches ==
    ASSUME SeedInv, NEW p \in Scripts, Includes(p), Matters(Step(p)),
           NEW c \in Campaigns, c = Target(p)
    PROVE  IF Step(p).do = "create" THEN campaign'[c] # NoCampaign ELSE Settled(c)'
<1>1. /\ Placed(script[p]) /\ RunTyped(script[p]) /\ Step(p).do \in SentSteps
      /\ TypeOK
  BY InFlight DEF Includes, SeedInv, SeedTypeOK
<1>2. Step(p).do \in {"create", "settle", "refund"}
  BY DEF Matters
<1>3. PICK payer, request : payer = Tx(p).payer /\ request = Tx(p).request
  OBVIOUS
<1>4. request.op # "initialize_config" /\ request.c = c
  BY <1>1, <1>2, <1>3, TxTyped
<1>5. Run(payer, request)
  BY <1>3, <1>4 DEF Includes, Apply
<1>6. CASE Step(p).do = "create"
  <2>1. request.op \in Creates
    BY <1>1, <1>3, <1>6, TxTyped
  <2>2. \E mode, executor, deadline :
           CreateAtOnce(c, request.args, NewCampaign(mode, executor, request.args, deadline))
    BY <1>4, <1>5, <2>1 DEF Run, Creates
  <2>3. \E mode, executor, deadline :
           campaign'[c] = NewCampaign(mode, executor, request.args, deadline)
    BY <1>1, <2>2 DEF CreateAtOnce, TypeOK
  <2>4. campaign'[c] # NoCampaign
    BY <2>3 DEF NewCampaign, NoCampaign
  <2> QED
    BY <1>6, <2>4
<1>7. CASE Step(p).do \in {"settle", "refund"}
  <2>1. request.op \in {"triggerSettleSuccess", "triggerTimeoutRefund"}
    BY <1>1, <1>3, <1>7, RequestFields
  <2>2. Settled(request.c)'
    BY <1>1, <1>4, <1>5, <2>1, SettlementSettles
  <2> QED
    BY <1>4, <1>7, <2>2 DEF Settled
<1> QED
  BY <1>2, <1>6, <1>7

\* What is refused when it is included had been done by somebody else.
LEMMA FailedReaches ==
    ASSUME SeedInv, NEW p \in Scripts, IncludesFailed(p), Matters(Step(p))
    PROVE  Reached(Step(p), script[p].base)
<1>1. /\ Placed(script[p]) /\ RunTyped(script[p]) /\ Step(p).do \in SentSteps
      /\ script[p].stage = "waiting"
  BY InFlight DEF IncludesFailed, SeedInv
<1>2. /\ Step(p).do = "create" => Possible
      /\ Reached(Step(p), script[p].base) \/ Allowed(Step(p), script[p].base)
  BY <1>1 DEF SeedInv, WaitingInv, WaitingOf, Step
<1>3. CASE Step(p).do = "create"
  BY <1>1, <1>2, <1>3, CreateIsPossible DEF IncludesFailed, Reached, Matters, Target
<1>4. CASE Step(p).do = "settle"
  <2> DEFINE c == Target(p)
  <2>1. /\ Tx(p).request.op = "triggerSettleSuccess" /\ Tx(p).request.c = c
        /\ Tx(p).request.used = Step(p).used /\ Tx(p).to = Step(p).executor
    BY <1>1, <1>4, RequestFields
  <2>2. Allowed(Step(p), script[p].base) =>
           MaySettle(c, Step(p).used) /\ campaign[c].executor = Step(p).executor
    BY <1>4 DEF Allowed, Target
  <2> HIDE DEF c
  <2>3. ~ Allowed(Step(p), script[p].base)
    BY <2>1, <2>2 DEF IncludesFailed, MayApply, MayRun
  <2> QED
    BY <1>2, <2>3
<1>5. CASE Step(p).do = "refund"
  <2> DEFINE c == Target(p)
  <2>1. Tx(p).request.op = "triggerTimeoutRefund" /\ Tx(p).request.c = c
    BY <1>1, <1>5, RequestFields
  <2>2. Allowed(Step(p), script[p].base) => RefundAllowed(c)
    BY <1>5 DEF Allowed, Target
  <2> HIDE DEF c
  <2>3. ~ Allowed(Step(p), script[p].base)
    BY <2>1, <2>2 DEF IncludesFailed, MayApply, MayRun
  <2> QED
    BY <1>2, <2>3
<1> QED
  BY <1>3, <1>4, <1>5 DEF Matters

LEMMA WaitingStep ==
    ASSUME SeedInv, [SeedNext]_seedVars
    PROVE  WaitingInv'
<1> DEFINE Exists(c) == campaign'[c] # NoCampaign
           Done(c) == campaign'[c].status \in {"settled_success", "settled_refund"}
           SettleNext(c, used) ==
               /\ campaign'[c].status = "open"
               /\ campaign'[c].mode = "rfq" => campaign'[c].executor # NoKey
               /\ used \subseteq {v \in Agents : score'[c][v] # NoScore}
               /\ used # {}
               /\ AverageScoreBps([v \in used |-> score'[c][v]])
                     >= campaign'[c].threshold_bps
           RefundNext(c) ==
               \/ campaign'[c].status = "rfq_expired"
               \/ campaign'[c].status = "open" /\ now' > campaign'[c].deadline_unix
           Ready == /\ config' # NoKey
                    /\ SeedAmount > 0 /\ SeedThreshold \in 1 .. BPS_DENOMINATOR
                    /\ MaxValidators >= 2
           There(step, c) == IF step.do = "create" THEN Exists(c) ELSE Done(c)
           Still(step, c) ==
               \/ step.do = "create"
               \/ /\ step.do = "settle"
                  /\ SettleNext(c, step.used) /\ campaign'[c].executor = step.executor
               \/ step.do = "refund" /\ RefundNext(c)
           Waits(run) ==
               LET step == Plan[run.plan][run.at]
                   c == run.base + step.slot
               IN /\ step.do = "create" => Ready
                  /\ Matters(step) => There(step, c) \/ (run.tx = "inflight" /\ Still(step, c))
<1>1. SeedChain /\ cluster' = cluster /\ TypeOK /\ InductiveInvariant /\ ChainInv
  BY SeedStepOnChain DEF SeedInv, SeedTypeOK
<1>2. ASSUME NEW c \in Campaigns
      PROVE  /\ CampaignExists(c) => Exists(c)
             /\ Settled(c) => Done(c)
             /\ \A used \in SUBSET Agents :
                   MaySettle(c, used) => SettleNext(c, used) \/ Done(c)
             /\ RefundAllowed(c) => RefundNext(c) \/ Done(c)
             /\ CampaignExists(c) /\ campaign[c].executor # NoKey =>
                   campaign'[c].executor = campaign[c].executor
             /\ config # NoKey => config' # NoKey
  <2>1. /\ CampaignExists(c) => CampaignExists(c)'
        /\ Settled(c) => Settled(c)'
        /\ \A used \in SUBSET Agents :
              MaySettle(c, used) => MaySettle(c, used)' \/ Settled(c)'
        /\ RefundAllowed(c) => RefundAllowed(c)' \/ Settled(c)'
        /\ CampaignExists(c) /\ campaign[c].executor # NoKey =>
              campaign'[c].executor = campaign[c].executor
        /\ config # NoKey => config' # NoKey
    BY <1>1, ChainFacts
  <2>2. /\ CampaignExists(c)' => Exists(c)
        /\ Settled(c)' => Done(c)
        /\ \A used \in SUBSET Agents : MaySettle(c, used)' => SettleNext(c, used)
        /\ RefundAllowed(c)' => RefundNext(c)
    BY DEF CampaignExists, Settled, MaySettle, RefundAllowed, IsOpen, Scored,
           ThresholdMet, ScoreInputs
  <2> HIDE DEF Exists, Done, SettleNext, RefundNext
  <2> QED
    BY <2>1, <2>2, Zenon
<1>3. \A c \in Campaigns, used \in SUBSET Agents : MaySettle(c, used) => CampaignExists(c)
  BY <1>1, AccountFacts DEF MaySettle, IsOpen, CampaignExists
<1> HIDE DEF Exists, Done, SettleNext, RefundNext
<1>4. ASSUME NEW q \in Scripts, script'[q].stage = "waiting"
      PROVE  Waits(script'[q])
  <2> DEFINE run == script[q]
             step == Step(q)
             c == Target(q)
  <2>1. PICK x : x = c
    OBVIOUS
  <2>2. /\ script'[q].plan = run.plan /\ script'[q].base = run.base
        /\ script'[q].at = run.at
        /\ RunTyped(run) /\ Placed(run)
    <3>1. script \in [Scripts -> RunRecord] /\ RunTyped(run)
      BY DEF SeedInv, SeedTypeOK
    <3>2. \/ script'[q] = run
          \/ /\ Sends(q)
             /\ script'[q] = [run EXCEPT !.stage = "waiting", !.tx = "inflight"]
          \/ /\ run.tx = "inflight"
             /\ \E tx : script'[q] = [run EXCEPT !.tx = tx]
      <4>1. CASE Submit(q)
        BY <3>1, <4>1 DEF Submit, Goes
      <4>2. CASE Includes(q)
        BY <3>1, <4>2 DEF Includes, Goes
      <4>3. CASE IncludesFailed(q)
        BY <3>1, <4>3 DEF IncludesFailed, Goes
      <4> QED
        BY <1>4, <4>1, <4>2, <4>3, WaitingCases
    <3>3. Placed(run)
      BY <1>4, <3>2, StagePlaced, InFlight DEF SeedInv, Placed
    <3> QED
      BY <3>1, <3>2, <3>3 DEF RunRecord
  <2>3. step = Plan[script'[q].plan][script'[q].at] /\ c = script'[q].base + step.slot
    BY <2>2 DEF Step, Target
  <2>4. Matters(step) => /\ c \in Campaigns
                         /\ step.do \in {"create", "settle", "refund"}
                         /\ step.do = "settle" => /\ step.used \in SUBSET Agents
                                                  /\ step.executor # NoKey
    BY <2>2, MatteringStep DEF Step, Target
  <2>5. Matters(step) /\ Reached(step, run.base) => There(step, c)
    BY <1>2, <2>4 DEF Reached, Target
  <2>6. Matters(step) /\ Allowed(step, run.base) => There(step, c) \/ Still(step, c)
    <3>1. CASE step.do = "create"
      BY <3>1
    <3>2. CASE step.do = "settle"
      BY <1>2, <1>3, <2>4, <3>2 DEF Allowed, Target
    <3>3. CASE step.do = "refund"
      BY <1>2, <2>4, <3>3 DEF Allowed, Target
    <3> QED
      BY <2>4, <3>1, <3>2, <3>3
  <2>7. Possible => Ready
    BY <1>1, ChainFacts DEF Possible
  <2>8. WaitingOf(run)
    BY DEF SeedInv, WaitingInv
  <2> DEFINE inflight == script'[q].tx = "inflight"
             Aim == /\ step.do = "create" => Ready
                    /\ Matters(step) => There(step, c) \/ (inflight /\ Still(step, c))
  <2>9. ASSUME script'[q] = run PROVE Aim
    <3>1. /\ step.do = "create" => Possible
          /\ Matters(step) => \/ Reached(step, run.base)
                              \/ inflight /\ Allowed(step, run.base)
      BY <1>4, <2>8, <2>9 DEF WaitingOf, Step
    <3> HIDE DEF step, c, run, inflight, There, Still, Ready
    <3>2. Aim
      BY <2>5, <2>6, <2>7, <3>1
    <3> QED
      BY <3>2
  <2>10. ASSUME Submit(q) PROVE Aim
    <3>1. script'[q].tx = "inflight"
      BY <2>10 DEF Submit, Goes, SeedInv, SeedTypeOK, RunRecord
    <3>2. /\ step.do = "create" => Possible
          /\ Matters(step) => Allowed(step, run.base)
      BY <2>10, SubmitWaits
    <3> HIDE DEF step, c, run, There, Still, Ready
    <3>3. Aim
      BY <2>6, <2>7, <3>1, <3>2
    <3> QED
      BY <3>3
  <2>11. step.do = "create" /\ run.stage = "waiting" => Possible
    BY DEF SeedInv, WaitingInv, WaitingOf, Step
  <2>12. ASSUME Includes(q) PROVE Aim
    <3>1. run.stage = "waiting"
      BY <2>12, InFlight DEF Includes, SeedInv
    <3>2. Matters(step) => There(step, c)
      BY <2>1, <2>4, <2>12, IncludedReaches DEF Exists, Done, Settled
    <3> HIDE DEF step, c, run, There, Still, Ready
    <3>3. Aim
      BY <2>7, <2>11, <3>1, <3>2
    <3> QED
      BY <3>3
  <2>13. ASSUME IncludesFailed(q) PROVE Aim
    <3>1. run.stage = "waiting"
      BY <2>13, InFlight DEF IncludesFailed, SeedInv
    <3>2. Matters(step) => Reached(step, run.base)
      BY <2>13, FailedReaches
    <3> HIDE DEF step, c, run, There, Still, Ready
    <3>3. Aim
      BY <2>5, <2>7, <2>11, <3>1, <3>2
    <3> QED
      BY <3>3
  <2>14. Aim
    BY <1>4, <2>9, <2>10, <2>12, <2>13, WaitingCases
  <2> DEFINE next == script'[q]
  <2>15. /\ step = Plan[next.plan][next.at] /\ c = next.base + step.slot
         /\ step.do = "create" => Ready
         /\ Matters(step) => There(step, c) \/ (next.tx = "inflight" /\ Still(step, c))
    BY <2>3, <2>14
  <2> HIDE DEF step, c, next, There, Still, Ready
  <2>16. Waits(next)
    BY <2>15
  <2> QED
    BY <2>16 DEF next
<1>5. ASSUME NEW q \in Scripts PROVE WaitingOf(script[q])'
  BY <1>4 DEF WaitingOf, Possible, Allowed, Reached, MaySettle, RefundAllowed, IsOpen,
              Scored, ThresholdMet, ScoreInputs, CampaignExists, Settled, Exists, Done,
              SettleNext, RefundNext
<1> QED
  BY <1>5 DEF WaitingInv

LEMMA SeedInvInit == SeedInit => SeedInv
<1> SUFFICES ASSUME SeedInit PROVE SeedInv
  OBVIOUS
<1>1. TypeOK /\ InductiveInvariant
  BY TypeInit, InvariantInit DEF SeedInit, ClientInit
<1>2. \A p \in Scripts : script[p] = Off
  BY DEF SeedInit
<1>3. \A c \in Campaigns : ~ CampaignExists(c) /\ vset[c] = << >>
  BY DEF SeedInit, ClientInit, Init, CampaignExists
<1>4. Off \in RunRecord /\ ~ Placed(Off)
      /\ Off.stage = "off" /\ Off.tx = "none"
  BY PlanLengths, Arguments DEF Off, RunRecord, Placed, Plans
<1>5. SeedTypeOK
  <2>1. now = 0 /\ now <= LastTime
    BY Arguments DEF SeedInit, ClientInit, Init
  <2>2. script \in [Scripts -> RunRecord]
    BY <1>4 DEF SeedInit
  <2>3. \A p \in Scripts : RunTyped(script[p])
    BY <1>2, <1>4 DEF RunTyped
  <2>4. file \in [Campaigns -> Labels] /\ blob \in [Campaigns -> Labels]
    BY DEF SeedInit, Labels
  <2>5. spent \in [runs : 0 .. MaxRuns, plans : SUBSET DOMAIN Plan, disturbances : Nat]
    BY Setting DEF SeedInit
  <2> QED
    BY <1>1, <2>1, <2>2, <2>3, <2>4, <2>5 DEF SeedInit, SeedTypeOK
<1>6. ChainInv
  BY <1>3 DEF ChainInv
<1>7. FundsInv
  <2>1. Created = {} /\ StrayIds = {} /\ Searching = {}
    BY <1>2, <1>3, <1>4 DEF Created, StrayIds, Searching, SeedInit
  <2>2. {q \in Scripts : Placed(script[q])} = {}
    BY <1>2, <1>4
  <2>3. Claimed = {}
    BY <2>1, <2>2 DEF Claimed
  <2>4. IsFiniteSet({}) /\ Cardinality({}) = 0
    BY FS_EmptySet
  <2>5. InitialWallet[Creator] \in Nat /\ SeedAmount \in Nat
    BY Setting, Arguments, KeysAssumption DEF Keys
  <2>6. wallet[Creator] = InitialWallet[Creator] /\ spent.runs = 0
    BY DEF SeedInit, ClientInit, Init
  <2> QED
    BY <2>1, <2>3, <2>4, <2>5, <2>6 DEF FundsInv
<1>8. TimeInv /\ PassedInv
  BY <1>2, <1>4 DEF TimeInv, TimeOf, PassedInv, PassedBy
<1>9. WaitingInv
  BY <1>2, <1>4 DEF WaitingInv, WaitingOf
<1>10. DocumentInv
  BY <1>2, <1>4 DEF DocumentInv, DraftOf, Documented, SeedInit
<1> QED
  BY <1>1, <1>5, <1>6, <1>7, <1>8, <1>9, <1>10 DEF SeedInv

LEMMA SeedInvStep ==
    ASSUME SeedInv, [SeedNext]_seedVars
    PROVE  SeedInv'
<1>1. SeedTypeOK'
  BY SeedTypeStep
<1>2. InductiveInvariant' /\ ChainInv'
  BY SeedStepOnChain, ChainFacts DEF SeedInv, SeedTypeOK
<1>3. FundsInv'
  BY FundsStep
<1>4. TimeInv' /\ PassedInv' /\ DocumentInv'
  BY DocumentStep
<1>5. WaitingInv'
  BY WaitingStep
<1> QED
  BY <1>1, <1>2, <1>3, <1>4, <1>5 DEF SeedInv

-----------------------------------------------------------------------------
(* Theorems *)

\* Whatever the scripts, their kills and restarts and the outsiders do, the
\* runs, the documents, the ids in use and the creator's tokens stay as the
\* parts of SeedInv say (seed-devnet.ts, seed-local.ts, manual-live.ts and
\* init-config.ts on one cluster).
THEOREM SeedInvariant == SeedSpec => []SeedInv
<1>1. SeedInv /\ [SeedNext]_seedVars => SeedInv'
  BY SeedInvStep
<1> QED
  BY <1>1, SeedInvInit, PTL DEF SeedSpec

\* What a completed run has passed covers all that its plan creates, settles
\* and refunds: a short-lived campaign is one that the plan refunds.
LEMMA DoneMeansSeeded ==
    ASSUME SeedInv, NEW p \in Scripts, script[p].stage = "done"
    PROVE  /\ \A slot \in Slots(script[p].plan) :
                 CampaignExists(script[p].base + slot)
           /\ \A slot \in SettledSlots(script[p].plan) :
                 Settled(script[p].base + slot)
<1> DEFINE run == script[p]
           s == Plan[run.plan]
<1>1. RunTyped(run) /\ run \in RunRecord /\ PassedBy(run)
  BY DEF SeedInv, SeedTypeOK, PassedInv
<1>2. run.plan \in DOMAIN Plan /\ run.at = Len(s) + 1
  BY <1>1 DEF RunTyped, RunRecord
<1>3. Well(s, Size(run.plan)) /\ Len(s) \in Nat
  BY <1>2, PlansWell
<1>4. DOMAIN s = 1 .. Len(s)
  BY <1>2, PlanDomains
<1>5. \A i \in 1 .. Len(s) : Matters(s[i]) => Reached(s[i], run.base)
  BY <1>1, <1>2, <1>3 DEF PassedBy
<1>6. \A i \in 1 .. Len(s) :
          s[i].do \in {"settle", "refund"} =>
              Settled(run.base + s[i].slot) /\ run.base + s[i].slot \in Campaigns
  <2> SUFFICES ASSUME NEW i \in 1 .. Len(s), s[i].do \in {"settle", "refund"}
               PROVE  Settled(run.base + s[i].slot) /\ run.base + s[i].slot \in Campaigns
    OBVIOUS
  <2>1. Matters(s[i])
    BY DEF Matters
  <2>2. i \in 1 .. run.at - 1
    BY <1>2, <1>3
  <2>3. run.base + s[i].slot \in Campaigns
    BY <1>1, <2>1, <2>2, PassedId
  <2>4. Settled(run.base + s[i].slot)
    BY <1>5, <2>1 DEF Reached
  <2> QED
    BY <2>3, <2>4
<1>7. \A c \in Campaigns : Settled(c) => CampaignExists(c)
  BY AccountFacts DEF SeedInv, SeedTypeOK, Settled, CampaignExists
<1>8. ASSUME NEW i \in 1 .. Len(s), s[i].do = "create"
      PROVE  CampaignExists(run.base + s[i].slot)
  <2>1. CASE s[i].window = Later
    BY <1>5, <1>8, <2>1 DEF Matters, Reached
  <2>2. CASE s[i].window # Later
    <3>1. PICK j \in 1 .. Len(s) : s[j].do = "refund" /\ s[j].slot = s[i].slot
      BY <1>3, <1>8, <2>2 DEF Well, StepWell
    <3> QED
      BY <1>6, <1>7, <3>1
  <2> QED
    BY <2>1, <2>2
<1> QED
  BY <1>4, <1>6, <1>8 DEF Slots, SettledSlots

\* A seeder that completes has left its block as described, for any number
\* of processes, runs, kills and outsiders' steps, although it takes every
\* confirmed transaction for a successful one (seed-devnet.ts and
\* seed-local.ts never read the outcome).
THEOREM CompletedSeedersHaveSeeded == SeedSpec => []CompletedMeansSeeded
<1>1. SeedInv => CompletedMeansSeeded
  <2> SUFFICES ASSUME SeedInv PROVE CompletedMeansSeeded
    OBVIOUS
  <2> QED
    BY DoneMeansSeeded DEF CompletedMeansSeeded
<1> QED
  BY <1>1, SeedInvariant, PTL

\* Neither the public file nor the blob store ever names a campaign that
\* does not exist, in whatever order seeders read, write and push them
\* (seed-devnet.ts, the metadata API).
THEOREM PublishedMeansCreated == SeedSpec => []PublishedCampaignsExist
<1>1. SeedInv => PublishedCampaignsExist
  BY DEF SeedInv, DocumentInv, Documented, PublishedCampaignsExist
<1> QED
  BY <1>1, SeedInvariant, PTL

LEMMA SeedStepIsProgramStep ==
    SeedInv /\ [SeedNext]_seedVars => TypeOK /\ InductiveInvariant /\ ProgramStep
BY SeedStepOnChain, ChainIsProgramStep DEF SeedInv, SeedTypeOK

\* The scripts' transactions, those that outlive their run among them, leave
\* the program an implementation of the abstract escrow.
THEOREM ScriptsImplementSettlement == SeedSpec => ImplementsSettlement
<1>1. SeedInit => Escrow!Init
  BY RefinementInit DEF SeedInit, ClientInit
<1>2. SeedInv /\ [SeedNext]_seedVars => [Escrow!Next]_(Escrow!vars)
  BY SeedStepIsProgramStep, ProgramStepRefines
<1> QED
  BY <1>1, <1>2, SeedInvariant, PTL DEF SeedSpec, ImplementsSettlement, Escrow!Spec

\* A script that is run again over an existing block, or that collides with
\* another, never changes the terms or the scores of a campaign it finds.
THEOREM ScriptsKeepTheTerms == SeedSpec => TermsAreFrozen
<1>1. SeedInv /\ [SeedNext]_seedVars => [\A c \in Campaigns : KeepsTerms(c)]_vars
  BY SeedStepIsProgramStep, ProgramTermsStep
<1> QED
  BY <1>1, SeedInvariant, PTL DEF SeedSpec, TermsAreFrozen

=============================================================================
