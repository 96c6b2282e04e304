---------------------------- MODULE AgentsProofs ----------------------------
(***************************************************************************)
(* Theorems about the adapters, the agents and the stub demo, for any      *)
(* calls, services, policies, stores and processes.                        *)
(***************************************************************************)
EXTENDS StubDemo, FiniteSetTheorems, TLAPS

-----------------------------------------------------------------------------
(* Scores *)

LEMMA EngagementBonusType ==
    ASSUME NEW engagements \in Nat
    PROVE  EngagementBonusBps(engagements) \in Nat
<1> DEFINE range == 1 .. AtMost(1600, 55 * engagements)
           squares == {r \in range : r * r <= 3025 * engagements}
<1>1. AtMost(1600, 55 * engagements) \in Int
  BY DEF AtMost
<1>2. IsFiniteSet(range)
  BY <1>1, FS_Interval
<1>3. squares \in SUBSET range
  OBVIOUS
<1>4. EngagementBonusBps(engagements) = Cardinality(squares)
  BY DEF EngagementBonusBps
<1> HIDE DEF range, squares
<1>5. IsFiniteSet(squares)
  BY <1>2, <1>3, FS_Subset
<1> QED
  BY <1>4, <1>5, FS_CardinalityType

\* The type of a validator's score of a proof whose numbers are integers.
LEMMA AgentScoreType ==
    ASSUME NEW proof,
           proof.engagementCount \in Int, proof.createdAtUnix \in Int,
           proof.firstByte \in 0 .. 255
    PROVE  DeterministicScoreBps(NormalizeProofInput(proof)) \in BasisPoints
<1> DEFINE p == NormalizeProofInput(proof)
           sum == BaseBps(p.action) + PlatformBonusBps(p.platform)
                  + EngagementBonusBps(p.engagementCount)
                  + (IF p.createdAtUnix > 0 THEN 200 ELSE 0)
                  + (p.firstByte % 51)
<1>1. p.engagementCount \in Nat /\ p.firstByte \in 0 .. 255
  BY DEF NormalizeProofInput, AtLeast
<1>2. EngagementBonusBps(p.engagementCount) \in Nat
  BY <1>1, EngagementBonusType
<1>3. BaseBps(p.action) \in Int
  BY DEF BaseBps
<1>4. PlatformBonusBps(p.platform) \in Int
  BY DEF PlatformBonusBps
<1>5. p.firstByte % 51 \in Int
  BY <1>1
<1> HIDE DEF p
<1>6. sum \in Int
  BY <1>2, <1>3, <1>4, <1>5
<1> HIDE DEF sum
<1>7. ClampBps(sum) \in BasisPoints
  BY <1>6 DEF ClampBps, AtLeast, AtMost, BasisPoints
<1> QED
  BY <1>7 DEF sum, p, DeterministicScoreBps

\* A signed score that verifySignedScore accepts was signed by the validator
\* it names, and over exactly this score, campaign and proof.
THEOREM AcceptedScoresAreSigned ==
    ASSUME NEW signed, VerifySignedScore(signed)
    PROVE  signed.signature = [key |-> signed.payload.validator,
                               message |-> signed.payload]
BY DEF VerifySignedScore, Verifies

-----------------------------------------------------------------------------
(* Types of the adapters *)

LEMMA ClassType ==
    /\ \A code : ClassifyCode(code) \in FailureClasses
    /\ \A message : ClassifyMessage(message) \in FailureClasses
<1> DEFINE codes == <<Row("retryable", {"timeout", "timedout", "etimedout",
                                        "econnreset", "503"}),
                      Row("rate_limited", {"rate", "429"}),
                      Row("auth", {"401", "403", "auth"}),
                      Row("not_found", {"404", "not_found"}),
                      Row("invalid_input", {"bad_request", "400", "invalid"})>>
           messages == <<Row("auth", {"401", "403"}),
                         Row("not_found", {"404"}),
                         Row("rate_limited", {"429", "rate_limit"}),
                         Row("invalid_input", {"422"}),
                         Row("retryable", {"5", "ECONNRESET", "ETIMEDOUT"})>>
<1>1. ASSUME NEW table, NEW found,
             DOMAIN table = 1 .. 5,
             \A i \in 1 .. 5 : table[i].class \in FailureClasses
      PROVE  FirstClass(table, found) \in FailureClasses
  <2> DEFINE hits == {i \in DOMAIN table : table[i].marks \cap found # {}}
             first == CHOOSE i \in hits : \A j \in hits : i <= j
  <2>1. CASE hits = {}
    BY <2>1 DEF FirstClass, FailureClasses
  <2>2. CASE hits # {}
    <3>1. hits \subseteq 1 .. 5
      BY <1>1
    <3>2. FirstClass(table, found) = table[first].class
      BY <2>2 DEF FirstClass
    <3> HIDE DEF hits
    <3>3. \E i \in hits : \A j \in hits : i <= j
      <4>1. PICK h \in hits : TRUE
        BY <2>2
      <4>2. \A j \in hits : j \in 1 .. 5
        BY <3>1
      <4>3. h = 1 \/ h = 2 \/ h = 3 \/ h = 4 \/ h = 5
        BY <4>2
      <4> QED
        BY <4>2, <4>3
    <3>4. first \in hits
      BY <3>3
    <3> QED
      BY <1>1, <3>1, <3>2, <3>4
  <2> QED
    BY <2>1, <2>2
<1>2. DOMAIN codes = 1 .. 5 /\ DOMAIN messages = 1 .. 5
  OBVIOUS
<1>3. \A i \in 1 .. 5 : codes[i].class \in FailureClasses
  BY DEF Row, FailureClasses
<1>4. \A i \in 1 .. 5 : messages[i].class \in FailureClasses
  BY DEF Row, FailureClasses
<1>5. \A code : ClassifyCode(code) = FirstClass(codes, code)
  BY DEF ClassifyCode
<1>6. \A message : ClassifyMessage(message) = FirstClass(messages, message)
  BY DEF ClassifyMessage
<1> HIDE DEF codes, messages
<1> QED
  BY <1>1, <1>2, <1>3, <1>4, <1>5, <1>6

LEMMA PostStepType ==
    ASSUME AdaptersTypeOK, NEW f \in PostFetches, PostStep(f)
    PROVE  AdaptersTypeOK'
<1> USE DEF AdaptersTypeOK
<1>1. post[f] # NotFetched => post[f] \in PostFetch
  OBVIOUS
<1>2. ASSUME NEW call \in PostFetch, NEW error \in FailureClasses \cup {"mismatch"}
      PROVE  Throws(call, error) \in PostFetch
  BY <1>2 DEF PostFetch, Throws
<1>3. ASSUME NEW uri \in Uris, NEW action \in Actions
      PROVE  /\ Request(uri, action) \in PostFetch
             /\ [Request(uri, action) EXCEPT !.attempt = 0] \in PostFetch
  BY <1>3 DEF Request, PostFetch
<1>4. ASSUME NEW uri \in Uris, NEW action \in Actions, FetchProof(f, uri, action)
      PROVE  AdaptersTypeOK'
  BY <1>4, <1>3 DEF FetchProof
<1>5. ASSUME NEW uri \in Uris, NEW action \in Actions,
             FetchWithoutAttempts(f, uri, action)
      PROVE  AdaptersTypeOK'
  <2>1. Throws([Request(uri, action) EXCEPT !.attempt = 0], "fatal") \in PostFetch
    BY <1>2, <1>3 DEF FailureClasses
  <2> QED
    BY <1>5, <2>1 DEF FetchWithoutAttempts
<1>6. ASSUME NEW record \in EngagementRecord, NEW byte \in Bytes,
             PostAnswered(f, record, byte)
      PROVE  AdaptersTypeOK'
  <2>1. post[f] \in PostFetch
    BY <1>6, <1>1 DEF PostAnswered, NotFetched
  <2>2. [post[f] EXCEPT !.phase = "done", !.proof = SocialProof(record, byte)]
            \in PostFetch
    <3>1. SocialProof(record, byte) \in Proofs
      BY DEF Proofs
    <3> QED
      BY <2>1, <3>1 DEF PostFetch
  <2>3. Throws(post[f], "mismatch") \in PostFetch
    BY <1>2, <2>1
  <2>4. post' \in [PostFetches -> PostFetch \cup {NotFetched}]
    BY <1>6, <2>2, <2>3 DEF PostAnswered
  <2>5. heard' \in [PostFetches -> Seq(FailureClasses \cup {"record"})]
    BY <1>6 DEF PostAnswered, Hears
  <2> QED
    BY <1>6, <2>4, <2>5 DEF PostAnswered
<1>7. ASSUME NEW code \in Codes, PostRefused(f, code)
      PROVE  AdaptersTypeOK'
  <2>1. post[f] \in PostFetch
    BY <1>7, <1>1 DEF PostRefused, NotFetched
  <2>2. ClassifyCode(code) \in FailureClasses
    BY ClassType
  <2>3. [post[f] EXCEPT !.phase = "waiting"] \in PostFetch
    BY <2>1 DEF PostFetch
  <2>4. Throws(post[f], ClassifyCode(code)) \in PostFetch
    BY <1>2, <2>1, <2>2
  <2>5. post' \in [PostFetches -> PostFetch \cup {NotFetched}]
    BY <1>7, <2>3, <2>4 DEF PostRefused
  <2>6. heard' \in [PostFetches -> Seq(FailureClasses \cup {"record"})]
    BY <1>7, <2>2 DEF PostRefused, Hears
  <2> QED
    BY <1>7, <2>5, <2>6 DEF PostRefused
<1>8. ASSUME AskAgain(f)
      PROVE  AdaptersTypeOK'
  <2>1. post[f] \in PostFetch
    BY <1>8, <1>1 DEF AskAgain, NotFetched
  <2> DEFINE next == post[f].attempt + 1
  <2>3. next \in Nat
    BY <2>1 DEF PostFetch
  <2> HIDE DEF next
  <2>4. [post[f] EXCEPT !.phase = "asking", !.attempt = next] \in PostFetch
    BY <2>1, <2>3 DEF PostFetch
  <2>2. [post[f] EXCEPT !.phase = "asking", !.attempt = post[f].attempt + 1]
            \in PostFetch
    BY <2>4 DEF next
  <2> QED
    BY <1>8, <2>2 DEF AskAgain
<1> QED
  BY <1>4, <1>5, <1>6, <1>7, <1>8 DEF PostStep, PostSettles

LEMMA EvidenceStepType ==
    ASSUME AdaptersTypeOK, NEW f \in PullFetches, EvidenceStep(f)
    PROVE  AdaptersTypeOK'
<1> USE DEF AdaptersTypeOK
<1>1. evidence[f] # NotFetched => evidence[f] \in PullEvidence
  OBVIOUS
<1>2. ThreeRequests \in PullEvidence
  BY DEF ThreeRequests, PullEvidence
<1>3. ASSUME NEW e \in PullEvidence
      PROVE  Collected(e) \in PullEvidence
  BY <1>3 DEF Collected, PullEvidence
<1>4. ASSUME NEW e \in PullEvidence, Collects(f, e)
      PROVE  AdaptersTypeOK'
  BY <1>3, <1>4 DEF Collects
<1>5. CASE FetchEvidence(f)
  BY <1>5, <1>2 DEF FetchEvidence
<1>6. CASE FetchWithoutParams(f)
  <2>1. [ThreeRequests EXCEPT !.phase = "failed", !.error = "fatal"] \in PullEvidence
    BY DEF ThreeRequests, PullEvidence, FailureClasses
  <2> QED
    BY <1>6, <2>1 DEF FetchWithoutParams
<1>7. ASSUME evidence[f].phase = "asking"
      PROVE  evidence[f] \in PullEvidence
  BY <1>1, <1>7 DEF NotFetched
<1>8. CASE PullAnswered(f)
  <2> DEFINE pr == [merged |-> pull.merged, draft |-> pull.draft]
  <2>1. pr \in [merged : {"no", "yes"}, draft : {"no", "yes"}]
    BY DEF PullRequest
  <2>2. [evidence[f] EXCEPT !.pr = pr] \in PullEvidence
    BY <1>7, <1>8, <2>1 DEF PullAnswered, PullEvidence
  <2> QED
    BY <1>4, <1>8, <2>2 DEF PullAnswered
<1>9. CASE ReviewsAnswered(f)
  <2>1. CountReviews(pull) \in [approved : Nat, changes : Nat]
    BY DEF PullRequest, CountReviews
  <2>2. [evidence[f] EXCEPT !.reviews = CountReviews(pull)] \in PullEvidence
    BY <1>7, <1>9, <2>1 DEF ReviewsAnswered, PullEvidence
  <2> QED
    BY <1>4, <1>9, <2>2 DEF ReviewsAnswered
<1>10. ASSUME NEW runs \in SUBSET CheckRuns, ChecksAnswered(f, runs)
       PROVE  AdaptersTypeOK'
  <2>1. [evidence[f] EXCEPT !.checks = [runs |-> runs]] \in PullEvidence
    BY <1>7, <1>10 DEF ChecksAnswered, PullEvidence
  <2> QED
    BY <1>4, <1>10, <2>1 DEF ChecksAnswered
<1>11. ASSUME NEW message \in Messages, EvidenceRefused(f, message)
       PROVE  AdaptersTypeOK'
  <2>1. ClassifyMessage(message) \in FailureClasses
    BY ClassType
  <2>2. [evidence[f] EXCEPT !.phase = "failed", !.error = ClassifyMessage(message)]
            \in PullEvidence
    BY <1>7, <1>11, <2>1 DEF EvidenceRefused, PullEvidence
  <2> QED
    BY <1>11, <2>2 DEF EvidenceRefused
<1> QED
  BY <1>5, <1>6, <1>8, <1>9, <1>10, <1>11,
     AdaptersAssumption DEF EvidenceStep, EvidenceSettles, ChecksRefused

LEMMA PullChangesType ==
    ASSUME AdaptersTypeOK, PullChanges
    PROVE  AdaptersTypeOK'
<1>1. pull \in PullRequest
  BY DEF AdaptersTypeOK
<1>2. ASSUME NEW n \in Nat
      PROVE  /\ [pull EXCEPT !.approvals = n] \in PullRequest
             /\ [pull EXCEPT !.changes = n] \in PullRequest
             /\ \A m \in Nat : [pull EXCEPT !.approvals = m, !.dismissed = n]
                                   \in PullRequest
  BY <1>1 DEF PullRequest
<1>3. \A draft \in {"no", "yes"} :
         [pull EXCEPT !.draft = draft] \in PullRequest
  BY <1>1 DEF PullRequest
<1>4. [pull EXCEPT !.merged = "yes"] \in PullRequest
  BY <1>1 DEF PullRequest
<1>5. /\ pull.approvals + 1 \in Nat /\ pull.changes + 1 \in Nat
      /\ pull.dismissed + 1 \in Nat
      /\ pull.approvals > 0 => pull.approvals - 1 \in Nat
  BY <1>1 DEF PullRequest
<1>6. pull' \in PullRequest
  BY <1>2, <1>3, <1>4, <1>5 DEF PullChanges
<1> QED
  BY <1>6 DEF AdaptersTypeOK, PullChanges

LEMMA AdaptersStepType ==
    ASSUME AdaptersTypeOK, AdaptersNext
    PROVE  AdaptersTypeOK'
BY PostStepType, EvidenceStepType, PullChangesType DEF AdaptersNext

LEMMA AdaptersInitType ==
    ASSUME AdaptersInit
    PROVE  AdaptersTypeOK
<1>1. post \in [PostFetches -> PostFetch \cup {NotFetched}]
  BY DEF AdaptersInit
<1>2. heard \in [PostFetches -> Seq(FailureClasses \cup {"record"})]
  BY DEF AdaptersInit
<1>3. pull \in PullRequest
  BY DEF AdaptersInit, NewPull, PullRequest
<1>4. evidence \in [PullFetches -> PullEvidence \cup {NotFetched}]
  BY DEF AdaptersInit
<1> QED
  BY <1>1, <1>2, <1>3, <1>4 DEF AdaptersTypeOK

\* A fetch that is done has a proof.
ProofWhenDone ==
    \A f \in PostFetches : post[f].phase = "done" => post[f].proof \in Proofs

LEMMA ProofWhenDoneStep ==
    ASSUME AdaptersTypeOK, ProofWhenDone, AdaptersNext
    PROVE  ProofWhenDone'
<1>1. ASSUME NEW f \in PostFetches, PostStep(f), NEW g \in PostFetches,
             post'[g].phase = "done"
      PROVE  post'[g].proof \in Proofs
  <2>1. CASE g # f
    BY <1>1, <2>1 DEF AdaptersTypeOK, ProofWhenDone, PostStep, PostSettles,
       FetchProof, FetchWithoutAttempts, PostAnswered, PostRefused, AskAgain
  <2>2. CASE g = f
    <3>1. ASSUME NEW call, NEW error
          PROVE  "phase" \in DOMAIN call => Throws(call, error).phase = "failed"
      BY DEF Throws
    <3>2. "phase" \in DOMAIN NotFetched
      BY DEF NotFetched
    <3>3. \A call \in PostFetch : {"phase", "proof"} \subseteq DOMAIN call
      BY DEF PostFetch
    <3>4. "phase" \in DOMAIN post[f]
      BY <3>2, <3>3 DEF AdaptersTypeOK
    <3>5. \A uri, action :
             /\ Request(uri, action).phase = "asking"
             /\ "phase" \in DOMAIN [Request(uri, action) EXCEPT !.attempt = 0]
      BY DEF Request
    <3>6. ASSUME NEW record \in EngagementRecord, NEW byte \in Bytes,
                 PostAnswered(f, record, byte)
          PROVE  post'[g].proof \in Proofs
      <4>1. post[f] \in PostFetch
        BY <3>6 DEF AdaptersTypeOK, PostAnswered, NotFetched
      <4>2. IsForTheRequest(post[f], record)
        BY <1>1, <2>2, <3>1, <3>4, <3>6 DEF PostAnswered, AdaptersTypeOK
      <4>3. post'[f] = [post[f] EXCEPT !.phase = "done",
                                       !.proof = SocialProof(record, byte)]
        BY <3>6, <4>2 DEF PostAnswered, AdaptersTypeOK
      <4>4. SocialProof(record, byte) \in Proofs
        BY DEF Proofs
      <4> QED
        BY <2>2, <3>3, <4>1, <4>3, <4>4
    <3>7. ~ \E uri \in Uris, action \in Actions :
                FetchProof(f, uri, action) \/ FetchWithoutAttempts(f, uri, action)
      BY <1>1, <2>2, <3>1, <3>5
         DEF FetchProof, FetchWithoutAttempts, AdaptersTypeOK
    <3>8. ~ \E code \in Codes : PostRefused(f, code)
      BY <1>1, <2>2, <3>1, <3>4 DEF PostRefused, AdaptersTypeOK
    <3>9. ~ AskAgain(f)
      BY <1>1, <2>2, <3>4 DEF AskAgain, AdaptersTypeOK
    <3> QED
      BY <1>1, <3>6, <3>7, <3>8, <3>9 DEF PostStep, PostSettles
  <2> QED
    BY <2>1, <2>2
<1>2. ASSUME UNCHANGED post
      PROVE  ProofWhenDone'
  BY <1>2 DEF ProofWhenDone
<1>3. ASSUME NEW f \in PullFetches, EvidenceStep(f)
      PROVE  UNCHANGED post
  BY <1>3 DEF EvidenceStep, EvidenceSettles, FetchEvidence, FetchWithoutParams,
     PullAnswered, ReviewsAnswered, ChecksRefused, ChecksAnswered,
     EvidenceRefused, Collects
<1>4. ASSUME PullChanges
      PROVE  UNCHANGED post
  BY <1>4 DEF PullChanges
<1> QED
  BY <1>1, <1>2, <1>3, <1>4 DEF AdaptersNext, ProofWhenDone

-----------------------------------------------------------------------------
(* Types of the agents and the demo *)

LEMMA ProofsAtHandTyped ==
    ASSUME AdaptersTypeOK, ProofWhenDone, NEW proof \in ProofsAtHand
    PROVE  /\ proof.engagementCount \in Int /\ proof.createdAtUnix \in Int
           /\ proof.firstByte \in 0 .. 255
<1>1. CASE proof \in WrittenProofs
  BY <1>1, AgentsAssumption
<1>2. CASE proof \in Proofs
  <2>1. PICK record \in EngagementRecord, byte \in Bytes :
            proof = SocialProof(record, byte)
    BY <1>2 DEF Proofs
  <2>2. record.engagements \in Int /\ record.createdAtUnix \in Int /\ byte \in 0 .. 255
    BY AdaptersAssumption DEF EngagementRecord
  <2> QED
    BY <2>1, <2>2 DEF SocialProof, AtLeast
<1> QED
  BY <1>1, <1>2 DEF ProofsAtHand, ProofWhenDone

AgentCalls == ExecutorCall \cup ValidatorCall \cup {NotCalled}

LEMMA CallStepType ==
    ASSUME AgentsTypeOK, ProofWhenDone, NEW j \in Calls, CallStep(j)
    PROVE  /\ claims' \in [Stores -> SUBSET Campaigns]
           /\ job' \in [Calls -> AgentCalls]
<1> USE DEF AgentCalls
<1>1. /\ job \in [Calls -> AgentCalls]
      /\ claims \in [Stores -> SUBSET Campaigns]
  BY DEF AgentsTypeOK
<1>2. ASSUME NEW call \in ExecutorCall \cup ValidatorCall, NEW phase \in Phases
      PROVE  [call EXCEPT !.phase = phase] \in AgentCalls
  BY <1>2 DEF ExecutorCall, ValidatorCall
<1>3. ASSUME NEW call \in ExecutorCall \cup ValidatorCall, NEW memo \in MemoStates
      PROVE  [call EXCEPT !.memo = memo] \in AgentCalls
  BY <1>3 DEF ExecutorCall, ValidatorCall
<1>4. ASSUME NEW call \in ExecutorCall \cup ValidatorCall, NEW phase \in Phases
      PROVE  Unsent(call, phase) \in AgentCalls
  <2>1. [call EXCEPT !.phase = phase] \in ExecutorCall \cup ValidatorCall
    BY <1>4 DEF ExecutorCall, ValidatorCall
  <2>2. Unsent(call, phase) = [[call EXCEPT !.phase = phase] EXCEPT !.memo = "none"]
    BY DEF Unsent
  <2> QED
    BY <1>3, <2>1, <2>2 DEF MemoStates
<1>5. ASSUME NEW executor \in Executors, NEW c \in Campaigns
      PROVE  Executing(executor, c) \in ExecutorCall
  BY <1>5 DEF Executing, ExecutorCall, Phases, MemoStates
<1>10. ASSUME NEW validator \in Validators, NEW c \in Campaigns,
              NEW scoreBps \in BasisPoints
       PROVE  Validating(validator, c, scoreBps) \in ValidatorCall
  BY <1>10 DEF Validating, ValidatorCall, Phases, MemoStates
<1>6. CASE ExecutorStep(j)
  <2>1. PICK executor \in Executors, c \in Campaigns :
            \/ \E proof \in ProofsAtHand : ExecuteCampaign(j, executor, c, proof)
            \/ ExecuteRefused(j, executor, c)
    BY <1>6 DEF ExecutorStep
  <2>2. job' \in [Calls -> AgentCalls]
    <3>1. /\ Executing(executor, c) \in AgentCalls
          /\ Unsent(Executing(executor, c), "refused") \in AgentCalls
      BY <1>4, <1>5 DEF Phases
    <3> HIDE DEF AgentCalls
    <3> QED
      BY <1>1, <2>1, <3>1 DEF ExecuteCampaign, ExecuteRefused
  <2>3. claims' \in [Stores -> SUBSET Campaigns]
    BY <1>1, <2>1 DEF ExecuteCampaign, ExecuteRefused, Claim
  <2> QED
    BY <2>2, <2>3
<1>7. CASE ValidatorStep(j)
  <2>1. PICK validator \in Validators, c \in Campaigns, proof \in ProofsAtHand :
            \/ ValidateAndSubmit(j, validator, c, proof)
            \/ ValidateThrows(j, validator, c, proof)
    BY <1>7 DEF ValidatorStep
  <2>2. DeterministicScoreBps(NormalizeProofInput(proof)) \in BasisPoints
    BY AgentScoreType, ProofsAtHandTyped DEF AgentsTypeOK
  <2>3. PICK scoreBps \in BasisPoints :
            scoreBps = DeterministicScoreBps(NormalizeProofInput(proof))
    BY <2>2
  <2>4. /\ Validating(validator, c, scoreBps) \in AgentCalls
        /\ Unsent(Validating(validator, c, 0), "failed") \in AgentCalls
    <3>1. PICK none \in BasisPoints : none = 0
      BY DEF BasisPoints
    <3>2. /\ Validating(validator, c, scoreBps) \in ValidatorCall
          /\ Validating(validator, c, none) \in ValidatorCall
      BY <1>10
    <3>3. "failed" \in Phases
      BY DEF Phases
    <3> QED
      BY <1>4, <3>1, <3>2, <3>3
  <2>5. /\ UNCHANGED claims
        /\ \/ job' = [job EXCEPT ![j] = Validating(validator, c, scoreBps)]
           \/ job' = [job EXCEPT ![j] = Unsent(Validating(validator, c, 0), "failed")]
    BY <2>1, <2>3 DEF ValidateAndSubmit, ValidateThrows
  <2> HIDE DEF AgentCalls
  <2> QED
    BY <1>1, <2>4, <2>5
<1>8. CASE MemoLands(j) \/ MemoLost(j)
  <2>1. job[j] \in ExecutorCall \cup ValidatorCall
    BY <1>1, <1>8 DEF MemoLands, MemoLost
  <2>2. /\ [job[j] EXCEPT !.memo = "landed"] \in AgentCalls
        /\ [job[j] EXCEPT !.memo = "lost"] \in AgentCalls
    BY <1>3, <2>1 DEF MemoStates
  <2> HIDE DEF AgentCalls
  <2> QED
    BY <1>1, <1>8, <2>2 DEF MemoLands, MemoLost
<1>9. CASE CallEnds(j)
  <2>1. Submitting(j)
    BY <1>9 DEF CallEnds, Returns, SubmissionThrows
  <2>2. job' \in [Calls -> AgentCalls]
    <3>1. job[j] \in ExecutorCall \cup ValidatorCall
      BY <1>1, <2>1 DEF Submitting
    <3>2. /\ [job[j] EXCEPT !.phase = "done"] \in AgentCalls
          /\ [job[j] EXCEPT !.phase = "failed"] \in AgentCalls
      BY <1>2, <3>1 DEF Phases
    <3> HIDE DEF AgentCalls
    <3> QED
      BY <1>1, <1>9, <3>2 DEF CallEnds, Returns, SubmissionThrows
  <2>3. claims' \in [Stores -> SUBSET Campaigns]
    BY <1>1, <1>9 DEF CallEnds, Returns, SubmissionThrows, Finally, Unclaim
  <2> QED
    BY <2>2, <2>3
<1> QED
  BY <1>6, <1>7, <1>8, <1>9 DEF CallStep

LEMMA ProcessStopsType ==
    ASSUME AgentsTypeOK, NEW store \in Stores, ProcessStops(store)
    PROVE  /\ claims' \in [Stores -> SUBSET Campaigns]
           /\ job' \in [Calls -> AgentCalls]
<1>1. ASSUME NEW j \in Calls, Submitting(j)
      PROVE  [job[j] EXCEPT !.phase = "gone"] \in AgentCalls
  BY <1>1 DEF AgentsTypeOK, AgentCalls, Submitting, ExecutorCall, ValidatorCall,
     Phases
<1>2. \A j \in Calls : job[j] \in AgentCalls
  BY DEF AgentsTypeOK, AgentCalls
<1> QED
  BY <1>1, <1>2 DEF AgentsTypeOK, ProcessStops

LEMMA DemoStepType ==
    ASSUME AgentsTypeOK, DemoStep
    PROVE  DemoTyped'
<1> DEFINE T == [stage : {"attest", "score", "consensus", "over"}, txCounter : Nat,
                 submissions : [DemoValidators -> Nat],
                 outcome : {"none", "insufficient_responses", "below_threshold",
                            "settled_success"}]
<1>1. demo \in T
  BY DEF AgentsTypeOK, DemoTyped
<1>2. Cardinality(DemoValidators) \in Nat
  <2>1. PICK n \in Int : n = 3
    OBVIOUS
  <2>2. IsFiniteSet(DemoValidators)
    <3>1. IsFiniteSet(1 .. n)
      BY FS_Interval
    <3> QED
      BY <2>1, <3>1 DEF DemoValidators
  <2> QED
    BY <2>2, FS_CardinalityType
<1>3. ASSUME NEW record \in T, NEW n \in Nat
      PROVE  Stubbed(record, n) \in T
  <2>1. record.txCounter + n \in Nat
    BY <1>3
  <2> DEFINE sum == record.txCounter + n
  <2> HIDE DEF sum
  <2>2. sum \in Nat
    BY <2>1 DEF sum
  <2>3. [record EXCEPT !.txCounter = sum] \in T
    BY <1>3, <2>2
  <2> QED
    BY <2>3 DEF Stubbed, sum
<1>4. ASSUME NEW record \in T
      PROVE  FanOut(record) \in T
  <2> DEFINE counts == [v \in DemoValidators |-> record.submissions[v] + 1]
  <2>1. counts \in [DemoValidators -> Nat]
    BY <1>4
  <2> HIDE DEF counts
  <2>2. [record EXCEPT !.submissions = counts] \in T
    BY <1>4, <2>1
  <2> HIDE DEF T
  <2> QED
    BY <1>2, <1>3, <2>2 DEF FanOut, counts
<1>5. /\ [demo EXCEPT !.stage = "score"] \in T
      /\ [demo EXCEPT !.stage = "consensus"] \in T
      /\ [demo EXCEPT !.stage = "over", !.outcome = DemoOutcome] \in T
  BY <1>1 DEF DemoOutcome
<1>6. demo' \in T
  <2> HIDE DEF T
  <2> QED
    BY <1>3, <1>4, <1>5 DEF DemoStep, Attest, Score, RunConsensus
<1> QED
  BY <1>6 DEF DemoTyped

LEMMA AgentsTypeInit == Init => AgentsTypeOK /\ ProofWhenDone
<1> SUFFICES ASSUME Init PROVE AgentsTypeOK /\ ProofWhenDone
  OBVIOUS
<1>1. AdaptersTypeOK
  BY AdaptersInitType DEF Init, AgentsInit
<1>2. claims \in [Stores -> SUBSET Campaigns] /\ job \in [Calls -> {NotCalled}]
  BY DEF Init, AgentsInit
<1>3. DemoTyped
  BY DEF Init, DemoTyped, DemoStart
<1>4. ProofWhenDone
  BY DEF Init, AgentsInit, AdaptersInit, ProofWhenDone, NotFetched
<1> QED
  BY <1>1, <1>2, <1>3, <1>4 DEF AgentsTypeOK

LEMMA AgentsTypeStep ==
    AgentsTypeOK /\ ProofWhenDone /\ [Next]_demoVars => (AgentsTypeOK /\ ProofWhenDone)'
<1> SUFFICES ASSUME AgentsTypeOK, ProofWhenDone, [Next]_demoVars
             PROVE  (AgentsTypeOK /\ ProofWhenDone)'
  OBVIOUS
<1>1. ASSUME UNCHANGED adapterVars
      PROVE  AdaptersTypeOK' /\ ProofWhenDone'
  BY <1>1 DEF adapterVars, AgentsTypeOK, AdaptersTypeOK, ProofWhenDone
<1>2. UNCHANGED demo => DemoTyped'
  BY DEF AgentsTypeOK, DemoTyped
<1>3. ASSUME UNCHANGED <<claims, job>>
      PROVE  /\ claims' \in [Stores -> SUBSET Campaigns]
             /\ job' \in [Calls -> AgentCalls]
  BY <1>3 DEF AgentsTypeOK, AgentCalls
<1>4. CASE AdaptersNext /\ UNCHANGED <<claims, job>> /\ UNCHANGED demo
  <2>1. AdaptersTypeOK' /\ ProofWhenDone'
    BY <1>4, AdaptersStepType, ProofWhenDoneStep DEF AgentsTypeOK
  <2> QED
    BY <1>2, <1>3, <1>4, <2>1 DEF AgentsTypeOK, AgentCalls
<1>5. ASSUME NEW j \in Calls, CallStep(j), UNCHANGED demo
      PROVE  (AgentsTypeOK /\ ProofWhenDone)'
  <2>1. UNCHANGED adapterVars
    BY <1>5 DEF CallStep, ExecutorStep, ValidatorStep, ExecuteCampaign,
       ExecuteRefused, ValidateAndSubmit, ValidateThrows, MemoLands, MemoLost,
       CallEnds, Returns, SubmissionThrows
  <2> QED
    BY <1>1, <1>2, <1>5, <2>1, CallStepType DEF AgentsTypeOK, AgentCalls
<1>6. ASSUME NEW store \in Stores, ProcessStops(store), UNCHANGED demo
      PROVE  (AgentsTypeOK /\ ProofWhenDone)'
  BY <1>1, <1>2, <1>6, ProcessStopsType DEF AgentsTypeOK, AgentCalls, ProcessStops
<1>7. CASE DemoStep
  BY <1>1, <1>3, <1>7, DemoStepType DEF DemoStep, agentVars, AgentsTypeOK, AgentCalls
<1>8. CASE UNCHANGED demoVars
  BY <1>1, <1>2, <1>3, <1>8 DEF demoVars, agentVars, AgentsTypeOK, AgentCalls
<1> QED
  BY <1>4, <1>5, <1>6, <1>7, <1>8 DEF Next, AgentsNext

\* The state keeps its shape: fetches, evidence, claims, calls and the demo,
\* and every score is within 0 and 10000 basis points, whatever the services
\* answer and whatever proofs scripts write down.
THEOREM AgentsTypeCorrect == Spec => []AgentsTypeOK
<1>1. Spec => [](AgentsTypeOK /\ ProofWhenDone)
  BY AgentsTypeInit, AgentsTypeStep, PTL DEF Spec
<1> QED
  BY <1>1, PTL

-----------------------------------------------------------------------------
(* Retries *)

\* While a fetch goes on, the attempt it makes is the number of failures it
\* heard of, every one of them a passing one.
Counted(f) ==
    /\ post[f].phase = "idle" => heard[f] = <<>>
    /\ post[f].phase = "asking" =>
          /\ Len(heard[f]) + 1 = post[f].attempt
          /\ post[f].attempt <= MaxAttempts[f]
    /\ post[f].phase = "waiting" =>
          /\ Len(heard[f]) = post[f].attempt
          /\ post[f].attempt < MaxAttempts[f]
    /\ post[f].phase \in {"asking", "waiting"} =>
          \A i \in 1 .. Len(heard[f]) : ShouldRetry(heard[f][i])

RetryInv == \A f \in PostFetches : Counted(f) /\ Disciplined(f)

LEMMA HeardOneMore ==
    ASSUME NEW S, NEW s \in Seq(S), NEW e \in S,
           \A i \in 1 .. Len(s) : ShouldRetry(s[i])
    PROVE  /\ Len(Append(s, e)) = Len(s) + 1
           /\ Append(s, e) # <<>>
           /\ Append(s, e)[Len(Append(s, e))] = e
           /\ \A i \in 1 .. Len(Append(s, e)) - 1 : ShouldRetry(Append(s, e)[i])
           /\ ShouldRetry(e) =>
                 \A i \in 1 .. Len(Append(s, e)) : ShouldRetry(Append(s, e)[i])
<1>1. \A i \in 1 .. Len(s) : Append(s, e)[i] = s[i]
  OBVIOUS
<1>2. /\ Len(Append(s, e)) = Len(s) + 1 /\ Len(s) \in Nat
      /\ Append(s, e)[Len(s) + 1] = e
      /\ Append(s, e) # <<>>
  OBVIOUS
<1> QED
  BY <1>1, <1>2

LEMMA PostStepRetries ==
    ASSUME AdaptersTypeOK, NEW f \in PostFetches, Counted(f), Disciplined(f),
           PostStep(f)
    PROVE  Counted(f)' /\ Disciplined(f)'
<1> DEFINE C == FailureClasses \cup {"record"}
<1>1. /\ heard[f] \in Seq(C) /\ Len(heard[f]) \in Nat
      /\ MaxAttempts[f] \in Nat
      /\ post[f] \in PostFetch \cup {NotFetched}
  BY AdaptersAssumption DEF AdaptersTypeOK
<1>3. NotFetched.phase = "idle"
  BY DEF NotFetched
<1>4. ASSUME NEW uri \in Uris, NEW action \in Actions, FetchProof(f, uri, action)
      PROVE  Counted(f)' /\ Disciplined(f)'
  <2>1. post'[f].phase = "asking" /\ post'[f].attempt = 1
    BY <1>4 DEF FetchProof, Request, AdaptersTypeOK
  <2>2. heard'[f] = <<>> /\ MaxAttempts[f] > 0
    BY <1>3, <1>4 DEF FetchProof, Counted
  <2> QED
    BY <1>1, <2>1, <2>2 DEF Counted, Disciplined
<1>5. ASSUME NEW uri \in Uris, NEW action \in Actions,
             FetchWithoutAttempts(f, uri, action)
      PROVE  Counted(f)' /\ Disciplined(f)'
  <2>1. post'[f].phase = "failed" /\ post'[f].error = "fatal"
    BY <1>5 DEF FetchWithoutAttempts, Request, Throws, AdaptersTypeOK
  <2>2. heard'[f] = <<>> /\ MaxAttempts[f] = 0
    BY <1>3, <1>5 DEF FetchWithoutAttempts, Counted
  <2> QED
    BY <1>1, <2>1, <2>2 DEF Counted, Disciplined
<1>6. ASSUME NEW record \in EngagementRecord, NEW byte \in Bytes,
             PostAnswered(f, record, byte)
      PROVE  Counted(f)' /\ Disciplined(f)'
  <2>1. post[f] \in PostFetch
    BY <1>1, <1>6 DEF PostAnswered, NotFetched
  <2>2. heard'[f] = Append(heard[f], "record")
    BY <1>6 DEF PostAnswered, Hears, AdaptersTypeOK
  <2>3. \/ post'[f].phase = "done"
        \/ post'[f].phase = "failed" /\ post'[f].error = "mismatch"
    BY <1>6, <2>1 DEF PostAnswered, Throws, AdaptersTypeOK, PostFetch
  <2>4. /\ Len(heard[f]) + 1 <= MaxAttempts[f]
        /\ \A i \in 1 .. Len(heard[f]) : ShouldRetry(heard[f][i])
    BY <1>1, <1>6 DEF PostAnswered, Counted
  <2>5. /\ Len(heard'[f]) <= MaxAttempts[f]
        /\ heard'[f] # <<>> /\ heard'[f][Len(heard'[f])] = "record"
        /\ \A i \in 1 .. Len(heard'[f]) - 1 : ShouldRetry(heard'[f][i])
    BY <1>1, <2>2, <2>4, HeardOneMore
  <2>6. Counted(f)'
    BY <2>3 DEF Counted
  <2>7. Disciplined(f)'
    BY <2>3, <2>5 DEF Disciplined
  <2> QED
    BY <2>6, <2>7
<1>7. ASSUME NEW code \in Codes, PostRefused(f, code)
      PROVE  Counted(f)' /\ Disciplined(f)'
  <2> DEFINE class == ClassifyCode(code)
  <2>0. class \in FailureClasses /\ class # "record"
    BY ClassType DEF FailureClasses
  <2>1. post[f] \in PostFetch
    BY <1>1, <1>7 DEF PostRefused, NotFetched
  <2>2. heard'[f] = Append(heard[f], class)
    BY <1>7 DEF PostRefused, Hears, AdaptersTypeOK
  <2>3. IF TriesAgain(f, class)
        THEN post'[f].phase = "waiting" /\ post'[f].attempt = post[f].attempt
        ELSE post'[f].phase = "failed" /\ post'[f].error = class
    BY <1>7, <2>1 DEF PostRefused, Throws, AdaptersTypeOK, PostFetch
  <2>4. /\ Len(heard[f]) + 1 = post[f].attempt
        /\ post[f].attempt <= MaxAttempts[f]
        /\ \A i \in 1 .. Len(heard[f]) : ShouldRetry(heard[f][i])
    BY <1>7 DEF PostRefused, Counted
  <2>5. /\ Len(heard'[f]) = post[f].attempt
        /\ heard'[f] # <<>> /\ heard'[f][Len(heard'[f])] = class
        /\ \A i \in 1 .. Len(heard'[f]) - 1 : ShouldRetry(heard'[f][i])
        /\ ShouldRetry(class) =>
              \A i \in 1 .. Len(heard'[f]) : ShouldRetry(heard'[f][i])
    <3> HIDE DEF class
    <3>1. class \in C
      BY <2>0
    <3> QED
      BY <1>1, <2>2, <2>4, <3>1, HeardOneMore
  <2> HIDE DEF class
  <2>6. CASE TriesAgain(f, class)
    <3>1. ShouldRetry(class) /\ post[f].attempt < MaxAttempts[f]
      BY <2>6 DEF TriesAgain
    <3>2. post'[f].phase = "waiting" /\ post'[f].attempt = post[f].attempt
      BY <2>3, <2>6
    <3>3. Counted(f)'
      BY <2>5, <3>1, <3>2 DEF Counted
    <3>4. Disciplined(f)'
      BY <2>4, <2>5, <3>2 DEF Disciplined
    <3> QED
      BY <3>3, <3>4
  <2>7. CASE ~ TriesAgain(f, class)
    <3>1. post'[f].phase = "failed" /\ post'[f].error = class
      BY <2>3, <2>7
    <3>2. ShouldRetry(class) => post[f].attempt = MaxAttempts[f]
      <4>1. post[f].attempt \in Nat
        BY <2>1 DEF PostFetch
      <4> QED
        BY <1>1, <2>4, <2>7, <4>1 DEF TriesAgain
    <3>3. Counted(f)'
      BY <3>1 DEF Counted
    <3>4. Disciplined(f)'
      BY <2>0, <2>4, <2>5, <3>1, <3>2 DEF Disciplined, class
    <3> QED
      BY <3>3, <3>4
  <2> QED
    BY <2>6, <2>7
<1>8. CASE AskAgain(f)
  <2>1. post[f] \in PostFetch /\ post[f].attempt \in Nat
    BY <1>1, <1>8 DEF AskAgain, NotFetched, PostFetch
  <2>2. /\ post'[f].phase = "asking"
        /\ post'[f].attempt = post[f].attempt + 1
    BY <1>8, <2>1 DEF AskAgain, AdaptersTypeOK, PostFetch
  <2>3. /\ heard'[f] = heard[f] /\ Len(heard[f]) = post[f].attempt
        /\ post[f].attempt < MaxAttempts[f]
        /\ \A i \in 1 .. Len(heard[f]) : ShouldRetry(heard[f][i])
    BY <1>8 DEF AskAgain, Counted
  <2>4. Counted(f)'
    BY <1>1, <2>1, <2>2, <2>3 DEF Counted
  <2>5. Disciplined(f)'
    BY <1>1, <2>1, <2>2, <2>3 DEF Disciplined
  <2> QED
    BY <2>4, <2>5
<1> QED
  BY <1>4, <1>5, <1>6, <1>7, <1>8 DEF PostStep, PostSettles

LEMMA EvidenceStepFrame ==
    ASSUME NEW f \in PullFetches, EvidenceStep(f)
    PROVE  UNCHANGED <<post, heard, pull>>
BY DEF EvidenceStep, EvidenceSettles, FetchEvidence, FetchWithoutParams,
   PullAnswered, ReviewsAnswered, ChecksRefused, ChecksAnswered, EvidenceRefused,
   Collects

LEMMA RetryInvStep ==
    ASSUME AdaptersTypeOK, RetryInv, AdaptersNext \/ UNCHANGED adapterVars
    PROVE  RetryInv'
<1>1. CASE UNCHANGED <<post, heard>>
  BY <1>1 DEF RetryInv, Counted, Disciplined
<1>2. ASSUME NEW f \in PostFetches, PostStep(f), NEW g \in PostFetches
      PROVE  Counted(g)' /\ Disciplined(g)'
  <2>1. CASE g = f
    BY <1>2, <2>1, PostStepRetries DEF RetryInv
  <2>2. CASE g # f
    <3>1. post'[g] = post[g] /\ heard'[g] = heard[g]
      BY <1>2, <2>2 DEF AdaptersTypeOK, PostStep, PostSettles, FetchProof,
         FetchWithoutAttempts, PostAnswered, PostRefused, AskAgain, Hears
    <3>2. Counted(g) /\ Disciplined(g)
      BY DEF RetryInv
    <3>3. Counted(g)'
      BY <3>1, <3>2 DEF Counted
    <3>4. Disciplined(g)'
      BY <3>1, <3>2 DEF Disciplined
    <3> QED
      BY <3>3, <3>4
  <2> QED
    BY <2>1, <2>2
<1>3. CASE \E f \in PullFetches : EvidenceStep(f)
  BY <1>1, <1>3, EvidenceStepFrame
<1>4. CASE PullChanges \/ UNCHANGED adapterVars
  BY <1>1, <1>4 DEF PullChanges, adapterVars
<1> QED
  BY <1>2, <1>3, <1>4 DEF AdaptersNext, RetryInv

-----------------------------------------------------------------------------
(* Evidence of a pull request that changes *)

\* What an answer said of the merge and of the approvals is true of the pull
\* request from then on, and a fetch is done with all three answers.
Seen(e) ==
    /\ e.pr # Pending /\ e.pr.merged = "yes" => pull.merged = "yes"
    /\ e.reviews # Pending =>
          e.reviews.approved <= pull.approvals + pull.dismissed
    /\ e.phase = "done" =>
          e.pr # Pending /\ e.reviews # Pending /\ e.checks # Pending

EvidenceSeen == \A f \in PullFetches : evidence[f] \in PullEvidence => Seen(evidence[f])

LEMMA PullScoreType ==
    ASSUME AdaptersTypeOK, EvidenceSeen, NEW f \in PullFetches,
           evidence[f].phase = "done"
    PROVE  PullScore(evidence[f]) \in Int
<1> DEFINE e == evidence[f]
           approval == ApprovalScore(e.reviews.approved)
           ci == CiScore(e.checks.runs)
           merged == IF e.pr.merged = "yes" THEN 2000 ELSE 0
           draft == IF PenaliseDraft /\ e.pr.draft = "yes" THEN 3000 ELSE 0
           sum == 5000 + merged + approval - 800 * e.reviews.changes + ci - draft
<1>1. e \in PullEvidence
  BY DEF AdaptersTypeOK, NotFetched
<1>2. e.reviews # Pending
  BY <1>1 DEF EvidenceSeen, Seen
<1>3. e.reviews.changes \in Nat
  BY <1>1, <1>2 DEF PullEvidence
<1>4. approval \in Int /\ ci \in Int
  BY DEF ApprovalScore, CiScore
<1>5. merged \in Int /\ draft \in Int
  OBVIOUS
<1>6. PullScore(e) = ClampBps(sum)
  BY DEF PullScore
<1> HIDE DEF merged, draft, approval, ci, e
<1>7. sum \in Int
  BY <1>3, <1>4, <1>5
<1> HIDE DEF sum
<1>8. ClampBps(sum) \in Int
  BY <1>7 DEF ClampBps, AtLeast, AtMost
<1> QED
  BY <1>6, <1>8 DEF e

LEMMA EarnedScore ==
    ASSUME AdaptersTypeOK, EvidenceSeen
    PROVE  HighScoreIsEarned
<1> SUFFICES ASSUME NEW f \in PullFetches, evidence[f].phase = "done",
                    PullScore(evidence[f]) > 7500
             PROVE  /\ pull.merged = "yes"
                    /\ pull.approvals + pull.dismissed >= MinApprovals
                    /\ RequireCiPass =>
                          \A run \in evidence[f].checks.runs : ~ Broken(run)
                    /\ PullScore(evidence[f]) > 8500 =>
                          /\ evidence[f].checks.runs # {}
                          /\ \A run \in evidence[f].checks.runs : Passed(run)
  <2>1. ASSUME NEW f \in PullFetches, evidence[f].phase = "done"
        PROVE  PullScore(evidence[f]) \in Int
    BY <2>1, PullScoreType
  <2> QED
    BY <2>1 DEF HighScoreIsEarned
<1> DEFINE e == evidence[f]
<1>1. e \in PullEvidence
  BY DEF AdaptersTypeOK, NotFetched
<1>2. Seen(e)
  BY <1>1 DEF EvidenceSeen
<1>3. e.pr # Pending /\ e.reviews # Pending
  BY <1>2 DEF Seen
<1> DEFINE merged == IF e.pr.merged = "yes" THEN 2000 ELSE 0
           draft == IF PenaliseDraft /\ e.pr.draft = "yes" THEN 3000 ELSE 0
           approval == ApprovalScore(e.reviews.approved)
           ci == CiScore(e.checks.runs)
           changes == e.reviews.changes
<1>4. changes \in Nat
  BY <1>1, <1>3 DEF PullEvidence
<1>5. /\ ci \in Int /\ ci <= 1000
      /\ ci > 0 => CiPassed(e.checks.runs)
      /\ RequireCiPass /\ CiFailed(e.checks.runs) => ci <= -1500
  BY DEF CiScore
<1>6. /\ approval \in {1500, -2000}
      /\ approval = 1500 => e.reviews.approved >= MinApprovals
  BY DEF ApprovalScore
<1>7. pull.approvals \in Nat /\ pull.dismissed \in Nat /\ MinApprovals \in Nat
      /\ e.reviews.approved \in Nat
  BY <1>1, <1>3, AdaptersAssumption DEF AdaptersTypeOK, PullRequest, PullEvidence
<1>8. /\ merged \in {0, 2000} /\ (merged = 2000 => e.pr.merged = "yes")
      /\ draft \in {0, 3000}
  OBVIOUS
<1>9. ClampBps(5000 + merged + approval - 800 * changes + ci - draft) > 7500
  BY DEF PullScore
<1>10. PullScore(e) =
           ClampBps(5000 + merged + approval - 800 * changes + ci - draft)
  BY DEF PullScore
<1> HIDE DEF merged, draft, approval, ci, changes
<1>11. 5000 + merged + approval - 800 * changes + ci - draft > 7500
  BY <1>4, <1>5, <1>6, <1>8, <1>9 DEF ClampBps, AtLeast, AtMost
<1>12. merged = 2000 /\ approval = 1500
  BY <1>4, <1>5, <1>6, <1>8, <1>11
<1>13. pull.merged = "yes" /\ pull.approvals + pull.dismissed >= MinApprovals
  BY <1>2, <1>3, <1>6, <1>7, <1>8, <1>12 DEF Seen
<1>14. RequireCiPass => ~ CiFailed(e.checks.runs)
  BY <1>4, <1>5, <1>6, <1>8, <1>11
<1>15. PullScore(e) > 8500 => CiPassed(e.checks.runs)
  <2>1. SUFFICES ASSUME PullScore(e) > 8500 PROVE ci > 0
    BY <1>5
  <2>2. 5000 + merged + approval - 800 * changes + ci - draft > 8500
    BY <1>4, <1>5, <1>6, <1>8, <1>10, <2>1 DEF ClampBps, AtLeast, AtMost
  <2> QED
    BY <1>4, <1>5, <1>8, <1>12, <2>2
<1>16. RequireCiPass => \A run \in e.checks.runs : ~ Broken(run)
  BY <1>14 DEF CiFailed, Broken
<1>17. PullScore(e) > 8500 =>
           e.checks.runs # {} /\ \A run \in e.checks.runs : Passed(run)
  BY <1>15 DEF CiPassed, Passed
<1> QED
  BY <1>13, <1>16, <1>17

LEMMA SeenWhileItChanges ==
    ASSUME AdaptersTypeOK, EvidenceSeen, PullChanges
    PROVE  EvidenceSeen'
<1>1. /\ pull.merged = "yes" => pull'.merged = "yes"
      /\ pull.approvals + pull.dismissed <= pull'.approvals + pull'.dismissed
  <2>1. pull \in PullRequest
    BY DEF AdaptersTypeOK
  <2>2. CASE pull' = [pull EXCEPT !.approvals = pull.approvals + 1]
    BY <2>1, <2>2 DEF PullRequest
  <2>3. CASE pull' = [pull EXCEPT !.changes = pull.changes + 1]
    BY <2>1, <2>3 DEF PullRequest
  <2>4. CASE pull' = [pull EXCEPT !.approvals = pull.approvals - 1,
                                  !.dismissed = pull.dismissed + 1]
    BY <2>1, <2>4 DEF PullRequest
  <2>5. CASE \E draft \in {"no", "yes"} : pull' = [pull EXCEPT !.draft = draft]
    BY <2>1, <2>5 DEF PullRequest
  <2>6. CASE pull' = [pull EXCEPT !.merged = "yes"]
    BY <2>1, <2>6 DEF PullRequest
  <2> QED
    BY <2>2, <2>3, <2>4, <2>5, <2>6 DEF PullChanges
<1>3. /\ pull.approvals \in Nat /\ pull.dismissed \in Nat
      /\ pull'.approvals \in Nat /\ pull'.dismissed \in Nat
  BY PullChangesType DEF AdaptersTypeOK, PullRequest
<1>2. ASSUME NEW f \in PullFetches, evidence[f] \in PullEvidence
      PROVE  Seen(evidence[f])'
  <2>1. Seen(evidence[f])
    BY <1>2 DEF EvidenceSeen
  <2>2. evidence[f].reviews # Pending => evidence[f].reviews.approved \in Nat
    BY <1>2 DEF PullEvidence
  <2>3. UNCHANGED evidence
    BY DEF PullChanges
  <2> QED
    BY <1>1, <1>3, <2>1, <2>2, <2>3 DEF Seen
<1> QED
  BY <1>2 DEF EvidenceSeen, PullChanges

LEMMA SeenWhileAsked ==
    ASSUME AdaptersTypeOK, EvidenceSeen, NEW f \in PullFetches, EvidenceStep(f)
    PROVE  EvidenceSeen'
<1>1. UNCHANGED pull
  BY EvidenceStepFrame
<1>2. ASSUME NEW e \in PullEvidence, Seen(e), e.phase = "asking"
      PROVE  Seen(Collected(e))
  BY <1>2 DEF Collected, Seen, PullEvidence
<1>3. /\ Seen(ThreeRequests)
      /\ Seen([ThreeRequests EXCEPT !.phase = "failed", !.error = "fatal"])
  BY DEF Seen, ThreeRequests
<1>4. ASSUME evidence[f].phase = "asking"
      PROVE  evidence[f] \in PullEvidence /\ Seen(evidence[f])
  BY <1>4 DEF AdaptersTypeOK, NotFetched, EvidenceSeen
<1>5. ASSUME NEW e \in PullEvidence, Seen(e), e.phase = "asking", Collects(f, e)
      PROVE  Seen(evidence'[f])
  BY <1>2, <1>5 DEF Collects, AdaptersTypeOK
<1>6. ASSUME FetchEvidence(f)
      PROVE  Seen(evidence'[f])
  <2>1. evidence'[f] = ThreeRequests
    BY <1>6 DEF FetchEvidence, AdaptersTypeOK
  <2> QED
    BY <1>3, <2>1
<1>7. ASSUME FetchWithoutParams(f)
      PROVE  Seen(evidence'[f])
  <2>1. evidence'[f] = [ThreeRequests EXCEPT !.phase = "failed", !.error = "fatal"]
    BY <1>7 DEF FetchWithoutParams, AdaptersTypeOK
  <2> QED
    BY <1>3, <2>1
<1>8. ASSUME PullAnswered(f)
      PROVE  Seen(evidence'[f])
  <2> DEFINE pr == [merged |-> pull.merged, draft |-> pull.draft]
             e == [evidence[f] EXCEPT !.pr = pr]
  <2>1. pr \in [merged : {"no", "yes"}, draft : {"no", "yes"}]
    BY DEF AdaptersTypeOK, PullRequest
  <2>2. e \in PullEvidence /\ e.phase = "asking"
    BY <1>4, <1>8, <2>1 DEF PullAnswered, PullEvidence
  <2>3. Seen(e)
    BY <1>4, <1>8 DEF PullAnswered, PullEvidence, Seen
  <2> QED
    BY <1>5, <1>8, <2>2, <2>3 DEF PullAnswered
<1>9. ASSUME ReviewsAnswered(f)
      PROVE  Seen(evidence'[f])
  <2> DEFINE e == [evidence[f] EXCEPT !.reviews = CountReviews(pull)]
  <2>1. CountReviews(pull) \in [approved : Nat, changes : Nat]
    BY DEF AdaptersTypeOK, PullRequest, CountReviews
  <2>2. e \in PullEvidence /\ e.phase = "asking"
    BY <1>4, <1>9, <2>1 DEF ReviewsAnswered, PullEvidence
  <2>3. CountReviews(pull).approved <= pull.approvals + pull.dismissed
    BY DEF AdaptersTypeOK, PullRequest, CountReviews
  <2>4. Seen(e)
    BY <1>4, <1>9, <2>3 DEF ReviewsAnswered, PullEvidence, Seen
  <2> QED
    BY <1>5, <1>9, <2>2, <2>4 DEF ReviewsAnswered
<1>10. ASSUME NEW runs \in SUBSET CheckRuns, ChecksAnswered(f, runs)
       PROVE  Seen(evidence'[f])
  <2> DEFINE e == [evidence[f] EXCEPT !.checks = [runs |-> runs]]
  <2>1. e \in PullEvidence /\ e.phase = "asking"
    BY <1>4, <1>10 DEF ChecksAnswered, PullEvidence
  <2>2. Seen(e)
    BY <1>4, <1>10 DEF ChecksAnswered, PullEvidence, Seen
  <2> QED
    BY <1>5, <1>10, <2>1, <2>2 DEF ChecksAnswered
<1>11. ASSUME NEW message \in Messages, EvidenceRefused(f, message)
       PROVE  Seen(evidence'[f])
  <2>1. evidence'[f] = [evidence[f] EXCEPT !.phase = "failed",
                                           !.error = ClassifyMessage(message)]
    BY <1>11 DEF EvidenceRefused, AdaptersTypeOK
  <2> QED
    BY <1>4, <1>11, <2>1 DEF EvidenceRefused, PullEvidence, Seen
<1>12. Seen(evidence'[f])
  BY <1>6, <1>7, <1>8, <1>9, <1>10, <1>11, AdaptersAssumption
     DEF EvidenceStep, EvidenceSettles, ChecksRefused
<1>13. \A g \in PullFetches \ {f} : evidence'[g] = evidence[g]
  BY DEF EvidenceStep, EvidenceSettles, FetchEvidence, FetchWithoutParams,
     PullAnswered, ReviewsAnswered, ChecksRefused, ChecksAnswered, EvidenceRefused,
     Collects, AdaptersTypeOK
<1>14. ASSUME NEW g \in PullFetches, evidence'[g] \in PullEvidence
       PROVE  Seen(evidence[g])'
  <2>1. Seen(evidence'[g])
    BY <1>12, <1>13, <1>14 DEF EvidenceSeen
  <2> QED
    BY <1>1, <2>1 DEF Seen
<1> QED
  BY <1>14 DEF EvidenceSeen

LEMMA EvidenceSeenStep ==
    ASSUME AdaptersTypeOK, EvidenceSeen, AdaptersNext \/ UNCHANGED adapterVars
    PROVE  EvidenceSeen'
<1>1. CASE UNCHANGED <<pull, evidence>>
  BY <1>1 DEF EvidenceSeen, Seen
<1>2. ASSUME NEW f \in PostFetches, PostStep(f)
      PROVE  UNCHANGED <<pull, evidence>>
  BY <1>2 DEF PostStep, PostSettles, FetchProof, FetchWithoutAttempts,
     PostAnswered, PostRefused, AskAgain
<1> QED
  BY <1>1, <1>2, SeenWhileItChanges, SeenWhileAsked DEF AdaptersNext, adapterVars

-----------------------------------------------------------------------------
(* Claims *)

Works(j, store, c) ==
    /\ Submitting(j) /\ job[j].role = "executor"
    /\ StoreOf[job[j].agent] = store /\ job[j].campaign = c

AloneAtWork ==
    \A store \in Stores, c \in Campaigns :
        \A j, k \in Working(store, c) : j = k

ClaimInv == ClaimsAreHeld /\ AloneAtWork

\* What is released or kept: nobody starts.
Keeps ==
    \A store \in Stores, c \in Campaigns :
        Working(store, c)' \in {Working(store, c), {}}

LEMMA WorkingIs ==
    ASSUME NEW store, NEW c
    PROVE  /\ Working(store, c) = {j \in Calls : Works(j, store, c)}
           /\ Working(store, c)' = {j \in Calls : Works(j, store, c)'}
BY DEF Working, Works

LEMMA WorksFrame ==
    ASSUME NEW j, NEW store, NEW c, job'[j] = job[j]
    PROVE  Works(j, store, c)' <=> Works(j, store, c)
BY DEF Works, Submitting

LEMMA Acquired ==
    ASSUME AgentsTypeOK, ClaimInv, NEW j \in Calls, NEW executor \in Executors,
           NEW c \in Campaigns, NEW proof, ExecuteCampaign(j, executor, c, proof)
    PROVE  /\ Working(StoreOf[executor], c) = {}
           /\ Working(StoreOf[executor], c)' = {j}
           /\ \A store \in Stores, d \in Campaigns :
                 store # StoreOf[executor] \/ d # c =>
                     Working(store, d)' = Working(store, d)
           /\ ClaimInv'
<1> DEFINE s == StoreOf[executor]
<1>1. s \in Stores
  BY AgentsAssumption
<1>2. Working(s, c) = {}
  BY <1>1 DEF ExecuteCampaign, ClaimInv, ClaimsAreHeld
<1>3. job' = [job EXCEPT ![j] = Executing(executor, c)] /\ job[j] = NotCalled
  BY DEF ExecuteCampaign
<1>4. job'[j] = Executing(executor, c) /\ \A k \in Calls \ {j} : job'[k] = job[k]
  BY <1>3 DEF AgentsTypeOK
<1>5. ASSUME NEW store, NEW d
      PROVE  /\ ~ Works(j, store, d)
             /\ Works(j, store, d)' <=> store = s /\ d = c
  <2>1. ~ Works(j, store, d)
    BY <1>3 DEF Works, Submitting
  <2>2. Executing(executor, c) # NotCalled
    <3>1. Executing(executor, c).phase # NotCalled.phase
      BY DEF Executing, NotCalled
    <3> QED
      BY <3>1
  <2>3. Works(j, store, d)' <=> store = s /\ d = c
    BY <1>4, <2>2 DEF Works, Submitting, Executing
  <2> QED
    BY <2>1, <2>3
<1>6. ASSUME NEW store, NEW d
      PROVE  Working(store, d)' = IF store = s /\ d = c
                                  THEN Working(store, d) \cup {j}
                                  ELSE Working(store, d)
  <2>1. \A k \in Calls \ {j} : Works(k, store, d)' <=> Works(k, store, d)
    BY <1>4, WorksFrame
  <2>2. CASE store = s /\ d = c
    <3>1. \A k \in Calls : Works(k, store, d)' <=> Works(k, store, d) \/ k = j
      BY <1>5, <2>1, <2>2
    <3> QED
      BY <2>2, <3>1, WorkingIs
  <2>3. CASE ~ (store = s /\ d = c)
    <3>1. \A k \in Calls : Works(k, store, d)' <=> Works(k, store, d)
      BY <1>5, <2>1, <2>3
    <3> QED
      BY <2>3, <3>1, WorkingIs
  <2> QED
    BY <2>2, <2>3
<1>7. ASSUME NEW store \in Stores, NEW d \in Campaigns
      PROVE  IsClaimed(store, d)' <=> IsClaimed(store, d) \/ (store = s /\ d = c)
  BY <1>1 DEF ExecuteCampaign, Claim, IsClaimed, AgentsTypeOK
<1>8. ClaimsAreHeld'
  <2> SUFFICES ASSUME NEW store \in Stores, NEW d \in Campaigns
               PROVE  IsClaimed(store, d)' <=> Working(store, d)' # {}
    BY DEF ClaimsAreHeld
  <2>1. IsClaimed(store, d) <=> Working(store, d) # {}
    BY DEF ClaimInv, ClaimsAreHeld
  <2> QED
    BY <1>6, <1>7, <2>1
<1>9. AloneAtWork'
  <2> SUFFICES ASSUME NEW store \in Stores, NEW d \in Campaigns,
                      NEW k \in Working(store, d)', NEW l \in Working(store, d)'
               PROVE  k = l
    BY DEF AloneAtWork
  <2>1. CASE store = s /\ d = c
    BY <1>2, <1>6, <2>1
  <2>2. CASE ~ (store = s /\ d = c)
    BY <1>6, <2>2 DEF ClaimInv, AloneAtWork
  <2> QED
    BY <2>1, <2>2
<1> QED
  BY <1>2, <1>6, <1>8, <1>9 DEF ClaimInv

LEMMA KeptAlone ==
    ASSUME ClaimInv, Keeps
    PROVE  AloneAtWork'
<1> SUFFICES ASSUME NEW store \in Stores, NEW c \in Campaigns,
                    NEW j \in Working(store, c)', NEW k \in Working(store, c)'
             PROVE  j = k
  BY DEF AloneAtWork
<1>1. j \in Working(store, c) /\ k \in Working(store, c)
  BY DEF Keeps
<1> QED
  BY <1>1 DEF ClaimInv, AloneAtWork

LEMMA KeptAsTheyWere ==
    ASSUME ClaimInv, claims' = claims,
           \A store \in Stores, c \in Campaigns :
               Working(store, c)' = Working(store, c)
    PROVE  Keeps /\ ClaimInv'
<1>1. Keeps
  BY DEF Keeps
<1>2. ClaimsAreHeld'
  BY DEF ClaimInv, ClaimsAreHeld, IsClaimed
<1> QED
  BY <1>1, <1>2, KeptAlone DEF ClaimInv

LEMMA Ended ==
    ASSUME AgentsTypeOK, ClaimInv, NEW j \in Calls, CallEnds(j)
    PROVE  Keeps /\ ClaimInv'
<1>1. /\ Submitting(j)
      /\ \/ job' = [job EXCEPT ![j] = [job[j] EXCEPT !.phase = "done"]]
         \/ job' = [job EXCEPT ![j] = [job[j] EXCEPT !.phase = "failed"]]
      /\ Finally(j)
  BY DEF CallEnds, Returns, SubmissionThrows
<1>2. job[j] \in ExecutorCall \cup ValidatorCall
  BY <1>1 DEF Submitting, AgentsTypeOK
<1>3. job'[j].phase \in {"done", "failed"}
  BY <1>1, <1>2 DEF AgentsTypeOK, ExecutorCall, ValidatorCall
<1>4. \A k \in Calls \ {j} : job'[k] = job[k]
  BY <1>1 DEF AgentsTypeOK
<1>5. ASSUME NEW store, NEW c
      PROVE  Working(store, c)' = Working(store, c) \ {j}
  <2>1. \A k \in Calls \ {j} : Works(k, store, c)' <=> Works(k, store, c)
    BY <1>4, WorksFrame
  <2>2. ~ Works(j, store, c)'
    BY <1>3 DEF Works, Submitting
  <2> QED
    BY <2>1, <2>2, WorkingIs
<1>6. CASE job[j].role # "executor"
  <2>1. claims' = claims
    BY <1>1, <1>6 DEF Finally
  <2>2. \A store, c : j \notin Working(store, c)
    BY <1>6 DEF Working
  <2> QED
    BY <1>5, <2>1, <2>2, KeptAsTheyWere
<1>7. CASE job[j].role = "executor"
  <2> DEFINE s == StoreOf[job[j].agent]
             d == job[j].campaign
  <2>1. s \in Stores /\ d \in Campaigns
    BY <1>2, <1>7, AgentsAssumption DEF ExecutorCall, ValidatorCall
  <2>2. j \in Working(s, d)
    BY <1>1, <1>7 DEF Working
  <2>3. Working(s, d) = {j}
    BY <2>1, <2>2 DEF ClaimInv, AloneAtWork
  <2>4. ASSUME NEW store \in Stores, NEW c \in Campaigns
        PROVE  Working(store, c)' = IF store = s /\ c = d THEN {}
                                    ELSE Working(store, c)
    <3>1. CASE store = s /\ c = d
      BY <1>5, <2>3, <3>1
    <3>2. CASE ~ (store = s /\ c = d)
      <4>1. j \notin Working(store, c)
        BY <3>2 DEF Working
      <4> QED
        BY <1>5, <3>2, <4>1
    <3> QED
      BY <3>1, <3>2
  <2>5. Keeps
    BY <2>4 DEF Keeps
  <2>6. ASSUME NEW store \in Stores, NEW c \in Campaigns
        PROVE  IsClaimed(store, c)' <=> IsClaimed(store, c) /\ ~ (store = s /\ c = d)
    BY <1>1, <1>7, <2>1 DEF Finally, Unclaim, IsClaimed, AgentsTypeOK
  <2>7. ClaimsAreHeld'
    <3> SUFFICES ASSUME NEW store \in Stores, NEW c \in Campaigns
                 PROVE  IsClaimed(store, c)' <=> Working(store, c)' # {}
      BY DEF ClaimsAreHeld
    <3>1. IsClaimed(store, c) <=> Working(store, c) # {}
      BY DEF ClaimInv, ClaimsAreHeld
    <3> QED
      BY <2>4, <2>6, <3>1
  <2> QED
    BY <2>5, <2>7, KeptAlone DEF ClaimInv
<1> QED
  BY <1>6, <1>7

LEMMA Stopped ==
    ASSUME AgentsTypeOK, ClaimInv, NEW s \in Stores, ProcessStops(s)
    PROVE  Keeps /\ ClaimInv'
<1>1. ASSUME NEW j \in Calls, NEW store, NEW c
      PROVE  Works(j, store, c)' <=> Works(j, store, c) /\ store # s
  <2>1. CASE Submitting(j) /\ job[j].role = "executor" /\ StoreOf[job[j].agent] = s
    <3>1. job'[j] = [job[j] EXCEPT !.phase = "gone"]
      BY <2>1 DEF ProcessStops
    <3>2. job[j] \in ExecutorCall \cup ValidatorCall
      BY <2>1 DEF Submitting, AgentsTypeOK
    <3>3. job'[j].phase = "gone"
      BY <3>1, <3>2 DEF ExecutorCall, ValidatorCall
    <3>4. ~ Works(j, store, c)'
      BY <3>3 DEF Works, Submitting
    <3> QED
      BY <2>1, <3>4 DEF Works
  <2>2. CASE ~ (/\ Submitting(j) /\ job[j].role = "executor"
                /\ StoreOf[job[j].agent] = s)
    <3>1. job'[j] = job[j]
      BY <2>2 DEF ProcessStops
    <3> QED
      BY <2>2, <3>1, WorksFrame DEF Works
  <2> QED
    BY <2>1, <2>2
<1>2. ASSUME NEW store, NEW c
      PROVE  Working(store, c)' = IF store = s THEN {} ELSE Working(store, c)
  BY <1>1, WorkingIs
<1>3. Keeps
  BY <1>2 DEF Keeps
<1>4. ASSUME NEW store \in Stores, NEW c \in Campaigns
      PROVE  IsClaimed(store, c)' <=> IsClaimed(store, c) /\ store # s
  BY DEF ProcessStops, IsClaimed, AgentsTypeOK
<1>5. ClaimsAreHeld'
  <2> SUFFICES ASSUME NEW store \in Stores, NEW c \in Campaigns
               PROVE  IsClaimed(store, c)' <=> Working(store, c)' # {}
    BY DEF ClaimsAreHeld
  <2>1. IsClaimed(store, c) <=> Working(store, c) # {}
    BY DEF ClaimInv, ClaimsAreHeld
  <2> QED
    BY <1>2, <1>4, <2>1
<1> QED
  BY <1>3, <1>5, KeptAlone DEF ClaimInv

LEMMA NobodyStarts ==
    ASSUME AgentsTypeOK, ClaimInv, NEW j \in Calls,
           \/ ValidatorStep(j) \/ MemoLands(j) \/ MemoLost(j)
           \/ \E executor \in Executors, c \in Campaigns :
                 ExecuteRefused(j, executor, c)
    PROVE  Keeps /\ ClaimInv'
<1>1. claims' = claims
  BY DEF ValidatorStep, ValidateAndSubmit, ValidateThrows, MemoLands, MemoLost,
     ExecuteRefused
<1>2. \A k \in Calls \ {j} : job'[k] = job[k]
  BY DEF AgentsTypeOK, ValidatorStep, ValidateAndSubmit, ValidateThrows, MemoLands,
     MemoLost, ExecuteRefused
<1>3. ASSUME NEW store, NEW c
      PROVE  Works(j, store, c)' <=> Works(j, store, c)
  <2>1. CASE ValidatorStep(j)
    <3>1. PICK validator, d, scoreBps :
              job'[j] \in {Validating(validator, d, scoreBps),
                           Unsent(Validating(validator, d, scoreBps), "failed")}
      BY <2>1 DEF ValidatorStep, ValidateAndSubmit, ValidateThrows, AgentsTypeOK
    <3>2. job[j] = NotCalled
      BY <2>1 DEF ValidatorStep, ValidateAndSubmit, ValidateThrows
    <3>3. job'[j].role = "validator"
      <4>1. Validating(validator, d, scoreBps).role = "validator"
        BY DEF Validating
      <4>2. Unsent(Validating(validator, d, scoreBps), "failed").role = "validator"
        BY DEF Validating, Unsent
      <4> QED
        BY <3>1, <4>1, <4>2
    <3> QED
      BY <3>2, <3>3 DEF Works, Submitting
  <2>2. CASE MemoLands(j) \/ MemoLost(j)
    <3>1. job[j] \in ExecutorCall \cup ValidatorCall
      BY <2>2 DEF MemoLands, MemoLost, AgentsTypeOK
    <3>2. PICK memo : job'[j] = [job[j] EXCEPT !.memo = memo]
      BY <2>2 DEF MemoLands, MemoLost, AgentsTypeOK
    <3>3. /\ job'[j].phase = job[j].phase /\ job'[j].role = job[j].role
          /\ job'[j].agent = job[j].agent /\ job'[j].campaign = job[j].campaign
      BY <3>1, <3>2 DEF ExecutorCall, ValidatorCall
    <3>4. job'[j] # NotCalled
      <4>1. job[j].phase # "idle"
        BY <3>1 DEF ExecutorCall, ValidatorCall, Phases
      <4> QED
        BY <3>3, <4>1 DEF NotCalled
    <3> QED
      BY <2>2, <3>3, <3>4 DEF Works, Submitting, MemoLands, MemoLost
  <2>3. CASE \E executor \in Executors, d \in Campaigns : ExecuteRefused(j, executor, d)
    <3>1. PICK executor \in Executors, d \in Campaigns :
              ExecuteRefused(j, executor, d)
      BY <2>3
    <3>2. job'[j] = Unsent(Executing(executor, d), "refused") /\ job[j] = NotCalled
      BY <3>1 DEF ExecuteRefused, AgentsTypeOK
    <3>3. job'[j].phase = "refused"
      BY <3>2 DEF Unsent, Executing
    <3> QED
      BY <3>2, <3>3 DEF Works, Submitting
  <2> QED
    BY <2>1, <2>2, <2>3
<1>4. ASSUME NEW store, NEW c
      PROVE  Working(store, c)' = Working(store, c)
  <2>1. \A k \in Calls : Works(k, store, c)' <=> Works(k, store, c)
    BY <1>2, <1>3, WorksFrame
  <2> QED
    BY <2>1, WorkingIs
<1> QED
  BY <1>1, <1>4, KeptAsTheyWere

\* What a step does to the claims: one call takes a free slot, or calls leave.
Takes ==
    \E store \in Stores, c \in Campaigns, j \in Calls :
        /\ Working(store, c) = {} /\ Working(store, c)' = {j}
        /\ \A other \in Stores, d \in Campaigns :
              other # store \/ d # c => Working(other, d)' = Working(other, d)

LEMMA ClaimStep ==
    ASSUME AgentsTypeOK, ClaimInv, [Next]_demoVars
    PROVE  (Takes \/ Keeps) /\ ClaimInv'
<1>1. ASSUME UNCHANGED <<claims, job>>
      PROVE  Keeps /\ ClaimInv'
  <2>1. \A store, c : Working(store, c)' = Working(store, c)
    BY <1>1 DEF Working, Submitting
  <2> QED
    BY <1>1, <2>1, KeptAsTheyWere
<1>2. ASSUME NEW j \in Calls, NEW executor \in Executors, NEW c \in Campaigns,
             NEW proof, ExecuteCampaign(j, executor, c, proof)
      PROVE  Takes /\ ClaimInv'
  <2>1. StoreOf[executor] \in Stores
    BY AgentsAssumption
  <2>2. /\ Working(StoreOf[executor], c) = {}
        /\ Working(StoreOf[executor], c)' = {j}
        /\ \A store \in Stores, d \in Campaigns :
              store # StoreOf[executor] \/ d # c =>
                  Working(store, d)' = Working(store, d)
        /\ ClaimInv'
    BY <1>2, Acquired
  <2>3. Takes
    BY <2>1, <2>2, Zenon DEF Takes
  <2> QED
    BY <2>2, <2>3
<1>3. ASSUME NEW j \in Calls, CallStep(j)
      PROVE  (Takes \/ Keeps) /\ ClaimInv'
  BY <1>2, <1>3, NobodyStarts, Ended DEF CallStep, ExecutorStep
<1>4. CASE DemoStep \/ UNCHANGED demoVars
  BY <1>1, <1>4 DEF DemoStep, demoVars, agentVars
<1> QED
  BY <1>1, <1>3, <1>4, Stopped DEF Next, AgentsNext

LEMMA ClaimInit == Init => ClaimInv /\ \A store, c : Working(store, c) = {}
<1> SUFFICES ASSUME Init
             PROVE  ClaimInv /\ \A store, c : Working(store, c) = {}
  OBVIOUS
<1>1. \A store, c : Working(store, c) = {}
  BY DEF Init, AgentsInit, Working, Submitting
<1>2. ClaimsAreHeld
  BY <1>1 DEF Init, AgentsInit, ClaimsAreHeld, IsClaimed
<1> QED
  BY <1>1, <1>2 DEF ClaimInv, AloneAtWork

-----------------------------------------------------------------------------
(* Theorems *)

AgentsInv ==
    /\ AgentsTypeOK /\ ProofWhenDone
    /\ RetryInv
    /\ EvidenceSeen
    /\ ClaimInv

LEMMA AgentsInvInit == Init => AgentsInv
<1> SUFFICES ASSUME Init PROVE AgentsInv
  OBVIOUS
<1>1. AgentsTypeOK /\ ProofWhenDone /\ ClaimInv
  BY AgentsTypeInit, ClaimInit
<1>2. ASSUME NEW f \in PostFetches
      PROVE  Counted(f) /\ Disciplined(f)
  <2>1. post[f].phase = "idle" /\ heard[f] = <<>>
    BY DEF Init, AgentsInit, AdaptersInit, NotFetched
  <2>2. MaxAttempts[f] \in Nat
    BY AdaptersAssumption
  <2> QED
    BY <2>1, <2>2 DEF Counted, Disciplined
<1>3. EvidenceSeen
  <2>1. NotFetched \notin PullEvidence
    BY DEF NotFetched, PullEvidence
  <2> QED
    BY <2>1 DEF Init, AgentsInit, AdaptersInit, EvidenceSeen
<1> QED
  BY <1>1, <1>2, <1>3 DEF AgentsInv, RetryInv

LEMMA AgentsInvStep == AgentsInv /\ [Next]_demoVars => AgentsInv'
<1> SUFFICES ASSUME AgentsInv, [Next]_demoVars PROVE AgentsInv'
  OBVIOUS
<1>1. AgentsTypeOK' /\ ProofWhenDone' /\ ClaimInv'
  BY AgentsTypeStep, ClaimStep DEF AgentsInv
<1>2. AdaptersNext \/ UNCHANGED adapterVars
  BY DEF Next, AgentsNext, CallStep, ExecutorStep, ValidatorStep, ExecuteCampaign,
     ExecuteRefused, ValidateAndSubmit, ValidateThrows, MemoLands, MemoLost,
     CallEnds, Returns, SubmissionThrows, ProcessStops, DemoStep, demoVars,
     agentVars
<1>3. RetryInv' /\ EvidenceSeen'
  BY <1>2, RetryInvStep, EvidenceSeenStep DEF AgentsInv, AgentsTypeOK
<1> QED
  BY <1>1, <1>3 DEF AgentsInv

LEMMA AgentsInvHolds == Spec => []AgentsInv
BY AgentsInvInit, AgentsInvStep, PTL DEF Spec

\* fetchProof repeats a request only after a passing failure, never more often
\* than its policy says, gives up on one only when the attempts are used up,
\* and fails with the class of the last answer: for any policies, answers and
\* number of calls.
THEOREM RetriesAreDisciplined == Spec => []RetryDiscipline
<1>1. AgentsInv => RetryDiscipline
  BY DEF AgentsInv, RetryInv, RetryDiscipline
<1> QED
  BY <1>1, AgentsInvHolds, PTL

\* Evidence that the GitHub adapter scores above 7500 is of a pull request
\* that is merged and got its approvals, with no failure among the check runs
\* it was given if the policy asks for CI; above 8500 they were given and
\* passed.  For any policy, check runs and order of answers and changes.
THEOREM HighScoresAreEarned == Spec => []HighScoreIsEarned
<1>1. AgentsInv => HighScoreIsEarned
  BY EarnedScore DEF AgentsInv, AgentsTypeOK
<1> QED
  BY <1>1, AgentsInvHolds, PTL

\* A campaign is claimed in a store exactly while a call of executeCampaign
\* works on it there, through refusals, lost transactions and restarts.
THEOREM ClaimsAreAlwaysHeld == Spec => []ClaimsAreHeld
<1>1. AgentsInv => ClaimsAreHeld
  BY DEF AgentsInv, ClaimInv
<1> QED
  BY <1>1, AgentsInvHolds, PTL

Slots == Stores \X Campaigns

LEMMA LockInitially == Init => Lock!LockInit
BY ClaimInit DEF Lock!LockInit

LEMMA LockStep ==
    AgentsInv /\ [Next]_demoVars =>
        [Lock!LockNext]_[slot \in Slots |-> Working(slot[1], slot[2])]
<1> DEFINE H == [slot \in Slots |-> Working(slot[1], slot[2])]
<1> SUFFICES ASSUME AgentsInv, [Next]_demoVars
             PROVE  Lock!LockNext
  OBVIOUS
<1>1. H' = [slot \in Slots |-> Working(slot[1], slot[2])']
  OBVIOUS
<1>2. \A slot \in Slots : H[slot] = Working(slot[1], slot[2])
                       /\ H'[slot] = Working(slot[1], slot[2])'
  BY <1>1
<1>3. CASE Keeps
  <2>1. \A slot \in Slots : H'[slot] \in {H[slot], {}}
    BY <1>2, <1>3 DEF Keeps, Slots
  <2>2. \A slot \in Slots : H[slot] \subseteq Calls
    BY <1>2 DEF Working
  <2>3. H' \in [Slots -> SUBSET Calls]
    BY <1>1, <1>2, <2>1, <2>2
  <2>4. Lock!Release
    BY <2>1, <2>3 DEF Lock!Release, Slots
  <2> QED
    BY <2>4 DEF Lock!LockNext
<1>4. CASE Takes
  <2>1. PICK store \in Stores, c \in Campaigns, j \in Calls :
            /\ Working(store, c) = {} /\ Working(store, c)' = {j}
            /\ \A other \in Stores, d \in Campaigns :
                  other # store \/ d # c => Working(other, d)' = Working(other, d)
    BY <1>4 DEF Takes
  <2>2. <<store, c>> \in Slots
    BY DEF Slots
  <2>3. H[<<store, c>>] = {} /\ H'[<<store, c>>] = {j}
    BY <1>2, <2>1, <2>2
  <2>4. \A slot \in Slots : slot # <<store, c>> => H'[slot] = H[slot]
    BY <1>2, <2>1 DEF Slots
  <2>5. H' = [H EXCEPT ![<<store, c>>] = {j}]
    BY <1>1, <2>2, <2>3, <2>4
  <2>6. Lock!Acquire(<<store, c>>, j)
    BY <2>3, <2>5 DEF Lock!Acquire, Slots
  <2> QED
    BY <2>2, <2>6 DEF Lock!LockNext, Slots
<1> QED
  BY <1>3, <1>4, ClaimStep DEF AgentsInv

\* The claim stores implement the lock: per store and campaign one call of
\* executeCampaign works at a time, for any number of agents, processes,
\* calls and restarts.
THEOREM ClaimsImplementLock == Spec => ClaimsExclude
BY LockInitially, LockStep, AgentsInvHolds, PTL
   DEF Spec, ClaimsExclude, Lock!LockSpec, Slots

=============================================================================
