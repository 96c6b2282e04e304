------------------------------- MODULE Agents -------------------------------
(***************************************************************************)
(* The executor agent and the validator agents, agents/executor and        *)
(* agents/validator, on evidence that the X adapter fetched or that a      *)
(* script wrote down.                                                      *)
(*                                                                         *)
(* executeCampaign claims the campaign in the agent's store, attests to    *)
(* the proof, awaits a memo transaction and releases the claim whatever    *)
(* became of it.  validateAndSubmit normalizes a proof, scores it, signs   *)
(* the score and awaits a memo transaction.  Calls overlap; a transaction  *)
(* can land after its sender gave up; a process that stops takes its store *)
(* with it.                                                                *)
(***************************************************************************)
EXTENDS Adapters

CONSTANTS
    Calls,          \* calls of executeCampaign and validateAndSubmit
    Campaigns,
    Executors,      \* executor agents
    Stores,         \* claim stores; a store is of one process
    StoreOf,        \* the store of each executor agent
    Validators,     \* validator agents
    WrittenProofs   \* proofs that scripts and tests spell out

ASSUME AgentsAssumption ==
    /\ StoreOf \in [Executors -> Stores]
    /\ \A proof \in WrittenProofs :
          /\ proof.engagementCount \in Int /\ proof.createdAtUnix \in Int
          /\ proof.firstByte \in 0 .. 255

VARIABLES
    claims,     \* the campaigns claimed in each store
    job         \* the calls

agentVars == <<adapterVars, claims, job>>

-----------------------------------------------------------------------------
(* Scoring *)

BaseBps(action) ==
    CASE action = "like" -> 5500
      [] action \in {"repost", "retweet"} -> 7000
      [] action \in {"comment", "reply"} -> 7600
      [] action = "quote" -> 8000
      [] action = "thread" -> 8200
      [] OTHER -> 5000

PlatformBonusBps(platform) ==
    CASE platform \in {"x", "twitter"} -> 100
      [] platform = "farcaster" -> 250
      [] platform = "lens" -> 200
      [] OTHER -> 0

\* min(1600, floor(55 * sqrt(engagements))): as many squares as there are up
\* to 55 * 55 * engagements.
EngagementBonusBps(engagements) ==
    Cardinality({r \in 1 .. AtMost(1600, 55 * engagements) :
                    r * r <= 3025 * engagements})

DeterministicScoreBps(proof) ==
    ClampBps(BaseBps(proof.action) + PlatformBonusBps(proof.platform)
             + EngagementBonusBps(proof.engagementCount)
             + (IF proof.createdAtUnix > 0 THEN 200 ELSE 0)
             + (proof.firstByte % 51))

ReasonCode(proof, scoreBps) ==
    <<proof.action, IF scoreBps >= 8500 THEN "high_confidence"
                    ELSE IF scoreBps >= 6500 THEN "medium_confidence"
                    ELSE "low_confidence">>

\* A digest that is not 32 bytes of hex makes it throw.
Normalizes(proof) == proof.digest = "hex"

NormalizeProofInput(proof) ==
    [platform |-> proof.platform, contentUri |-> proof.contentUri,
     action |-> proof.action,
     engagementCount |-> AtLeast(0, proof.engagementCount),
     createdAtUnix |-> AtLeast(0, proof.createdAtUnix),
     digest |-> proof.digest, firstByte |-> proof.firstByte]

-----------------------------------------------------------------------------
(* Signatures: a signature names its key and what it signs; a digest is    *)
(* taken to determine what it is a digest of.                              *)

Signed(payload, key) ==
    [payload |-> payload, digest |-> payload,
     signature |-> [key |-> key, message |-> payload], signer |-> key]

Verifies(signed) ==
    /\ signed.digest = signed.payload
    /\ signed.signature = [key |-> signed.signer, message |-> signed.payload]

AttestationPayload(executor, c, proof) ==
    [campaignId |-> c, executor |-> executor, proof |-> proof]

ScorePayload(validator, c, proof, scoreBps) ==
    [campaignId |-> c, validator |-> validator, scoreBps |-> scoreBps,
     reasonCode |-> ReasonCode(proof, scoreBps), proof |-> proof]

VerifyAttestation(attestation) == Verifies(attestation)

VerifySignedScore(signed) ==
    signed.payload.validator = signed.signer /\ Verifies(signed)

-----------------------------------------------------------------------------
(* Calls *)

NotCalled == [phase |-> "idle"]

\* `memo` is what became of the transaction, `phase` what the caller knows.
Phases == {"submitting", "done", "failed", "refused", "gone"}
BasisPoints == 0 .. 10000
MemoStates == {"none", "pending", "landed", "lost"}

ExecutorCall == [role : {"executor"}, phase : Phases, agent : Executors,
                 campaign : Campaigns, memo : MemoStates]

ValidatorCall == [role : {"validator"}, phase : Phases, agent : Validators,
                  campaign : Campaigns, memo : MemoStates, scoreBps : BasisPoints]

Executing(executor, c) ==
    [role |-> "executor", phase |-> "submitting", agent |-> executor,
     campaign |-> c, memo |-> "pending"]

Validating(validator, c, scoreBps) ==
    [role |-> "validator", phase |-> "submitting", agent |-> validator,
     campaign |-> c, memo |-> "pending", scoreBps |-> scoreBps]

\* A call that throws before it sends its transaction.
Unsent(call, phase) == [call EXCEPT !.phase = phase, !.memo = "none"]

Submitting(j) == job[j] # NotCalled /\ job[j].phase = "submitting"

\* The proofs a caller can have.
ProofsAtHand == WrittenProofs
    \cup {post[f].proof : f \in {g \in PostFetches : post[g].phase = "done"}}

-----------------------------------------------------------------------------
(* ClaimStore *)

IsClaimed(store, c) == c \in claims[store]

Claim(store, c) == claims' = [claims EXCEPT ![store] = claims[store] \cup {c}]

\* Mutant: the whole store is released.
UnclaimAll(store, c) == claims' = [claims EXCEPT ![store] = {}]

Unclaim(store, c) == claims' = [claims EXCEPT ![store] = claims[store] \ {c}]

-----------------------------------------------------------------------------
(* executeCampaign *)

\* Up to the await of the submission nothing else runs.
ExecuteCampaign(j, executor, c, proof) ==
    /\ job[j] = NotCalled
    /\ ~ IsClaimed(StoreOf[executor], c)
    /\ Claim(StoreOf[executor], c)
    /\ job' = [job EXCEPT ![j] = Executing(executor, c)]
    /\ UNCHANGED adapterVars

\* Mutant: the claim is inside the try, so that finally releases the claim of
\* the call that holds it.
RefusedReleases(j, executor, c) ==
    /\ job[j] = NotCalled
    /\ IsClaimed(StoreOf[executor], c)
    /\ job' = [job EXCEPT ![j] = Unsent(Executing(executor, c), "refused")]
    /\ Unclaim(StoreOf[executor], c)
    /\ UNCHANGED adapterVars

\* claim throws before the try is entered.
ExecuteRefused(j, executor, c) ==
    /\ job[j] = NotCalled
    /\ IsClaimed(StoreOf[executor], c)
    /\ job' = [job EXCEPT ![j] = Unsent(Executing(executor, c), "refused")]
    /\ UNCHANGED <<adapterVars, claims>>

-----------------------------------------------------------------------------
(* validateAndSubmit *)

ValidateAndSubmit(j, validator, c, proof) ==
    /\ job[j] = NotCalled
    /\ Normalizes(proof)
    /\ job' = [job EXCEPT ![j] =
           Validating(validator, c,
                      DeterministicScoreBps(NormalizeProofInput(proof)))]
    /\ UNCHANGED <<adapterVars, claims>>

ValidateThrows(j, validator, c, proof) ==
    /\ job[j] = NotCalled
    /\ ~ Normalizes(proof)
    /\ job' = [job EXCEPT ![j] = Unsent(Validating(validator, c, 0), "failed")]
    /\ UNCHANGED <<adapterVars, claims>>

-----------------------------------------------------------------------------
(* The memo transaction, sendAndConfirmTransaction *)

MemoLands(j) ==
    /\ job[j] # NotCalled /\ job[j].memo = "pending"
    /\ job' = [job EXCEPT ![j] = [job[j] EXCEPT !.memo = "landed"]]
    /\ UNCHANGED <<adapterVars, claims>>

\* It never lands, or is in a block and failed.
MemoLost(j) ==
    /\ job[j] # NotCalled /\ job[j].memo = "pending"
    /\ job' = [job EXCEPT ![j] = [job[j] EXCEPT !.memo = "lost"]]
    /\ UNCHANGED <<adapterVars, claims>>

\* The finally block of executeCampaign.
Finally(j) ==
    IF job[j].role = "executor"
    THEN Unclaim(StoreOf[job[j].agent], job[j].campaign)
    ELSE claims' = claims

Returns(j) ==
    /\ Submitting(j) /\ job[j].memo = "landed"
    /\ job' = [job EXCEPT ![j] = [job[j] EXCEPT !.phase = "done"]]
    /\ Finally(j)
    /\ UNCHANGED adapterVars

\* Mutant: the claim is released when the submission succeeds only.
ThrowsWithoutFinally(j) ==
    /\ Submitting(j)
    /\ job' = [job EXCEPT ![j] = [job[j] EXCEPT !.phase = "failed"]]
    /\ UNCHANGED <<adapterVars, claims>>

\* An error, or a confirmation that takes too long.
SubmissionThrows(j) ==
    /\ Submitting(j)
    /\ job' = [job EXCEPT ![j] = [job[j] EXCEPT !.phase = "failed"]]
    /\ Finally(j)
    /\ UNCHANGED adapterVars

\* Calls of a process that is stopped; a new one starts with an empty store.
ProcessStops(store) ==
    /\ claims' = [claims EXCEPT ![store] = {}]
    /\ job' = [j \in Calls |->
           IF Submitting(j) /\ job[j].role = "executor"
                 /\ StoreOf[job[j].agent] = store
           THEN [job[j] EXCEPT !.phase = "gone"] ELSE job[j]]
    /\ UNCHANGED adapterVars

-----------------------------------------------------------------------------
(* Specification *)

AgentsInit ==
    /\ AdaptersInit
    /\ claims = [store \in Stores |-> {}]
    /\ job = [j \in Calls |-> NotCalled]

CallEnds(j) == Returns(j) \/ SubmissionThrows(j)

ExecutorStep(j) ==
    \E executor \in Executors, c \in Campaigns :
        \/ \E proof \in ProofsAtHand : ExecuteCampaign(j, executor, c, proof)
        \/ ExecuteRefused(j, executor, c)

ValidatorStep(j) ==
    \E validator \in Validators, c \in Campaigns, proof \in ProofsAtHand :
        ValidateAndSubmit(j, validator, c, proof)
            \/ ValidateThrows(j, validator, c, proof)

CallStep(j) ==
    \/ ExecutorStep(j)
    \/ ValidatorStep(j)
    \/ MemoLands(j) \/ MemoLost(j)
    \/ CallEnds(j)

AgentsNext ==
    \/ AdaptersNext /\ UNCHANGED <<claims, job>>
    \/ \E j \in Calls : CallStep(j)
    \/ \E store \in Stores : ProcessStops(store)

=============================================================================
