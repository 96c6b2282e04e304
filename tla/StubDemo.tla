------------------------------ MODULE StubDemo ------------------------------
(***************************************************************************)
(* scripts/demo.ts: one executor agent, three validator agents and an      *)
(* orchestrator in one process of their own, with stubs for the clients    *)
(* that would reach the chain.  A stub answers at once with the next       *)
(* transaction number, so a fan-out is one step.  The orchestrator asks    *)
(* the agents that were asked before: every validator submits twice.       *)
(***************************************************************************)
EXTENDS Agents

CONSTANTS
    DemoProof,      \* PROOF_INPUT
    ThresholdBps,   \* THRESHOLD_BPS
    MinValidators   \* minValidators of the demo's orchestrator

VARIABLE demo       \* how far the script is

demoVars == <<agentVars, demo>>

DemoValidators == 1 .. 3

\* The script's own claim store is empty but while the attestation is
\* submitted; nobody shares it.
DemoStart == [stage |-> "attest", txCounter |-> 1,
              submissions |-> [v \in DemoValidators |-> 0], outcome |-> "none"]

\* The stubs' receipts: `n` numbers are taken from the counter.
Stubbed(record, n) == [record EXCEPT !.txCounter = record.txCounter + n]

DemoScoreBps == DeterministicScoreBps(NormalizeProofInput(DemoProof))

FanOut(record) ==
    Stubbed([record EXCEPT !.submissions =
                 [v \in DemoValidators |-> record.submissions[v] + 1]],
            Cardinality(DemoValidators))

Attest ==
    /\ demo.stage = "attest"
    /\ demo' = Stubbed([demo EXCEPT !.stage = "score"], 1)

Score ==
    /\ demo.stage = "score"
    /\ demo' = FanOut([demo EXCEPT !.stage = "consensus"])

\* Mutant: the number of answers needed is more than are asked.
NotEnough == Cardinality(DemoValidators) <= MinValidators + 1

\* All three agents answer with the same score, which is then the average.
Insufficient == Cardinality(DemoValidators) < MinValidators

DemoOutcome ==
    IF Insufficient THEN "insufficient_responses"
    ELSE IF DemoScoreBps < ThresholdBps THEN "below_threshold"
    ELSE "settled_success"

RunConsensus ==
    /\ demo.stage = "consensus"
    /\ demo' = LET asked == FanOut([demo EXCEPT !.stage = "over",
                                                !.outcome = DemoOutcome])
               IN  IF DemoOutcome = "settled_success" THEN Stubbed(asked, 1)
                   ELSE asked

DemoStep == (Attest \/ Score \/ RunConsensus) /\ UNCHANGED agentVars

-----------------------------------------------------------------------------
(* Specification *)

Init == AgentsInit /\ demo = DemoStart

Next == (AgentsNext /\ UNCHANGED demo) \/ DemoStep

Spec == Init /\ [][Next]_demoVars

\* The event loop runs what is ready, timers fire, and every request is
\* answered somehow in the end: fetch fails or answers, and
\* sendAndConfirmTransaction gives up when the blockhash expires.
FairSpec ==
    /\ Spec
    /\ \A f \in PostFetches : WF_demoVars(PostSettles(f) /\ UNCHANGED <<claims, job, demo>>)
    /\ \A f \in PullFetches : WF_demoVars(EvidenceSettles(f) /\ UNCHANGED <<claims, job, demo>>)
    /\ \A j \in Calls : WF_demoVars(CallEnds(j) /\ UNCHANGED demo)
    /\ WF_demoVars(DemoStep)

-----------------------------------------------------------------------------
(* Properties *)

DemoTyped == demo \in
    [stage : {"attest", "score", "consensus", "over"}, txCounter : Nat,
     submissions : [DemoValidators -> Nat],
     outcome : {"none", "insufficient_responses", "below_threshold",
                "settled_success"}]

AgentsTypeOK ==
    /\ AdaptersTypeOK
    /\ claims \in [Stores -> SUBSET Campaigns]
    /\ job \in [Calls -> ExecutorCall \cup ValidatorCall \cup {NotCalled}]
    /\ DemoTyped

\* A claim is held exactly while a call of its store is submitting for the
\* campaign: no call works unprotected, and no call that was refused, failed
\* or died leaves a campaign locked.
Working(store, c) ==
    {j \in Calls : /\ Submitting(j) /\ job[j].role = "executor"
                   /\ StoreOf[job[j].agent] = store /\ job[j].campaign = c}

ClaimsAreHeld ==
    \A store \in Stores, c \in Campaigns :
        IsClaimed(store, c) <=> Working(store, c) # {}

\* Per store and campaign one call at a time, as ClaimLock has it.
Lock == INSTANCE ClaimLock WITH
    Slots <- Stores \X Campaigns,
    Holders <- Calls,
    holders <- [slot \in Stores \X Campaigns |-> Working(slot[1], slot[2])]

ClaimsExclude == Lock!LockSpec

\* Work comes to an end: every fetch is answered or given up, every call
\* returns or throws, every claim is released, and the demo ends with a
\* settlement after eight transactions, two of each validator.
AtRest ==
    /\ \A f \in PostFetches : post[f].phase \notin {"asking", "waiting"}
    /\ \A f \in PullFetches : evidence[f].phase # "asking"
    /\ \A j \in Calls : ~ Submitting(j)
    /\ \A store \in Stores : claims[store] = {}
    /\ demo.stage = "over" /\ demo.outcome = "settled_success"
    /\ demo.txCounter = DemoStart.txCounter + 8
    /\ \A v \in DemoValidators : demo.submissions[v] = 2

WorkEnds == []<>AtRest

=============================================================================
