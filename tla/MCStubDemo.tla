----------------------------- MODULE MCStubDemo -----------------------------
EXTENDS StubDemo, TLC

\* p2 is not to try at all.
MCAttempts == "p1" :> 2 @@ "p2" :> 0

MCEngagements == {-1, 3}

MCCodes == {{"etimedout", "timedout"}, {"429"}, {"403"}, {"rate", "401"}, {}}

MCMessages == {{"401"}, {"404", "5"}, {"5"}, {}}

MCChecks == {{[status |-> "completed", conclusion |-> "success"]},
             {[status |-> "completed", conclusion |-> "success"],
              [status |-> "completed", conclusion |-> "failure"]}}

\* PROOF_INPUT of the demo, and a proof with a malformed digest.
MCDemoProof == [platform |-> "x", contentUri |-> "poe_demo", action |-> "retweet",
                engagementCount |-> 847, createdAtUnix |-> 1, digest |-> "hex",
                firstByte |-> 202]

\* A malformed proof, and one whose parts add up to more than 10000.
MCWritten == {[MCDemoProof EXCEPT !.digest = "malformed"],
              [MCDemoProof EXCEPT !.platform = "farcaster", !.action = "thread"]}

MCStoreOf == "e1" :> "s1" @@ "e2" :> "s2"

\* The adapters, the agents' calls and the demo share no state but the proofs
\* that were fetched: one of them at a time.
Quiet == (\A f \in PostFetches : post[f] = NotFetched)
             /\ (\A f \in PullFetches : evidence[f] = NotFetched)
             /\ pull \in {NewPull("no"), NewPull("yes")}

OneAtATime ==
    /\ (\E j \in Calls : job[j] # NotCalled) =>
          /\ \A f \in PostFetches : \/ post[f] = NotFetched
                                    \/ /\ post[f].phase = "done" /\ Len(heard[f]) = 1
                                       /\ post[f].proof.contentUri = "u1"
                                       /\ post[f].proof.engagementCount = 3
                                       /\ post[f].action = "like"
          /\ \A f \in PullFetches : evidence[f] = NotFetched
          /\ pull = NewPull("no")
          /\ Cardinality({j \in Calls : /\ job[j] # NotCalled
                                        /\ job[j].role = "validator"}) <= 1
    /\ post["p1"] = NotFetched \/ post["p2"] = NotFetched
    /\ (\E f \in PullFetches : evidence[f] # NotFetched) =>
          \A f \in PostFetches : post[f] = NotFetched
    /\ demo.stage # "over" => Quiet /\ \A j \in Calls : job[j] = NotCalled
=============================================================================
