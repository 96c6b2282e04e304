------------------------------ MODULE Adapters ------------------------------
(***************************************************************************)
(* The evidence adapters, mcp-adapters/x and mcp-adapters/github-pr, that  *)
(* implement the interface of packages/validator-adapter.                  *)
(*                                                                         *)
(* The X adapter asks one service for one post and repeats a request that  *)
(* failed in passing (withRetry), up to MaxAttempts times with growing     *)
(* pauses.  The GitHub adapter sends three requests at once and waits for  *)
(* all of them, while the pull request it asks about goes on changing; the *)
(* one for the check runs may fail, and asks for a commit by the number of *)
(* the pull request, so that its answer is any set of check runs at all.   *)
(*                                                                         *)
(* An error is the set of the substrings the classification looks for that *)
(* its code or its message includes; a spelling of a URL or an action      *)
(* stands for what it normalizes to.                                       *)
(***************************************************************************)
EXTENDS Integers, Sequences, FiniteSets

CONSTANTS
    PostFetches,    \* calls of the X adapter's fetchProof
    MaxAttempts,    \* maxAttempts of each call's retry policy
    Uris,           \* posts, by their normalized URL
    Actions,        \* actions as the service and the callers spell them
    Engagements,    \* engagement counts as the service reports them
    Times,          \* createdAtUnix as the service reports it
    Bytes,          \* first bytes of evidence digests
    Codes,          \* error codes of the service
    MinEngagements, \* policy of the X adapter's score
    PullFetches,    \* calls of the GitHub adapter's fetchEvidence
    MaxReviews,     \* bound on the reviews of the pull request
    CheckAnswers,   \* sets of check runs the service may answer with
    Messages,       \* error messages of the GitHub adapter's requests
    MinApprovals,   \* policy of the GitHub adapter's score
    RequireCiPass,
    PenaliseDraft

\* A check run, by what the score looks at.
CheckRuns == [status : {"queued", "in_progress", "completed"},
              conclusion : {"success", "failure", "neutral", "cancelled",
                            "skipped", "timed_out", "action_required", "null"}]

ASSUME AdaptersAssumption ==
    /\ MaxAttempts \in [PostFetches -> Nat]
    /\ Engagements \subseteq Int /\ Times \subseteq Int
    /\ Bytes \subseteq 0 .. 255
    /\ MinEngagements \in Nat \ {0}
    /\ MaxReviews \in Nat
    /\ MinApprovals \in Nat
    /\ CheckAnswers \subseteq SUBSET CheckRuns
    /\ RequireCiPass \in BOOLEAN /\ PenaliseDraft \in BOOLEAN

VARIABLES
    post,       \* the calls of fetchProof
    heard,      \* what the service answered to each of them, in order
    pull,       \* the pull request on GitHub
    evidence    \* the calls of fetchEvidence

adapterVars == <<post, heard, pull, evidence>>

AtLeast(a, b) == IF a >= b THEN a ELSE b
AtMost(a, b) == IF a <= b THEN a ELSE b

ClampBps(value) == AtLeast(0, AtMost(10000, value))

-----------------------------------------------------------------------------
(* Failures *)

FailureClasses ==
    {"retryable", "rate_limited", "auth", "not_found", "invalid_input", "fatal"}

\* The class of the first row that names a substring found, else "fatal".
FirstClass(table, found) ==
    LET hits == {i \in DOMAIN table : table[i].marks \cap found # {}}
    IN  IF hits = {} THEN "fatal"
        ELSE table[CHOOSE i \in hits : \A j \in hits : i <= j].class

Row(class, marks) == [class |-> class, marks |-> marks]

\* The X adapter's classifyFailure, by what the code includes.
ClassifyCode(code) ==
    FirstClass(<<Row("retryable", {"timeout", "timedout", "etimedout",
                                   "econnreset", "503"}),
                 Row("rate_limited", {"rate", "429"}),
                 Row("auth", {"401", "403", "auth"}),
                 Row("not_found", {"404", "not_found"}),
                 Row("invalid_input", {"bad_request", "400", "invalid"})>>, code)

ShouldRetry(class) == class \in {"retryable", "rate_limited"}

\* The GitHub adapter's, by what the message includes; the message ends with
\* the URL, whose numbers count too.
ClassifyMessage(message) ==
    FirstClass(<<Row("auth", {"401", "403"}),
                 Row("not_found", {"404"}),
                 Row("rate_limited", {"429", "rate_limit"}),
                 Row("invalid_input", {"422"}),
                 Row("retryable", {"5", "ECONNRESET", "ETIMEDOUT"})>>, message)

-----------------------------------------------------------------------------
(* The X adapter: fetchProof *)

NormalizeAction(action) == IF action = "retweet" THEN "repost" ELSE action

\* What the service knows of a post.
EngagementRecord ==
    [postUrl : Uris, action : Actions, engagements : Engagements,
     createdAtUnix : Times]

NoProof == [platform |-> "none"]

\* The evidence digest is the SHA-256 of the other fields, as hex; what is
\* used of it later is its first byte, which can be any.
SocialProof(record, byte) ==
    [platform |-> "x",
     contentUri |-> record.postUrl,
     action |-> NormalizeAction(record.action),
     engagementCount |-> AtLeast(0, record.engagements),
     createdAtUnix |-> AtLeast(0, record.createdAtUnix),
     digest |-> "hex", firstByte |-> byte]

Proofs == {SocialProof(record, byte) : record \in EngagementRecord, byte \in Bytes}

NotFetched == [phase |-> "idle"]

PostFetch ==
    [phase : {"asking", "waiting", "done", "failed"},
     uri : Uris,
     action : {NormalizeAction(a) : a \in Actions},
     attempt : Nat,
     error : FailureClasses \cup {"none", "mismatch"},
     proof : Proofs \cup {NoProof}]

Request(uri, expectedAction) ==
    [phase |-> "asking", uri |-> uri, action |-> NormalizeAction(expectedAction),
     attempt |-> 1, error |-> "none", proof |-> NoProof]

Throws(call, error) == [call EXCEPT !.phase = "failed", !.error = error]

FetchProof(f, uri, expectedAction) ==
    /\ post[f] = NotFetched
    /\ MaxAttempts[f] > 0
    /\ post' = [post EXCEPT ![f] = Request(uri, expectedAction)]
    /\ UNCHANGED <<heard, pull, evidence>>

\* With maxAttempts = 0 the loop is not entered and nobody is asked.
FetchWithoutAttempts(f, uri, expectedAction) ==
    /\ post[f] = NotFetched
    /\ MaxAttempts[f] = 0
    /\ post' = [post EXCEPT ![f] = Throws([Request(uri, expectedAction) EXCEPT
                                               !.attempt = 0], "fatal")]
    /\ UNCHANGED <<heard, pull, evidence>>

\* The error of a record for another post or action is a plain Error, which
\* withRetry never sees.
IsForTheRequest(call, record) ==
    /\ record.postUrl = call.uri
    /\ NormalizeAction(record.action) = call.action

Hears(f, answer) == heard' = [heard EXCEPT ![f] = Append(heard[f], answer)]

PostAnswered(f, record, byte) ==
    /\ post[f].phase = "asking"
    /\ Hears(f, "record")
    /\ post' = [post EXCEPT ![f] =
           IF IsForTheRequest(post[f], record)
           THEN [post[f] EXCEPT !.phase = "done", !.proof = SocialProof(record, byte)]
           ELSE Throws(post[f], "mismatch")]
    /\ UNCHANGED <<pull, evidence>>

\* Mutant: an error that will not go away is retried.
TriesAnyAgain(f, class) == post[f].attempt < MaxAttempts[f]

TriesAgain(f, class) == ShouldRetry(class) /\ post[f].attempt < MaxAttempts[f]

PostRefused(f, code) ==
    /\ post[f].phase = "asking"
    /\ Hears(f, ClassifyCode(code))
    /\ post' = [post EXCEPT ![f] =
           IF TriesAgain(f, ClassifyCode(code))
           THEN [post[f] EXCEPT !.phase = "waiting"]
           ELSE Throws(post[f], ClassifyCode(code))]
    /\ UNCHANGED <<pull, evidence>>

\* The pause before the next attempt is over.
AskAgain(f) ==
    /\ post[f].phase = "waiting"
    /\ post' = [post EXCEPT ![f] =
           [post[f] EXCEPT !.phase = "asking", !.attempt = post[f].attempt + 1]]
    /\ UNCHANGED <<heard, pull, evidence>>

\* The X adapter's score: engagements / min + 1 lies between two powers of
\* two, and the score between the thousands that belong to them.
Doublings(engagements) ==
    CHOOSE k \in 1 .. 5 :
        /\ (2 ^ k) * MinEngagements <= engagements + MinEngagements
        /\ k = 5 \/ engagements + MinEngagements < (2 ^ (k + 1)) * MinEngagements

PostScores(engagements) ==
    IF engagements <= 0 THEN {0}
    ELSE IF engagements < MinEngagements
         THEN {(5000 * engagements + MinEngagements) \div (2 * MinEngagements)}
         ELSE AtMost(10000, 5000 + 1000 * Doublings(engagements))
                .. AtMost(10000, 6000 + 1000 * Doublings(engagements))

-----------------------------------------------------------------------------
(* The pull request on GitHub, while adapters look at it *)

NewPull(draft) == [merged |-> "no", draft |-> draft, approvals |-> 0,
                   dismissed |-> 0, changes |-> 0]

PullRequest == [merged : {"no", "yes"}, draft : {"no", "yes"}, approvals : Nat,
                dismissed : Nat, changes : Nat]

Reviewed == pull.approvals + pull.dismissed + pull.changes

PullChanges ==
    /\ \/ /\ Reviewed < MaxReviews
          /\ \/ pull' = [pull EXCEPT !.approvals = pull.approvals + 1]
             \/ pull' = [pull EXCEPT !.changes = pull.changes + 1]
       \/ /\ pull.approvals > 0
          /\ pull' = [pull EXCEPT !.approvals = pull.approvals - 1,
                                  !.dismissed = pull.dismissed + 1]
       \/ /\ pull.merged = "no"
          /\ \E draft \in {"no", "yes"} : pull' = [pull EXCEPT !.draft = draft]
       \/ /\ pull.merged = "no" /\ pull.draft = "no"
          /\ pull' = [pull EXCEPT !.merged = "yes"]
    /\ UNCHANGED <<post, heard, evidence>>

-----------------------------------------------------------------------------
(* The GitHub adapter: fetchEvidence *)

Pending == [state |-> "pending"]

PullEvidence ==
    [phase : {"asking", "done", "failed"},
     pr : [merged : {"no", "yes"}, draft : {"no", "yes"}] \cup {Pending},
     reviews : [approved : Nat, changes : Nat] \cup {Pending},
     checks : [runs : SUBSET CheckRuns] \cup {Pending},
     error : FailureClasses \cup {"none"}]

ThreeRequests == [phase |-> "asking", pr |-> Pending, reviews |-> Pending,
                  checks |-> Pending, error |-> "none"]

FetchEvidence(f) ==
    /\ evidence[f] = NotFetched
    /\ evidence' = [evidence EXCEPT ![f] = ThreeRequests]
    /\ UNCHANGED <<post, heard, pull>>

\* Without owner, repo and pr in the context nobody is asked.
FetchWithoutParams(f) ==
    /\ evidence[f] = NotFetched
    /\ evidence' = [evidence EXCEPT ![f] =
           [ThreeRequests EXCEPT !.phase = "failed", !.error = "fatal"]]
    /\ UNCHANGED <<post, heard, pull>>

\* Promise.all is fulfilled with the last of the three answers.
Collected(e) ==
    IF Pending \in {e.pr, e.reviews, e.checks} THEN e
    ELSE [phase |-> "done", pr |-> e.pr, reviews |-> e.reviews,
          checks |-> e.checks, error |-> e.error]

Collects(f, e) ==
    /\ evidence' = [evidence EXCEPT ![f] = Collected(e)]
    /\ UNCHANGED <<post, heard, pull>>

PullAnswered(f) ==
    /\ evidence[f].phase = "asking" /\ evidence[f].pr = Pending
    /\ Collects(f, [evidence[f] EXCEPT
           !.pr = [merged |-> pull.merged, draft |-> pull.draft]])

\* Mutant: every review counts as an approval.
CountAll(p) == [approved |-> p.approvals + p.changes, changes |-> p.changes]

CountReviews(p) == [approved |-> p.approvals, changes |-> p.changes]

ReviewsAnswered(f) ==
    /\ evidence[f].phase = "asking" /\ evidence[f].reviews = Pending
    /\ Collects(f, [evidence[f] EXCEPT !.reviews = CountReviews(pull)])

ChecksAnswered(f, runs) ==
    /\ evidence[f].phase = "asking" /\ evidence[f].checks = Pending
    /\ Collects(f, [evidence[f] EXCEPT !.checks = [runs |-> runs]])

\* The error of this request becomes the empty list.
ChecksRefused(f) == ChecksAnswered(f, {})

\* The error of either other request rejects Promise.all.
EvidenceRefused(f, message) ==
    /\ evidence[f].phase = "asking"
    /\ Pending \in {evidence[f].pr, evidence[f].reviews}
    /\ evidence' = [evidence EXCEPT ![f] =
           [evidence[f] EXCEPT !.phase = "failed",
                               !.error = ClassifyMessage(message)]]
    /\ UNCHANGED <<post, heard, pull>>

-----------------------------------------------------------------------------
(* The GitHub adapter: normalize and score *)

\* Mutant: every() of the empty list.
CiNeverFailed(runs) ==
    \A run \in runs : run.status = "completed" /\ run.conclusion = "success"

CiPassed(runs) ==
    /\ runs # {}
    /\ \A run \in runs : run.status = "completed" /\ run.conclusion = "success"

CiFailed(runs) == \E run \in runs : run.conclusion \in {"failure", "timed_out"}

ApprovalScore(approved) == IF approved >= MinApprovals THEN 1500 ELSE -2000

CiScore(runs) ==
    IF RequireCiPass
    THEN (IF CiPassed(runs) THEN 1000 ELSE 0) - (IF CiFailed(runs) THEN 2500 ELSE 0)
    ELSE IF CiFailed(runs) THEN -500 ELSE 0

PullScore(e) ==
    ClampBps(5000 + (IF e.pr.merged = "yes" THEN 2000 ELSE 0)
                  + ApprovalScore(e.reviews.approved)
                  - 800 * e.reviews.changes
                  + CiScore(e.checks.runs)
                  - (IF PenaliseDraft /\ e.pr.draft = "yes" THEN 3000 ELSE 0))

-----------------------------------------------------------------------------
(* Specification *)

AdaptersInit ==
    /\ post = [f \in PostFetches |-> NotFetched]
    /\ heard = [f \in PostFetches |-> <<>>]
    /\ pull \in {NewPull("no"), NewPull("yes")}
    /\ evidence = [f \in PullFetches |-> NotFetched]

PostSettles(f) ==
    \/ \E record \in EngagementRecord, byte \in Bytes : PostAnswered(f, record, byte)
    \/ \E code \in Codes : PostRefused(f, code)
    \/ AskAgain(f)

PostStep(f) ==
    \/ \E uri \in Uris, action \in Actions :
          FetchProof(f, uri, action) \/ FetchWithoutAttempts(f, uri, action)
    \/ PostSettles(f)

EvidenceSettles(f) ==
    \/ PullAnswered(f)
    \/ ReviewsAnswered(f)
    \/ \E runs \in CheckAnswers : ChecksAnswered(f, runs)
    \/ ChecksRefused(f)
    \/ \E message \in Messages : EvidenceRefused(f, message)

EvidenceStep(f) == FetchEvidence(f) \/ FetchWithoutParams(f) \/ EvidenceSettles(f)

AdaptersNext ==
    \/ \E f \in PostFetches : PostStep(f)
    \/ \E f \in PullFetches : EvidenceStep(f)
    \/ PullChanges

-----------------------------------------------------------------------------
(* Properties *)

AdaptersTypeOK ==
    /\ post \in [PostFetches -> PostFetch \cup {NotFetched}]
    /\ heard \in [PostFetches -> Seq(FailureClasses \cup {"record"})]
    /\ pull \in PullRequest
    /\ evidence \in [PullFetches -> PullEvidence \cup {NotFetched}]

\* withRetry against what the service really answered: it never repeats a
\* request that was answered or refused for good, never asks more often than
\* the policy allows, gives up on a passing failure only when the attempts
\* are used up, and fails with the class of the last answer.
Disciplined(f) ==
    /\ Len(heard[f]) <= MaxAttempts[f]
    /\ \A i \in 1 .. Len(heard[f]) - 1 : ShouldRetry(heard[f][i])
    /\ post[f].phase = "done" => heard[f] # <<>>
            /\ heard[f][Len(heard[f])] = "record"
    /\ post[f].phase = "failed" =>
           IF heard[f] = <<>> THEN MaxAttempts[f] = 0 /\ post[f].error = "fatal"
           ELSE IF heard[f][Len(heard[f])] = "record"
                THEN post[f].error = "mismatch"
                ELSE /\ post[f].error = heard[f][Len(heard[f])]
                     /\ ShouldRetry(post[f].error) =>
                            Len(heard[f]) = MaxAttempts[f]

RetryDiscipline == \A f \in PostFetches : Disciplined(f)

Broken(run) == run.conclusion \in {"failure", "timed_out"}

Passed(run) == run.status = "completed" /\ run.conclusion = "success"

\* A score above 7500 says that the pull request is merged and got its
\* approvals, though the three answers come at different times, and, where
\* the policy asks for a passing CI, that the check runs it was given (if
\* any) have no failure among them.  Only a score above 8500 says that there
\* were check runs and that they passed: a request for them that failed, and
\* whose failures are lost, costs the thousand points of a passing CI.
HighScoreIsEarned ==
    \A f \in PullFetches : evidence[f].phase = "done" =>
        LET runs == evidence[f].checks.runs IN
        /\ PullScore(evidence[f]) > 7500 =>
              /\ pull.merged = "yes"
              /\ pull.approvals + pull.dismissed >= MinApprovals
              /\ RequireCiPass => \A run \in runs : ~ Broken(run)
        /\ PullScore(evidence[f]) > 8500 =>
              runs # {} /\ \A run \in runs : Passed(run)

\* The policy's requireCiPass, as documented: "Whether a passing CI is
\* required for a high score".  The adapter's test calls 8000 high.  The code
\* takes nothing off for check runs that are missing or were not fetched.
HighScoreNeedsCi ==
    RequireCiPass => \A f \in PullFetches :
        evidence[f].phase = "done" /\ PullScore(evidence[f]) >= 8000
            => CiPassed(evidence[f].checks.runs)

=============================================================================
