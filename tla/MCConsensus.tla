---------------------------- MODULE MCConsensus ----------------------------
(***************************************************************************)
(* Small instances of the orchestrator, the SDK and the program for TLC.   *)
(***************************************************************************)
EXTENDS Consensus

CONSTANTS ann, bob, c1, r1, r2

OneCreator == [c \in Campaigns |-> ann]
OneForAnn == [k \in Keys |-> IF k = ann THEN 1 ELSE 0]

AnnAndBob == {<<ann, bob>>}

\* With one deadline no RFQ campaign is possible: the rounds see direct
\* campaigns only.
Deadline1 == {1}

EachPays == [r \in Rounds |-> IF r = r1 THEN ann ELSE bob]
=============================================================================
