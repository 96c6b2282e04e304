---------------------------- MODULE MCPoeClient ----------------------------
(***************************************************************************)
(* Small instances of the SDK client and the program for TLC.              *)
(***************************************************************************)
EXTENDS PoeClient

CONSTANTS ann, bob, c1

OneCreator == [c \in Campaigns |-> ann]
OneForAnn == [k \in Keys |-> IF k = ann THEN 1 ELSE 0]

JustBob == {<<bob>>}
AnnAndBob == {<<ann, bob>>}

\* Every deadline leaves the clock one more tick.
Deadlines12 == {1, 2}

\* A behaviour makes calls or reads a status, not both: what a reader may find
\* is driven by Foreign, which does everything that calls do.
CallsOrReads ==
    \/ \A a \in Clients : call[a] = << >>
    \/ \A r \in Readers : view[r] = NoView

\* A second call retries the first after its confirmation timed out.
OnlyRetries ==
    \A a \in Clients :
        Len(call[a]) > 1 =>
            /\ call[a][1].phase = "threw" /\ call[a][1].tx # "none"
            /\ call[a][2].request = call[a][1].request
=============================================================================
