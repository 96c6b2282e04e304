----------------------------- MODULE MCSeeding -----------------------------
(***************************************************************************)
(* A small instance of the seeding scripts for TLC.                        *)
(***************************************************************************)
EXTENDS Seeding

CONSTANTS cre, v1, v2, alpha, gamma, p1, p2

OneCreator == [c \in Campaigns |-> cre]
TwelveForCreator == [k \in Keys |-> IF k = cre THEN 12 ELSE 0]
Panels == {<<v1, v2>>}
Ids10 == 1 .. 10
DeadlinesTo7 == 0 .. 7
=============================================================================
