---------------------------- MODULE MCLiveDemo ----------------------------
(***************************************************************************)
(* A small instance of the live demo for TLC: two validators of which one  *)
(* has to respond, where the script has three and asks for two.            *)
(***************************************************************************)
EXTENDS LiveDemo

CONSTANTS ann, bob, cat, c1, r1

OneCreator == [c \in Campaigns |-> ann]
OneForAnn == [k \in Keys |-> IF k = ann THEN 1 ELSE 0]
AnnPays == [r \in Rounds |-> ann]

BobAndCat == {<<bob, cat>>}
Deadline1 == {1}
=============================================================================
