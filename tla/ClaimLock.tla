----------------------------- MODULE ClaimLock -----------------------------
(***************************************************************************)
(* What claims promise: for every slot (a store and a campaign) at most    *)
(* one call works at a time, and a call that leaves is one that was in.    *)
(***************************************************************************)
CONSTANTS
    Slots,      \* what can be claimed
    Holders     \* who may claim

VARIABLE holders    \* who is working on each slot

LockInit == holders = [slot \in Slots |-> {}]

Acquire(slot, h) ==
    /\ holders[slot] = {}
    /\ holders' = [holders EXCEPT ![slot] = {h}]

\* Whoever works leaves; a stopped process leaves several slots at once.
Release ==
    /\ holders' \in [Slots -> SUBSET Holders]
    /\ \A slot \in Slots : holders'[slot] \in {holders[slot], {}}

LockNext == Release \/ \E slot \in Slots, h \in Holders : Acquire(slot, h)

LockSpec == LockInit /\ [][LockNext]_holders
=============================================================================
