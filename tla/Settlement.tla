----------------------------- MODULE Settlement -----------------------------
(***************************************************************************)
(* What the escrow promises, without modes, bids, validators or clocks: a  *)
(* campaign is funded once by its creator, its pot only grows while the    *)
(* campaign is pending, and at most once the whole pot goes to a single    *)
(* payee: the executor, named at most once, or the creator.                *)
(***************************************************************************)
EXTENDS Integers

CONSTANTS Keys, NoKey, Campaigns, CreatorOf, Amounts, InitialWallet

VARIABLES
    deal,       \* where each campaign stands
    executor,   \* who is paid if the deal succeeds
    pot,        \* tokens held for each campaign
    wallet      \* tokens of each key

vars == <<deal, executor, pot, wallet>>

Init ==
    /\ deal = [c \in Campaigns |-> "none"]
    /\ executor = [c \in Campaigns |-> NoKey]
    /\ pot = [c \in Campaigns |-> 0]
    /\ wallet = InitialWallet

\* The creator pays the amount in; an executor may be named at once.
Fund(c, amount, payee) ==
    /\ deal[c] = "none"
    /\ amount > 0
    /\ wallet[CreatorOf[c]] >= amount
    /\ deal' = [deal EXCEPT ![c] = "pending"]
    /\ executor' = [executor EXCEPT ![c] = payee]
    /\ pot' = [pot EXCEPT ![c] = amount]
    /\ wallet' = [wallet EXCEPT ![CreatorOf[c]] = @ - amount]

\* Whoever pays more in gives it away.
TopUp(c, amount, giver) ==
    /\ deal[c] # "none"
    /\ amount > 0
    /\ wallet[giver] >= amount
    /\ pot' = [pot EXCEPT ![c] = @ + amount]
    /\ wallet' = [wallet EXCEPT ![giver] = @ - amount]
    /\ UNCHANGED <<deal, executor>>

\* An executor is named at most once.
NameExecutor(c, payee) ==
    /\ deal[c] = "pending"
    /\ executor[c] = NoKey
    /\ executor' = [executor EXCEPT ![c] = payee]
    /\ UNCHANGED <<deal, pot, wallet>>

PayOut(c, payee, outcome) ==
    /\ deal[c] = "pending"
    /\ deal' = [deal EXCEPT ![c] = outcome]
    /\ pot' = [pot EXCEPT ![c] = 0]
    /\ wallet' = [wallet EXCEPT ![payee] = @ + pot[c]]
    /\ UNCHANGED executor

Pay(c) == PayOut(c, executor[c], "paid")

Refund(c) == PayOut(c, CreatorOf[c], "refunded")

Next ==
    \E c \in Campaigns :
        \/ \E amount \in Amounts, key \in Keys :
              Fund(c, amount, key) \/ TopUp(c, amount, key)
        \/ \E key \in Keys : NameExecutor(c, key)
        \/ Pay(c)
        \/ Refund(c)

Spec == Init /\ [][Next]_vars

\* A pending deal does not stay pending for ever.
Resolves ==
    \A c \in Campaigns :
        deal[c] = "pending" ~> deal[c] \in {"paid", "refunded"}

=============================================================================
