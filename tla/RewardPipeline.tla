---------------------------- MODULE RewardPipeline ----------------------------
(***************************************************************************)
(* From a share to a reward: the engine and the block unlocker working on  *)
(* the same tables at the same time, each interrupting the other between   *)
(* any two statements and dying whenever it likes.                         *)
(***************************************************************************)
EXTENDS PoolEngine, BlockUnlocker

vars == <<dbVars, engineVars, unlockerVars>>

Init == DatabaseInit /\ EngineInit /\ UnlockerInit

Next ==
    \/ EngineNext /\ UNCHANGED unlockerVars
    \/ UnlockerNext /\ UNCHANGED engineVars

Spec == Init /\ [][Next]_vars

\* The unlocker is a loop nothing can stop for good: an exception restarts it,
\* and the number of deaths is bounded.  Nothing is assumed of the engine.
Fairness == WF_vars(UnlockerStep /\ UNCHANGED engineVars)

FairSpec == Spec /\ Fairness

------------------------------------------------------------------------------
(* Properties *)

TypeOK == EngineTypeOK /\ UnlockerTypeOK

Unlocked == {b \in BlockIds : blocks[b].unlocked}

\* Rows of rewards block b has for wallet w
PaymentsTo(b, w) == {row \in BagToSet(rewards) : row.block = b /\ row.wallet = w}

\* Balances are sums of rewards of unlocked blocks: once a block is unlocked its
\* rewards are never deleted, repeated or added to, although an attempt that
\* dies half way is started again from the beginning.
UnlockedRewardsAreFinal ==
    [][\A b \in Unlocked : b \in Unlocked' /\ RewardsOf({b})' = RewardsOf({b})]_vars

\* However many attempts it took, an unlocked block pays a wallet at most once,
\* and its fee once if there is one.
PaidAtMostOnce ==
    \A b \in Unlocked :
        /\ \A w \in Wallets : Cardinality(PaymentsTo(b, w)) <= 1
        /\ Cardinality(PaymentsTo(b, "pool")) = IF PaysFee THEN 1 ELSE 0
        /\ \A row \in BagToSet(rewards) : row.block = b => rewards[row] = 1

\* What an unlocked block has paid for shares
SharePayments(b) == {row \in BagToSet(rewards) : row.block = b /\ row.for = "shares"}

\* All of it, over the total it was divided by
PaidParts(b) == SumFunction([row \in SharePayments(b) |-> row.part * rewards[row]])

\* The miners of an unlocked block get the whole reward, never less: shares that
\* still arrive between the SUM and the rows can only make the pool pay more.
NeverUnderpaid ==
    \A b \in Unlocked : \A row \in SharePayments(b) : PaidParts(b) >= row.of

\* Under calm traffic it is exactly the reward, in proportion to the shares each
\* wallet has in the round, for everyone in the round.
PaidExactly ==
    \A b \in Unlocked : \A w \in Contributors(b) :
        \E row \in PaymentsTo(b, w) : row.part = roundShares[b][w] /\ row.of = TotalShares(b)

\* Nothing stands before block b: no unlockable block up to it lacks shares.
NothingBlocks(b) ==
    \A c \in Unlockable : c <= b => Contributors(c) # {}

\* A valid block is unlocked in the end, unless a round without shares is before
\* it: that one raises an exception in every pass and is never got past.
EventuallyUnlocked ==
    \A b \in 1..MaxRequests :
        (b \in Unlockable /\ NothingBlocks(b)) ~> (b \in Unlocked \/ ~NothingBlocks(b))
==============================================================================
