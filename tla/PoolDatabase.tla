----------------------------- MODULE PoolDatabase -----------------------------
(***************************************************************************)
(* The Postgres tables the engine and the block unlocker share, for one    *)
(* coin (alembic/versions/62bc20a1fb35_create_basic_tables.py): blocks,    *)
(* round_shares and rewards.                                               *)
(*                                                                         *)
(* Both programs run under READ COMMITTED: a statement sees what was       *)
(* committed when it started.  Nothing locks a table, and of the three only*)
(* round_shares has a unique constraint, on (block_id, wallet).            *)
(*                                                                         *)
(* Abstracted: a share counts 1 whatever its difficulty; the amount of a   *)
(* reward is the fraction of the block's reward it was computed as.        *)
(***************************************************************************)
EXTENDS Naturals, Sequences, FiniteSets, FiniteSetsExt, Bags

CONSTANTS
    Wallets         \* wallets of miners

\* The pool's own wallet, which the fee goes to, is none of them.
ASSUME DatabaseAssumption == IsFiniteSet(Wallets) /\ "pool" \notin Wallets

VARIABLES
    blocks,         \* the table blocks, by id
    roundShares,    \* the table round_shares: for each block, shares by wallet
    rewards         \* the table rewards, a bag of rows

dbVars == <<blocks, roundShares, rewards>>

\* A block is mined by the /submit_block request that closed it, 0 while it is
\* the open round.
Blocks == [mined : Nat, valid : {"unknown", "yes", "no"}, unlocked : BOOLEAN]

\* A wallet without a row has no share: the engine never stores a row of 0.
Rounds == [Wallets -> Nat]

\* The fraction part/of of what a block pays to its miners, or its fee.
Rewards == [block : Nat, for : {"shares", "fee"}, wallet : Wallets \cup {"pool"},
            part : Nat, of : Nat]

BlockIds == 1..Len(blocks)

\* Blocks with mined_at IS NULL
OpenBlocks == {b \in BlockIds : blocks[b].mined = 0}

NoShares == [w \in Wallets |-> 0]

\* INSERT INTO blocks (coin, is_unlocked)
InsertBlock ==
    /\ blocks' = Append(blocks, [mined |-> 0, valid |-> "unknown", unlocked |-> FALSE])
    /\ roundShares' = Append(roundShares, NoShares)

\* A round_shares row gets one more share, or is inserted with one.
AddShare(b, w) == roundShares' = [roundShares EXCEPT ![b][w] = @ + 1]

\* Wallets with a row for block b
Contributors(b) == {w \in Wallets : roundShares[b][w] > 0}

\* SELECT SUM(shares); 0 stands for NULL, when there is no row
TotalShares(b) == SumFunctionOnSet(roundShares[b], Wallets)

\* SELECT * FROM blocks WHERE mined_at IS NOT NULL AND is_valid IS NULL
BlocksToValidate == {b \in BlockIds \ OpenBlocks : blocks[b].valid = "unknown"}

\* Rows of rewards that belong to one of the blocks B
RewardsOf(B) == [row \in {r \in BagToSet(rewards) : r.block \in B} |-> rewards[row]]

InsertReward(row) == rewards' = rewards (+) SetToBag({row})

DatabaseInit ==
    /\ blocks = <<>>
    /\ roundShares = <<>>
    /\ rewards = EmptyBag

DatabaseTypeOK ==
    /\ blocks \in Seq(Blocks)
    /\ roundShares \in Seq(Rounds)
    /\ Len(roundShares) = Len(blocks)
    /\ IsABag(rewards) /\ BagToSet(rewards) \subseteq Rewards
==============================================================================
