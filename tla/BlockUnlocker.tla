----------------------------- MODULE BlockUnlocker ----------------------------
(***************************************************************************)
(* The payout job, src/block_unlocker/main.py: one process that turns the  *)
(* shares of a valid block into rewards and marks the block unlocked.      *)
(*                                                                         *)
(* Its connection is in autocommit: every statement is a transaction of its*)
(* own, so each is a step here, and the process may die between any two.   *)
(* An exception ends main(), which is started again a second later.        *)
(*                                                                         *)
(* Abstracted: rewards are fractions, not floats; the coin is the one of   *)
(* PoolDatabase.                                                           *)
(***************************************************************************)
EXTENDS PoolDatabase

CONSTANTS
    PaysFee,            \* a fee wallet is configured for the coin
    MaxUnlockerCrashes  \* bound: deaths of the process

ASSUME UnlockerAssumption ==
    PaysFee \in BOOLEAN /\ MaxUnlockerCrashes \in Nat

VARIABLES
    step,       \* the statement that comes next
    todo,       \* rows of the SELECT on blocks still to be handled
    total,      \* total_shares of the first of them
    unpaid,     \* rows of the SELECT on round_shares still to be paid
    deaths      \* deaths of the process so far

unlockerVars == <<step, todo, total, unpaid, deaths>>

UnlockerSteps == {"list", "delete", "sum", "fee", "rows", "pay"}

ShareRows == [wallet : Wallets, shares : Nat]

\* The block being unlocked: ORDER BY id
Block == Min(todo)

Unlockable == {b \in BlockIds : blocks[b].valid = "yes" /\ ~blocks[b].unlocked}

------------------------------------------------------------------------------

\* Mutant of ListBlocks: blocks already unlocked are listed again.
ListValidBlocks ==
    LET Valid == {b \in BlockIds : blocks[b].valid = "yes"} IN
    /\ step = "list"
    /\ Valid # {}
    /\ todo' = Valid
    /\ step' = "delete"
    /\ UNCHANGED <<dbVars, total, unpaid, deaths>>

\* SELECT * FROM blocks WHERE is_valid AND NOT is_unlocked ORDER BY id
ListBlocks ==
    /\ step = "list"
    /\ Unlockable # {}
    /\ todo' = Unlockable
    /\ step' = "delete"
    /\ UNCHANGED <<dbVars, total, unpaid, deaths>>

\* Mutant of DeleteRewards: nothing is deleted.
DeleteNothing ==
    /\ step = "delete"
    /\ step' = "sum"
    /\ UNCHANGED <<dbVars, todo, total, unpaid, deaths>>

\* DELETE FROM rewards: what an interrupted attempt has left
DeleteRewards ==
    /\ step = "delete"
    /\ rewards' = RewardsOf(BlockIds \ {Block})
    /\ step' = "sum"
    /\ UNCHANGED <<blocks, roundShares, todo, total, unpaid, deaths>>

\* SELECT SUM(shares).  float(NULL) is a TypeError: main() starts again.
SumShares ==
    /\ step = "sum"
    /\ total' = TotalShares(Block)
    /\ IF TotalShares(Block) = 0
       THEN step' = "list" /\ todo' = {}
       ELSE step' = "fee" /\ UNCHANGED todo
    /\ UNCHANGED <<dbVars, unpaid, deaths>>

PayFee ==
    /\ step = "fee"
    /\ IF PaysFee
       THEN InsertReward([block |-> Block, for |-> "fee", wallet |-> "pool",
                          part |-> 1, of |-> 1])
       ELSE UNCHANGED rewards
    /\ step' = "rows"
    /\ UNCHANGED <<blocks, roundShares, todo, total, unpaid, deaths>>

\* SELECT * FROM round_shares: the rows as they are now, total as it was
SelectRows ==
    /\ step = "rows"
    /\ unpaid' = {[wallet |-> w, shares |-> roundShares[Block][w]] : w \in Contributors(Block)}
    /\ step' = "pay"
    /\ UNCHANGED <<dbVars, todo, total, deaths>>

\* Mutant of PayRow: the total is read again for each row.
PayRowFreshTotal(row) ==
    /\ step = "pay"
    /\ row \in unpaid
    /\ InsertReward([block |-> Block, for |-> "shares", wallet |-> row.wallet,
                     part |-> row.shares, of |-> TotalShares(Block)])
    /\ unpaid' = unpaid \ {row}
    /\ UNCHANGED <<blocks, roundShares, step, todo, total, deaths>>

\* INSERT INTO rewards, row by row
PayRow(row) ==
    /\ step = "pay"
    /\ row \in unpaid
    /\ InsertReward([block |-> Block, for |-> "shares", wallet |-> row.wallet,
                     part |-> row.shares, of |-> total])
    /\ unpaid' = unpaid \ {row}
    /\ UNCHANGED <<blocks, roundShares, step, todo, total, deaths>>

\* Mutant of MarkUnlocked: rows may still be unpaid.
MarkUnlockedEarly ==
    /\ step = "pay"
    /\ blocks' = [blocks EXCEPT ![Block].unlocked = TRUE]
    /\ unpaid' = {}
    /\ todo' = todo \ {Block}
    /\ step' = IF todo = {Block} THEN "list" ELSE "delete"
    /\ UNCHANGED <<roundShares, rewards, total, deaths>>

\* UPDATE blocks SET is_unlocked = TRUE, then on to the next block; after the
\* last one main() sleeps and lists again.
MarkUnlocked ==
    /\ step = "pay"
    /\ unpaid = {}
    /\ blocks' = [blocks EXCEPT ![Block].unlocked = TRUE]
    /\ todo' = todo \ {Block}
    /\ step' = IF todo = {Block} THEN "list" ELSE "delete"
    /\ UNCHANGED <<roundShares, rewards, total, unpaid, deaths>>

\* Mutant of UnlockerCrash: nobody starts main() again.
UnlockerStops ==
    /\ deaths < MaxUnlockerCrashes
    /\ step # "list"
    /\ deaths' = deaths + 1
    /\ step' = "stopped" /\ todo' = {} /\ total' = 0 /\ unpaid' = {}
    /\ UNCHANGED dbVars

\* The database goes away or the process is killed; main() starts again.
UnlockerCrash ==
    /\ deaths < MaxUnlockerCrashes
    /\ step # "list"
    /\ deaths' = deaths + 1
    /\ step' = "list" /\ todo' = {} /\ total' = 0 /\ unpaid' = {}
    /\ UNCHANGED dbVars

UnlockerInit ==
    step = "list" /\ todo = {} /\ total = 0 /\ unpaid = {} /\ deaths = 0

UnlockerStep ==
    \/ ListBlocks
    \/ DeleteRewards
    \/ SumShares
    \/ PayFee
    \/ SelectRows
    \/ \E row \in unpaid : PayRow(row)
    \/ MarkUnlocked

UnlockerNext == UnlockerStep \/ UnlockerCrash

UnlockerTypeOK ==
    /\ step \in UnlockerSteps
    /\ todo \subseteq BlockIds
    /\ step = "list" <=> todo = {}
    /\ total \in Nat
    /\ unpaid \subseteq ShareRows
    /\ deaths \in 0..MaxUnlockerCrashes
==============================================================================
