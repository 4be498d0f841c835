----------------------------- MODULE BlockValidator ----------------------------
(***************************************************************************)
(* The validator of CryptoNote blocks, src/pool_cryptonote/blockValidator  *)
(* .js: a worker of the cluster that lists the blocks the engine knows     *)
(* nothing of yet, asks the daemon for the headers at their heights, and   *)
(* posts a verdict on every block that is deep enough.                     *)
(*                                                                         *)
(* A pass is a waterfall of callbacks.  The headers are asked for all at   *)
(* once and answered in any order; the verdicts are posted without waiting *)
(* for an answer, so they may reach the engine during later passes, which  *)
(* list the same blocks again.                                             *)
(*                                                                         *)
(* Abstracted: the chain is its length and which of the pool's blocks it   *)
(* holds; a block is dropped or restored by a switch of branches only while*)
(* fewer than Depth blocks lie on its height (external, an assumption on   *)
(* the coin's network).  Rewards are left out.                             *)
(***************************************************************************)
EXTENDS PoolDatabase

CONSTANTS
    Depth,       \* config.blockValidator.depth
    MaxRounds,   \* bound: blocks of the pool
    MaxHeight,   \* bound: length of the chain
    MaxPosts,    \* bound: verdicts on their way
    MaxFaults    \* bound: failed or lost requests, and deaths of the validator

ASSUME ValidatorAssumption ==
    /\ Depth \in Nat \ {0}
    /\ {MaxRounds, MaxHeight, MaxPosts, MaxFaults} \subseteq Nat

VARIABLES
    tip,       \* height of the daemon's chain
    heights,   \* the column height of blocks, 0 until a block is mined
    kept,      \* blocks of the pool that are on the chain
    pass,      \* where the pass is: headers still asked for, verdicts so far
    posts,     \* verdicts on their way to the engine, a bag
    faults     \* faults so far

chainVars == <<tip, heights, kept>>

validatorVars == <<pass, posts, faults>>

Verdicts == [block : 1..MaxRounds, valid : {"yes", "no"}]

\* The timer of runInterval is set, or runs out.
Resting == [at |-> "timer", asked |-> {}, unlockedBlocks |-> {}]

Halted == pass.at = "halted"

\* A fault of the environment
Fault ==
    /\ faults < MaxFaults
    /\ faults' = faults + 1

------------------------------------------------------------------------------
(* The daemon's chain *)

\* blockHeader.depth: blocks on top of the height of block b
DepthOf(b) == tip - heights[b]

Shallow == {b \in BlockIds \ OpenBlocks : DepthOf(b) < Depth}

\* A block is added, perhaps by switching to a longer branch, which holds some of
\* the pool's shallow blocks and not others.
ChainGrows ==
    /\ tip < MaxHeight
    /\ tip' = tip + 1
    /\ \E K \in SUBSET Shallow : kept' = (kept \ Shallow) \cup K
    /\ UNCHANGED <<heights, dbVars, validatorVars>>

------------------------------------------------------------------------------
(* A pass *)

\* The list of blocks_to_validate is answered and every header is asked for.  An empty list sets the
\* timer again, which changes nothing.
Wake ==
    /\ pass.at = "timer"
    /\ BlocksToValidate # {}
    /\ BagCardinality(posts) + Cardinality(BlocksToValidate) <= MaxPosts
    /\ pass' = [Resting EXCEPT !.at = "headers", !.asked = BlocksToValidate]
    /\ UNCHANGED <<dbVars, chainVars, posts, faults>>

\* The engine is not reached: the errback logs and never calls back, so nothing
\* sets the timer again.
QueryFails ==
    /\ pass.at = "timer"
    /\ Fault
    /\ pass' = [Resting EXCEPT !.at = "halted"]
    /\ UNCHANGED <<dbVars, chainVars, posts>>

\* Hash and depth come from one answer of the daemon.
VerdictOn(b) == [block |-> b, valid |-> IF b \in kept THEN "yes" ELSE "no"]

\* Mutant of DeepEnough: one block too early
NearlyDeepEnough(b) == DepthOf(b) + 1 >= Depth

\* block.unlocked
DeepEnough(b) == DepthOf(b) >= Depth

\* A header is answered.  With the last one the verdicts on blocks that are deep
\* enough are posted and the timer is set.
HeaderAnswered(b) ==
    LET found == pass.unlockedBlocks \cup (IF DeepEnough(b) THEN {VerdictOn(b)} ELSE {})
    IN
    /\ b \in pass.asked
    /\ IF pass.asked = {b}
       THEN pass' = Resting /\ posts' = posts (+) SetToBag(found)
       ELSE /\ pass' = [pass EXCEPT !.asked = @ \ {b}, !.unlockedBlocks = found]
            /\ UNCHANGED posts
    /\ UNCHANGED <<dbVars, chainVars, faults>>

\* Mutant of HeaderFails: the error is only logged, and the filter never ends.
HeaderFailsSilently(b) ==
    /\ b \in pass.asked
    /\ Fault
    /\ pass' = [pass EXCEPT !.asked = @ \ {b}]
    /\ UNCHANGED <<dbVars, chainVars, posts>>

\* A header is answered with an error or without details: the pass is given up,
\* whatever the other answers say, and the timer is set.
HeaderFails(b) ==
    /\ b \in pass.asked
    /\ Fault
    /\ pass' = Resting
    /\ UNCHANGED <<dbVars, chainVars, posts>>

\* An exception nobody catches (an answer of the engine that is no JSON) ends the
\* worker with its requests; init.js spawns another, which begins with a pass.
Dies ==
    /\ ~Halted
    /\ Fault
    /\ pass' = Resting
    /\ posts' = EmptyBag
    /\ UNCHANGED <<dbVars, chainVars>>

------------------------------------------------------------------------------
(* Verdicts reach the engine *)

\* validate_block: UPDATE blocks SET is_valid ... WHERE id, whatever it was
VerdictArrives(v) ==
    /\ BagIn(v, posts)
    /\ posts' = posts (-) SetToBag({v})
    /\ blocks' = [blocks EXCEPT ![v.block].valid = v.valid]
    /\ UNCHANGED <<roundShares, rewards, chainVars, pass, faults>>

\* The request fails, which is logged; a later pass lists the block again.
VerdictLost(v) ==
    /\ BagIn(v, posts)
    /\ Fault
    /\ posts' = posts (-) SetToBag({v})
    /\ UNCHANGED <<dbVars, chainVars, pass>>

ValidatorInit ==
    /\ tip = 0
    /\ heights = [b \in 1..MaxRounds |-> 0]
    /\ kept = {}
    /\ pass = Resting
    /\ posts = EmptyBag
    /\ faults = 0

ValidatorStep == Wake \/ \E b \in pass.asked : HeaderAnswered(b)

SomeVerdictArrives == \E v \in BagToSet(posts) : VerdictArrives(v)

ValidatorNext ==
    \/ ValidatorStep \/ SomeVerdictArrives \/ ChainGrows
    \/ QueryFails \/ Dies
    \/ \E b \in pass.asked : HeaderFails(b)
    \/ \E v \in BagToSet(posts) : VerdictLost(v)

ValidatorTypeOK ==
    /\ tip \in 0..MaxHeight
    /\ heights \in [1..MaxRounds -> 0..MaxHeight]
    /\ kept \subseteq BlockIds
    /\ pass.at \in {"timer", "headers", "halted"}
    /\ pass.at = "headers" <=> pass.asked # {}
    /\ pass.asked \subseteq BlockIds
    /\ pass.unlockedBlocks \subseteq Verdicts
    /\ IsABag(posts) /\ BagToSet(posts) \subseteq Verdicts
    /\ faults \in 0..MaxFaults
==============================================================================
