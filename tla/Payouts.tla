-------------------------------- MODULE Payouts --------------------------------
(***************************************************************************)
(* From a mined block to the rewards of its round: the rounds of the engine*)
(* as RoundLedger describes them, the validator that gives a verdict on    *)
(* each closed one, and the unlocker that pays the valid ones, all on the  *)
(* same tables.                                                            *)
(*                                                                         *)
(* PoolEngine implements RoundLedger under calm traffic (RoundsInOrder),   *)
(* so that its requests need not be interleaved here once more.            *)
(***************************************************************************)
EXTENDS BlockValidator, BlockUnlocker

CONSTANT MaxShares   \* bound: shares of a wallet in a round

ASSUME PayoutsAssumption == MaxShares \in Nat

payoutVars == <<dbVars, chainVars, validatorVars, unlockerVars>>

\* The first share of a round inserts the block.
Open ==
    /\ OpenBlocks = {} /\ Len(blocks) < MaxRounds
    /\ InsertBlock
    /\ UNCHANGED <<rewards, chainVars, validatorVars>>

Count(w) ==
    /\ \E b \in OpenBlocks : roundShares[b][w] < MaxShares /\ AddShare(b, w)
    /\ UNCHANGED <<blocks, rewards, chainVars, validatorVars>>

\* The daemon takes a block of the pool on top of its chain, and submit_block
\* closes the round with its height.
Close ==
    /\ tip < MaxHeight
    /\ tip' = tip + 1
    /\ \E b \in OpenBlocks :
          /\ blocks' = [blocks EXCEPT ![b].mined = 1]
          /\ heights' = [heights EXCEPT ![b] = tip + 1]
          /\ kept' = kept \cup {b}
    /\ UNCHANGED <<roundShares, rewards, validatorVars>>

PayoutsInit == DatabaseInit /\ ValidatorInit /\ UnlockerInit

PayoutsNext ==
    \/ (Open \/ Close \/ \E w \in Wallets : Count(w)) /\ UNCHANGED unlockerVars
    \/ ValidatorNext /\ UNCHANGED unlockerVars
    \/ UnlockerNext /\ UNCHANGED <<chainVars, validatorVars>>

PayoutsSpec == PayoutsInit /\ [][PayoutsNext]_payoutVars

\* The validator's timer fires and the daemon answers, or the connection breaks,
\* which is a fault; so do requests to the engine.  The unlocker is a loop nothing
\* stops for good.  The chain need not grow, nor the pool find blocks.
PayoutsFairness ==
    /\ WF_payoutVars(ValidatorStep /\ UNCHANGED unlockerVars)
    /\ WF_payoutVars(SomeVerdictArrives /\ UNCHANGED unlockerVars)
    /\ WF_payoutVars(UnlockerStep /\ UNCHANGED <<chainVars, validatorVars>>)

PayoutsFairSpec == PayoutsSpec /\ PayoutsFairness

------------------------------------------------------------------------------
(* Properties *)

\* A verdict says what the chain says, now and for ever: verdicts that overlap
\* with later passes, are posted twice or come after a switch of branches never
\* pay a block the chain dropped, nor write off one it kept.
VerdictsAreTrue ==
    \A b \in BlockIds : blocks[b].valid # "unknown" => blocks[b].valid = VerdictOn(b).valid

\* A round without shares, at b or before, that the unlocker does not get past
Blocked(b) == \E c \in Unlockable : c <= b /\ Contributors(c) = {}

\* Paid if the chain kept it, written off if not
Settled(b) ==
    /\ b \in BlockIds
    /\ IF b \in kept THEN blocks[b].unlocked ELSE blocks[b].valid = "no"

\* Once a mined block is deep enough it is paid if the chain kept it and written
\* off if not, through failing headers, lost verdicts and deaths; unless the
\* validator has failed to reach the engine once, which halts it for good, or the
\* unlocker is stuck at an empty round.
EventuallySettled ==
    \A b \in 1..MaxRounds :
        (b \in BlockIds \ OpenBlocks /\ DeepEnough(b)) ~>
            Settled(b) \/ Halted \/ Blocked(b)
==============================================================================
