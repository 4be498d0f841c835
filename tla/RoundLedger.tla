----------------------------- MODULE RoundLedger ------------------------------
(***************************************************************************)
(* The ledger of rounds the payouts of the pool rest on: rounds follow one *)
(* another, at most one is open, a share is counted in the open round, and *)
(* a round that was closed never changes again.                            *)
(*                                                                         *)
(* PoolEngine implements this under calm traffic, and not otherwise.       *)
(***************************************************************************)
EXTENDS Naturals, Sequences

CONSTANT Wallets

VARIABLE rounds    \* in order; each with its shares by wallet

Init == rounds = <<>>

RoundIsOpen == rounds # <<>> /\ ~rounds[Len(rounds)].closed

Open ==
    /\ ~RoundIsOpen
    /\ rounds' = Append(rounds, [shares |-> [w \in Wallets |-> 0], closed |-> FALSE])

Count(w) ==
    /\ RoundIsOpen
    /\ rounds' = [rounds EXCEPT ![Len(rounds)].shares[w] = @ + 1]

Close ==
    /\ RoundIsOpen
    /\ rounds' = [rounds EXCEPT ![Len(rounds)].closed = TRUE]

Next == Open \/ Close \/ \E w \in Wallets : Count(w)

Spec == Init /\ [][Next]_rounds
==============================================================================
