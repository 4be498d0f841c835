----------------------------- MODULE ShareLedger -----------------------------
(***************************************************************************)
(* What a stratum front end of the pool promises to the people who mine    *)
(* and to the ledger behind it, whatever the protocol, the number of       *)
(* miners or the failures in between:                                      *)
(*                                                                         *)
(*   - a proof of work is accepted from one submission only;               *)
(*   - an accepted share is counted in the ledger at most once, and nothing*)
(*     that was not accepted is counted;                                   *)
(*   - a round is closed only by an accepted share, once, and only after   *)
(*     the request that counts that share has been dealt with.             *)
(*                                                                         *)
(* CryptonotePool implements this specification.                           *)
(***************************************************************************)
CONSTANTS
    Shares,       \* submissions that can be accepted
    ProofOf(_)    \* the proof of work a submission carries

VARIABLES
    accepted,     \* submissions the pool said yes to
    settled,      \* those whose counting request has been dealt with
    credited,     \* those the ledger counted
    closing       \* those that closed a round

ledgerVars == <<accepted, settled, credited, closing>>

Init ==
    /\ accepted = {}
    /\ settled = {}
    /\ credited = {}
    /\ closing = {}

\* A submission is accepted: nobody has been accepted with its proof.
Accept(s) ==
    /\ s \in Shares
    /\ \A t \in accepted : ProofOf(t) # ProofOf(s)
    /\ accepted' = accepted \cup {s}
    /\ UNCHANGED <<settled, credited, closing>>

\* Requests that left the pool are dealt with.  Those in S asked to count a
\* share: the ones in C were counted, the others were refused or lost, and there
\* is no second attempt for either.  Those in B asked to close a round, for a
\* share whose own counting request had been dealt with before.
Answer(S, C, B) ==
    /\ S \subseteq accepted \ settled
    /\ C \subseteq S
    /\ B \subseteq settled \ closing
    /\ settled' = settled \cup S
    /\ credited' = credited \cup C
    /\ closing' = closing \cup B
    /\ UNCHANGED accepted

Next ==
    \/ \E s \in accepted' \ accepted : Accept(s)   \* the step says which
    \/ \E S, B \in SUBSET accepted : \E C \in SUBSET S : Answer(S, C, B)

Spec == Init /\ [][Next]_ledgerVars
==============================================================================
