----------------------------- MODULE EthValidator -----------------------------
(***************************************************************************)
(* The block validator of the Ethereum proxy: blocks the engine knows are  *)
(* looked for on the chain, around the height they were recorded with, and *)
(* reported as valid or lost.  Any error halts it until a restart.         *)
(***************************************************************************)
EXTENDS Integers, FiniteSets, FiniteSetsExt, SequencesExt

CONSTANTS
    Candidates,   \* blocks of the pool that await a verdict
    Recorded,     \* candidate -> the height the proxy recorded
    OnChain,      \* candidate -> height of the block that is it or has it as
                  \* an uncle; 0 when it is lost
    minDepth,     \* 16 in the code
    Depth,        \* config.Depth
    MaxHeight,    \* bound: heights of the chain
    MaxErrors,    \* bound: requests that fail
    MaxRestarts   \* bound: other restarts of the process

ASSUME EthValidatorAssumption ==
    /\ minDepth \in Nat \ {0}
    /\ Depth \in Nat /\ Depth >= minDepth * 2
    /\ Recorded \in [Candidates -> Nat] /\ OnChain \in [Candidates -> Nat]
    /\ \A c \in Candidates : OnChain[c] <= Recorded[c] + Depth
    /\ IsFiniteSet(Candidates)
    /\ MaxHeight \in Nat \ {0} /\ {MaxErrors, MaxRestarts} \subseteq Nat

VARIABLES
    height,   \* the node's pending block
    verdict,  \* the engine: valid of a block
    pass,     \* validatePendingBlocks: where it is and what it found so far
    halt,     \* after an error, until the process restarts
    errors,   \* failed requests so far
    restarts  \* restarts so far

vars == <<height, verdict, pass, halt, errors, restarts>>

Resting == [at |-> "timer", listed |-> << >>, offset |-> 0,
            orphaned |-> << >>, matured |-> << >>]

At(step) == pass.at = step

\* Mutant: Candidates are listed half as deep
GetCandidatesShallow ==
    {c \in Candidates : verdict[c] = "unknown" /\ Recorded[c] < height - minDepth}

\* Candidates the engine lists that are deep enough below the pending block
GetCandidates ==
    {c \in Candidates : verdict[c] = "unknown" /\ Recorded[c] < height - Depth}

SearchStart == -minDepth

\* Mutant: the window is one height short
SearchEndShort == minDepth - 1

\* The loop ends before offset minDepth
SearchEnd == minDepth

Searched == Recorded[Head(pass.listed)] + pass.offset

\* The node has a block of the height: it answers with one, and not with null
BlockExists == Searched < height

\* The block searched, or an uncle in it, has the candidate's nonce
matchCandidate(c) == OnChain[c] # 0 /\ Searched = OnChain[c]

\* Go on with the next candidate; after the last, report
NextCandidate(p) ==
    [p EXCEPT !.listed = Tail(@), !.offset = SearchStart,
              !.at = IF Len(p.listed) = 1 THEN "report" ELSE "search"]

------------------------------------------------------------------------------
(* Actions *)

\* At the start and at every tick: the pending height and the list of candidates
Wake ==
    /\ At("timer") /\ ~halt
    /\ GetCandidates # {}
    /\ pass' = [Resting EXCEPT !.at = "search", !.offset = SearchStart,
                               !.listed = SetToSeq(GetCandidates)]
    /\ UNCHANGED <<height, verdict, halt, errors, restarts>>

\* There is no block of this height: skip it
SkipNegative ==
    /\ At("search") /\ Searched < 0
    /\ pass' = [pass EXCEPT !.offset = @ + 1]
    /\ UNCHANGED <<height, verdict, halt, errors, restarts>>

\* What is found gets its real height, hash and reward (not modelled) and is kept
\* for the report
handleBlock(p) == [p EXCEPT !.matured = Append(@, Head(p.listed))]

\* The block, or an uncle in it, is the candidate
Match ==
    LET c == Head(pass.listed)
    IN  /\ At("search") /\ Searched >= 0 /\ pass.offset < SearchEnd
        /\ BlockExists
        /\ matchCandidate(c)
        /\ pass' = NextCandidate(handleBlock(pass))
        /\ UNCHANGED <<height, verdict, halt, errors, restarts>>

\* Neither has: look at the next height
NoMatch ==
    LET c == Head(pass.listed)
    IN  /\ At("search") /\ Searched >= 0 /\ pass.offset < SearchEnd
        /\ BlockExists
        /\ ~matchCandidate(c)
        /\ pass' = [pass EXCEPT !.offset = @ + 1]
        /\ UNCHANGED <<height, verdict, halt, errors, restarts>>

\* All heights searched: the block is lost
Orphaned ==
    /\ At("search") /\ pass.offset = SearchEnd
    /\ pass' = NextCandidate([pass EXCEPT !.orphaned = Append(@, Head(pass.listed))])
    /\ UNCHANGED <<height, verdict, halt, errors, restarts>>

\* A request fails, of the node or of the engine; a block the node does not have
\* yet is an error too
Fail ==
    /\ \/ At("timer") /\ ~halt
       \/ At("search")
       \/ At("report") /\ pass.orphaned = << >> /\ pass.matured # << >>
    /\ \/ errors < MaxErrors /\ errors' = errors + 1
       \/ At("search") /\ ~BlockExists /\ UNCHANGED errors
    /\ halt' = TRUE
    /\ pass' = Resting
    /\ UNCHANGED <<height, verdict, restarts>>

\* Orphans are reported first.  ValidateBlock divides the reward, which
\* only a block that was found has: the nil dereference kills the process, and its
\* container starts it again, with the same candidates.
ReportOrphan ==
    /\ At("report") /\ pass.orphaned # << >>
    /\ pass' = Resting
    /\ UNCHANGED <<height, verdict, halt, errors, restarts>>

\* Mutant: A report ends the pass
ReportFirst ==
    /\ At("report") /\ pass.orphaned = << >> /\ pass.matured # << >>
    /\ verdict' = [verdict EXCEPT ![Head(pass.matured)] = "yes"]
    /\ pass' = [pass EXCEPT !.matured = << >>, !.at = "done"]
    /\ UNCHANGED <<height, halt, errors, restarts>>

\* Then the blocks that were found, one request each
ReportMatured ==
    /\ At("report") /\ pass.orphaned = << >> /\ pass.matured # << >>
    /\ verdict' = [verdict EXCEPT ![Head(pass.matured)] = "yes"]
    /\ pass' = [pass EXCEPT !.matured = Tail(@)]
    /\ UNCHANGED <<height, halt, errors, restarts>>

\* The pass is over: the timer is set again
Rest ==
    /\ At("report") /\ pass.orphaned = << >> /\ pass.matured = << >>
    /\ pass' = Resting
    /\ UNCHANGED <<height, verdict, halt, errors, restarts>>

\* The process is started anew, its halt forgotten
Restart ==
    /\ restarts < MaxRestarts /\ restarts' = restarts + 1
    /\ halt' = FALSE
    /\ pass' = Resting
    /\ UNCHANGED <<height, verdict, errors>>

NewBlock ==
    /\ height < MaxHeight
    /\ height' = height + 1
    /\ UNCHANGED <<verdict, pass, halt, errors, restarts>>

Init ==
    /\ height = 1
    /\ verdict = [c \in Candidates |-> "unknown"]
    /\ pass = Resting
    /\ halt = FALSE
    /\ errors = 0 /\ restarts = 0

Step ==
    \/ Wake
    \/ SkipNegative \/ Match \/ NoMatch \/ Orphaned
    \/ ReportOrphan \/ ReportMatured \/ Rest

Next == Step \/ Fail \/ Restart \/ NewBlock

Spec == Init /\ [][Next]_vars

\* The timer is set again after every pass, and requests to the node have a
\* timeout.  Nobody is assumed to restart a halted validator, nor the chain to grow.
FairSpec == Spec /\ WF_vars(Step)

------------------------------------------------------------------------------
(* Properties *)

\* The validator's variables hold what the code may put there.
TypeOK ==
    /\ height \in 1..MaxHeight
    /\ verdict \in [Candidates -> {"unknown", "yes", "no"}]
    /\ pass.at \in {"timer", "search", "report"}
    /\ pass.offset \in SearchStart..SearchEnd
    /\ UNION {ToSet(pass.listed), ToSet(pass.orphaned), ToSet(pass.matured)}
          \subseteq Candidates
    /\ halt \in BOOLEAN
    /\ errors \in 0..MaxErrors /\ restarts \in 0..MaxRestarts

\* A block is found valid only if it is on the chain, and deep enough that
\* minDepth blocks lie above it whatever height it really has.
ValidIsBuried ==
    \A c \in Candidates :
        verdict[c] = "yes" => OnChain[c] # 0 /\ OnChain[c] + minDepth < height

\* On no chain, or outside of the window the search covers: more than minDepth below
\* the recorded height, or minDepth or more above it.  (The comment at
\* validator.go:96 counts one more above.)
OutOfWindow(c) ==
    \/ OnChain[c] = 0
    \/ OnChain[c] < Recorded[c] - minDepth
    \/ OnChain[c] >= Recorded[c] + minDepth

\* No block the window covers is taken for lost, in any pass, wherever it is in the
\* list and whatever was found before it.
OrphansOutOfWindow == \A c \in ToSet(pass.orphaned) : OutOfWindow(c)

\* A block that will be taken for lost is deep enough to be listed.
LostListed == \E c \in Candidates : OutOfWindow(c) /\ Recorded[c] < height - Depth

\* Every block the window covers is found valid when it is deep enough, also if the
\* process dies in the middle of a pass; unless an error halts the validator, or a
\* lost block is listed: reporting that one kills the process, in every pass.
EventuallyValid ==
    \A c \in Candidates :
        Recorded[c] < height - Depth ~> verdict[c] = "yes" \/ halt \/ LostListed
==============================================================================
