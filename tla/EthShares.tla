------------------------------- MODULE EthShares -------------------------------
(***************************************************************************)
(* Shares of the Ethereum proxy: from a miner's submission, through the    *)
(* node and the memory of proofs already seen (powStorage), to the         *)
(* engine's share and block requests.  Every submission runs in a          *)
(* goroutine of its own; nothing guards powStorage.                        *)
(***************************************************************************)
EXTENDS Naturals, Sequences, SequencesExt, FiniteSets

CONSTANTS
    Proofs,          \* (nonce, powHash, mixDigest) triples of enough difficulty
    BlockProofs,     \* those that also meet the network's difficulty
    HeightOf,        \* the height recorded with the header a proof is for
    PowWindow,       \* 8 in the code
    Backlog,         \* maxBacklog: 3 in the code
    Width,           \* uint64 in the code
    MaxTip,          \* bound: heights of the chain
    MaxSubmissions,  \* bound: submissions ever made
    MaxInFlight,     \* bound: submissions being handled at a time
    MaxFailures,     \* bound: lost requests and answers
    MaxDeaths        \* bound: deaths of the process

ASSUME EthSharesAssumption ==
    /\ BlockProofs \subseteq Proofs
    /\ HeightOf \in [Proofs -> 1..MaxTip]
    /\ PowWindow \in Nat /\ Backlog \in Nat \ {0} /\ Backlog <= PowWindow
    /\ Width \in Nat /\ 2^Width \in Nat
    /\ MaxTip \in Nat \ {0} /\ MaxTip < 2^Width
    /\ {MaxSubmissions, MaxInFlight, MaxFailures, MaxDeaths} \subseteq Nat

VARIABLES
    tip,          \* height of the proxy's current template
    pow,          \* powStorage: height -> proofs seen at it
    submissions,  \* goroutines, in order of arrival: proof, step, began
    taken,        \* blocks the node accepted
    credits,      \* submit_share requests the engine carried out, in order
    recorded,     \* submit_block requests the engine carried out, in order
    seen,         \* history: checks and marks of the memory, restarts
    failures,     \* lost requests and answers so far
    deaths        \* deaths so far

vars == <<tip, pow, submissions, taken, credits, recorded, seen, failures, deaths>>

Submissions == 1..Len(submissions)

InFlight == {r \in Submissions : submissions[r].step # "done"}

ProofOf(r) == submissions[r].proof

\* uint64 subtraction
Minus(a, b) == (a + 2^Width - b) % 2^Width

\* Mutant: A height is forgotten one too early
ForgottenEarly(h) == {k \in DOMAIN pow : Minus(h, k) >= PowWindow}

\* Heights of the memory that a check at height h deletes.  The difference is
\* unsigned, so that a height above h is as far away as one far below it.
Forgotten(h) == {k \in DOMAIN pow : Minus(h, k) > PowWindow}

Kept(h) == DOMAIN pow \ Forgotten(h)

At(r, step) == submissions[r].step = step

Event(kind, r) ==
    [kind |-> kind, proof |-> ProofOf(r), began |-> submissions[r].began]

Goto(r, step) == submissions' = [submissions EXCEPT ![r].step = step]

\* Headers the template knows: those of the last Backlog heights
Mineable(p) == HeightOf[p] <= tip /\ HeightOf[p] + Backlog > tip

------------------------------------------------------------------------------
(* Actions *)

\* A share for a header of the current template, its hash verified: a block goes
\* to the node first, any other share straight to the memory of proofs.
Submit(p) ==
    /\ Len(submissions) < MaxSubmissions
    /\ Cardinality(InFlight) < MaxInFlight
    /\ Mineable(p)
    /\ submissions' = Append(submissions,
           [proof |-> p, began |-> Len(seen),
            step |-> IF p \in BlockProofs THEN "node" ELSE "check"])
    /\ UNCHANGED <<tip, pow, taken, credits, recorded, seen, failures, deaths>>

\* eth_submitWork: the node takes a block once, and only on top of its chain
SubmitBlock(p) == p \notin taken /\ HeightOf[p] = tip

NodeTakes(r) ==
    /\ At(r, "node")
    /\ SubmitBlock(ProofOf(r))
    /\ taken' = taken \union {ProofOf(r)}
    /\ \/ Goto(r, "check") /\ UNCHANGED failures
       \/ failures < MaxFailures /\ failures' = failures + 1 /\ Goto(r, "done")
    /\ UNCHANGED <<tip, pow, credits, recorded, seen, deaths>>

\* A refused block is an invalid share: nothing is credited
NodeRefuses(r) ==
    /\ At(r, "node")
    /\ ~SubmitBlock(ProofOf(r))
    /\ Goto(r, "done")
    /\ UNCHANGED <<tip, pow, taken, credits, recorded, seen, failures, deaths>>

\* The request to the node is lost: the miner is told its share is valid, and
\* neither the share nor the block is written anywhere.
NodeUnreachable(r) ==
    /\ At(r, "node")
    /\ failures < MaxFailures /\ failures' = failures + 1
    /\ Goto(r, "done")
    /\ UNCHANGED <<tip, pow, taken, credits, recorded, seen, deaths>>

\* checkPoWExist: old heights are forgotten, and the proof is looked up
CheckPoW(r) ==
    LET p == ProofOf(r)
        h == HeightOf[p]
        known == h \in Kept(h) /\ p \in pow[h]
    IN  /\ At(r, "check")
        /\ pow' = [k \in Kept(h) \union {h} |-> IF k \in Kept(h) THEN pow[k] ELSE {}]
        /\ seen' = Append(seen, Event("checked", r))
        /\ Goto(r, IF known THEN "done" ELSE "mark")
        /\ UNCHANGED <<tip, taken, credits, recorded, failures, deaths>>

\* ... and noted.  Another goroutine may come between the two.
MarkPoW(r) ==
    LET h == HeightOf[ProofOf(r)]
    IN  /\ At(r, "mark")
        /\ h \in DOMAIN pow
        /\ pow' = [pow EXCEPT ![h] = @ \union {ProofOf(r)}]
        /\ seen' = Append(seen, Event("marked", r))
        /\ Goto(r, "share")
        /\ UNCHANGED <<tip, taken, credits, recorded, failures, deaths>>

\* ... which may even have deleted the height.  Assigning to a nil map panics: a
\* handler of net/http dies alone, a stratum goroutine takes the process along,
\* which is Crash.
MarkPanics(r) ==
    /\ At(r, "mark")
    /\ HeightOf[ProofOf(r)] \notin DOMAIN pow
    /\ deaths < MaxDeaths /\ deaths' = deaths + 1
    /\ Goto(r, "done")
    /\ UNCHANGED <<tip, pow, taken, credits, recorded, seen, failures>>

\* Mutant: WriteBlock returns after its share
ShareOnly(r) == "done"

AfterShare(r) == IF ProofOf(r) \in BlockProofs THEN "block" ELSE "done"

\* Mutant: The block is posted whether or not the share was
PostBlockAnyway(r) ==
    /\ At(r, "share")
    /\ \/ credits' = Append(credits, ProofOf(r)) /\ Goto(r, AfterShare(r))
          /\ UNCHANGED failures
       \/ failures < MaxFailures /\ failures' = failures + 1
          /\ Goto(r, AfterShare(r))
          /\ credits' \in {credits, Append(credits, ProofOf(r))}
    /\ UNCHANGED <<tip, pow, taken, recorded, seen, deaths>>

\* submit_share, answered or not.  Without an answer a block is not posted either.
PostShare(r) ==
    /\ At(r, "share")
    /\ \/ credits' = Append(credits, ProofOf(r)) /\ Goto(r, AfterShare(r))
          /\ UNCHANGED failures
       \/ failures < MaxFailures /\ failures' = failures + 1
          /\ Goto(r, "done")
          /\ credits' \in {credits, Append(credits, ProofOf(r))}
    /\ UNCHANGED <<tip, pow, taken, recorded, seen, deaths>>

\* submit_block, answered or not
PostBlock(r) ==
    /\ At(r, "block")
    /\ Goto(r, "done")
    /\ \/ recorded' = Append(recorded, ProofOf(r)) /\ UNCHANGED failures
       \/ failures < MaxFailures /\ failures' = failures + 1 /\ UNCHANGED recorded
    /\ UNCHANGED <<tip, pow, taken, credits, seen, deaths>>

\* The chain grows, and the proxy has a template for the new height
NewTemplate ==
    /\ tip < MaxTip
    /\ tip' = tip + 1
    /\ UNCHANGED <<pow, submissions, taken, credits, recorded, seen, failures, deaths>>

\* The process dies, and its memory with it: anything that panics in a stratum
\* goroutine, two goroutines in powStorage at once if the runtime notices.
Crash ==
    /\ deaths < MaxDeaths /\ deaths' = deaths + 1
    /\ pow' = << >>
    /\ submissions' = [r \in Submissions |-> [submissions[r] EXCEPT !.step = "done"]]
    /\ seen' = Append(seen, [kind |-> "restart", proof |-> "none", began |-> Len(seen)])
    /\ UNCHANGED <<tip, taken, credits, recorded, failures>>

Init ==
    /\ tip = 1
    /\ pow = << >>
    /\ submissions = << >>
    /\ taken = {}
    /\ credits = << >> /\ recorded = << >> /\ seen = << >>
    /\ failures = 0 /\ deaths = 0

processShare(r) ==
    \/ NodeTakes(r) \/ NodeRefuses(r) \/ NodeUnreachable(r)
    \/ CheckPoW(r) \/ MarkPoW(r) \/ MarkPanics(r)
    \/ PostShare(r) \/ PostBlock(r)

\* Each connection and each HTTP request is served by a goroutine of its own.
Next ==
    \/ \E p \in Proofs : Submit(p)
    \/ \E r \in Submissions : processShare(r)
    \/ NewTemplate
    \/ Crash

Spec == Init /\ [][Next]_vars

------------------------------------------------------------------------------
(* Properties *)

\* The proxy's variables hold what the code may put there.
TypeOK ==
    /\ tip \in 1..MaxTip
    /\ DOMAIN pow \subseteq 1..MaxTip
    /\ \A h \in DOMAIN pow : pow[h] \subseteq {p \in Proofs : HeightOf[p] = h}
    /\ submissions \in Seq([proof : Proofs, began : Nat,
           step : {"node", "check", "mark", "share", "block", "done"}])
    /\ taken \subseteq BlockProofs
    /\ credits \in Seq(Proofs)
    /\ recorded \in Seq(BlockProofs)
    /\ seen \in Seq([kind : {"checked", "marked", "restart"},
                     proof : Proofs \union {"none"}, began : Nat])
    /\ failures \in 0..MaxFailures
    /\ deaths \in 0..MaxDeaths

\* What makes the memory forget, between its i-th and its j-th event, a proof
\* that the j-th event lets through once more
Excuse(i, j) ==
    \/ seen[j].began < i
    \/ \E k \in i..j :
          LET h == HeightOf[seen[i].proof] IN
          \/ seen[k].kind = "restart"
          \/ seen[k].kind = "checked" /\ HeightOf[seen[k].proof] < h
          \/ /\ seen[k].kind = "checked" /\ HeightOf[seen[k].proof] > h + PowWindow
             /\ seen[j].began < k

\* checkPoWExist lets a proof through twice only if the submissions overlapped,
\* the process restarted, a share of a LOWER height came between them, or the
\* second was still being handled when the chain had left the window behind.
SecondCreditHasExcuse ==
    \A i, j \in 1..Len(seen) :
        /\ i < j
        /\ seen[i].kind = "marked" /\ seen[j].kind = "marked"
        /\ seen[i].proof = seen[j].proof
        => Excuse(i, j)

\* The engine learns of a block once, only if the node took it, and only after
\* it credited the finder's share: submit_block closes the round it belongs to.
BlockAfterItsShare ==
    /\ IsInjective(recorded)
    /\ ToSet(recorded) \subseteq taken \intersect ToSet(credits)

\* A block the node took gets to the engine, unless a request was lost or a
\* goroutine died on the way; resubmitting it cannot help, the node refuses it.
NoBlockForgotten ==
    \A p \in taken :
        \/ p \in ToSet(recorded)
        \/ \E r \in InFlight : ProofOf(r) = p /\ ~At(r, "node")
        \/ failures + deaths > 0

\* "Duplicate share, (nonce, powHash, mixDigest) pair exist": a duplicate share
\* is recognised and not credited.
DuplicateNotCredited == IsInjective(credits)

==============================================================================
