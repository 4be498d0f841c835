---------------------------- MODULE CryptonotePool ----------------------------
(***************************************************************************)
(* One fork of the CryptoNote stratum server, src/pool_cryptonote/pool.js. *)
(*                                                                         *)
(* The fork is one Node.js thread: a handler (a miner's message, a timer,  *)
(* an answer from the daemon or from the engine) runs to its end before    *)
(* the next, so it is one action here.  What interleaves is everything     *)
(* between the handlers: several template requests and several submitblock,*)
(* /submit_share and /submit_block requests are on their way at once, each *)
(* may be answered, refused or lost, miners log in, ask for jobs and submit*)
(* in any order, and the process may die and be respawned with its memory  *)
(* gone.                                                                   *)
(*                                                                         *)
(* Abstracted: the blob of a job is its (height, extraNonce) under the     *)
(* fork's random instanceId (here: the number of the incarnation); the hash*)
(* of a nonce is a quality, the difficulty it reaches; variable difficulty *)
(* may retarget any miner to any difficulty; the parsing of the login and  *)
(* the wording of replies are left out.                                    *)
(***************************************************************************)
EXTENDS Naturals, Sequences, FiniteSets

CONSTANTS
    JobHistory,         \* jobs remembered per miner (4 in the code)
    TemplateHistory,    \* templates remembered besides the current one (3)
    Nonces,             \* well-formed nonces a miner may send
    Difficulties,       \* difficulties a miner may be given
    Qualities,          \* difficulties a hash may reach
    NetDifficulty,      \* difficulty of the coin's network
    MaxHeight,          \* bound: highest block the daemon proposes
    MaxMiners,          \* bound: logins per incarnation
    MaxExtraNonce,      \* bound: jobs cut from one template
    MaxAccepted,        \* bound: accepted submissions
    MaxRefreshes,       \* bound: refreshes in flight besides the poll loop's
    MaxRestarts         \* bound: respawns of the process

\* A job remembered by a miner is never older than the remembered templates.
ASSUME HistoryAssumption ==
    /\ JobHistory \in Nat \ {0}
    /\ TemplateHistory \in Nat \ {0}
    /\ JobHistory <= TemplateHistory + 1

ASSUME BoundsAssumption ==
    /\ Difficulties \subseteq Nat \ {0}
    /\ Qualities \subseteq Nat
    /\ NetDifficulty \in Nat
    /\ {MaxHeight, MaxMiners, MaxExtraNonce, MaxAccepted, MaxRefreshes,
        MaxRestarts} \subseteq Nat
    /\ MaxMiners <= MaxExtraNonce

VARIABLES
    tip,          \* height the daemon works on (external)
    boot,         \* "starting", "listening" or "failed"
    poll,         \* the poll loop: request "sent", or timer "armed"
    refreshes,    \* number of refreshes in flight that are not the loop's
    current,      \* currentBlockTemplate
    valid,        \* validBlockTemplates, oldest first
    miners,       \* connectedMiners, in order of login
    calls,        \* requests in flight to the daemon and to the engine
    accepted,     \* submissions processShare returned true for
    credited,     \* those the engine counted
    closing,      \* those the engine closed a round for
    incarnation   \* respawns so far; stands for the random instanceId

poolVars == <<boot, poll, refreshes, current, valid, miners>>
ledgerVars == <<accepted, credited, closing>>
vars == <<tip, poolVars, calls, ledgerVars, incarnation>>

------------------------------------------------------------------------------
(* Data *)

Templates == [height : Nat, extraNonce : Nat]

\* currentBlockTemplate before the first answer of the daemon.
NoTemplate == [height |-> 0, extraNonce |-> 0]

Jobs == [height : Nat, extraNonce : Nat, difficulty : Difficulties,
         submissions : Seq(Nonces)]

Miners == [difficulty : Difficulties, lastBlockHeight : Nat, validJobs : Seq(Jobs)]

\* A submission that was accepted: entry `at' of the submissions of a job.
Shares == [incarnation : Nat, miner : Nat, height : Nat, extraNonce : Nat,
           nonce : Nonces, at : Nat]

\* The block blob a submission hashes: what makes a share a proof of work.
ProofOf(s) == <<s.incarnation, s.height, s.extraNonce, s.nonce>>

\* submitblock to the daemon; /submit_share, with or without a block candidate,
\* and /submit_block to the engine.
Calls == [kind : {"submitblock", "share", "candidate", "block"}, share : Shares]

MinerIds == 1..Len(miners)

\* push, then shift when longer than n
PushBounded(seq, x, n) ==
    IF Len(seq) < n THEN Append(seq, x) ELSE Tail(Append(seq, x))

------------------------------------------------------------------------------
(* Jobs *)

\* A job is due unless the miner has one for this height and keeps its
\* difficulty: getJob then answers with an empty job.
JobDue(m, template, difficulty) ==
    m.lastBlockHeight # template.height \/ m.difficulty # difficulty

NewJob(template, extraNonce, difficulty) ==
    [height |-> template.height, extraNonce |-> extraNonce,
     difficulty |-> difficulty, submissions |-> <<>>]

WithJob(m, job) ==
    [difficulty |-> job.difficulty,
     lastBlockHeight |-> job.height,
     validJobs |-> PushBounded(m.validJobs, job, JobHistory)]

\* Position of miner i among those of D, in the order of connectedMiners.
Rank(D, i) == Cardinality({j \in D : j <= i})

\* Those of the miners `asked' getJob has a job for, at difficulty diff[i].
Due(ms, asked, template, diff) ==
    {i \in asked : JobDue(ms[i], template, diff[i])}

\* Mutant of HandOut: the template forgets which extraNonce it has given out.
HandOutSameNonce(ms, asked, template, diff) ==
    LET D == Due(ms, asked, template, diff) IN
    /\ miners' = [i \in 1..Len(ms) |->
           IF i \in D
           THEN WithJob(ms[i],
                        NewJob(template, template.extraNonce + Rank(D, i), diff[i]))
           ELSE ms[i]]
    /\ current' = template

\* getJob for each miner asked, in turn: each job takes the template's next
\* extraNonce.
HandOut(ms, asked, template, diff) ==
    LET D == Due(ms, asked, template, diff) IN
    /\ template.extraNonce + Cardinality(D) <= MaxExtraNonce
    /\ miners' = [i \in 1..Len(ms) |->
           IF i \in D
           THEN WithJob(ms[i],
                        NewJob(template, template.extraNonce + Rank(D, i), diff[i]))
           ELSE ms[i]]
    /\ current' = [template EXCEPT !.extraNonce = @ + Cardinality(D)]

SameDifficulty == [i \in MinerIds |-> miners[i].difficulty]

------------------------------------------------------------------------------
(* Template refresh *)

\* Mutant of AdoptTemplate: one template fewer is remembered.
AdoptTemplateShort(height) ==
    /\ valid' = IF current.height = 0 THEN valid
                ELSE PushBounded(valid, current, TemplateHistory - 1)
    /\ HandOut(miners, MinerIds, [height |-> height, extraNonce |-> 0], SameDifficulty)

\* Mutant of AdoptTemplate: the connected miners are not told.
AdoptTemplateSilently(height) ==
    /\ valid' = IF current.height = 0 THEN valid
                ELSE PushBounded(valid, current, TemplateHistory)
    /\ HandOut(miners, {}, [height |-> height, extraNonce |-> 0], SameDifficulty)

\* processBlockTemplate, when the answer is higher than what is being mined.
AdoptTemplate(height) ==
    /\ valid' = IF current.height = 0 THEN valid
                ELSE PushBounded(valid, current, TemplateHistory)
    /\ HandOut(miners, MinerIds, [height |-> height, extraNonce |-> 0], SameDifficulty)

\* The loop's timer fires.
PollTimer ==
    /\ poll = "armed"
    /\ poll' = "sent"
    /\ UNCHANGED <<tip, boot, refreshes, current, valid, miners, calls, ledgerVars,
                   incarnation>>

\* Mutant of RequestEnds: the loop's request is counted down like the others.
RequestEndsMiscounted(loop, ok) ==
    /\ IF loop THEN poll = "sent" ELSE refreshes > 0
    /\ poll' = IF loop THEN "armed" ELSE poll
    /\ refreshes' = refreshes - 1
    /\ boot' = IF loop /\ boot = "starting"
               THEN IF ok THEN "listening" ELSE "failed"
               ELSE boot
    /\ UNCHANGED <<tip, calls, ledgerVars, incarnation>>

\* Mutant of RequestEnds: the loop rearms its timer only after a good answer.
RequestEndsOnlyIfOk(loop, ok) ==
    /\ IF loop THEN poll = "sent" ELSE refreshes > 0
    /\ poll' = IF loop THEN (IF ok THEN "armed" ELSE "lost") ELSE poll
    /\ refreshes' = IF loop THEN refreshes ELSE refreshes - 1
    /\ boot' = IF loop /\ boot = "starting"
               THEN IF ok THEN "listening" ELSE "failed"
               ELSE boot
    /\ UNCHANGED <<tip, calls, ledgerVars, incarnation>>

\* A template request ends.  The loop's rearms its timer whatever the outcome;
\* only the very first one decides whether the server starts.
RequestEnds(loop, ok) ==
    /\ IF loop THEN poll = "sent" ELSE refreshes > 0
    /\ poll' = IF loop THEN "armed" ELSE poll
    /\ refreshes' = IF loop THEN refreshes ELSE refreshes - 1
    /\ boot' = IF loop /\ boot = "starting"
               THEN IF ok THEN "listening" ELSE "failed"
               ELSE boot
    /\ UNCHANGED <<tip, calls, ledgerVars, incarnation>>

RefreshAnswered(loop, height) ==
    /\ RequestEnds(loop, TRUE)
    /\ IF height > current.height
       THEN AdoptTemplate(height)
       ELSE UNCHANGED <<current, valid, miners>>

RefreshFails(loop) ==
    /\ RequestEnds(loop, FALSE)
    /\ UNCHANGED <<current, valid, miners>>

\* The daemon moves on (external).
NewTip ==
    /\ tip < MaxHeight
    /\ tip' = tip + 1
    /\ UNCHANGED <<poolVars, calls, ledgerVars, incarnation>>

------------------------------------------------------------------------------
(* Miners *)

Login(difficulty) ==
    /\ boot = "listening"
    /\ Len(miners) < MaxMiners
    /\ LET m == [difficulty |-> difficulty, lastBlockHeight |-> 0, validJobs |-> <<>>]
           ms == Append(miners, m)
       IN  HandOut(ms, {Len(ms)}, current, [i \in 1..Len(ms) |-> ms[i].difficulty])
    /\ UNCHANGED <<tip, boot, poll, refreshes, valid, calls, ledgerVars, incarnation>>

\* The retarget timer goes over all miners: setNewDiff for those it changes.
\* A login that fixed its difficulty is one the timer never changes.
Retarget ==
    /\ \E diff \in [MinerIds -> Difficulties] :
           HandOut(miners, {i \in MinerIds : diff[i] # miners[i].difficulty},
                   current, diff)
    /\ UNCHANGED <<tip, boot, poll, refreshes, valid, calls, ledgerVars, incarnation>>

GetJob(i) ==
    /\ HandOut(miners, {i}, current, SameDifficulty)
    /\ UNCHANGED <<tip, boot, poll, refreshes, valid, calls, ledgerVars, incarnation>>

\* Some remembered template is for this height.
TemplateKnown(height) ==
    \/ current.height = height
    \/ \E t \in 1..Len(valid) : valid[t].height = height

\* processShare: the miner's result must be the hash, and its quality reach the
\* network's difficulty (a block) or else the job's.
ShareTaken(job, quality, matches) ==
    /\ TemplateKnown(job.height)
    /\ matches
    /\ quality >= NetDifficulty \/ quality >= job.difficulty

\* Mutant of Submit: the nonces a job has seen are not looked at.
SubmitAgain(i, k, nonce, quality, matches) ==
    LET job == miners[i].validJobs[k]
        share == [incarnation |-> incarnation, miner |-> i,
                  height |-> job.height, extraNonce |-> job.extraNonce,
                  nonce |-> nonce, at |-> Len(job.submissions) + 1]
        kind == IF quality >= NetDifficulty THEN "submitblock" ELSE "share"
    IN
    /\ miners' = [miners EXCEPT ![i].validJobs[k].submissions = Append(@, nonce)]
    /\ ShareTaken(job, quality, matches)
    /\ Cardinality(accepted) < MaxAccepted
    /\ accepted' = accepted \cup {share}
    /\ calls' = calls \cup {[kind |-> kind, share |-> share]}
    /\ UNCHANGED <<tip, boot, poll, refreshes, current, valid, credited, closing,
                   incarnation>>

\* A submission for remembered job k of miner i.  A nonce the job has seen is
\* refused; any other is noted before it is judged.
Submit(i, k, nonce, quality, matches) ==
    LET job == miners[i].validJobs[k]
        share == [incarnation |-> incarnation, miner |-> i,
                  height |-> job.height, extraNonce |-> job.extraNonce,
                  nonce |-> nonce, at |-> Len(job.submissions) + 1]
        kind == IF quality >= NetDifficulty THEN "submitblock" ELSE "share"
    IN
    /\ \A n \in 1..Len(job.submissions) : job.submissions[n] # nonce
    /\ miners' = [miners EXCEPT ![i].validJobs[k].submissions = Append(@, nonce)]
    /\ IF ShareTaken(job, quality, matches)
       THEN /\ Cardinality(accepted) < MaxAccepted
            /\ accepted' = accepted \cup {share}
            /\ calls' = calls \cup {[kind |-> kind, share |-> share]}
       ELSE UNCHANGED <<accepted, calls>>
    /\ UNCHANGED <<tip, boot, poll, refreshes, current, valid, credited, closing,
                   incarnation>>

------------------------------------------------------------------------------
(* Answers *)

\* recordShareData: /submit_share is posted, for a block candidate or not.
RecordShare(c, kind) ==
    calls' = (calls \ {c}) \cup {[kind |-> kind, share |-> c.share]}

\* Mutant of BlockTaken: the block is posted without waiting for its share.
BlockTakenAtOnce(c) ==
    /\ c.kind = "submitblock"
    /\ refreshes < MaxRefreshes
    /\ calls' = (calls \ {c}) \cup {[kind |-> "share", share |-> c.share],
                                    [kind |-> "block", share |-> c.share]}
    /\ refreshes' = refreshes + 1
    /\ UNCHANGED <<tip, boot, poll, current, valid, miners, ledgerVars, incarnation>>

\* submitblock succeeded: record the candidate's share, then refresh.
BlockTaken(c) ==
    /\ c.kind = "submitblock"
    /\ refreshes < MaxRefreshes
    /\ RecordShare(c, "candidate")
    /\ refreshes' = refreshes + 1
    /\ UNCHANGED <<tip, boot, poll, current, valid, miners, ledgerVars, incarnation>>

\* submitblock failed: the submission counts as an ordinary share.
BlockRefused(c) ==
    /\ c.kind = "submitblock"
    /\ RecordShare(c, "share")
    /\ UNCHANGED <<tip, poolVars, ledgerVars, incarnation>>

\* /submit_share ends.  The engine may have counted it or not, and the response
\* may arrive or not; only a response posts the candidate's block, and it does
\* so whatever its status.
SharePosted(c, counted, responded) ==
    /\ c.kind \in {"share", "candidate"}
    /\ credited' = IF counted THEN credited \cup {c.share} ELSE credited
    /\ IF c.kind = "candidate" /\ responded
       THEN RecordShare(c, "block")
       ELSE calls' = calls \ {c}
    /\ UNCHANGED <<tip, poolVars, accepted, closing, incarnation>>

\* /submit_block ends; nothing depends on the response.
BlockPosted(c, closed) ==
    /\ c.kind = "block"
    /\ closing' = IF closed THEN closing \cup {c.share} ELSE closing
    /\ calls' = calls \ {c}
    /\ UNCHANGED <<tip, poolVars, accepted, credited, incarnation>>

------------------------------------------------------------------------------
(* Process *)

\* An uncaught exception ends the fork and the master respawns it.  Requests in
\* flight are either handled by the other side (those in R) or lost.
Crash(R) ==
    /\ incarnation < MaxRestarts
    /\ incarnation' = incarnation + 1
    /\ boot' = "starting" /\ poll' = "sent" /\ refreshes' = 0
    /\ current' = NoTemplate /\ valid' = <<>> /\ miners' = <<>>
    /\ calls' = {}
    /\ credited' = credited \cup {c.share : c \in {d \in R : d.kind \in {"share", "candidate"}}}
    /\ closing' = closing \cup {c.share : c \in {d \in R : d.kind = "block"}}
    /\ UNCHANGED <<tip, accepted>>

Init ==
    /\ tip \in 1..MaxHeight
    /\ boot = "starting" /\ poll = "sent" /\ refreshes = 0
    /\ current = NoTemplate /\ valid = <<>> /\ miners = <<>>
    /\ calls = {}
    /\ accepted = {} /\ credited = {} /\ closing = {}
    /\ incarnation = 0

MinerStep ==
    \/ \E d \in Difficulties : Login(d)
    \/ \E i \in MinerIds : GetJob(i)
    \/ \E i \in MinerIds : \E k \in 1..Len(miners[i].validJobs),
          nonce \in Nonces, quality \in Qualities, matches \in BOOLEAN :
          Submit(i, k, nonce, quality, matches)

AnswerStep ==
    \/ \E loop \in BOOLEAN : \E h \in 1..tip : RefreshAnswered(loop, h)
    \/ \E loop \in BOOLEAN : RefreshFails(loop)
    \/ \E c \in calls :
          \/ BlockTaken(c)
          \/ BlockRefused(c)
          \/ \E counted, responded \in BOOLEAN : SharePosted(c, counted, responded)
          \/ \E closed \in BOOLEAN : BlockPosted(c, closed)

Next ==
    \/ NewTip
    \/ PollTimer
    \/ Retarget
    \/ MinerStep
    \/ AnswerStep
    \/ \E R \in SUBSET calls : Crash(R)

Spec == Init /\ [][Next]_vars

\* Timers fire, requests end, and the daemon answers with its tip over and over.
Fairness ==
    /\ WF_vars(PollTimer)
    /\ SF_vars(RefreshAnswered(TRUE, tip))

FairSpec == Spec /\ Fairness

------------------------------------------------------------------------------
(* Properties *)

\* Every variable holds what the code may put there.
TypeOK ==
    /\ tip \in Nat
    /\ boot \in {"starting", "listening", "failed"}
    /\ poll \in {"sent", "armed"}
    /\ refreshes \in Nat
    /\ current \in Templates
    /\ valid \in Seq(Templates)
    /\ miners \in Seq(Miners)
    /\ calls \subseteq Calls
    /\ accepted \subseteq Shares
    /\ credited \subseteq Shares
    /\ closing \subseteq Shares
    /\ incarnation \in Nat

\* A job a miner may still submit for has its template: the reply `Block
\* expired' of the submit handler is never given, however the two bounded
\* histories (4 jobs per miner, 3 old templates) are driven by refreshes,
\* retargets and logins.
JobsHaveTemplates ==
    \A i \in MinerIds : \A k \in 1..Len(miners[i].validJobs) :
        TemplateKnown(miners[i].validJobs[k].height)

\* Nobody mines a stale block between two handlers: each connected miner's
\* newest job is for the current template, at the miner's current difficulty.
EveryMinerUpToDate ==
    \A i \in MinerIds :
        LET m == miners[i] IN
        /\ Len(m.validJobs) > 0
        /\ m.lastBlockHeight = current.height
        /\ m.validJobs[Len(m.validJobs)].height = current.height
        /\ m.validJobs[Len(m.validJobs)].difficulty = m.difficulty

\* Two miners, or two jobs of one miner, never work on the same blob.
DistinctJobs ==
    \A i1, i2 \in MinerIds :
        \A k1 \in 1..Len(miners[i1].validJobs), k2 \in 1..Len(miners[i2].validJobs) :
            LET j1 == miners[i1].validJobs[k1]
                j2 == miners[i2].validJobs[k2]
            IN  /\ j1.height = j2.height
                /\ j1.extraNonce = j2.extraNonce
                => i1 = i2 /\ k1 = k2

\* One proof of work is accepted from one submission, although the memory of
\* what was submitted lives in each job, jobs are forgotten, and a respawn
\* forgets everything.
OneSubmissionPerProof ==
    \A s, t \in accepted : ProofOf(s) = ProofOf(t) => s = t

\* Accepted shares whose counting request is not on its way any more.
Settled ==
    accepted \ {c.share : c \in {d \in calls : d.kind # "block"}}

Ledger == INSTANCE ShareLedger WITH settled <- Settled

\* The fork keeps the promises of ShareLedger: a proof is accepted once, a share
\* is counted at most once, and a round is closed once, by a share whose own
\* counting request has ended before.
LedgerSpec == Ledger!Spec

\* The poll loop outlives errors, lost answers and respawns: whatever height the
\* daemon reaches, the pool mines at it or beyond, and so does every miner.
CatchUp ==
    \A h \in 1..MaxHeight :
        (tip >= h) ~> /\ current.height >= h
                      /\ \A i \in MinerIds : miners[i].lastBlockHeight >= h
==============================================================================
