------------------------- MODULE CryptonotePoolProofs -------------------------
(***************************************************************************)
(* Theorems about CryptonotePool, for every length of the two histories    *)
(* that HistoryAssumption allows, every set of nonces and difficulties, and*)
(* every bound.                                                            *)
(*                                                                         *)
(* The argument goes through IInv.  Its heart is JobInv: going back d jobs *)
(* in a miner's validJobs goes back at most d templates, because each new  *)
(* template gives every miner a job.  So a template that falls off the end *)
(* of validBlockTemplates takes no remembered job with it.                 *)
(***************************************************************************)
EXTENDS CryptonotePool, FiniteSetTheorems, SequenceTheorems, TLAPS

------------------------------------------------------------------------------
(* The inductive invariant *)

JobsOf(ms, i) == 1..Len(ms[i].validJobs)

\* Remembered templates: at most TemplateHistory, in the order of their heights,
\* all below the current one; nobody is connected before the first template.
TemplateInv ==
    /\ Len(valid) <= TemplateHistory
    /\ \A t \in 1..Len(valid) : 0 < valid[t].height /\ valid[t].height < current.height
    /\ \A t, u \in 1..Len(valid) : t < u => valid[t].height < valid[u].height
    /\ current.height = 0 => Len(miners) = 0
    /\ boot = "listening" => current.height > 0

\* Each miner's jobs: at most JobHistory, the newest for the current template.
MinerInv(i) ==
    LET m == miners[i] IN
    /\ Len(m.validJobs) > 0
    /\ Len(m.validJobs) <= JobHistory
    /\ m.lastBlockHeight = current.height
    /\ m.validJobs[Len(m.validJobs)].height = current.height
    /\ m.validJobs[Len(m.validJobs)].difficulty = m.difficulty

\* Job k of miner i: its template is remembered, and templates further back than
\* the job is in the miner's list are older than it.
JobInv(i, k) ==
    LET jobs == miners[i].validJobs IN
    /\ TemplateKnown(jobs[k].height)
    /\ jobs[k].height <= current.height
    /\ \A t \in 1..Len(valid) :
           Len(valid) + 1 - t > Len(jobs) - k => valid[t].height < jobs[k].height
    /\ jobs[k].height = current.height => jobs[k].extraNonce <= current.extraNonce

\* An accepted share of this incarnation was cut from a template no newer than
\* the given one, and is noted in its job as long as that is remembered.
ShareIn(s, ms, template) ==
    /\ s.incarnation <= incarnation
    /\ s.incarnation = incarnation =>
        /\ s.height <= template.height
        /\ s.height = template.height => s.extraNonce <= template.extraNonce
        /\ \A i \in 1..Len(ms) : \A k \in JobsOf(ms, i) :
              LET job == ms[i].validJobs[k] IN
              job.height = s.height /\ job.extraNonce = s.extraNonce
              => /\ i = s.miner
                 /\ s.at \in 1..Len(job.submissions)
                 /\ job.submissions[s.at] = s.nonce

\* The inductive invariant
IInv ==
    /\ TypeOK
    /\ TemplateInv
    /\ \A i \in MinerIds : MinerInv(i)
    /\ \A i \in MinerIds : \A k \in JobsOf(miners, i) : JobInv(i, k)
    /\ DistinctJobs
    /\ \A s \in accepted : ShareIn(s, miners, current)
    /\ OneSubmissionPerProof

------------------------------------------------------------------------------
(* Helpers *)

\* r is seq with x pushed: x is last and, before it, come the newest elements of
\* seq in their order; one is gone when seq was n long.
Pushed(r, seq, x, n) ==
    /\ Len(r) = IF Len(seq) < n THEN Len(seq) + 1 ELSE n
    /\ r[Len(r)] = x
    /\ \A k \in 1..Len(r) : k < Len(r) =>
          /\ k + Len(seq) + 1 - Len(r) \in 1..Len(seq)
          /\ r[k] = seq[k + Len(seq) + 1 - Len(r)]

\* A bounded push appends, and drops the oldest when the list is full.
LEMMA PushBoundedShape ==
    ASSUME NEW S, NEW seq \in Seq(S), NEW x \in S, NEW n \in Nat \ {0},
           Len(seq) <= n
    PROVE  /\ PushBounded(seq, x, n) \in Seq(S)
           /\ Pushed(PushBounded(seq, x, n), seq, x, n)
<1> DEFINE r == PushBounded(seq, x, n)
<1>1. CASE Len(seq) < n
  <2>1. r = Append(seq, x)
    BY <1>1 DEF PushBounded
  <2>. QED  BY <1>1, <2>1 DEF Pushed
<1>2. CASE Len(seq) = n
  <2>1. r = Tail(Append(seq, x))
    BY <1>2 DEF PushBounded
  <2>2. /\ r \in Seq(S)
        /\ Len(r) = Len(seq)
        /\ \A k \in 1..Len(r) : r[k] = Append(seq, x)[k + 1]
    BY <2>1
  <2>3. \A k \in 1..Len(r) : r[k] = IF k = Len(r) THEN x ELSE seq[k + 1]
    BY <2>2
  <2>4. Len(r) \in 1..Len(r)
    BY <1>2, <2>2
  <2>. QED  BY <1>2, <2>2, <2>3, <2>4 DEF Pushed
<1>. QED  BY <1>1, <1>2

\* Ranks number the members of a set of positions without repetition.
LEMMA RankIsNumbering ==
    ASSUME NEW n \in Nat, NEW D \in SUBSET (1..n)
    PROVE  /\ Cardinality(D) \in Nat
           /\ \A i \in D : Rank(D, i) \in 1..Cardinality(D)
           /\ \A i, j \in D : i # j => Rank(D, i) # Rank(D, j)
<1> DEFINE Upto(i) == {k \in D : k <= i}
<1>0. \A i \in D : i \in Int
  OBVIOUS
<1>1. IsFiniteSet(D) /\ Cardinality(D) \in Nat
  <2>1. IsFiniteSet(1..n)
    BY FS_Interval
  <2>2. IsFiniteSet(D)
    BY <2>1, FS_Subset
  <2>. QED  BY <2>2, FS_CardinalityType
<1>2. \A i \in D : /\ IsFiniteSet(Upto(i))
                   /\ Cardinality(Upto(i)) \in Nat
                   /\ Cardinality(Upto(i)) <= Cardinality(D)
                   /\ Cardinality(Upto(i)) # 0
  <2> TAKE i \in D
  <2>1. Upto(i) \in SUBSET D /\ i \in Upto(i)
    BY <1>0
  <2>2. IsFiniteSet(Upto(i)) /\ Cardinality(Upto(i)) <= Cardinality(D)
    BY <1>1, <2>1, FS_Subset
  <2>. QED  BY <2>1, <2>2, FS_CardinalityType, FS_EmptySet
<1>3. ASSUME NEW i \in D, NEW j \in D, i < j
      PROVE  Cardinality(Upto(i)) # Cardinality(Upto(j))
  <2>1. ~(j <= i) /\ j <= j /\ \A k \in D : k <= i => k <= j
    BY <1>0, <1>3
  <2>2. Upto(i) \in SUBSET Upto(j) /\ j \in Upto(j) /\ j \notin Upto(i)
    BY <2>1
  <2>3. Upto(i) # Upto(j)
    BY <2>2
  <2>. QED  BY <1>2, <2>2, <2>3, FS_Subset
<1>4. \A i \in D : Rank(D, i) = Cardinality(Upto(i))
  BY DEF Rank
<1>5. ASSUME NEW i \in D, NEW j \in D, i # j
      PROVE  Rank(D, i) # Rank(D, j)
  <2>1. i < j \/ j < i
    BY <1>0, <1>5
  <2>. QED  BY <1>3, <1>4, <2>1
<1>6. ASSUME NEW i \in D
      PROVE  Rank(D, i) \in 1..Cardinality(D)
  <2>1. /\ Cardinality(Upto(i)) \in Nat
        /\ Cardinality(Upto(i)) <= Cardinality(D)
        /\ Cardinality(Upto(i)) # 0
    BY <1>2
  <2> HIDE DEF Upto
  <2>. QED  BY <1>1, <1>4, <2>1
<1>. QED  BY <1>1, <1>5, <1>6

------------------------------------------------------------------------------
(* What handing out jobs does *)

\* The template keeps its height and loses n extraNonces; each miner of D gets a
\* job with one of them, no two the same; the others are left alone.
HandedOut(ms, D, template, diff, n, rank) ==
    /\ current' = [height |-> template.height,
                   extraNonce |-> template.extraNonce + n]
    /\ Len(miners') = Len(ms)
    /\ miners' = [i \in 1..Len(ms) |-> miners'[i]]
    /\ \A i \in 1..Len(ms) : i \notin D => miners'[i] = ms[i]
    /\ \A i \in D :
          /\ miners'[i] = WithJob(ms[i],
                              NewJob(template, template.extraNonce + rank[i], diff[i]))
          /\ rank[i] \in 1..n
    /\ \A i, j \in D : i # j => rank[i] # rank[j]

\* A template handed out: one new job for every miner, cut from it in their order.
LEMMA HandOutShape ==
    ASSUME NEW ms \in Seq(Miners), NEW asked \in SUBSET (1..Len(ms)),
           NEW template \in Templates, NEW diff \in [1..Len(ms) -> Difficulties],
           HandOut(ms, asked, template, diff)
    PROVE  \E n \in Nat, rank \in [1..Len(ms) -> Nat] :
              HandedOut(ms, Due(ms, asked, template, diff), template, diff, n, rank)
<1> DEFINE D == Due(ms, asked, template, diff)
           n == Cardinality(D)
           rank == [i \in 1..Len(ms) |-> IF i \in D THEN Rank(D, i) ELSE 0]
<1>1. D \in SUBSET (1..Len(ms))
  BY DEF Due
<1>2. Len(ms) \in Nat
  OBVIOUS
<1>3. /\ n \in Nat
      /\ \A i \in D : Rank(D, i) \in 1..n
      /\ \A i, j \in D : i # j => Rank(D, i) # Rank(D, j)
  <2> HIDE DEF D
  <2>. QED  BY <1>1, <1>2, RankIsNumbering
<1>4. /\ miners' = [i \in 1..Len(ms) |->
             IF i \in D
             THEN WithJob(ms[i],
                          NewJob(template, template.extraNonce + Rank(D, i), diff[i]))
             ELSE ms[i]]
      /\ current' = [template EXCEPT !.extraNonce = @ + n]
  BY DEF HandOut
<1> HIDE DEF D
<1>5. current' = [height |-> template.height, extraNonce |-> template.extraNonce + n]
  BY <1>4 DEF Templates
<1>6. rank \in [1..Len(ms) -> Nat]
  BY <1>3
<1>7. \A i \in D : rank[i] = Rank(D, i)
  BY <1>1
<1>8. Len(miners') = Len(ms) /\ miners' = [i \in 1..Len(ms) |-> miners'[i]]
  BY <1>2, <1>4
<1>9. \A i \in 1..Len(ms) : i \notin D => miners'[i] = ms[i]
  BY <1>4
<1>10. \A i \in D : miners'[i] = WithJob(ms[i],
                        NewJob(template, template.extraNonce + rank[i], diff[i]))
  BY <1>1, <1>4, <1>7
<1>11. HandedOut(ms, D, template, diff, n, rank)
  <2> HIDE DEF n, rank
  <2>. QED  BY <1>3, <1>5, <1>7, <1>8, <1>9, <1>10 DEF HandedOut
<1>. QED  BY <1>3, <1>6, <1>11 DEF D

\* Seen from a miner that got a job.
GotJob(ms, i, template, diff, rank) ==
    /\ Pushed(miners'[i].validJobs, ms[i].validJobs,
              NewJob(template, template.extraNonce + rank[i], diff[i]), JobHistory)
    /\ miners'[i].lastBlockHeight = template.height
    /\ miners'[i].difficulty = diff[i]

\* Where each job of a miner comes from after a template was handed out
LEMMA HandedOutJobs ==
    ASSUME NEW ms \in Seq(Miners), NEW D \in SUBSET (1..Len(ms)),
           NEW template \in Templates, NEW diff \in [1..Len(ms) -> Difficulties],
           NEW n \in Nat, NEW rank \in [1..Len(ms) -> Nat],
           HandedOut(ms, D, template, diff, n, rank),
           \A i \in 1..Len(ms) : Len(ms[i].validJobs) <= JobHistory
    PROVE  /\ miners' \in Seq(Miners)
           /\ current' \in Templates
           /\ \A i \in D : GotJob(ms, i, template, diff, rank)
<1>1. current' \in Templates
  BY DEF HandedOut, Templates
<1>2. ASSUME NEW i \in D
      PROVE  miners'[i] \in Miners /\ GotJob(ms, i, template, diff, rank)
  <2> DEFINE old == ms[i].validJobs
             job == NewJob(template, template.extraNonce + rank[i], diff[i])
             new == PushBounded(old, job, JobHistory)
  <2>1. ms[i] \in Miners /\ i \in 1..Len(ms)
    OBVIOUS
  <2>2. old \in Seq(Jobs) /\ Len(old) <= JobHistory
    BY <2>1 DEF Miners
  <2>3. diff[i] \in Difficulties /\ rank[i] \in Nat
    BY <2>1
  <2>4. /\ job \in Jobs
        /\ job.height = template.height
        /\ job.difficulty = diff[i]
    BY <2>3 DEF NewJob, Jobs, Templates
  <2>5. miners'[i] = [difficulty |-> job.difficulty, lastBlockHeight |-> job.height,
                      validJobs |-> new]
    BY DEF HandedOut, WithJob
  <2>6. JobHistory \in Nat \ {0}
    BY HistoryAssumption
  <2>7. new \in Seq(Jobs) /\ Pushed(new, old, job, JobHistory)
    <3> HIDE DEF old, job
    <3>. QED  BY <2>2, <2>4, <2>6, PushBoundedShape
  <2>8. miners'[i] \in Miners
    <3> HIDE DEF old, job, new
    <3>. QED  BY <2>3, <2>4, <2>5, <2>7 DEF Miners, Templates
  <2>9. /\ miners'[i].validJobs = new
        /\ miners'[i].lastBlockHeight = template.height
        /\ miners'[i].difficulty = diff[i]
    <3> HIDE DEF old, job, new
    <3>. QED  BY <2>4, <2>5
  <2>. QED  BY <2>7, <2>8, <2>9 DEF GotJob
<1>3. \A i \in 1..Len(ms) : miners'[i] \in Miners
  <2> TAKE i \in 1..Len(ms)
  <2>1. CASE i \in D
    BY <1>2, <2>1
  <2>2. CASE i \notin D
    BY <2>2 DEF HandedOut
  <2>. QED  BY <2>1, <2>2
<1>4. miners' \in Seq(Miners)
  <2>1. Len(ms) \in Nat
    OBVIOUS
  <2>2. miners' = [i \in 1..Len(ms) |-> miners'[i]]
    BY DEF HandedOut
  <2>3. miners' \in [1..Len(ms) -> Miners]
    <3> HIDE DEF Miners
    <3>. QED  BY <1>3, <2>2, Zenon
  <2>. QED  BY <2>1, <2>3, SeqDef
<1>. QED  BY <1>1, <1>2, <1>4

------------------------------------------------------------------------------
(* Handing out jobs keeps the invariant *)

\* Miners ms may be handed jobs of template, those of D one each, beside the
\* remembered templates valid': what JobInv says, one place further back for the
\* jobs of D, and nothing of the templates of jobs about to be forgotten.
Ready(ms, D, template) ==
    /\ \A t \in 1..Len(valid') : valid'[t].height < template.height
    /\ \A i \in 1..Len(ms) :
          LET jobs == ms[i].validJobs
              older == IF i \in D THEN 1 ELSE 0
          IN  /\ Len(jobs) <= JobHistory
              /\ i \notin D =>
                    /\ Len(jobs) > 0
                    /\ ms[i].lastBlockHeight = template.height
                    /\ jobs[Len(jobs)].height = template.height
                    /\ jobs[Len(jobs)].difficulty = ms[i].difficulty
              /\ \A k \in 1..Len(jobs) :
                    /\ Len(jobs) - k + older < JobHistory =>
                          \/ template.height = jobs[k].height
                          \/ \E t \in 1..Len(valid') : valid'[t].height = jobs[k].height
                    /\ jobs[k].height <= template.height
                    /\ \A t \in 1..Len(valid') :
                          Len(valid') + 1 - t > Len(jobs) - k + older
                          => valid'[t].height < jobs[k].height
                    /\ jobs[k].height = template.height
                       => jobs[k].extraNonce <= template.extraNonce

Distinct(ms) ==
    \A i1, i2 \in 1..Len(ms) :
        \A k1 \in JobsOf(ms, i1), k2 \in JobsOf(ms, i2) :
            /\ ms[i1].validJobs[k1].height = ms[i2].validJobs[k2].height
            /\ ms[i1].validJobs[k1].extraNonce = ms[i2].validJobs[k2].extraNonce
            => i1 = i2 /\ k1 = k2

\* A job after handing out is the new one of its miner, or it was there before.
IsNew(i, k, D, template, n, rank) ==
    LET job == miners'[i].validJobs[k] IN
    /\ i \in D
    /\ k = Len(miners'[i].validJobs)
    /\ job.height = template.height
    /\ job.extraNonce = template.extraNonce + rank[i]
    /\ job.extraNonce > template.extraNonce
    /\ job.extraNonce <= template.extraNonce + n
    /\ job.submissions = <<>>

IsOld(i, k, ms, D, k0) ==
    LET old == ms[i].validJobs
        new == miners'[i].validJobs
    IN  /\ k0 \in 1..Len(old)
        /\ new[k] = old[k0]
        /\ Len(new) - k = Len(old) - k0 + (IF i \in D THEN 1 ELSE 0)

\* A job remembered after a new job was pushed is that job or an old one.
LEMMA JobOrigin ==
    ASSUME NEW ms \in Seq(Miners), NEW D \in SUBSET (1..Len(ms)),
           NEW template \in Templates, NEW diff \in [1..Len(ms) -> Difficulties],
           NEW n \in Nat, NEW rank \in [1..Len(ms) -> Nat],
           HandedOut(ms, D, template, diff, n, rank),
           \A i \in 1..Len(ms) : Len(ms[i].validJobs) <= JobHistory,
           NEW i \in 1..Len(ms), NEW k \in JobsOf(miners', i)
    PROVE  \/ IsNew(i, k, D, template, n, rank)
           \/ \E k0 \in JobsOf(ms, i) : IsOld(i, k, ms, D, k0)
<1> DEFINE old == ms[i].validJobs
           new == miners'[i].validJobs
<1>1. old \in Seq(Jobs) /\ Len(old) \in Nat
  <2>1. ms[i] \in Miners
    OBVIOUS
  <2>. QED  BY <2>1 DEF Miners
<1>2. CASE i \notin D
  <2>1. new = old
    BY <1>2 DEF HandedOut
  <2>. QED  BY <1>2, <2>1 DEF IsOld, JobsOf
<1>3. CASE i \in D
  <2>1. Pushed(new, old, NewJob(template, template.extraNonce + rank[i], diff[i]),
               JobHistory)
    BY <1>3, HandedOutJobs DEF GotJob
  <2>2. rank[i] \in 1..n /\ template.extraNonce \in Nat
    BY <1>3 DEF HandedOut, Templates
  <2> HIDE DEF old, new
  <2>3. CASE k = Len(new)
    <3>1. new[k] = NewJob(template, template.extraNonce + rank[i], diff[i])
      BY <2>1, <2>3 DEF Pushed
    <3>. QED  BY <1>3, <2>2, <2>3, <3>1 DEF IsNew, NewJob, new
  <2>4. CASE k # Len(new)
    <3> DEFINE k0 == k + Len(old) + 1 - Len(new)
    <3>0. JobHistory \in Nat
      BY HistoryAssumption
    <3>1. Len(new) \in Nat /\ k \in 1..Len(new)
      <4>1. Len(new) \in Nat
        BY <1>1, <2>1, <3>0 DEF Pushed
      <4>. QED  BY <4>1 DEF JobsOf, new
    <3>2. k0 \in 1..Len(old) /\ new[k] = old[k0]
      BY <2>1, <2>4, <3>1 DEF Pushed
    <3>3. Len(new) - k = Len(old) - k0 + 1
      BY <1>1, <3>1
    <3> HIDE DEF k0
    <3>4. IsOld(i, k, ms, D, k0)
      BY <1>3, <3>2, <3>3 DEF IsOld, old, new
    <3>. QED  BY <3>2, <3>4 DEF JobsOf, old
  <2>. QED  BY <2>3, <2>4
<1>. QED  BY <1>2, <1>3

\* Handing out keeps what is known of miners,
LEMMA HandOutKeepsMiners ==
    ASSUME NEW ms \in Seq(Miners), NEW D \in SUBSET (1..Len(ms)),
           NEW template \in Templates, NEW diff \in [1..Len(ms) -> Difficulties],
           NEW n \in Nat, NEW rank \in [1..Len(ms) -> Nat],
           HandedOut(ms, D, template, diff, n, rank),
           Ready(ms, D, template), NEW i \in 1..Len(ms)
    PROVE  MinerInv(i)'
<1> DEFINE new == miners'[i].validJobs
<1>0. JobHistory \in Nat \ {0} /\ ms[i].validJobs \in Seq(Jobs)
  <2>1. ms[i] \in Miners
    OBVIOUS
  <2>. QED  BY <2>1, HistoryAssumption DEF Miners
<1>1. current'.height = template.height
  BY DEF HandedOut
<1>2. CASE i \notin D
  BY <1>1, <1>2 DEF HandedOut, Ready, MinerInv
<1>3. CASE i \in D
  <2>1. /\ Pushed(new, ms[i].validJobs,
                  NewJob(template, template.extraNonce + rank[i], diff[i]), JobHistory)
        /\ miners'[i].lastBlockHeight = template.height
        /\ miners'[i].difficulty = diff[i]
        /\ Len(ms[i].validJobs) <= JobHistory
    <3>1. \A j \in 1..Len(ms) : Len(ms[j].validJobs) <= JobHistory
      BY DEF Ready
    <3>2. GotJob(ms, i, template, diff, rank)
      BY <1>3, <3>1, HandedOutJobs
    <3>. QED  BY <3>1, <3>2 DEF GotJob
  <2>2. /\ Len(new) > 0
        /\ Len(new) <= JobHistory
        /\ new[Len(new)].height = template.height
        /\ new[Len(new)].difficulty = diff[i]
    BY <1>0, <2>1 DEF Pushed, NewJob
  <2>. QED  BY <1>1, <2>1, <2>2 DEF MinerInv
<1>. QED  BY <1>2, <1>3

\* that every job's template is remembered as long as the job,
LEMMA HandOutKeepsJobs ==
    ASSUME NEW ms \in Seq(Miners), NEW D \in SUBSET (1..Len(ms)),
           NEW template \in Templates, NEW diff \in [1..Len(ms) -> Difficulties],
           NEW n \in Nat, NEW rank \in [1..Len(ms) -> Nat],
           HandedOut(ms, D, template, diff, n, rank),
           Ready(ms, D, template), valid' \in Seq(Templates),
           NEW i \in 1..Len(ms), NEW k \in JobsOf(miners', i)
    PROVE  JobInv(i, k)'
<1> DEFINE new == miners'[i].validJobs
           older == IF i \in D THEN 1 ELSE 0
<1>1. /\ current'.height = template.height
      /\ current'.extraNonce = template.extraNonce + n
      /\ template.height \in Nat /\ template.extraNonce \in Nat
  BY DEF HandedOut, Templates
<1>2. \A j \in 1..Len(ms) : Len(ms[j].validJobs) <= JobHistory
  BY DEF Ready
<1>3. MinerInv(i)'
  BY HandOutKeepsMiners
<1>4. Len(new) <= JobHistory /\ k \in 1..Len(new)
  BY <1>3 DEF MinerInv, JobsOf
<1>5. Len(new) \in Nat /\ JobHistory \in Nat
  <2>1. miners' \in Seq(Miners)
    BY <1>2, HandedOutJobs
  <2>2. Len(miners') = Len(ms)
    BY DEF HandedOut
  <2>3. miners'[i] \in Miners
    BY <2>1, <2>2
  <2>. QED  BY <2>3, HistoryAssumption DEF Miners
<1>6. CASE IsNew(i, k, D, template, n, rank)
  <2>1. /\ new[k].height = template.height
        /\ new[k].extraNonce <= template.extraNonce + n
    BY <1>6 DEF IsNew
  <2>2. \A t \in 1..Len(valid') : valid'[t].height < template.height
    BY DEF Ready
  <2>. QED  BY <1>1, <2>1, <2>2 DEF JobInv, TemplateKnown
<1>7. CASE \E k0 \in JobsOf(ms, i) : IsOld(i, k, ms, D, k0)
  <2> PICK k0 \in JobsOf(ms, i) : IsOld(i, k, ms, D, k0)
    BY <1>7
  <2> DEFINE old == ms[i].validJobs
  <2>1. /\ k0 \in 1..Len(old)
        /\ new[k] = old[k0]
        /\ Len(new) - k = Len(old) - k0 + older
    BY DEF IsOld
  <2>2. Len(old) - k0 + older < JobHistory
    <3>1. Len(new) - k < JobHistory
      BY <1>4, <1>5
    <3> HIDE DEF old, new, older
    <3>. QED  BY <2>1, <3>1
  <2>3. /\ \/ template.height = old[k0].height
           \/ \E t \in 1..Len(valid') : valid'[t].height = old[k0].height
        /\ old[k0].height <= template.height
        /\ \A t \in 1..Len(valid') :
              Len(valid') + 1 - t > Len(old) - k0 + older
              => valid'[t].height < old[k0].height
        /\ old[k0].height = template.height
           => old[k0].extraNonce <= template.extraNonce
    BY <2>1, <2>2 DEF Ready
  <2>4. old[k0].extraNonce \in Nat
    <3>1. ms[i] \in Miners
      OBVIOUS
    <3>2. old \in Seq(Jobs)
      BY <3>1 DEF Miners
    <3>3. old[k0] \in Jobs
      BY <2>1, <3>2
    <3>. QED  BY <3>3 DEF Jobs
  <2>5. new[k].height = current'.height => new[k].extraNonce <= current'.extraNonce
    <3>1. /\ new[k].height = old[k0].height
          /\ new[k].extraNonce = old[k0].extraNonce
      BY <2>1
    <3>2. old[k0].height = template.height => old[k0].extraNonce <= template.extraNonce
      BY <2>3
    <3>3. new[k].extraNonce \in Nat
      BY <2>4, <3>1
    <3>4. new[k].height = template.height => new[k].extraNonce <= template.extraNonce
      BY <3>1, <3>2
    <3> HIDE DEF old, new
    <3>. QED  BY <1>1, <3>3, <3>4
  <2>6. \A t \in 1..Len(valid') :
            Len(valid') + 1 - t > Len(new) - k => valid'[t].height < new[k].height
    BY <2>1, <2>3
  <2> HIDE DEF old
  <2>. QED  BY <1>1, <2>1, <2>3, <2>5, <2>6 DEF JobInv, TemplateKnown
<1>. QED  BY <1>2, <1>6, <1>7, JobOrigin

\* that no two jobs share a blob,
LEMMA HandOutKeepsDistinct ==
    ASSUME NEW ms \in Seq(Miners), NEW D \in SUBSET (1..Len(ms)),
           NEW template \in Templates, NEW diff \in [1..Len(ms) -> Difficulties],
           NEW n \in Nat, NEW rank \in [1..Len(ms) -> Nat],
           HandedOut(ms, D, template, diff, n, rank),
           Ready(ms, D, template), Distinct(ms)
    PROVE  DistinctJobs'
<1> DEFINE job(i, k) == miners'[i].validJobs[k]
<1>1. Len(miners') = Len(ms)
  BY DEF HandedOut
<1>2. \A j \in 1..Len(ms) : Len(ms[j].validJobs) <= JobHistory
  BY DEF Ready
<1>3. \A i \in 1..Len(ms) : \A k \in JobsOf(miners', i) :
         \/ IsNew(i, k, D, template, n, rank)
         \/ \E k0 \in JobsOf(ms, i) : IsOld(i, k, ms, D, k0)
  BY <1>2, JobOrigin
<1>. SUFFICES \A i1, i2 \in 1..Len(ms) :
                  \A k1 \in JobsOf(miners', i1), k2 \in JobsOf(miners', i2) :
                     /\ job(i1, k1).height = job(i2, k2).height
                     /\ job(i1, k1).extraNonce = job(i2, k2).extraNonce
                     => i1 = i2 /\ k1 = k2
  BY <1>1 DEF DistinctJobs, JobsOf, MinerIds
<1>4. SUFFICES ASSUME NEW i1 \in 1..Len(ms), NEW i2 \in 1..Len(ms),
                      NEW k1 \in JobsOf(miners', i1), NEW k2 \in JobsOf(miners', i2),
                      job(i1, k1).height = job(i2, k2).height,
                      job(i1, k1).extraNonce = job(i2, k2).extraNonce
               PROVE  i1 = i2 /\ k1 = k2
  OBVIOUS
\* An old job cannot carry the extraNonce of a new one.
<1>5. ASSUME NEW i \in 1..Len(ms), NEW k \in JobsOf(miners', i),
             NEW k0 \in JobsOf(ms, i), IsOld(i, k, ms, D, k0),
             job(i, k).height = template.height
      PROVE  job(i, k).extraNonce <= template.extraNonce
  <2>1. job(i, k) = ms[i].validJobs[k0] /\ k0 \in 1..Len(ms[i].validJobs)
    BY <1>5 DEF IsOld
  <2>. QED  BY <1>5, <2>1 DEF Ready
<1>6. CASE /\ IsNew(i1, k1, D, template, n, rank)
           /\ IsNew(i2, k2, D, template, n, rank)
  <2>1. rank[i1] = rank[i2]
    <3>1. template.extraNonce + rank[i1] = template.extraNonce + rank[i2]
      BY <1>4, <1>6 DEF IsNew
    <3>2. template.extraNonce \in Nat /\ rank[i1] \in Nat /\ rank[i2] \in Nat
      BY DEF Templates
    <3>. QED  BY <3>1, <3>2
  <2>2. i1 = i2
    BY <1>6, <2>1 DEF HandedOut, IsNew
  <2>. QED  BY <1>6, <2>2 DEF IsNew
<1>7. CASE /\ IsNew(i1, k1, D, template, n, rank)
           /\ \E k0 \in JobsOf(ms, i2) : IsOld(i2, k2, ms, D, k0)
  <2>1. job(i2, k2).extraNonce <= template.extraNonce
    BY <1>4, <1>5, <1>7 DEF IsNew
  <2>2. job(i2, k2).extraNonce = template.extraNonce + rank[i1]
    BY <1>4, <1>7 DEF IsNew
  <2>3. rank[i1] \in 1..n /\ template.extraNonce \in Nat
    BY <1>7 DEF IsNew, HandedOut, Templates
  <2>. QED  BY <2>1, <2>2, <2>3
<1>8. CASE /\ IsNew(i2, k2, D, template, n, rank)
           /\ \E k0 \in JobsOf(ms, i1) : IsOld(i1, k1, ms, D, k0)
  <2>1. job(i1, k1).extraNonce <= template.extraNonce
    BY <1>4, <1>5, <1>8 DEF IsNew
  <2>2. job(i1, k1).extraNonce = template.extraNonce + rank[i2]
    BY <1>4, <1>8 DEF IsNew
  <2>3. rank[i2] \in 1..n /\ template.extraNonce \in Nat
    BY <1>8 DEF IsNew, HandedOut, Templates
  <2>. QED  BY <2>1, <2>2, <2>3
<1>9. CASE /\ \E k0 \in JobsOf(ms, i1) : IsOld(i1, k1, ms, D, k0)
           /\ \E k0 \in JobsOf(ms, i2) : IsOld(i2, k2, ms, D, k0)
  <2>1. PICK h1 \in JobsOf(ms, i1) : IsOld(i1, k1, ms, D, h1)
    BY <1>9
  <2>2. PICK h2 \in JobsOf(ms, i2) : IsOld(i2, k2, ms, D, h2)
    BY <1>9
  <2>3. i1 = i2 /\ h1 = h2
    <3>1. /\ job(i1, k1) = ms[i1].validJobs[h1]
          /\ job(i2, k2) = ms[i2].validJobs[h2]
      BY <2>1, <2>2 DEF IsOld
    <3>. QED  BY <1>4, <3>1 DEF Distinct
  <2>4. Len(miners'[i1].validJobs) - k1 = Len(miners'[i1].validJobs) - k2
    BY <2>1, <2>2, <2>3 DEF IsOld
  <2>5. Len(miners'[i1].validJobs) \in Nat
    <3>1. miners' \in Seq(Miners)
      BY <1>2, HandedOutJobs
    <3>2. miners'[i1] \in Miners
      BY <1>1, <3>1
    <3>. QED  BY <3>2 DEF Miners
  <2>. QED  BY <2>3, <2>4, <2>5 DEF JobsOf
<1>. QED  BY <1>3, <1>6, <1>7, <1>8, <1>9

\* and that accepted shares are noted or out of reach.
LEMMA HandOutKeepsShares ==
    ASSUME NEW ms \in Seq(Miners), NEW D \in SUBSET (1..Len(ms)),
           NEW template \in Templates, NEW diff \in [1..Len(ms) -> Difficulties],
           NEW n \in Nat, NEW rank \in [1..Len(ms) -> Nat],
           HandedOut(ms, D, template, diff, n, rank),
           Ready(ms, D, template), incarnation' = incarnation,
           NEW s \in Shares, ShareIn(s, ms, template)
    PROVE  ShareIn(s, miners, current)'
<1>1. /\ current'.height = template.height
      /\ current'.extraNonce = template.extraNonce + n
      /\ Len(miners') = Len(ms)
  BY DEF HandedOut
<1>2. template.extraNonce \in Nat /\ s.extraNonce \in Nat
  BY DEF Templates, Shares
<1>3. \A j \in 1..Len(ms) : Len(ms[j].validJobs) <= JobHistory
  BY DEF Ready
<1>4. ASSUME s.incarnation = incarnation,
             NEW i \in 1..Len(ms), NEW k \in JobsOf(miners', i),
             miners'[i].validJobs[k].height = s.height,
             miners'[i].validJobs[k].extraNonce = s.extraNonce
      PROVE  /\ i = s.miner
             /\ s.at \in 1..Len(miners'[i].validJobs[k].submissions)
             /\ miners'[i].validJobs[k].submissions[s.at] = s.nonce
  <2>1. CASE IsNew(i, k, D, template, n, rank)
    <3>1. s.extraNonce > template.extraNonce /\ s.height = template.height
      BY <1>4, <2>1 DEF IsNew
    <3>2. s.extraNonce <= template.extraNonce
      BY <1>4, <3>1 DEF ShareIn
    <3>. QED  BY <1>2, <3>1, <3>2
  <2>2. CASE \E k0 \in JobsOf(ms, i) : IsOld(i, k, ms, D, k0)
    <3> PICK k0 \in JobsOf(ms, i) : IsOld(i, k, ms, D, k0)
      BY <2>2
    <3>1. miners'[i].validJobs[k] = ms[i].validJobs[k0]
      BY DEF IsOld
    <3>. QED  BY <1>4, <3>1 DEF ShareIn
  <2>. QED  BY <1>3, <2>1, <2>2, JobOrigin
<1>5. s.incarnation <= incarnation'
  BY DEF ShareIn
<1>6. s.incarnation = incarnation' =>
        /\ s.height <= current'.height
        /\ s.height = current'.height => s.extraNonce <= current'.extraNonce
  BY <1>1, <1>2 DEF ShareIn
<1>. QED  BY <1>1, <1>4, <1>5, <1>6 DEF ShareIn

------------------------------------------------------------------------------
(* Steps *)

\* What the parts of the invariant that concern jobs and shares come to after a
\* handler that hands out jobs.
LEMMA HandOutStep ==
    ASSUME NEW ms \in Seq(Miners), NEW asked \in SUBSET (1..Len(ms)),
           NEW template \in Templates, NEW diff \in [1..Len(ms) -> Difficulties],
           HandOut(ms, asked, template, diff),
           valid' \in Seq(Templates),
           Ready(ms, Due(ms, asked, template, diff), template),
           Distinct(ms),
           accepted \subseteq Shares,
           \A s \in accepted : ShareIn(s, ms, template),
           UNCHANGED <<accepted, incarnation>>,
           OneSubmissionPerProof
    PROVE  /\ miners' \in Seq(Miners)
           /\ current' \in Templates
           /\ current'.height = template.height
           /\ Len(miners') = Len(ms)
           /\ (\A i \in MinerIds : MinerInv(i))'
           /\ (\A i \in MinerIds : \A k \in JobsOf(miners, i) : JobInv(i, k))'
           /\ DistinctJobs'
           /\ (\A s \in accepted : ShareIn(s, miners, current))'
           /\ OneSubmissionPerProof'
<1> DEFINE D == Due(ms, asked, template, diff)
<1>1. D \in SUBSET (1..Len(ms))
  BY DEF Due
<1>2. PICK n \in Nat, rank \in [1..Len(ms) -> Nat] :
          HandedOut(ms, D, template, diff, n, rank)
  BY HandOutShape
<1> HIDE DEF D
<1>3. Ready(ms, D, template)
  BY DEF D
<1>4. /\ current'.height = template.height
      /\ Len(miners') = Len(ms)
  BY <1>2 DEF HandedOut
<1>5. \A i \in 1..Len(ms) : Len(ms[i].validJobs) <= JobHistory
  BY <1>3 DEF Ready
<1>6. miners' \in Seq(Miners) /\ current' \in Templates
  BY <1>1, <1>2, <1>5, HandedOutJobs
<1>7. \A i \in 1..Len(ms) : MinerInv(i)'
  BY <1>1, <1>2, <1>3, HandOutKeepsMiners
<1>8. \A i \in 1..Len(ms) : \A k \in JobsOf(miners', i) : JobInv(i, k)'
  BY <1>1, <1>2, <1>3, HandOutKeepsJobs
<1>9. DistinctJobs'
  BY <1>1, <1>2, <1>3, HandOutKeepsDistinct
<1>10. \A s \in accepted : ShareIn(s, miners, current)'
  BY <1>1, <1>2, <1>3, HandOutKeepsShares
<1>11. OneSubmissionPerProof'
  BY DEF OneSubmissionPerProof, ProofOf
<1>. QED  BY <1>4, <1>6, <1>7, <1>8, <1>9, <1>10, <1>11 DEF MinerIds

\* While the template stays, any miners may be asked, and a new one may join.
LEMMA SameTemplateReady ==
    ASSUME IInv, NEW ms \in Seq(Miners), NEW D \in SUBSET (1..Len(ms)),
           valid' = valid,
           \A i \in 1..Len(ms) : \/ i \in MinerIds /\ ms[i] = miners[i]
                                 \/ i \in D /\ ms[i].validJobs = <<>>
    PROVE  /\ Ready(ms, D, current)
           /\ Distinct(ms)
           /\ \A s \in accepted : ShareIn(s, ms, current)
<1>1. ASSUME NEW i \in 1..Len(ms), ms[i] # miners[i] \/ i \notin MinerIds
      PROVE  i \in D /\ Len(ms[i].validJobs) = 0 /\ JobsOf(ms, i) = {}
  BY <1>1 DEF JobsOf
<1>2. \A i \in 1..Len(ms) : \A k \in JobsOf(ms, i) :
         /\ i \in MinerIds
         /\ ms[i] = miners[i]
         /\ k \in JobsOf(miners, i)
  BY <1>1 DEF JobsOf
<1>3. Distinct(ms)
  <2>1. Distinct(miners)
    BY DEF IInv, DistinctJobs, Distinct, JobsOf, MinerIds
  <2>. QED  BY <1>2, <2>1 DEF Distinct, MinerIds
<1>4. \A s \in accepted : ShareIn(s, ms, current)
  BY <1>2 DEF IInv, ShareIn, MinerIds
<1>5. \A t \in 1..Len(valid') : valid'[t].height < current.height
  BY DEF IInv, TemplateInv
<1>6. ASSUME NEW i \in 1..Len(ms), NEW older \in {0, 1},
             older = IF i \in D THEN 1 ELSE 0
      PROVE  LET jobs == ms[i].validJobs IN
             /\ Len(jobs) <= JobHistory
             /\ i \notin D =>
                   /\ Len(jobs) > 0
                   /\ ms[i].lastBlockHeight = current.height
                   /\ jobs[Len(jobs)].height = current.height
                   /\ jobs[Len(jobs)].difficulty = ms[i].difficulty
  <2>1. CASE ms[i] = miners[i] /\ i \in MinerIds
    BY <2>1 DEF IInv, MinerInv
  <2>2. CASE ms[i] # miners[i] \/ i \notin MinerIds
    BY <1>1, <2>2, HistoryAssumption
  <2>. QED  BY <2>1, <2>2
<1>7. ASSUME NEW i \in 1..Len(ms), NEW k \in JobsOf(ms, i), NEW older \in {0, 1}
      PROVE  LET jobs == ms[i].validJobs IN
             /\ \/ current.height = jobs[k].height
                \/ \E t \in 1..Len(valid') : valid'[t].height = jobs[k].height
             /\ jobs[k].height <= current.height
             /\ \A t \in 1..Len(valid') :
                   Len(valid') + 1 - t > Len(jobs) - k + older
                   => valid'[t].height < jobs[k].height
             /\ jobs[k].height = current.height
                => jobs[k].extraNonce <= current.extraNonce
  <2>1. i \in MinerIds /\ ms[i] = miners[i] /\ k \in JobsOf(miners, i)
    BY <1>2
  <2>2. JobInv(i, k)
    BY <2>1 DEF IInv
  <2>3. Len(ms[i].validJobs) \in Nat /\ Len(valid) \in Nat
    <3>1. ms[i] \in Miners /\ valid \in Seq(Templates)
      BY DEF IInv, TypeOK
    <3>. QED  BY <3>1 DEF Miners
  <2>4. \A t \in 1..Len(valid) :
           Len(valid) + 1 - t > Len(ms[i].validJobs) - k + older
           => Len(valid) + 1 - t > Len(ms[i].validJobs) - k
    BY <2>3 DEF JobsOf
  <2>. QED  BY <2>1, <2>2, <2>4 DEF JobInv, TemplateKnown
<1>8. Ready(ms, D, current)
  BY <1>5, <1>6, <1>7 DEF Ready, JobsOf
<1>. QED  BY <1>3, <1>4, <1>8

\* When a higher template is adopted everyone is due a job, and whatever falls
\* off the end of validBlockTemplates is older than every job that stays.
LEMMA NewTemplateReady ==
    ASSUME IInv, NEW height \in Nat, height > current.height,
           valid' = IF current.height = 0 THEN valid
                    ELSE PushBounded(valid, current, TemplateHistory)
    PROVE  LET template == [height |-> height, extraNonce |-> 0] IN
           /\ valid' \in Seq(Templates)
           /\ Len(valid') <= TemplateHistory
           /\ \A t \in 1..Len(valid') : 0 < valid'[t].height
           /\ \A t, u \in 1..Len(valid') : t < u => valid'[t].height < valid'[u].height
           /\ Due(miners, MinerIds, template, SameDifficulty) = MinerIds
           /\ Ready(miners, MinerIds, template)
           /\ \A s \in accepted : ShareIn(s, miners, template)
<1> DEFINE template == [height |-> height, extraNonce |-> 0]
<1>0. /\ current.height \in Nat /\ current \in Templates
      /\ valid \in Seq(Templates) /\ Len(valid) \in Nat
      /\ TemplateHistory \in Nat \ {0}
      /\ miners \in Seq(Miners)
      /\ JobHistory \in Nat /\ JobHistory <= TemplateHistory + 1
  BY HistoryAssumption DEF IInv, TypeOK, Templates
<1>1. Due(miners, MinerIds, template, SameDifficulty) = MinerIds
  BY <1>0 DEF IInv, MinerInv, Due, JobDue
<1>2. \A s \in accepted : ShareIn(s, miners, template)
  <2> TAKE s \in accepted
  <2>1. ShareIn(s, miners, current) /\ s.height \in Nat
    BY DEF IInv, TypeOK, Shares
  <2>. QED  BY <1>0, <2>1 DEF ShareIn
<1>3. CASE current.height = 0
  <2>1. Len(miners) = 0 /\ MinerIds = {}
    BY <1>0, <1>3 DEF IInv, TemplateInv, MinerIds
  <2>2. /\ valid' = valid
        /\ \A t \in 1..Len(valid) : 0 < valid[t].height /\ valid[t].height < 0
    BY <1>3 DEF IInv, TemplateInv
  <2>3. \A t \in 1..Len(valid) : valid[t].height \in Nat
    <3>1. \A t \in 1..Len(valid) : valid[t] \in Templates
      BY <1>0
    <3>. QED  BY <3>1 DEF Templates
  <2>4. 1..Len(valid) = {}
    BY <2>2, <2>3
  <2>5. /\ valid' \in Seq(Templates)
        /\ Len(valid') <= TemplateHistory
        /\ \A t \in 1..Len(valid') : 0 < valid'[t].height
        /\ \A t, u \in 1..Len(valid') : t < u => valid'[t].height < valid'[u].height
    BY <1>0, <2>2 DEF IInv, TemplateInv
  <2>6. Ready(miners, MinerIds, template)
    BY <2>1, <2>2, <2>4 DEF Ready, MinerIds
  <2>. QED  BY <1>1, <1>2, <2>5, <2>6
<1>4. CASE current.height > 0
  <2>1. /\ valid' \in Seq(Templates)
        /\ Pushed(valid', valid, current, TemplateHistory)
    <3>1. valid' = PushBounded(valid, current, TemplateHistory)
      BY <1>4
    <3>2. Len(valid) <= TemplateHistory
      BY DEF IInv, TemplateInv
    <3>. QED  BY <1>0, <3>1, <3>2, PushBoundedShape
  <2> DEFINE s(t) == t + Len(valid) + 1 - Len(valid')
  <2>2. /\ Len(valid') \in Nat
        /\ Len(valid') <= TemplateHistory
        /\ Len(valid') = Len(valid) + 1 \/ Len(valid') = Len(valid)
        /\ Len(valid') = Len(valid) => Len(valid) = TemplateHistory
        /\ Len(valid') \in 1..Len(valid')
        /\ valid'[Len(valid')] = current
        /\ \A t \in 1..Len(valid') : t < Len(valid') =>
              s(t) \in 1..Len(valid) /\ valid'[t] = valid[s(t)]
    <3>1. Len(valid) <= TemplateHistory
      BY DEF IInv, TemplateInv
    <3>2. Len(valid') = IF Len(valid) < TemplateHistory THEN Len(valid) + 1
                        ELSE TemplateHistory
      BY <2>1 DEF Pushed
    <3>3. /\ Len(valid') \in Nat
          /\ Len(valid') <= TemplateHistory
          /\ Len(valid') = Len(valid) + 1 \/ Len(valid') = Len(valid)
          /\ Len(valid') = Len(valid) => Len(valid) = TemplateHistory
          /\ Len(valid') \in 1..Len(valid')
      BY <1>0, <3>1, <3>2
    <3>. QED  BY <2>1, <3>3 DEF Pushed
  <2>3. /\ \A t \in 1..Len(valid) : 0 < valid[t].height /\ valid[t].height < current.height
        /\ \A t, u \in 1..Len(valid) : t < u => valid[t].height < valid[u].height
    BY DEF IInv, TemplateInv
  <2>4. \A t \in 1..Len(valid') : valid'[t].height \in Nat
    <3>1. \A t \in 1..Len(valid') : valid'[t] \in Templates
      BY <2>1
    <3>. QED  BY <3>1 DEF Templates
  <2>5. \A t \in 1..Len(valid') :
           0 < valid'[t].height /\ valid'[t].height <= current.height
    <3> TAKE t \in 1..Len(valid')
    <3>1. CASE t = Len(valid')
      BY <1>0, <1>4, <2>2, <3>1
    <3>2. CASE t < Len(valid')
      <4>1. s(t) \in 1..Len(valid) /\ valid'[t] = valid[s(t)]
        BY <2>2, <3>2
      <4> HIDE DEF s
      <4>2. valid[s(t)].height < current.height /\ 0 < valid[s(t)].height
        BY <2>3, <4>1
      <4>. QED  BY <1>0, <2>4, <4>1, <4>2
    <3>. QED  BY <2>2, <3>1, <3>2
  <2>6. ASSUME NEW t \in 1..Len(valid'), NEW u \in 1..Len(valid'), t < u
        PROVE  valid'[t].height < valid'[u].height
    <3>1. t < Len(valid')
      BY <2>2, <2>6
    <3>2. CASE u = Len(valid')
      BY <2>2, <2>3, <3>1, <3>2
    <3>3. CASE u < Len(valid')
      <4>1. s(t) < s(u)
        <5>1. Len(valid) \in Nat /\ Len(valid') \in Nat /\ t \in Int /\ u \in Int
          BY <1>0, <2>2
        <5>2. \A a, b, c, d \in Int : a < b => a + c + 1 - d < b + c + 1 - d
          OBVIOUS
        <5>3. t < u /\ t \in Int /\ u \in Int /\ Len(valid) \in Int /\ Len(valid') \in Int
          BY <2>6, <5>1
        <5> HIDE DEF s
        <5>4. t + Len(valid) + 1 - Len(valid') < u + Len(valid) + 1 - Len(valid')
          BY <5>2, <5>3, Zenon
        <5>. QED  BY <5>4 DEF s
      <4>. QED  BY <2>2, <2>3, <3>1, <3>3, <4>1
    <3>. QED  BY <2>2, <3>2, <3>3
  <2>7. ASSUME NEW i \in MinerIds
        PROVE  Len(miners[i].validJobs) <= JobHistory
    BY DEF IInv, MinerInv
  <2>8. ASSUME NEW i \in MinerIds, NEW k \in 1..Len(miners[i].validJobs)
        PROVE  LET jobs == miners[i].validJobs IN
               /\ Len(jobs) - k + 1 < JobHistory =>
                     \/ template.height = jobs[k].height
                     \/ \E t \in 1..Len(valid') : valid'[t].height = jobs[k].height
               /\ jobs[k].height <= template.height
               /\ \A t \in 1..Len(valid') :
                     Len(valid') + 1 - t > Len(jobs) - k + 1
                     => valid'[t].height < jobs[k].height
               /\ jobs[k].height # template.height
    <3> DEFINE jobs == miners[i].validJobs
    <3>1. JobInv(i, k)
      BY DEF IInv, JobsOf
    <3>2. jobs \in Seq(Jobs) /\ jobs[k].height \in Nat /\ Len(jobs) \in Nat
      <4>1. miners[i] \in Miners
        BY <1>0 DEF MinerIds
      <4>2. jobs \in Seq(Jobs)
        BY <4>1 DEF Miners
      <4>3. jobs[k] \in Jobs
        BY <4>2
      <4>. QED  BY <4>2, <4>3 DEF Jobs
    <3>3. jobs[k].height <= current.height
      BY <3>1 DEF JobInv
    <3>4. \A t \in 1..Len(valid) :
             Len(valid) + 1 - t > Len(jobs) - k => valid[t].height < jobs[k].height
      BY <3>1 DEF JobInv
    <3> HIDE DEF jobs
    <3>5. ASSUME NEW t \in 1..Len(valid'), Len(valid') + 1 - t > Len(jobs) - k + 1
          PROVE  valid'[t].height < jobs[k].height
      <4>1. k <= Len(jobs)
        BY <3>2 DEF jobs
      <4>2. t < Len(valid')
        BY <2>2, <3>2, <3>5, <4>1
      <4>3. Len(valid) + 1 - s(t) > Len(jobs) - k
        BY <1>0, <2>2, <3>2, <3>5
      <4>. QED  BY <2>2, <3>4, <4>2, <4>3
    <3>6. ASSUME Len(jobs) - k + 1 < JobHistory
          PROVE  \E t \in 1..Len(valid') : valid'[t].height = jobs[k].height
      <4>1. CASE current.height = jobs[k].height
        BY <2>2, <4>1
      <4>2. CASE \E u \in 1..Len(valid) : valid[u].height = jobs[k].height
        <5> PICK u \in 1..Len(valid) : valid[u].height = jobs[k].height
          BY <4>2
        <5>1. ~(Len(valid) + 1 - u > Len(jobs) - k)
          BY <3>2, <3>4
        <5>2. u - (Len(valid) + 1 - Len(valid')) \in 1..Len(valid')
          BY <1>0, <2>2, <3>2, <3>6, <5>1
        <5> DEFINE t == u - (Len(valid) + 1 - Len(valid'))
        <5>3. t < Len(valid') /\ s(t) = u
          BY <1>0, <2>2
        <5>. QED  BY <2>2, <5>2, <5>3
      <4>. QED  BY <3>1, <4>1, <4>2 DEF JobInv, TemplateKnown, jobs
    <3>7. jobs[k].height <= height /\ jobs[k].height # height
      BY <1>0, <3>2, <3>3
    <3>. QED  BY <3>5, <3>6, <3>7 DEF jobs
  <2>9. \A t \in 1..Len(valid') : valid'[t].height < height
    BY <1>0, <2>4, <2>5
  <2>10. Ready(miners, MinerIds, template)
    BY <2>7, <2>8, <2>9 DEF Ready, MinerIds
  <2>. QED  BY <1>1, <1>2, <2>1, <2>2, <2>5, <2>6, <2>10
<1>. QED  BY <1>0, <1>3, <1>4

\* Handlers that touch neither templates, nor miners, nor what was accepted.
LEMMA QuietStep ==
    ASSUME IInv, UNCHANGED <<current, valid, miners, accepted, incarnation>>,
           TypeOK', boot' = "listening" => current.height > 0
    PROVE  IInv'
<1>1. TemplateInv'
  BY DEF IInv, TemplateInv
<1>2. \A i \in MinerIds : MinerInv(i)'
  BY DEF IInv, MinerInv
<1>3. \A i \in MinerIds : \A k \in JobsOf(miners, i) : JobInv(i, k)'
  BY DEF IInv, JobInv, TemplateKnown
<1>4. DistinctJobs' /\ OneSubmissionPerProof'
  BY DEF IInv, DistinctJobs, OneSubmissionPerProof, MinerIds
<1>5. \A s \in accepted : ShareIn(s, miners, current)'
  BY DEF IInv, ShareIn, JobsOf
<1>. QED  BY <1>1, <1>2, <1>3, <1>4, <1>5 DEF IInv, MinerIds, JobsOf

\* A submission only adds a nonce to one job, and whoever is accepted for it is
\* the first with this proof: an earlier one would be noted in the same job.
LEMMA SubmitStep ==
    ASSUME IInv, NEW i \in MinerIds, NEW k \in JobsOf(miners, i),
           NEW nonce \in Nonces, NEW quality \in Qualities, NEW matches \in BOOLEAN,
           Submit(i, k, nonce, quality, matches)
    PROVE  IInv'
<1> DEFINE job(a, b) == miners[a].validJobs[b]
           share == [incarnation |-> incarnation, miner |-> i,
                     height |-> job(i, k).height, extraNonce |-> job(i, k).extraNonce,
                     nonce |-> nonce, at |-> Len(job(i, k).submissions) + 1]
<1>1. /\ miners \in Seq(Miners) /\ i \in 1..Len(miners)
      /\ \A a \in 1..Len(miners) : miners[a] \in Miners
  BY DEF IInv, TypeOK, MinerIds
<1>2. \A a \in 1..Len(miners) : miners[a].validJobs \in Seq(Jobs)
  BY <1>1 DEF Miners
<1>3. \A a \in 1..Len(miners) : \A b \in JobsOf(miners, a) : job(a, b) \in Jobs
  BY <1>2 DEF JobsOf
<1>4. job(i, k) \in Jobs /\ job(i, k).submissions \in Seq(Nonces)
  BY <1>1, <1>3 DEF Jobs
<1> DEFINE newJob == [job(i, k) EXCEPT !.submissions = Append(@, nonce)]
           newMiner == [miners[i] EXCEPT !.validJobs = [@ EXCEPT ![k] = newJob]]
<1>5. miners' = [miners EXCEPT ![i] = newMiner]
  BY DEF Submit
<1>6. /\ newJob \in Jobs
      /\ newJob.height = job(i, k).height
      /\ newJob.extraNonce = job(i, k).extraNonce
      /\ newJob.difficulty = job(i, k).difficulty
      /\ newJob.submissions = Append(job(i, k).submissions, nonce)
  <2>1. Append(job(i, k).submissions, nonce) \in Seq(Nonces)
    BY <1>4
  <2> HIDE DEF job
  <2>. QED  BY <1>4, <2>1 DEF Jobs
<1>7. /\ newMiner \in Miners
      /\ newMiner.lastBlockHeight = miners[i].lastBlockHeight
      /\ newMiner.difficulty = miners[i].difficulty
      /\ Len(newMiner.validJobs) = Len(miners[i].validJobs)
      /\ \A b \in JobsOf(miners, i) :
            newMiner.validJobs[b] = IF b = k THEN newJob ELSE job(i, b)
  <2> HIDE DEF newJob
  <2>1. miners[i] \in Miners /\ miners[i].validJobs \in Seq(Jobs)
    BY <1>1, <1>2
  <2>2. newMiner.validJobs = [miners[i].validJobs EXCEPT ![k] = newJob]
    BY <2>1 DEF Miners
  <2>3. /\ newMiner.validJobs \in Seq(Jobs)
        /\ Len(newMiner.validJobs) = Len(miners[i].validJobs)
        /\ \A b \in JobsOf(miners, i) :
              newMiner.validJobs[b] = IF b = k THEN newJob ELSE job(i, b)
    BY <1>6, <2>1, <2>2 DEF JobsOf
  <2>. QED  BY <2>1, <2>2, <2>3 DEF Miners
<1> HIDE DEF newJob, newMiner
<1>8. miners' \in Seq(Miners) /\ Len(miners') = Len(miners)
  BY <1>1, <1>5, <1>7
<1>9. \A a \in 1..Len(miners) :
         /\ miners'[a].lastBlockHeight = miners[a].lastBlockHeight
         /\ miners'[a].difficulty = miners[a].difficulty
         /\ Len(miners'[a].validJobs) = Len(miners[a].validJobs)
         /\ JobsOf(miners', a) = JobsOf(miners, a)
         /\ \A b \in JobsOf(miners, a) :
               miners'[a].validJobs[b] =
                  IF a = i /\ b = k THEN newJob ELSE job(a, b)
  BY <1>1, <1>5, <1>7 DEF JobsOf
<1>10. \A a \in 1..Len(miners) : \A b \in JobsOf(miners, a) :
          /\ miners'[a].validJobs[b].height = job(a, b).height
          /\ miners'[a].validJobs[b].extraNonce = job(a, b).extraNonce
          /\ miners'[a].validJobs[b].difficulty = job(a, b).difficulty
  BY <1>6, <1>9
<1>11. UNCHANGED <<tip, boot, poll, refreshes, current, valid, credited, closing,
                    incarnation>>
  BY DEF Submit
<1>12. MinerIds' = MinerIds /\ MinerIds = 1..Len(miners)
  BY <1>8 DEF MinerIds
<1>13. TemplateInv'
  BY <1>8, <1>11 DEF IInv, TemplateInv
<1>14. \A a \in MinerIds : MinerInv(a)'
  <2> TAKE a \in MinerIds
  <2>1. MinerInv(a)
    BY DEF IInv
  <2> DEFINE last == Len(miners[a].validJobs)
  <2>2. last \in JobsOf(miners, a)
    <3>1. last \in Nat
      BY <1>2, <1>12
    <3>. QED  BY <2>1, <3>1 DEF MinerInv, JobsOf
  <2> HIDE DEF last
  <2>3. /\ miners'[a].validJobs[last].height = miners[a].validJobs[last].height
        /\ miners'[a].validJobs[last].difficulty = miners[a].validJobs[last].difficulty
    BY <1>10, <1>12, <2>2
  <2>. QED  BY <1>9, <1>11, <1>12, <2>1, <2>3 DEF MinerInv, last
<1>15. \A a \in MinerIds : \A b \in JobsOf(miners, a) : JobInv(a, b)'
  BY <1>9, <1>10, <1>11, <1>12 DEF IInv, JobInv, TemplateKnown
<1>16. Distinct(miners)
  BY DEF IInv, DistinctJobs, Distinct, JobsOf, MinerIds
<1>17. DistinctJobs'
  <2>1. Distinct(miners)'
    BY <1>8, <1>9, <1>10, <1>16 DEF Distinct
  <2>. QED  BY <2>1 DEF Distinct, DistinctJobs, JobsOf, MinerIds
\* What is noted stays noted.
<1>18. \A s \in accepted : ShareIn(s, miners, current)'
  <2> TAKE s \in accepted
  <2>1. ShareIn(s, miners, current) /\ s \in Shares
    BY DEF IInv, TypeOK
  <2>2. ASSUME s.incarnation = incarnation,
               NEW a \in 1..Len(miners), NEW b \in JobsOf(miners, a),
               miners'[a].validJobs[b].height = s.height,
               miners'[a].validJobs[b].extraNonce = s.extraNonce
        PROVE  /\ a = s.miner
               /\ s.at \in 1..Len(miners'[a].validJobs[b].submissions)
               /\ miners'[a].validJobs[b].submissions[s.at] = s.nonce
    <3>1. /\ a = s.miner
          /\ s.at \in 1..Len(job(a, b).submissions)
          /\ job(a, b).submissions[s.at] = s.nonce
      BY <1>10, <2>1, <2>2 DEF ShareIn
    <3>2. CASE a = i /\ b = k
      <4>1. miners'[a].validJobs[b].submissions = Append(job(a, b).submissions, nonce)
        BY <1>6, <1>9, <3>2
      <4>2. job(a, b).submissions \in Seq(Nonces)
        BY <1>4, <3>2
      <4> HIDE DEF job
      <4>. QED  BY <3>1, <4>1, <4>2
    <3>3. CASE ~(a = i /\ b = k)
      <4>1. miners'[a].validJobs[b] = job(a, b)
        BY <1>9, <3>3
      <4>. QED  BY <3>1, <4>1
    <3>. QED  BY <3>2, <3>3
  <2>. QED  BY <1>8, <1>9, <1>11, <2>1, <2>2 DEF ShareIn
<1>19. CASE UNCHANGED <<accepted, calls>>
  <2>1. TypeOK'
    BY <1>8, <1>11, <1>19 DEF IInv, TypeOK
  <2>2. OneSubmissionPerProof' /\ accepted' = accepted
    BY <1>19 DEF IInv, OneSubmissionPerProof
  <2>. QED  BY <1>9, <1>12, <1>13, <1>14, <1>15, <1>17, <1>18, <2>1, <2>2 DEF IInv
<1>20. CASE /\ accepted' = accepted \cup {share}
            /\ \E kind \in {"submitblock", "share"} :
                  calls' = calls \cup {[kind |-> kind, share |-> share]}
  <2>1. share \in Shares
    <3>1. /\ job(i, k).height \in Nat /\ job(i, k).extraNonce \in Nat
          /\ Len(job(i, k).submissions) \in Nat /\ i \in Nat
      BY <1>1, <1>4 DEF Jobs
    <3>2. incarnation \in Nat
      BY DEF IInv, TypeOK
    <3> HIDE DEF job
    <3>. QED  BY <3>1, <3>2 DEF Shares
  <2>2. TypeOK'
    <3> HIDE DEF share
    <3>. QED  BY <1>8, <1>11, <1>20, <2>1 DEF IInv, TypeOK, Calls
  <2>0. PICK sh : sh = share
    OBVIOUS
  <2>3. ShareIn(sh, miners, current)'
    <3>1. JobInv(i, k)
      BY DEF IInv
    <3>2. ASSUME NEW a \in 1..Len(miners), NEW b \in JobsOf(miners, a),
                 miners'[a].validJobs[b].height = sh.height,
                 miners'[a].validJobs[b].extraNonce = sh.extraNonce
          PROVE  a = i /\ b = k
      <4>1. job(a, b).height = job(i, k).height /\ job(a, b).extraNonce = job(i, k).extraNonce
        BY <1>10, <2>0, <3>2
      <4>. QED  BY <1>1, <1>16, <4>1 DEF Distinct
    <3>3. /\ sh.at \in 1..Len(miners'[i].validJobs[k].submissions)
          /\ miners'[i].validJobs[k].submissions[sh.at] = sh.nonce
      <4>1. miners'[i].validJobs[k].submissions = Append(job(i, k).submissions, nonce)
        BY <1>1, <1>6, <1>9
      <4>2. sh.at = Len(job(i, k).submissions) + 1 /\ sh.nonce = nonce
        BY <2>0
      <4> HIDE DEF job
      <4>. QED  BY <1>4, <4>1, <4>2
    <3>4. sh.incarnation <= incarnation
      BY <2>0 DEF IInv, TypeOK
    <3>5. /\ sh.height <= current.height
          /\ sh.height = current.height => sh.extraNonce <= current.extraNonce
      BY <2>0, <3>1 DEF JobInv
    <3>6. sh.incarnation = incarnation /\ sh.miner = i
      BY <2>0
    <3>. QED  BY <1>8, <1>9, <1>11, <3>2, <3>3, <3>4, <3>5, <3>6 DEF ShareIn
  <2>4. ASSUME NEW s \in accepted, ProofOf(s) = ProofOf(sh)
        PROVE  FALSE
    <3>1. /\ s.incarnation = incarnation
          /\ s.height = job(i, k).height
          /\ s.extraNonce = job(i, k).extraNonce
          /\ s.nonce = nonce
      BY <2>0, <2>4 DEF ProofOf
    <3>2. ShareIn(s, miners, current)
      BY DEF IInv
    <3>3. /\ s.at \in 1..Len(job(i, k).submissions)
          /\ job(i, k).submissions[s.at] = nonce
      BY <1>1, <3>1, <3>2 DEF ShareIn
    <3>4. \A m \in 1..Len(job(i, k).submissions) : job(i, k).submissions[m] # nonce
      BY DEF Submit
    <3>. QED  BY <3>3, <3>4
  <2>5. OneSubmissionPerProof'
    <3> HIDE DEF share
    <3>. QED  BY <1>20, <2>0, <2>4 DEF IInv, OneSubmissionPerProof, ProofOf
  <2>6. \A s \in accepted' : ShareIn(s, miners, current)'
    <3> HIDE DEF share
    <3>. QED  BY <1>18, <1>20, <2>0, <2>3
  <2> HIDE DEF share
  <2>. QED  BY <1>9, <1>12, <1>13, <1>14, <1>15, <1>17, <2>2, <2>5, <2>6 DEF IInv
<1>21. \/ UNCHANGED <<accepted, calls>>
       \/ /\ accepted' = accepted \cup {share}
          /\ \E kind \in {"submitblock", "share"} :
                calls' = calls \cup {[kind |-> kind, share |-> share]}
  BY DEF Submit
<1>. QED  BY <1>19, <1>20, <1>21

\* A respawn starts from nothing under a fresh instanceId: no old share can be
\* offered again.
LEMMA CrashStep ==
    ASSUME IInv, NEW R \in SUBSET calls, Crash(R)
    PROVE  IInv'
<1>1. /\ incarnation' = incarnation + 1 /\ incarnation \in Nat
      /\ boot' = "starting" /\ current' = NoTemplate
      /\ valid' = <<>> /\ miners' = <<>>
      /\ accepted' = accepted
  BY DEF Crash, IInv, TypeOK
<1>2. TypeOK'
  BY DEF IInv, TypeOK, Crash, NoTemplate, Templates, Calls
<1>3. MinerIds' = {} /\ TemplateInv'
  BY <1>1, HistoryAssumption DEF MinerIds, TemplateInv, NoTemplate
<1>4. DistinctJobs' /\ OneSubmissionPerProof'
  BY <1>1, <1>3 DEF IInv, DistinctJobs, OneSubmissionPerProof
<1>5. \A s \in accepted : ShareIn(s, miners, current)'
  <2> TAKE s \in accepted
  <2>1. s.incarnation <= incarnation /\ s.incarnation \in Nat
    BY DEF IInv, TypeOK, ShareIn, Shares
  <2>. QED  BY <1>1, <2>1 DEF ShareIn
<1>. QED  BY <1>1, <1>2, <1>3, <1>4, <1>5 DEF IInv

\* Login, the retarget timer and getjob hand out jobs of the current template.
LEMMA SameTemplateStep ==
    ASSUME IInv, NEW ms \in Seq(Miners), NEW asked \in SUBSET (1..Len(ms)),
           NEW diff \in [1..Len(ms) -> Difficulties],
           HandOut(ms, asked, current, diff),
           current.height > 0 \/ Len(ms) = 0,
           \A i \in 1..Len(ms) :
              \/ i \in MinerIds /\ ms[i] = miners[i]
              \/ i \in Due(ms, asked, current, diff) /\ ms[i].validJobs = <<>>,
           UNCHANGED <<tip, boot, poll, refreshes, valid, calls, ledgerVars, incarnation>>
    PROVE  IInv'
<1> DEFINE D == Due(ms, asked, current, diff)
<1>1. /\ D \in SUBSET (1..Len(ms))
      /\ current \in Templates /\ valid' = valid /\ valid \in Seq(Templates)
      /\ accepted \subseteq Shares /\ OneSubmissionPerProof
      /\ UNCHANGED <<accepted, incarnation>>
  BY DEF Due, IInv, TypeOK, ledgerVars
<1> HIDE DEF D
<1>2. /\ Ready(ms, D, current)
      /\ Distinct(ms)
      /\ \A s \in accepted : ShareIn(s, ms, current)
  BY <1>1, SameTemplateReady DEF D
<1>3. /\ miners' \in Seq(Miners)
      /\ current' \in Templates
      /\ current'.height = current.height
      /\ Len(miners') = Len(ms)
      /\ (\A i \in MinerIds : MinerInv(i))'
      /\ (\A i \in MinerIds : \A k \in JobsOf(miners, i) : JobInv(i, k))'
      /\ DistinctJobs'
      /\ (\A s \in accepted : ShareIn(s, miners, current))'
      /\ OneSubmissionPerProof'
  BY <1>1, <1>2, HandOutStep DEF D
<1>4. TypeOK'
  BY <1>3 DEF IInv, TypeOK, ledgerVars
<1>5. TemplateInv'
  <2>1. current.height = 0 => Len(ms) = 0
    OBVIOUS
  <2>. QED  BY <1>1, <1>3, <2>1 DEF IInv, TemplateInv
<1>. QED  BY <1>3, <1>4, <1>5 DEF IInv

\* A miner logs in: its first job is new.
LEMMA LoginStep ==
    ASSUME IInv, NEW d \in Difficulties, Login(d)
    PROVE  IInv'
<1> DEFINE m == [difficulty |-> d, lastBlockHeight |-> 0, validJobs |-> <<>>]
           ms == Append(miners, m)
           diff == [i \in 1..Len(ms) |-> ms[i].difficulty]
<1>1. m \in Miners /\ miners \in Seq(Miners) /\ current.height > 0
  BY DEF Login, Miners, IInv, TypeOK, TemplateInv
<1>2. /\ ms \in Seq(Miners)
      /\ Len(ms) = Len(miners) + 1 /\ Len(miners) \in Nat
      /\ ms[Len(ms)] = m
      /\ \A i \in 1..Len(miners) : ms[i] = miners[i]
  BY <1>1
<1>3. HandOut(ms, {Len(ms)}, current, diff)
  BY DEF Login
<1>4. UNCHANGED <<tip, boot, poll, refreshes, valid, calls, ledgerVars, incarnation>>
  BY DEF Login
<1>5. m.lastBlockHeight = 0 /\ m.validJobs = <<>>
  OBVIOUS
<1> HIDE DEF m, ms
<1>6. diff \in [1..Len(ms) -> Difficulties]
  <2>1. \A i \in 1..Len(ms) : ms[i] \in Miners
    BY <1>2
  <2>. QED  BY <2>1 DEF Miners
<1> HIDE DEF diff
<1>7. {Len(ms)} \in SUBSET (1..Len(ms))
  BY <1>2
<1>8. Len(ms) \in Due(ms, {Len(ms)}, current, diff)
  BY <1>1, <1>2, <1>5 DEF Due, JobDue
<1>9. \A i \in 1..Len(ms) :
         \/ i \in MinerIds /\ ms[i] = miners[i]
         \/ i \in Due(ms, {Len(ms)}, current, diff) /\ ms[i].validJobs = <<>>
  BY <1>2, <1>5, <1>8 DEF MinerIds
<1>. QED  BY <1>1, <1>2, <1>3, <1>4, <1>6, <1>7, <1>9, SameTemplateStep

\* A miner asks for a job, or its difficulty changes.
LEMMA AskStep ==
    ASSUME IInv, NEW asked \in SUBSET MinerIds, NEW diff \in [MinerIds -> Difficulties],
           HandOut(miners, asked, current, diff),
           UNCHANGED <<tip, boot, poll, refreshes, valid, calls, ledgerVars, incarnation>>
    PROVE  IInv'
<1>1. /\ miners \in Seq(Miners) /\ MinerIds = 1..Len(miners)
      /\ current.height \in Nat
  BY DEF IInv, TypeOK, MinerIds, Templates
<1>2. current.height > 0 \/ Len(miners) = 0
  BY <1>1 DEF IInv, TemplateInv
<1>. QED  BY <1>1, <1>2, SameTemplateStep

LEMMA SameDifficultyType ==
    ASSUME TypeOK
    PROVE  SameDifficulty \in [MinerIds -> Difficulties]
<1>1. \A i \in MinerIds : miners[i] \in Miners
  BY DEF TypeOK, MinerIds
<1>. QED  BY <1>1 DEF SameDifficulty, Miners

\* A new template, or an answer that brings none.
LEMMA RefreshStep ==
    ASSUME IInv, NEW loop \in BOOLEAN, NEW h \in 1..tip, RefreshAnswered(loop, h)
    PROVE  IInv'
<1>1. /\ UNCHANGED <<tip, calls, ledgerVars, incarnation>>
      /\ poll' \in {"sent", "armed"} /\ refreshes' \in Nat
      /\ boot' \in {"starting", "listening", "failed"}
      /\ boot' = "listening" => boot = "listening" \/ (loop /\ boot = "starting")
  BY DEF RefreshAnswered, RequestEnds, IInv, TypeOK
<1>2. h \in Nat /\ h > 0 /\ current.height \in Nat
  BY DEF IInv, TypeOK, Templates
<1>3. CASE ~(h > current.height)
  <2>1. UNCHANGED <<current, valid, miners>>
    BY <1>3 DEF RefreshAnswered
  <2>2. TypeOK'
    BY <1>1, <2>1 DEF IInv, TypeOK, ledgerVars
  <2>3. current.height > 0
    BY <1>2, <1>3
  <2>. QED  BY <1>1, <2>1, <2>2, <2>3, QuietStep DEF ledgerVars
<1>4. CASE h > current.height
  <2> DEFINE template == [height |-> h, extraNonce |-> 0]
  <2>1. /\ valid' = IF current.height = 0 THEN valid
                    ELSE PushBounded(valid, current, TemplateHistory)
        /\ HandOut(miners, MinerIds, template, SameDifficulty)
    BY <1>4 DEF RefreshAnswered, AdoptTemplate
  <2>2. /\ valid' \in Seq(Templates)
        /\ Len(valid') <= TemplateHistory
        /\ \A t \in 1..Len(valid') : 0 < valid'[t].height
        /\ \A t, u \in 1..Len(valid') : t < u => valid'[t].height < valid'[u].height
        /\ Due(miners, MinerIds, template, SameDifficulty) = MinerIds
        /\ Ready(miners, MinerIds, template)
        /\ \A s \in accepted : ShareIn(s, miners, template)
    BY <1>2, <1>4, <2>1, NewTemplateReady
  <2>3. /\ miners \in Seq(Miners) /\ MinerIds = 1..Len(miners)
        /\ template \in Templates /\ template.height = h
        /\ SameDifficulty \in [1..Len(miners) -> Difficulties]
        /\ Distinct(miners)
        /\ accepted \subseteq Shares
        /\ UNCHANGED <<accepted, incarnation>>
        /\ OneSubmissionPerProof
    <3>1. Distinct(miners)
      BY DEF IInv, DistinctJobs, Distinct, JobsOf, MinerIds
    <3>2. template \in Templates
      BY <1>2 DEF Templates
    <3>3. SameDifficulty \in [1..Len(miners) -> Difficulties]
      BY SameDifficultyType DEF IInv, MinerIds
    <3>. QED  BY <1>1, <3>1, <3>2, <3>3 DEF IInv, TypeOK, MinerIds, ledgerVars
  <2> HIDE DEF template
  <2>4. /\ miners' \in Seq(Miners)
        /\ current' \in Templates
        /\ current'.height = h
        /\ (\A i \in MinerIds : MinerInv(i))'
        /\ (\A i \in MinerIds : \A k \in JobsOf(miners, i) : JobInv(i, k))'
        /\ DistinctJobs'
        /\ (\A s \in accepted : ShareIn(s, miners, current))'
        /\ OneSubmissionPerProof'
    <3>1. MinerIds \in SUBSET (1..Len(miners))
      BY <2>3
    <3>2. Ready(miners, Due(miners, MinerIds, template, SameDifficulty), template)
      BY <2>2
    <3>. QED  BY <2>1, <2>2, <2>3, <3>1, <3>2, HandOutStep
  <2>5. TypeOK'
    BY <1>1, <2>2, <2>4 DEF IInv, TypeOK, ledgerVars
  <2>6. TemplateInv'
    <3>1. \A t \in 1..Len(valid') : valid'[t].height < current'.height
      BY <2>2, <2>3, <2>4 DEF Ready
    <3>. QED  BY <1>2, <2>2, <2>4, <3>1 DEF TemplateInv
  <2>. QED  BY <2>4, <2>5, <2>6 DEF IInv
<1>. QED  BY <1>3, <1>4

------------------------------------------------------------------------------
(* Theorems *)

\* The invariant holds at the start, and every step keeps it.
LEMMA InitIInv == Init => IInv
<1> SUFFICES ASSUME Init PROVE IInv
  OBVIOUS
<1>1. /\ valid = <<>> /\ miners = <<>> /\ accepted = {}
      /\ current = NoTemplate /\ boot = "starting"
  BY DEF Init
<1>2. TypeOK
  <2>1. tip \in Nat
    BY DEF Init
  <2>. QED  BY <2>1 DEF Init, TypeOK, NoTemplate, Templates
<1>3. MinerIds = {} /\ TemplateInv
  BY <1>1, HistoryAssumption DEF MinerIds, TemplateInv, NoTemplate
<1>. QED  BY <1>1, <1>2, <1>3 DEF IInv, DistinctJobs, OneSubmissionPerProof

LEMMA NextIInv == IInv /\ [Next]_vars => IInv'
<1> SUFFICES ASSUME IInv, [Next]_vars PROVE IInv'
  OBVIOUS
<1>0. TypeOK /\ (boot = "listening" => current.height > 0)
  BY DEF IInv, TemplateInv
<1>1. CASE NewTip
  <2>1. TypeOK'
    BY <1>0, <1>1 DEF NewTip, TypeOK, poolVars, ledgerVars
  <2>. QED  BY <1>0, <1>1, <2>1, QuietStep DEF NewTip, poolVars, ledgerVars
<1>2. CASE PollTimer
  <2>1. TypeOK'
    BY <1>0, <1>2 DEF PollTimer, TypeOK, ledgerVars
  <2>. QED  BY <1>0, <1>2, <2>1, QuietStep DEF PollTimer, ledgerVars
<1>3. CASE Retarget
  <2>1. PICK diff \in [MinerIds -> Difficulties] :
            HandOut(miners, {i \in MinerIds : diff[i] # miners[i].difficulty},
                    current, diff)
    BY <1>3 DEF Retarget
  <2>. QED  BY <1>3, <2>1, AskStep DEF Retarget
<1>4. ASSUME NEW d \in Difficulties, Login(d)
      PROVE  IInv'
  BY <1>4, LoginStep
<1>5. ASSUME NEW i \in MinerIds, GetJob(i)
      PROVE  IInv'
  BY <1>0, <1>5, AskStep, SameDifficultyType DEF GetJob
<1>6. ASSUME NEW i \in MinerIds, NEW k \in 1..Len(miners[i].validJobs),
             NEW nonce \in Nonces, NEW quality \in Qualities, NEW matches \in BOOLEAN,
             Submit(i, k, nonce, quality, matches)
      PROVE  IInv'
  BY <1>6, SubmitStep DEF JobsOf
<1>7. ASSUME NEW loop \in BOOLEAN, NEW h \in 1..tip, RefreshAnswered(loop, h)
      PROVE  IInv'
  BY <1>7, RefreshStep
<1>8. ASSUME NEW loop \in BOOLEAN, RefreshFails(loop)
      PROVE  IInv'
  <2>1. TypeOK'
    BY <1>0, <1>8 DEF RefreshFails, RequestEnds, TypeOK, ledgerVars
  <2>. QED  BY <1>0, <1>8, <2>1, QuietStep DEF RefreshFails, RequestEnds, ledgerVars
<1>9. ASSUME NEW c \in calls, BlockTaken(c)
      PROVE  IInv'
  <2>1. TypeOK'
    BY <1>0, <1>9 DEF BlockTaken, RecordShare, TypeOK, Calls, ledgerVars
  <2>. QED  BY <1>0, <1>9, <2>1, QuietStep DEF BlockTaken, ledgerVars
<1>10. ASSUME NEW c \in calls, BlockRefused(c)
       PROVE  IInv'
  <2>1. TypeOK'
    BY <1>0, <1>10 DEF BlockRefused, RecordShare, TypeOK, Calls, poolVars, ledgerVars
  <2>. QED  BY <1>0, <1>10, <2>1, QuietStep DEF BlockRefused, poolVars, ledgerVars
<1>11. ASSUME NEW c \in calls, NEW counted \in BOOLEAN, NEW responded \in BOOLEAN,
              SharePosted(c, counted, responded)
       PROVE  IInv'
  <2>1. TypeOK'
    BY <1>0, <1>11 DEF SharePosted, RecordShare, TypeOK, Calls, poolVars
  <2>. QED  BY <1>0, <1>11, <2>1, QuietStep DEF SharePosted, poolVars
<1>12. ASSUME NEW c \in calls, NEW closed \in BOOLEAN, BlockPosted(c, closed)
       PROVE  IInv'
  <2>1. TypeOK'
    BY <1>0, <1>12 DEF BlockPosted, TypeOK, Calls, poolVars
  <2>. QED  BY <1>0, <1>12, <2>1, QuietStep DEF BlockPosted, poolVars
<1>13. ASSUME NEW R \in SUBSET calls, Crash(R)
       PROVE  IInv'
  BY <1>13, CrashStep
<1>14. CASE UNCHANGED vars
  <2>1. TypeOK'
    BY <1>0, <1>14 DEF vars, poolVars, ledgerVars, TypeOK
  <2>. QED  BY <1>0, <1>14, <2>1, QuietStep DEF vars, poolVars, ledgerVars
<1>. QED
  BY <1>1, <1>2, <1>3, <1>4, <1>5, <1>6, <1>7, <1>8, <1>9, <1>10, <1>11, <1>12,
     <1>13, <1>14 DEF Next, MinerStep, AnswerStep

LEMMA Invariance == Spec => []IInv
<1>. QED  BY InitIInv, NextIInv, PTL DEF Spec

\* The fork's variables keep their types, for every value of the constants.
THEOREM TypeCorrect == Spec => []TypeOK
<1>1. IInv => TypeOK
  BY DEF IInv
<1>. QED  BY <1>1, Invariance, PTL

\* No job is ever remembered without its template, so `Block expired' is never
\* answered, whenever JobHistory <= TemplateHistory + 1 (4 and 3 in the code).
THEOREM BlockNeverExpires == Spec => []JobsHaveTemplates
<1>1. IInv => JobsHaveTemplates
  BY DEF IInv, JobsHaveTemplates, JobInv, JobsOf
<1>. QED  BY <1>1, Invariance, PTL

\* Every miner's newest job is for the current template, at its difficulty.
THEOREM NoStaleMiner == Spec => []EveryMinerUpToDate
<1>1. IInv => EveryMinerUpToDate
  BY DEF IInv, EveryMinerUpToDate, MinerInv
<1>. QED  BY <1>1, Invariance, PTL

\* No two jobs are the same work.
THEOREM NoWorkTwice == Spec => []DistinctJobs
<1>1. IInv => DistinctJobs
  BY DEF IInv
<1>. QED  BY <1>1, Invariance, PTL

\* A proof of work is accepted from one submission, across jobs that come and go
\* and across respawns.
THEOREM NoProofTwice == Spec => []OneSubmissionPerProof
<1>1. IInv => OneSubmissionPerProof
  BY DEF IInv
<1>. QED  BY <1>1, Invariance, PTL

------------------------------------------------------------------------------
(***************************************************************************)
(* CryptonotePool implements ShareLedger: Init maps to its Init and every  *)
(* step to one of its steps or a stutter.  A share's requests follow each  *)
(* other (submitblock, /submit_share, /submit_block), so at most one of    *)
(* them is in flight: that is CallInv.                                     *)
(***************************************************************************)

\* The shares whose counting request is still on its way.
Pending == {c.share : c \in {d \in calls : d.kind # "block"}}

\* What is known of requests
CallInv ==
    /\ \A c \in calls : c.share \in accepted
    /\ \A c, d \in calls : c.share = d.share => c = d
    /\ \A c \in calls : c.share \notin closing
    /\ \A c \in calls : c.kind # "block" => c.share \notin credited
    /\ credited \subseteq accepted
    /\ closing \subseteq accepted

\* What an accepted submission adds.
LEMMA SubmitIsAccept ==
    ASSUME IInv, NEW i \in MinerIds, NEW k \in JobsOf(miners, i),
           NEW nonce \in Nonces, NEW quality \in Qualities, NEW matches \in BOOLEAN,
           Submit(i, k, nonce, quality, matches)
    PROVE  /\ UNCHANGED <<credited, closing>>
           /\ \/ UNCHANGED <<accepted, calls>>
              \/ \E s \in Shares : \E kind \in {"submitblock", "share"} :
                    /\ \A t \in accepted : ProofOf(t) # ProofOf(s)
                    /\ accepted' = accepted \cup {s}
                    /\ calls' = calls \cup {[kind |-> kind, share |-> s]}
<1> DEFINE job == miners[i].validJobs[k]
           share == [incarnation |-> incarnation, miner |-> i,
                     height |-> job.height, extraNonce |-> job.extraNonce,
                     nonce |-> nonce, at |-> Len(job.submissions) + 1]
<1>1. UNCHANGED <<credited, closing>>
  BY DEF Submit
<1>2. \/ UNCHANGED <<accepted, calls>>
      \/ \E kind \in {"submitblock", "share"} :
            /\ accepted' = accepted \cup {share}
            /\ calls' = calls \cup {[kind |-> kind, share |-> share]}
  BY DEF Submit
<1>3. share \in Shares
  <2>1. miners[i] \in Miners /\ i \in Nat /\ incarnation \in Nat
    BY DEF IInv, TypeOK, MinerIds
  <2>2. job \in Jobs
    BY <2>1 DEF Miners, JobsOf
  <2>. QED  BY <2>1, <2>2 DEF Jobs, Shares
<1>4. ASSUME NEW t \in accepted, ProofOf(t) = ProofOf(share)
      PROVE  FALSE
  <2>1. /\ t.incarnation = incarnation
        /\ t.height = job.height
        /\ t.extraNonce = job.extraNonce
        /\ t.nonce = nonce
    BY <1>4 DEF ProofOf
  <2>2. ShareIn(t, miners, current)
    BY DEF IInv
  <2>3. t.at \in 1..Len(job.submissions) /\ job.submissions[t.at] = nonce
    BY <2>1, <2>2 DEF ShareIn, MinerIds
  <2>4. \A m \in 1..Len(job.submissions) : job.submissions[m] # nonce
    BY DEF Submit
  <2>. QED  BY <2>3, <2>4
<1> HIDE DEF share
<1>. QED  BY <1>1, <1>2, <1>3, <1>4

------------------------------------------------------------------------------
(* CallInv is inductive, given IInv *)

\* No request is on its way at the start,
LEMMA InitCallInv == Init => CallInv
  BY DEF Init, CallInv

\* The request of share c is replaced by the next one.
LEMMA RecordKeepsCallInv ==
    ASSUME CallInv, calls \subseteq Calls, NEW c \in calls,
           NEW kind \in {"share", "candidate"},
           c.kind = "submitblock", RecordShare(c, kind),
           UNCHANGED ledgerVars
    PROVE  CallInv'
  BY DEF CallInv, RecordShare, ledgerVars, Calls

\* and every step keeps what is known of requests.
LEMMA NextCallInv == IInv /\ CallInv /\ [Next]_vars => CallInv'
<1> SUFFICES ASSUME IInv, CallInv, [Next]_vars PROVE CallInv'
  OBVIOUS
<1>0. calls \subseteq Calls
  BY DEF IInv, TypeOK
<1>1. ASSUME NEW i \in MinerIds, NEW k \in 1..Len(miners[i].validJobs),
             NEW nonce \in Nonces, NEW quality \in Qualities, NEW matches \in BOOLEAN,
             Submit(i, k, nonce, quality, matches)
      PROVE  CallInv'
  <2>1. CASE UNCHANGED <<accepted, calls>>
    BY <1>1, <2>1, SubmitIsAccept DEF CallInv, JobsOf
  <2>2. ASSUME NEW s \in Shares, NEW kind \in {"submitblock", "share"},
               \A t \in accepted : ProofOf(t) # ProofOf(s),
               accepted' = accepted \cup {s},
               calls' = calls \cup {[kind |-> kind, share |-> s]}
        PROVE  CallInv'
    <3>1. s \notin accepted
      BY <2>2
    <3>2. UNCHANGED <<credited, closing>>
      BY <1>1, SubmitIsAccept DEF JobsOf
    <3>. QED  BY <2>2, <3>1, <3>2 DEF CallInv
  <2>. QED  BY <1>1, <2>1, <2>2, SubmitIsAccept DEF JobsOf
<1>2. ASSUME NEW c \in calls, BlockTaken(c) \/ BlockRefused(c)
      PROVE  CallInv'
  BY <1>0, <1>2, RecordKeepsCallInv DEF BlockTaken, BlockRefused
<1>3. ASSUME NEW c \in calls, NEW counted \in BOOLEAN, NEW responded \in BOOLEAN,
             SharePosted(c, counted, responded)
      PROVE  CallInv'
  <2>1. /\ c.kind \in {"share", "candidate"}
        /\ credited' = credited \/ credited' = credited \cup {c.share}
        /\ UNCHANGED <<accepted, closing>>
        /\ \/ calls' = calls \ {c}
           \/ calls' = (calls \ {c}) \cup {[kind |-> "block", share |-> c.share]}
    BY <1>3 DEF SharePosted, RecordShare
  <2>. QED  BY <1>0, <2>1 DEF CallInv, Calls
<1>4. ASSUME NEW c \in calls, NEW closed \in BOOLEAN, BlockPosted(c, closed)
      PROVE  CallInv'
  <2>1. /\ c.kind = "block"
        /\ closing' = closing \/ closing' = closing \cup {c.share}
        /\ UNCHANGED <<accepted, credited>>
        /\ calls' = calls \ {c}
    BY <1>4 DEF BlockPosted
  <2>. QED  BY <1>0, <2>1 DEF CallInv, Calls
<1>5. ASSUME NEW R \in SUBSET calls, Crash(R)
      PROVE  CallInv'
  BY <1>5 DEF Crash, CallInv
<1>6. CASE UNCHANGED <<calls, ledgerVars>>
  BY <1>6 DEF CallInv, ledgerVars
<1>7. \/ UNCHANGED <<calls, ledgerVars>>
      \/ MinerStep \/ AnswerStep
      \/ \E R \in SUBSET calls : Crash(R)
  BY DEF Next, vars, NewTip, PollTimer, Retarget
<1>8. ASSUME NEW d \in Difficulties, Login(d)
      PROVE  UNCHANGED <<calls, ledgerVars>>
  BY <1>8 DEF Login
<1>9. ASSUME NEW i \in MinerIds, GetJob(i)
      PROVE  UNCHANGED <<calls, ledgerVars>>
  BY <1>9 DEF GetJob
<1>10. ASSUME NEW loop \in BOOLEAN,
              RefreshFails(loop) \/ \E h \in 1..tip : RefreshAnswered(loop, h)
       PROVE  UNCHANGED <<calls, ledgerVars>>
  BY <1>10 DEF RefreshFails, RefreshAnswered, RequestEnds
<1>. QED
  BY <1>1, <1>2, <1>3, <1>4, <1>5, <1>6, <1>7, <1>8, <1>9, <1>10
     DEF MinerStep, AnswerStep

------------------------------------------------------------------------------
(* Steps map to steps *)

\* A ledger step, in terms of the shares pending before and after it.
LEMMA AnswerMaps ==
    ASSUME CallInv, NEW S, NEW C, NEW B,
           S \subseteq Pending, Pending' = Pending \ S, Pending \subseteq accepted,
           C \subseteq S, B \subseteq accepted, B \cap Pending = {}, B \cap closing = {},
           accepted' = accepted, credited' = credited \cup C, closing' = closing \cup B
    PROVE  Ledger!Next
<1>1. Settled = accepted \ Pending /\ Settled' = accepted' \ Pending'
  BY DEF Settled, Pending
<1>2. Ledger!Answer(S, C, B)
  BY <1>1 DEF Ledger!Answer
<1>3. S \in SUBSET accepted /\ B \in SUBSET accepted /\ C \in SUBSET S
  OBVIOUS
<1>. QED  BY <1>2, <1>3 DEF Ledger!Next

\* The start is a start of the ledger,
LEMMA InitMaps == Init => Ledger!Init
  BY DEF Init, Ledger!Init, Settled

\* and every step is one of the ledger's, or none.
LEMMA NextMaps == IInv /\ CallInv /\ [Next]_vars => [Ledger!Next]_Ledger!ledgerVars
<1> SUFFICES ASSUME IInv, CallInv, [Next]_vars
             PROVE  [Ledger!Next]_Ledger!ledgerVars
  OBVIOUS
<1>0. calls \subseteq Calls /\ Pending \subseteq accepted
  BY DEF IInv, TypeOK, CallInv, Pending
<1>1. ASSUME NEW i \in MinerIds, NEW k \in 1..Len(miners[i].validJobs),
             NEW nonce \in Nonces, NEW quality \in Qualities, NEW matches \in BOOLEAN,
             Submit(i, k, nonce, quality, matches)
      PROVE  Ledger!Next \/ UNCHANGED <<calls, ledgerVars>>
  <2>1. ASSUME NEW s \in Shares, NEW kind \in {"submitblock", "share"},
               \A t \in accepted : ProofOf(t) # ProofOf(s),
               accepted' = accepted \cup {s},
               calls' = calls \cup {[kind |-> kind, share |-> s]}
        PROVE  Ledger!Next
    <3>1. s \notin accepted
      BY <2>1
    <3>2. UNCHANGED <<credited, closing>>
      BY <1>1, SubmitIsAccept DEF JobsOf
    <3>3. [kind |-> kind, share |-> s].share = s /\ [kind |-> kind, share |-> s].kind # "block"
      OBVIOUS
    <3>4. Pending' = Pending \cup {s}
      BY <2>1, <3>3 DEF Pending
    <3>5. Settled' = Settled
      BY <1>0, <2>1, <3>1, <3>4 DEF Settled, Pending
    <3>6. Ledger!Accept(s)
      BY <2>1, <3>2, <3>5 DEF Ledger!Accept
    <3>7. s \in accepted' \ accepted
      BY <2>1, <3>1
    <3>. QED  BY <3>6, <3>7 DEF Ledger!Next
  <2>. QED  BY <1>1, <2>1, SubmitIsAccept DEF JobsOf, ledgerVars
<1>2. ASSUME NEW c \in calls, BlockTaken(c) \/ BlockRefused(c)
      PROVE  UNCHANGED Ledger!ledgerVars
  <2>1. PICK kind \in {"share", "candidate"} :
            calls' = (calls \ {c}) \cup {[kind |-> kind, share |-> c.share]}
    BY <1>2 DEF BlockTaken, BlockRefused, RecordShare
  <2>2. c.kind = "submitblock" /\ UNCHANGED ledgerVars
    BY <1>2 DEF BlockTaken, BlockRefused
  <2>3. Pending' = Pending
    <3> DEFINE new == [kind |-> kind, share |-> c.share]
    <3>1. new.kind # "block" /\ new.share = c.share /\ c.kind # "block"
      BY <2>2
    <3> HIDE DEF new
    <3>. QED  BY <2>1, <3>1 DEF Pending, new
  <2>4. Settled' = Settled
    BY <2>2, <2>3 DEF Settled, Pending, ledgerVars
  <2>. QED  BY <2>2, <2>4 DEF ledgerVars, Ledger!ledgerVars
<1>3. ASSUME NEW c \in calls, NEW counted \in BOOLEAN, NEW responded \in BOOLEAN,
             SharePosted(c, counted, responded)
      PROVE  Ledger!Next
  <2>1. /\ c.kind \in {"share", "candidate"}
        /\ credited' = credited \cup (IF counted THEN {c.share} ELSE {})
        /\ UNCHANGED <<accepted, closing>>
        /\ \/ calls' = calls \ {c}
           \/ calls' = (calls \ {c}) \cup {[kind |-> "block", share |-> c.share]}
    BY <1>3 DEF SharePosted, RecordShare
  <2>2. c.share \in Pending
    BY <2>1 DEF Pending
  <2>3. Pending' = Pending \ {c.share}
    <3>1. Pending' = {d.share : d \in {e \in calls \ {c} : e.kind # "block"}}
      BY <2>1 DEF Pending
    <3>2. \A d \in calls : d # c => d.share # c.share
      BY DEF CallInv
    <3>. QED  BY <3>1, <3>2 DEF Pending
  <2> DEFINE S == {c.share}
             C == IF counted THEN {c.share} ELSE {}
             B == {}
  <2>4. /\ S \subseteq Pending /\ Pending' = Pending \ S /\ C \subseteq S
        /\ B \subseteq accepted /\ B \cap Pending = {} /\ B \cap closing = {}
        /\ accepted' = accepted /\ credited' = credited \cup C
        /\ closing' = closing \cup B
    BY <2>1, <2>2, <2>3
  <2> HIDE DEF S, C, B
  <2>. QED  BY <1>0, <2>4, AnswerMaps
<1>4. ASSUME NEW c \in calls, NEW closed \in BOOLEAN, BlockPosted(c, closed)
      PROVE  Ledger!Next
  <2>1. /\ c.kind = "block"
        /\ closing' = closing \cup (IF closed THEN {c.share} ELSE {})
        /\ UNCHANGED <<accepted, credited>>
        /\ calls' = calls \ {c}
    BY <1>4 DEF BlockPosted
  <2>2. Pending' = Pending
    BY <2>1 DEF Pending
  <2>3. c.share \notin Pending /\ c.share \in accepted /\ c.share \notin closing
    BY <2>1 DEF CallInv, Pending
  <2> DEFINE S == {}
             C == {}
             B == IF closed THEN {c.share} ELSE {}
  <2>4. /\ S \subseteq Pending /\ Pending' = Pending \ S /\ C \subseteq S
        /\ B \subseteq accepted /\ B \cap Pending = {} /\ B \cap closing = {}
        /\ accepted' = accepted /\ credited' = credited \cup C
        /\ closing' = closing \cup B
    BY <2>1, <2>2, <2>3
  <2> HIDE DEF S, C, B
  <2>. QED  BY <1>0, <2>4, AnswerMaps
<1>5. ASSUME NEW R \in SUBSET calls, Crash(R)
      PROVE  Ledger!Next
  <2> DEFINE C == {c.share : c \in {d \in R : d.kind \in {"share", "candidate"}}}
             B == {c.share : c \in {d \in R : d.kind = "block"}}
  <2>1. /\ credited' = credited \cup C
        /\ closing' = closing \cup B
        /\ accepted' = accepted
        /\ calls' = {}
    BY <1>5 DEF Crash
  <2>2. Pending' = Pending \ Pending
    BY <2>1 DEF Pending
  <2>3. C \subseteq Pending
    BY DEF Pending
  <2>4. B \subseteq accepted /\ B \cap Pending = {} /\ B \cap closing = {}
    BY DEF CallInv, Pending
  <2> HIDE DEF C, B
  <2>. QED  BY <1>0, <2>1, <2>2, <2>3, <2>4, AnswerMaps
<1>6. CASE UNCHANGED <<calls, ledgerVars>>
  <2>1. Settled' = Settled
    BY <1>6 DEF Settled, ledgerVars
  <2>. QED  BY <1>6, <2>1 DEF ledgerVars, Ledger!ledgerVars
<1>7. \/ UNCHANGED <<calls, ledgerVars>>
      \/ MinerStep \/ AnswerStep
      \/ \E R \in SUBSET calls : Crash(R)
  BY DEF Next, vars, NewTip, PollTimer, Retarget
<1>8. ASSUME NEW d \in Difficulties, Login(d)
      PROVE  UNCHANGED <<calls, ledgerVars>>
  BY <1>8 DEF Login
<1>9. ASSUME NEW i \in MinerIds, GetJob(i)
      PROVE  UNCHANGED <<calls, ledgerVars>>
  BY <1>9 DEF GetJob
<1>10. ASSUME NEW loop \in BOOLEAN,
              RefreshFails(loop) \/ \E h \in 1..tip : RefreshAnswered(loop, h)
       PROVE  UNCHANGED <<calls, ledgerVars>>
  BY <1>10 DEF RefreshFails, RefreshAnswered, RequestEnds
<1>. QED
  BY <1>1, <1>2, <1>3, <1>4, <1>5, <1>6, <1>7, <1>8, <1>9, <1>10
     DEF MinerStep, AnswerStep

\* The fork keeps ShareLedger's promises: a proof is accepted once, an accepted
\* share is counted at most once, and a round is closed at most once by a share,
\* after the request that counts that share.
THEOREM PoolKeepsLedger == Spec => LedgerSpec
<1>1. Init => CallInv
  BY InitCallInv
<1>2. Spec => []CallInv
  BY <1>1, NextCallInv, Invariance, PTL DEF Spec
<1>. QED  BY <1>2, Invariance, InitMaps, NextMaps, PTL DEF Spec, LedgerSpec, Ledger!Spec
==============================================================================
