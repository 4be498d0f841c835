---------------------------- MODULE EthSharesProofs ----------------------------
(***************************************************************************)
(* Proofs about the shares of the Ethereum proxy, for every set of proofs, *)
(* every window and backlog and every bound: what reaches the engine of a  *)
(* block, and what makes the memory of proofs let one through twice.       *)
(***************************************************************************)
EXTENDS EthShares, SequenceTheorems, TLAPS

Steps == {"node", "check", "mark", "share", "block", "done"}

Records == [proof : Proofs, began : Nat, step : Steps]

Events == [kind : {"checked", "marked", "restart"}, proof : Proofs \union {"none"}, began : Nat]

------------------------------------------------------------------------------
(* Helpers *)

\* What uint64 subtraction gives for heights that are in order
LEMMA MinusInOrder ==
    ASSUME NEW a \in 1..MaxTip, NEW b \in 1..MaxTip, a >= b
    PROVE  Minus(a, b) = a - b
<1>. DEFINE m == 2^Width
<1>1. m \in Nat /\ MaxTip \in Nat /\ MaxTip < m
  BY EthSharesAssumption
<1>. HIDE DEF m
<1>2. a - b \in 0..(m - 1)
  BY <1>1
<1>3. \A d \in 0..(m - 1) : (d + m) % m = d
  BY <1>1
<1>4. a + m - b = (a - b) + m
  BY <1>1
<1>5. (a + m - b) % m = a - b
  BY <1>2, <1>3, <1>4
<1>. QED  BY <1>5 DEF Minus, m

\* The elements of a sequence after one is added
LEMMA Added ==
    ASSUME NEW S, NEW s \in Seq(S), NEW e \in S
    PROVE  /\ Append(s, e) \in Seq(S)
           /\ Len(Append(s, e)) = Len(s) + 1 /\ Len(s) \in Nat
           /\ \A i \in 1..Len(s) : Append(s, e)[i] = s[i]
           /\ Append(s, e)[Len(s) + 1] = e
           /\ ToSet(Append(s, e)) = ToSet(s) \union {e}
<1>1. /\ Append(s, e) \in Seq(S)
      /\ Len(Append(s, e)) = Len(s) + 1 /\ Len(s) \in Nat
      /\ \A i \in 1..Len(s) : Append(s, e)[i] = s[i]
      /\ Append(s, e)[Len(s) + 1] = e
  OBVIOUS
<1>2. /\ DOMAIN s = 1..Len(s) /\ DOMAIN Append(s, e) = 1..(Len(s) + 1)
  BY <1>1
<1>3. ASSUME NEW x \in ToSet(Append(s, e)) PROVE x \in ToSet(s) \union {e}
  <2>1. PICK i \in 1..(Len(s) + 1) : x = Append(s, e)[i]
    BY <1>2 DEF ToSet
  <2>2. CASE i = Len(s) + 1
    BY <1>1, <2>1, <2>2
  <2>3. CASE i \in 1..Len(s)
    BY <1>1, <1>2, <2>1, <2>3 DEF ToSet
  <2>. QED  BY <1>1, <2>1, <2>2, <2>3
<1>4. ASSUME NEW x \in ToSet(s) \union {e} PROVE x \in ToSet(Append(s, e))
  <2>1. CASE x = e
    <3>1. Len(s) + 1 \in 1..(Len(s) + 1)
      BY <1>1
    <3>. QED  BY <1>1, <1>2, <2>1, <3>1 DEF ToSet
  <2>2. CASE x \in ToSet(s)
    <3>1. PICK i \in 1..Len(s) : x = s[i]
      BY <1>2, <2>2 DEF ToSet
    <3>2. i \in 1..(Len(s) + 1)
      BY <1>1
    <3>. QED  BY <1>1, <1>2, <3>1, <3>2 DEF ToSet
  <2>. QED  BY <2>1, <2>2
<1>. QED  BY <1>1, <1>3, <1>4

\* A sequence without repetitions stays one when something new is added.
LEMMA AddedOnce ==
    ASSUME NEW S, NEW s \in Seq(S), NEW e \in S, IsInjective(s), e \notin ToSet(s)
    PROVE  IsInjective(Append(s, e))
<1>1. /\ DOMAIN s = 1..Len(s) /\ Len(s) \in Nat /\ DOMAIN Append(s, e) = 1..(Len(s) + 1)
      /\ \A i \in 1..Len(s) : Append(s, e)[i] = s[i]
      /\ Append(s, e)[Len(s) + 1] = e
  BY Added
<1>2. \A i \in 1..Len(s) : s[i] # e
  BY <1>1 DEF ToSet
<1>3. \A i, j \in 1..Len(s) : s[i] = s[j] => i = j
  BY <1>1 DEF IsInjective
<1>. SUFFICES ASSUME NEW i \in 1..(Len(s) + 1), NEW j \in 1..(Len(s) + 1),
                     Append(s, e)[i] = Append(s, e)[j]
              PROVE  i = j
  BY <1>1 DEF IsInjective
<1>4. i = Len(s) + 1 \/ i \in 1..Len(s)
  BY <1>1
<1>5. j = Len(s) + 1 \/ j \in 1..Len(s)
  BY <1>1
<1>. QED  BY <1>1, <1>2, <1>3, <1>4, <1>5

------------------------------------------------------------------------------
(* Types *)

\* The memory has, at every height it knows, proofs of this height.
PowOK ==
    /\ DOMAIN pow \subseteq 1..MaxTip
    /\ \A h \in DOMAIN pow : pow[h] \subseteq {p \in Proofs : HeightOf[p] = h}

RestOK ==
    /\ tip \in 1..MaxTip
    /\ taken \subseteq BlockProofs
    /\ credits \in Seq(Proofs) /\ recorded \in Seq(BlockProofs)
    /\ seen \in Seq(Events)
    /\ failures \in 0..MaxFailures /\ deaths \in 0..MaxDeaths

\* TypeOK in parts
LEMMA TypeParts == TypeOK <=> PowOK /\ RestOK /\ submissions \in Seq(Records)
BY DEF TypeOK, PowOK, RestOK, Records, Steps, Events

\* One submission goes on to step s, and the others stay where they are.
Moves(r, s) ==
    /\ submissions' \in Seq(Records) /\ Submissions' = Submissions
    /\ \A q \in Submissions :
          /\ submissions'[q].proof = submissions[q].proof
          /\ submissions'[q].began = submissions[q].began
          /\ submissions'[q].step = IF q = r THEN s ELSE submissions[q].step

\* One submission takes a step, the others stay where they are.
LEMMA GotoMoves ==
    ASSUME submissions \in Seq(Records), NEW r \in Submissions, NEW s \in Steps, Goto(r, s)
    PROVE  Moves(r, s)
<1>. DEFINE rec == [submissions[r] EXCEPT !.step = s]
<1>1. submissions[r] \in Records
  BY DEF Submissions
<1>2. /\ rec \in Records /\ rec.proof = submissions[r].proof
      /\ rec.began = submissions[r].began /\ rec.step = s
  BY <1>1 DEF Records
<1>3. submissions' = [submissions EXCEPT ![r] = rec]
  BY DEF Goto
<1>. HIDE DEF rec
<1>4. /\ submissions' \in Seq(Records) /\ Len(submissions') = Len(submissions)
      /\ \A q \in Submissions : submissions'[q] = IF q = r THEN rec ELSE submissions[q]
  BY <1>2, <1>3 DEF Submissions
<1>. QED  BY <1>2, <1>4 DEF Moves, Submissions

\* The steps a goroutine takes without looking at the memory
LEMMA ProcessKinds ==
    ASSUME NEW r \in Submissions,
           NodeTakes(r) \/ NodeRefuses(r) \/ NodeUnreachable(r) \/ MarkPanics(r)
               \/ PostShare(r) \/ PostBlock(r)
    PROVE  \E s \in Steps \ {"node", "mark"} : Goto(r, s) /\ UNCHANGED <<tip, seen, pow>>
BY DEF Steps, NodeTakes, NodeRefuses, NodeUnreachable, MarkPanics, PostShare, PostBlock,
       AfterShare

\* The memory after a check at height h
CheckedAt(h) == [k \in Kept(h) \union {h} |-> IF k \in Kept(h) THEN pow[k] ELSE {}]

\* A check leaves the memory in order.
LEMMA CheckTypes ==
    ASSUME PowOK, NEW h \in 1..MaxTip, pow' = CheckedAt(h)
    PROVE  PowOK'
BY DEF PowOK, CheckedAt, Kept

\* So does a mark.
LEMMA MarkTypes ==
    ASSUME PowOK, NEW p \in Proofs, HeightOf[p] \in DOMAIN pow,
           pow' = [pow EXCEPT ![HeightOf[p]] = @ \union {p}]
    PROVE  PowOK'
<1>1. DOMAIN pow' = DOMAIN pow
  OBVIOUS
<1>2. \A h \in DOMAIN pow : pow'[h] = IF h = HeightOf[p] THEN pow[h] \union {p} ELSE pow[h]
  OBVIOUS
<1>. QED  BY <1>1, <1>2 DEF PowOK

\* What a submission is, and the event it makes
LEMMA RecordOf ==
    ASSUME submissions \in Seq(Records), NEW r \in Submissions
    PROVE  /\ ProofOf(r) \in Proofs /\ submissions[r].began \in Nat
           /\ submissions[r].step \in Steps
           /\ HeightOf[ProofOf(r)] \in 1..MaxTip
           /\ \A k \in {"checked", "marked"} : Event(k, r) \in Events
<1>1. submissions[r] \in Records
  BY DEF Submissions
<1>2. ProofOf(r) \in Proofs /\ submissions[r].began \in Nat /\ submissions[r].step \in Steps
  BY <1>1 DEF Records, ProofOf
<1>. QED  BY <1>2, EthSharesAssumption DEF Event, Events

\* Only blocks are taken to the node, and posted as blocks.
BlockSteps ==
    \A r \in Submissions : submissions[r].step \in {"node", "block"} => ProofOf(r) \in BlockProofs

TypeInv == PowOK /\ RestOK /\ submissions \in Seq(Records) /\ BlockSteps

\* A submission that arrives is of the right kind.
LEMMA SubmitTypes ==
    ASSUME TypeInv, NEW p \in Proofs, Submit(p)
    PROVE  TypeInv'
<1>. DEFINE new == [proof |-> p, began |-> Len(seen),
                    step |-> IF p \in BlockProofs THEN "node" ELSE "check"]
<1>1. submissions' = Append(submissions, new) /\ submissions \in Seq(Records)
  BY DEF Submit, TypeInv
<1>2. new \in Records /\ new.proof = p /\ (new.step \in {"node", "block"} => p \in BlockProofs)
  BY DEF TypeInv, RestOK, Records, Steps
<1>. HIDE DEF new
<1>3. /\ submissions' \in Seq(Records) /\ Len(submissions') = Len(submissions) + 1
      /\ Len(submissions) \in Nat
      /\ \A r \in 1..Len(submissions) : submissions'[r] = submissions[r]
      /\ submissions'[Len(submissions) + 1] = new
  BY <1>1, <1>2
<1>4. BlockSteps'
  <2>. SUFFICES ASSUME NEW r \in 1..Len(submissions'),
                       submissions'[r].step \in {"node", "block"}
                PROVE  submissions'[r].proof \in BlockProofs
    BY DEF BlockSteps, Submissions, ProofOf
  <2>1. CASE r \in 1..Len(submissions)
    BY <1>3, <2>1 DEF TypeInv, BlockSteps, Submissions, ProofOf
  <2>2. CASE r = Len(submissions) + 1
    BY <1>2, <1>3, <2>2
  <2>. QED  BY <1>3, <2>1, <2>2
<1>. QED  BY <1>3, <1>4 DEF Submit, TypeInv, PowOK, RestOK

\* A step of a goroutine keeps the types.
LEMMA HandlingTypes ==
    ASSUME TypeInv, NEW r \in Submissions, processShare(r)
    PROVE  TypeInv'
<1>0. /\ ProofOf(r) \in Proofs /\ HeightOf[ProofOf(r)] \in 1..MaxTip
      /\ \A k \in {"checked", "marked"} : Event(k, r) \in Events
      /\ submissions \in Seq(Records)
  BY RecordOf DEF TypeInv
<1>1. /\ PowOK /\ tip \in 1..MaxTip /\ taken \subseteq BlockProofs
      /\ credits \in Seq(Proofs) /\ recorded \in Seq(BlockProofs) /\ seen \in Seq(Events)
      /\ failures \in 0..MaxFailures /\ deaths \in 0..MaxDeaths
      /\ MaxFailures \in Nat /\ MaxDeaths \in Nat
      /\ (At(r, "node") \/ At(r, "block") => ProofOf(r) \in BlockProofs)
  BY EthSharesAssumption DEF TypeInv, RestOK, BlockSteps, At
<1>2. PICK s \in Steps : Goto(r, s) /\ (s \in {"node", "block"} => ProofOf(r) \in BlockProofs)
  BY DEF processShare, Steps, NodeTakes, NodeRefuses, NodeUnreachable, CheckPoW,
         MarkPoW, MarkPanics, PostShare, PostBlock, AfterShare
<1>3. Moves(r, s)
  BY <1>0, <1>2, GotoMoves
<1>4. submissions' \in Seq(Records) /\ BlockSteps'
  BY <1>2, <1>3 DEF Moves, TypeInv, BlockSteps, ProofOf
<1>5. PowOK'
  <2>1. CASE CheckPoW(r)
    BY <1>0, <1>1, <2>1, CheckTypes DEF CheckPoW, CheckedAt
  <2>2. CASE MarkPoW(r)
    BY <1>0, <1>1, <2>2, MarkTypes DEF MarkPoW
  <2>3. CASE ~CheckPoW(r) /\ ~MarkPoW(r)
    BY <1>1, <2>3, ProcessKinds DEF processShare, PowOK
  <2>. QED  BY <2>1, <2>2, <2>3
<1>6. seen' \in Seq(Events)
  <2>1. CASE CheckPoW(r)
    BY <1>0, <1>1, <2>1 DEF CheckPoW
  <2>2. CASE MarkPoW(r)
    BY <1>0, <1>1, <2>2 DEF MarkPoW
  <2>3. CASE ~CheckPoW(r) /\ ~MarkPoW(r)
    BY <1>1, <2>3, ProcessKinds DEF processShare
  <2>. QED  BY <2>1, <2>2, <2>3
<1>7. tip' = tip
  BY DEF processShare, NodeTakes, NodeRefuses, NodeUnreachable, CheckPoW,
         MarkPoW, MarkPanics, PostShare, PostBlock
<1>8. credits' \in Seq(Proofs) /\ recorded' \in Seq(BlockProofs)
  <2>1. credits' \in {credits, Append(credits, ProofOf(r))}
    BY DEF processShare, NodeTakes, NodeRefuses, NodeUnreachable, CheckPoW,
           MarkPoW, MarkPanics, PostShare, PostBlock
  <2>2. \/ recorded' = recorded
        \/ recorded' = Append(recorded, ProofOf(r)) /\ ProofOf(r) \in BlockProofs
    BY <1>1 DEF processShare, NodeTakes, NodeRefuses, NodeUnreachable, CheckPoW,
           MarkPoW, MarkPanics, PostShare, PostBlock
  <2>3. credits' \in Seq(Proofs)
    <3>1. Append(credits, ProofOf(r)) \in Seq(Proofs)
      BY <1>0, <1>1
    <3>. QED  BY <1>1, <2>1, <3>1
  <2>4. recorded' \in Seq(BlockProofs)
    <3>1. CASE recorded' = recorded
      BY <1>1, <3>1
    <3>2. CASE recorded' = Append(recorded, ProofOf(r)) /\ ProofOf(r) \in BlockProofs
      BY <1>1, <3>2
    <3>. QED  BY <2>2, <3>1, <3>2
  <2>. QED  BY <2>3, <2>4
<1>9. taken' \subseteq BlockProofs
  BY <1>1 DEF processShare, NodeTakes, NodeRefuses, NodeUnreachable, CheckPoW,
         MarkPoW, MarkPanics, PostShare, PostBlock
<1>10. /\ \/ failures' = failures
          \/ failures < MaxFailures /\ failures' = failures + 1
       /\ \/ deaths' = deaths
          \/ deaths < MaxDeaths /\ deaths' = deaths + 1
  BY DEF processShare, NodeTakes, NodeRefuses, NodeUnreachable, CheckPoW,
         MarkPoW, MarkPanics, PostShare, PostBlock
<1>11. failures' \in 0..MaxFailures /\ deaths' \in 0..MaxDeaths
  BY <1>1, <1>10
<1>. QED  BY <1>1, <1>4, <1>5, <1>6, <1>7, <1>8, <1>9, <1>11 DEF TypeInv, RestOK

\* What a death leaves
LEMMA Emptied ==
    ASSUME TypeInv, Crash
    PROVE  /\ submissions' \in Seq(Records) /\ Submissions' = Submissions
           /\ \A r \in Submissions : /\ submissions'[r].proof = submissions[r].proof
                                     /\ submissions'[r].began = submissions[r].began
                                     /\ submissions'[r].step = "done"
           /\ DOMAIN pow' = {}
           /\ deaths' \in 0..MaxDeaths /\ deaths' > 0
<1>1. submissions \in Seq(Records) /\ deaths \in 0..MaxDeaths /\ MaxDeaths \in Nat
  BY EthSharesAssumption DEF TypeInv, RestOK
<1>2. submissions' = [r \in Submissions |-> [submissions[r] EXCEPT !.step = "done"]]
  BY DEF Crash
<1>3. \A r \in Submissions : /\ submissions'[r] \in Records
                             /\ submissions'[r].proof = submissions[r].proof
                             /\ submissions'[r].began = submissions[r].began
                             /\ submissions'[r].step = "done"
  <2>. SUFFICES ASSUME NEW r \in Submissions
                PROVE  /\ submissions'[r] \in Records
                       /\ submissions'[r].proof = submissions[r].proof
                       /\ submissions'[r].began = submissions[r].began
                       /\ submissions'[r].step = "done"
    OBVIOUS
  <2>1. submissions[r] \in Records
    BY <1>1 DEF Submissions
  <2>2. submissions'[r] = [submissions[r] EXCEPT !.step = "done"]
    BY <1>2
  <2>. QED  BY <2>1, <2>2 DEF Records, Steps
<1>4. submissions' \in [1..Len(submissions) -> Records] /\ Len(submissions) \in Nat
  BY <1>1, <1>2, <1>3 DEF Submissions
<1>5. submissions' \in Seq(Records) /\ Len(submissions') = Len(submissions)
  BY <1>4
<1>6. DOMAIN pow' = {}
  BY DEF Crash
<1>. QED  BY <1>1, <1>3, <1>5, <1>6 DEF Crash, Submissions

\* Every step keeps the types.
LEMMA NextTypes == TypeInv /\ [Next]_vars => TypeInv'
<1>. SUFFICES ASSUME TypeInv, [Next]_vars PROVE TypeInv'
  OBVIOUS
<1>1. CASE NewTemplate
  <2>1. tip' \in 1..MaxTip
    BY <1>1, EthSharesAssumption DEF NewTemplate, TypeInv, RestOK
  <2>. QED  BY <1>1, <2>1 DEF NewTemplate, TypeInv, PowOK, RestOK, BlockSteps, Submissions, ProofOf
<1>2. CASE Crash
  <2>1. /\ submissions' \in Seq(Records) /\ BlockSteps' /\ PowOK' /\ deaths' \in 0..MaxDeaths
    BY <1>2, Emptied DEF BlockSteps, PowOK
  <2>2. seen' \in Seq(Events)
    <3>1. [kind |-> "restart", proof |-> "none", began |-> Len(seen)] \in Events
      BY DEF Events, TypeInv, RestOK
    <3>. QED  BY <1>2, <3>1 DEF Crash, TypeInv, RestOK
  <2>. QED  BY <1>2, <2>1, <2>2 DEF Crash, TypeInv, RestOK
<1>3. CASE UNCHANGED vars
  BY <1>3 DEF vars, TypeInv, PowOK, RestOK, BlockSteps, Submissions, ProofOf
<1>. QED  BY <1>1, <1>2, <1>3, SubmitTypes, HandlingTypes DEF Next

\* They hold at the start.
LEMMA InitTypes == Init => TypeInv
<1>. SUFFICES ASSUME Init PROVE TypeInv
  OBVIOUS
<1>1. 1 \in 1..MaxTip /\ 0 \in 0..MaxFailures /\ 0 \in 0..MaxDeaths
  <2>1. MaxTip \in Nat \ {0} /\ MaxFailures \in Nat /\ MaxDeaths \in Nat
    BY EthSharesAssumption
  <2>. QED  BY <2>1
<1>2. PowOK
  BY DEF Init, PowOK
<1>3. RestOK
  BY <1>1 DEF Init, RestOK
<1>. QED  BY <1>2, <1>3 DEF Init, TypeInv, BlockSteps, Submissions

\* The proxy's variables hold what the code may put there.
THEOREM TypeCorrect == Spec => []TypeOK
<1>1. TypeInv => TypeOK
  BY TypeParts DEF TypeInv
<1>. QED  BY InitTypes, NextTypes, <1>1, PTL DEF Spec

------------------------------------------------------------------------------
(* Blocks *)

\* The submission of a block is past the node, on its way to the engine.
Past(r) ==
    submissions[r].step \in {"check", "mark", "share", "block"} /\ ProofOf(r) \in BlockProofs

\* It was taken and is not recorded yet, and it is the only one for its block.
OnItsWay ==
    \A r \in Submissions :
        Past(r) => /\ ProofOf(r) \in taken /\ ProofOf(r) \notin ToSet(recorded)
                   /\ \A q \in Submissions : Past(q) /\ ProofOf(q) = ProofOf(r) => q = r

\* The memory knows no block the node has not taken, nor one that is not marked yet.
MemoryOfBlocks ==
    \A h \in DOMAIN pow : \A p \in pow[h] \intersect BlockProofs :
        /\ p \in taken
        /\ \A r \in Submissions :
              submissions[r].step \in {"check", "mark"} => ProofOf(r) # p

\* A block is posted only after its share.
CreditedFirst == \A r \in Submissions : At(r, "block") => ProofOf(r) \in ToSet(credits)

\* What is known of blocks on their way to the engine
BlockInv ==
    OnItsWay /\ MemoryOfBlocks /\ CreditedFirst /\ BlockAfterItsShare /\ NoBlockForgotten

\* A fault excuses blocks that are lost.
LEMMA FaultExcuses ==
    ASSUME TypeInv', failures' > 0 \/ deaths' > 0
    PROVE  NoBlockForgotten'
<1>1. failures' \in Nat /\ deaths' \in Nat
  BY DEF TypeInv, RestOK
<1>2. \A f, d \in Nat : f > 0 \/ d > 0 => f + d > 0
  OBVIOUS
<1>3. failures' + deaths' > 0
  BY <1>1, <1>2
<1>. QED  BY <1>3 DEF NoBlockForgotten

\* Blocks are not forgotten by a step that leaves alone what is known of them, and
\* whose submissions stay on their way.
LEMMA StillOnTheWay ==
    ASSUME NoBlockForgotten, Submissions \subseteq Submissions', taken' = taken,
           ToSet(recorded) \subseteq ToSet(recorded'),
           UNCHANGED <<failures, deaths>>,
           \A r \in Submissions : /\ submissions'[r].proof = submissions[r].proof
                                  /\ r \in InFlight /\ ~At(r, "node") /\ ProofOf(r) \in taken
                                     => \/ submissions'[r].step \notin {"done", "node"}
                                        \/ ProofOf(r) \in ToSet(recorded')
    PROVE  NoBlockForgotten'
<1>. SUFFICES ASSUME NEW p \in taken, p \notin ToSet(recorded'), ~(failures + deaths > 0)
              PROVE  \E r \in InFlight' : ProofOf(r)' = p /\ ~At(r, "node")'
  BY DEF NoBlockForgotten
<1>1. PICK r \in InFlight : ProofOf(r) = p /\ ~At(r, "node")
  BY DEF NoBlockForgotten
<1>2. r \in Submissions
  BY DEF InFlight
<1>3. submissions'[r].step \notin {"done", "node"} /\ submissions'[r].proof = p
  BY <1>1, <1>2 DEF ProofOf
<1>4. r \in InFlight'
  BY <1>2, <1>3 DEF InFlight
<1>. QED  BY <1>3, <1>4 DEF ProofOf, At

\* A submission that arrives is not past the node.
LEMMA SubmitBlocks ==
    ASSUME TypeInv, BlockInv, NEW p \in Proofs, Submit(p)
    PROVE  BlockInv'
<1>. DEFINE new == [proof |-> p, began |-> Len(seen),
                    step |-> IF p \in BlockProofs THEN "node" ELSE "check"]
<1>0. PICK n : n = Len(submissions) + 1
  OBVIOUS
<1>1. submissions' = Append(submissions, new) /\ submissions \in Seq(Records)
  BY DEF Submit, TypeInv
<1>2. /\ new \in Records /\ new.proof = p
      /\ new.step \in {"check", "node"}
      /\ new.step = "check" => p \notin BlockProofs
  BY DEF TypeInv, RestOK, Records, Steps
<1>. HIDE DEF new
<1>3. /\ Submissions' = Submissions \union {n} /\ Submissions \subseteq Submissions'
      /\ n \notin Submissions
      /\ \A r \in Submissions : submissions'[r] = submissions[r]
      /\ submissions'[n] = new
  BY <1>0, <1>1, <1>2 DEF Submissions
<1>4. UNCHANGED <<tip, pow, taken, credits, recorded, failures, deaths>>
  BY DEF Submit
<1>5. ~Past(n)' /\ ~At(n, "block")'
  BY <1>2, <1>3 DEF Past, At, ProofOf
<1>6. \A r \in Submissions : /\ Past(r)' <=> Past(r)
                             /\ ProofOf(r)' = ProofOf(r)
  BY <1>3 DEF Past, ProofOf
<1>7. OnItsWay'
  BY <1>3, <1>4, <1>5, <1>6 DEF BlockInv, OnItsWay
<1>8. MemoryOfBlocks'
  <2>. SUFFICES ASSUME NEW h \in DOMAIN pow, NEW b \in pow[h] \intersect BlockProofs,
                       NEW r \in Submissions', submissions'[r].step \in {"check", "mark"}
                PROVE  submissions'[r].proof # b
    BY <1>4 DEF BlockInv, MemoryOfBlocks, ProofOf
  <2>1. CASE r = n
    BY <1>2, <1>3, <2>1
  <2>2. CASE r \in Submissions
    BY <1>3, <2>2 DEF BlockInv, MemoryOfBlocks, ProofOf
  <2>. QED  BY <1>3, <2>1, <2>2
<1>9. CreditedFirst'
  BY <1>3, <1>4, <1>5 DEF BlockInv, CreditedFirst, At, ProofOf
<1>10. NoBlockForgotten'
  BY <1>3, <1>4, StillOnTheWay DEF BlockInv, InFlight, At
<1>. QED  BY <1>4, <1>7, <1>8, <1>9, <1>10 DEF BlockInv, BlockAfterItsShare

\* What a step keeps that ends a submission without a block on its way, or goes on
\* with one and leaves the memory no larger for it.
LEMMA StepBlocks ==
    ASSUME TypeInv, TypeInv', BlockInv, NEW r \in Submissions, NEW s \in Steps \ {"node"},
           Goto(r, s), UNCHANGED <<taken, recorded>>,
           ToSet(credits) \subseteq ToSet(credits'),
           s # "done" => ~At(r, "node") /\ ~At(r, "done"),
           s = "block" => ProofOf(r) \in ToSet(credits'),
           s \in {"check", "mark"} => submissions[r].step \in {"check", "mark"},
           \A h \in DOMAIN pow' : \A p \in pow'[h] \intersect BlockProofs :
               \/ \E k \in DOMAIN pow : p \in pow[k]
               \/ p = ProofOf(r) /\ Past(r) /\ s \notin {"check", "mark"},
           \/ UNCHANGED <<failures, deaths>>
              /\ (s = "done" => At(r, "node") \/ ProofOf(r) \notin BlockProofs)
           \/ failures' > 0 \/ deaths' > 0
    PROVE  BlockInv'
<1>1. Moves(r, s)
  BY GotoMoves DEF TypeInv
<1>2. \A q \in Submissions' : /\ q \in Submissions /\ ProofOf(q)' = ProofOf(q)
                              /\ submissions'[q].step = IF q = r THEN s ELSE submissions[q].step
  BY <1>1 DEF Moves, ProofOf
<1>3. ASSUME NEW q \in Submissions', Past(q)' PROVE Past(q)
  <2>1. CASE q = r
    <3>1. submissions[r].step \notin {"node", "done"}
      BY <1>2, <1>3, <2>1 DEF Past, At
    <3>2. submissions[r].step \in Steps
      BY RecordOf DEF TypeInv
    <3>. QED  BY <1>2, <1>3, <2>1, <3>1, <3>2 DEF Past, Steps
  <2>2. CASE q # r
    BY <1>2, <1>3, <2>2 DEF Past
  <2>. QED  BY <2>1, <2>2
<1>4. OnItsWay'
  BY <1>2, <1>3 DEF BlockInv, OnItsWay
<1>5. MemoryOfBlocks'
  <2>. SUFFICES ASSUME NEW h \in DOMAIN pow', NEW p \in pow'[h] \intersect BlockProofs
                PROVE  /\ p \in taken
                       /\ \A q \in Submissions' :
                             submissions'[q].step \in {"check", "mark"} => ProofOf(q)' # p
    BY DEF MemoryOfBlocks
  <2>1. CASE \E k \in DOMAIN pow : p \in pow[k]
    <3>1. /\ p \in taken
          /\ \A q \in Submissions :
                submissions[q].step \in {"check", "mark"} => ProofOf(q) # p
      BY <2>1 DEF BlockInv, MemoryOfBlocks
    <3>2. \A q \in Submissions' :
             submissions'[q].step \in {"check", "mark"} => submissions[q].step \in {"check", "mark"}
      BY <1>2
    <3>. QED  BY <1>2, <3>1, <3>2
  <2>2. CASE p = ProofOf(r) /\ Past(r) /\ s \notin {"check", "mark"}
    <3>1. p \in taken
      BY <2>2 DEF BlockInv, OnItsWay
    <3>2. ASSUME NEW q \in Submissions', submissions'[q].step \in {"check", "mark"},
                 ProofOf(q)' = p
          PROVE  FALSE
      <4>1. q # r /\ submissions[q].step \in {"check", "mark"} /\ ProofOf(q) = p
        BY <1>2, <2>2, <3>2
      <4>2. Past(q)
        BY <4>1 DEF Past
      <4>. QED  BY <1>2, <2>2, <4>1, <4>2 DEF BlockInv, OnItsWay
    <3>. QED  BY <3>1, <3>2
  <2>. QED  BY <2>1, <2>2
<1>6. CreditedFirst'
  BY <1>2 DEF BlockInv, CreditedFirst, At
<1>7. BlockAfterItsShare'
  BY DEF BlockInv, BlockAfterItsShare
<1>8. NoBlockForgotten'
  <2>1. CASE failures' > 0 \/ deaths' > 0
    BY <2>1, FaultExcuses
  <2>2. CASE /\ UNCHANGED <<failures, deaths>>
             /\ s = "done" => At(r, "node") \/ ProofOf(r) \notin BlockProofs
    <3>1. ASSUME NEW q \in Submissions, q \in InFlight, ~At(q, "node"), ProofOf(q) \in taken
          PROVE  submissions'[q].step \notin {"done", "node"}
      <4>1. ProofOf(q) \in BlockProofs /\ submissions[q].step # "done"
        BY <3>1 DEF TypeInv, RestOK, InFlight
      <4>. QED  BY <1>1, <2>2, <3>1, <4>1 DEF Moves, At
    <3>2. Submissions \subseteq Submissions'
          /\ \A q \in Submissions : submissions'[q].proof = submissions[q].proof
      BY <1>1 DEF Moves
    <3>. QED  BY <2>2, <3>1, <3>2, StillOnTheWay DEF BlockInv
  <2>. QED  BY <2>1, <2>2
<1>. QED  BY <1>4, <1>5, <1>6, <1>7, <1>8 DEF BlockInv

\* The node takes a block once: nobody else is on the way with it.
LEMMA NodeTakesBlocks ==
    ASSUME TypeInv, TypeInv', BlockInv, NEW r \in Submissions, NodeTakes(r)
    PROVE  BlockInv'
<1>. DEFINE p == ProofOf(r)
<1>1. /\ At(r, "node") /\ p \notin taken /\ taken' = taken \union {p} /\ p \in BlockProofs
      /\ UNCHANGED <<pow, credits, recorded>>
  BY DEF NodeTakes, SubmitBlock, TypeInv, BlockSteps, At
<1>2. PICK s \in {"check", "done"} :
          /\ Goto(r, s)
          /\ s = "check" => UNCHANGED <<failures, deaths>>
          /\ s = "done" => failures' = failures + 1
  BY DEF NodeTakes
<1>3. Moves(r, s)
  BY <1>2, GotoMoves DEF TypeInv, Steps
<1>4. \A q \in Submissions' : /\ q \in Submissions /\ ProofOf(q)' = ProofOf(q)
                              /\ submissions'[q].step = IF q = r THEN s ELSE submissions[q].step
  BY <1>3 DEF Moves, ProofOf
<1>5. \A q \in Submissions' : q # r /\ Past(q)' => Past(q) /\ ProofOf(q) \in taken
  BY <1>4 DEF Past, BlockInv, OnItsWay
<1>. HIDE DEF p
<1>6. OnItsWay'
  <2>1. p \notin ToSet(recorded) /\ p = ProofOf(r)
    BY <1>1 DEF BlockInv, BlockAfterItsShare, p
  <2>2. ASSUME NEW q \in Submissions', Past(q)'
        PROVE  /\ ProofOf(q) \in taken' /\ ProofOf(q) \notin ToSet(recorded)
               /\ \A o \in Submissions' : Past(o)' /\ ProofOf(o) = ProofOf(q) => o = q
    <3>1. CASE q = r
      BY <1>1, <1>5, <2>1, <3>1
    <3>2. CASE q # r
      <4>1. q \in Submissions /\ Past(q) /\ ProofOf(q) \in taken
        BY <1>4, <1>5, <2>2, <3>2
      <4>2. \A o \in Submissions' : Past(o)' /\ ProofOf(o) = ProofOf(q) => o = q
        BY <1>1, <1>4, <1>5, <2>1, <4>1 DEF BlockInv, OnItsWay
      <4>. QED  BY <1>1, <4>1, <4>2 DEF BlockInv, OnItsWay
    <3>. QED  BY <3>1, <3>2
  <2>. QED  BY <1>1, <1>4, <2>2 DEF OnItsWay
<1>7. MemoryOfBlocks'
  <2>. SUFFICES ASSUME NEW h \in DOMAIN pow, NEW b \in pow[h] \intersect BlockProofs
                PROVE  /\ b \in taken'
                       /\ \A q \in Submissions' :
                             submissions'[q].step \in {"check", "mark"} => ProofOf(q)' # b
    BY <1>1 DEF MemoryOfBlocks
  <2>1. /\ b \in taken
        /\ \A q \in Submissions : submissions[q].step \in {"check", "mark"} => ProofOf(q) # b
    BY DEF BlockInv, MemoryOfBlocks
  <2>. QED  BY <1>1, <1>4, <2>1 DEF p
<1>8. CreditedFirst'
  BY <1>1, <1>2, <1>4 DEF BlockInv, CreditedFirst, At
<1>9. BlockAfterItsShare'
  BY <1>1 DEF BlockInv, BlockAfterItsShare
<1>10. NoBlockForgotten'
  <2>1. CASE s = "done"
    <3>1. failures' > 0
      BY <1>2, <2>1 DEF TypeInv, RestOK
    <3>. QED  BY <3>1, FaultExcuses
  <2>2. CASE s = "check"
    <3>. SUFFICES ASSUME NEW b \in taken', b \notin ToSet(recorded), ~(failures + deaths > 0)
                  PROVE  \E q \in InFlight' : ProofOf(q)' = b /\ ~At(q, "node")'
      BY <1>1, <1>2, <2>2 DEF NoBlockForgotten
    <3>1. CASE b = p
      <4>1. r \in InFlight' /\ ~At(r, "node")'
        BY <1>3, <2>2 DEF Moves, InFlight, At
      <4>. QED  BY <1>3, <3>1, <4>1 DEF Moves, ProofOf, p
    <3>2. CASE b \in taken
      <4>1. PICK q \in InFlight : ProofOf(q) = b /\ ~At(q, "node")
        BY <3>2 DEF BlockInv, NoBlockForgotten
      <4>2. q \in Submissions /\ q # r
        BY <1>1, <4>1 DEF InFlight
      <4>3. q \in InFlight' /\ ProofOf(q)' = b /\ ~At(q, "node")'
        BY <1>3, <4>1, <4>2 DEF Moves, InFlight, At, ProofOf
      <4>. QED  BY <4>3
    <3>. QED  BY <1>1, <3>1, <3>2
  <2>. QED  BY <1>2, <2>1, <2>2
<1>. QED  BY <1>6, <1>7, <1>8, <1>9, <1>10 DEF BlockInv

\* A block is recorded once, and its submission is over.
LEMMA PostBlockBlocks ==
    ASSUME TypeInv, TypeInv', BlockInv, NEW r \in Submissions, PostBlock(r)
    PROVE  BlockInv'
<1>. DEFINE p == ProofOf(r)
<1>1. /\ At(r, "block") /\ Goto(r, "done") /\ p \in BlockProofs /\ p \in ToSet(credits)
      /\ p \in taken /\ p \notin ToSet(recorded)
      /\ \A q \in Submissions : Past(q) /\ ProofOf(q) = p => q = r
      /\ UNCHANGED <<pow, taken, credits, deaths>>
  BY DEF PostBlock, TypeInv, BlockSteps, At, BlockInv, CreditedFirst, OnItsWay, Past
<1>2. CASE recorded' = recorded /\ failures' = failures + 1
  <2>1. failures' > 0
    BY <1>2 DEF TypeInv, RestOK
  <2>. QED  BY <1>1, <1>2, <2>1, StepBlocks DEF Steps
<1>3. CASE recorded' = Append(recorded, p) /\ UNCHANGED failures
  <2>1. /\ recorded \in Seq(BlockProofs) /\ IsInjective(recorded)
    BY DEF TypeInv, RestOK, BlockInv, BlockAfterItsShare
  <2>2. ToSet(recorded') = ToSet(recorded) \union {p} /\ IsInjective(recorded')
    BY <1>1, <1>3, <2>1, Added, AddedOnce
  <2>3. Moves(r, "done")
    BY <1>1, GotoMoves DEF TypeInv, Steps
  <2>4. \A q \in Submissions' :
            /\ q \in Submissions /\ ProofOf(q)' = ProofOf(q)
            /\ submissions'[q].step = IF q = r THEN "done" ELSE submissions[q].step
    BY <2>3 DEF Moves, ProofOf
  <2>5. \A q \in Submissions' : Past(q)' => Past(q) /\ q # r
    BY <2>4 DEF Past
  <2>. HIDE DEF p
  <2>6. OnItsWay'
    BY <1>1, <2>2, <2>4, <2>5 DEF BlockInv, OnItsWay
  <2>7. MemoryOfBlocks'
    BY <1>1, <2>4 DEF BlockInv, MemoryOfBlocks
  <2>8. CreditedFirst'
    BY <1>1, <2>4 DEF BlockInv, CreditedFirst, At
  <2>9. BlockAfterItsShare'
    BY <1>1, <2>2 DEF BlockInv, BlockAfterItsShare
  <2>10. NoBlockForgotten'
    <3>1. ASSUME NEW q \in Submissions, q \in InFlight, ~At(q, "node")
          PROVE  \/ submissions'[q].step \notin {"done", "node"}
                 \/ ProofOf(q) \in ToSet(recorded')
      <4>1. CASE q = r
        BY <2>2, <4>1 DEF p
      <4>2. CASE q # r
        BY <2>3, <3>1, <4>2 DEF Moves, InFlight, At
      <4>. QED  BY <4>1, <4>2
    <3>2. Submissions \subseteq Submissions'
          /\ \A q \in Submissions : submissions'[q].proof = submissions[q].proof
      BY <2>3 DEF Moves
    <3>. QED  BY <1>1, <1>3, <2>2, <3>1, <3>2, StillOnTheWay DEF BlockInv
  <2>. QED  BY <2>6, <2>7, <2>8, <2>9, <2>10 DEF BlockInv
<1>. QED  BY <1>2, <1>3 DEF PostBlock

\* What is not a block, or was not taken, may be dropped, and a fault excuses the rest.
LEMMA DropBlocks ==
    ASSUME TypeInv, TypeInv', BlockInv, NEW r \in Submissions,
           NodeRefuses(r) \/ NodeUnreachable(r) \/ MarkPanics(r)
    PROVE  BlockInv'
<1>1. /\ Goto(r, "done") /\ UNCHANGED <<pow, taken, recorded, credits>>
      /\ \/ At(r, "node") /\ UNCHANGED <<failures, deaths>>
         \/ failures' = failures + 1
         \/ deaths' = deaths + 1
  BY DEF NodeRefuses, NodeUnreachable, MarkPanics
<1>2. \/ At(r, "node") /\ UNCHANGED <<failures, deaths>>
      \/ failures' > 0
      \/ deaths' > 0
  BY <1>1 DEF TypeInv, RestOK
<1>3. \A h \in DOMAIN pow' : \A p \in pow'[h] \intersect BlockProofs :
          \E k \in DOMAIN pow : p \in pow[k]
  BY <1>1
<1>. QED  BY <1>1, <1>2, <1>3, StepBlocks DEF Steps

\* A check adds nothing to the memory, and lets every block of the node's through.
LEMMA CheckBlocks ==
    ASSUME TypeInv, TypeInv', BlockInv, NEW r \in Submissions, CheckPoW(r)
    PROVE  BlockInv'
<1>. DEFINE p == ProofOf(r)
            h == HeightOf[p]
            known == h \in Kept(h) /\ p \in pow[h]
<1>1. /\ At(r, "check") /\ pow' = CheckedAt(h) /\ UNCHANGED <<taken, credits, recorded>>
      /\ UNCHANGED <<failures, deaths>>
  BY DEF CheckPoW, CheckedAt
<1>2. PICK s \in {"done", "mark"} : Goto(r, s) /\ (s = "done" <=> known)
  BY DEF CheckPoW
<1>3. s = "done" => p \notin BlockProofs
  <2>. SUFFICES ASSUME known, p \in BlockProofs PROVE FALSE
    BY <1>2
  <2>1. h \in DOMAIN pow /\ p \in pow[h]
    BY DEF Kept
  <2>. QED  BY <1>1, <2>1 DEF BlockInv, MemoryOfBlocks, At
<1>. HIDE DEF h
<1>4. \A k \in DOMAIN pow' : \A b \in pow'[k] \intersect BlockProofs :
          \E l \in DOMAIN pow : b \in pow[l]
  BY <1>1 DEF CheckedAt, Kept
<1>. QED  BY <1>1, <1>2, <1>3, <1>4, StepBlocks DEF Steps, At

\* A mark is made for a block that is past the node, once.
LEMMA MarkBlocks ==
    ASSUME TypeInv, TypeInv', BlockInv, NEW r \in Submissions, MarkPoW(r)
    PROVE  BlockInv'
<1>. DEFINE p == ProofOf(r)
            h == HeightOf[p]
<1>1. /\ At(r, "mark") /\ pow' = [pow EXCEPT ![h] = @ \union {p}] /\ Goto(r, "share")
      /\ UNCHANGED <<taken, credits, recorded, failures, deaths>>
  BY DEF MarkPoW
<1>2. p \in BlockProofs => Past(r)
  BY <1>1 DEF Past, At
<1>. HIDE DEF h
<1>3. \A k \in DOMAIN pow' : \A b \in pow'[k] \intersect BlockProofs :
          (\E l \in DOMAIN pow : b \in pow[l]) \/ (b = p /\ Past(r))
  BY <1>1, <1>2
<1>. QED  BY <1>1, <1>3, StepBlocks DEF Steps, At

\* The share of a block is credited, or a fault is to blame.
LEMMA ShareBlocks ==
    ASSUME TypeInv, TypeInv', BlockInv, NEW r \in Submissions, PostShare(r)
    PROVE  BlockInv'
<1>. DEFINE p == ProofOf(r)
<1>1. /\ At(r, "share") /\ UNCHANGED <<pow, taken, recorded, deaths>>
      /\ credits \in Seq(Proofs) /\ p \in Proofs
  BY RecordOf DEF PostShare, TypeInv, RestOK
<1>2. ToSet(Append(credits, p)) = ToSet(credits) \union {p}
  BY <1>1, Added
<1>3. \A k \in DOMAIN pow' : \A b \in pow'[k] \intersect BlockProofs :
          \E l \in DOMAIN pow : b \in pow[l]
  BY <1>1
<1>4. CASE /\ credits' = Append(credits, p) /\ Goto(r, AfterShare(r))
           /\ UNCHANGED failures
  <2>1. PICK s \in {"block", "done"} :
            s = AfterShare(r) /\ (s = "done" => p \notin BlockProofs)
    BY DEF AfterShare
  <2>. QED  BY <1>1, <1>2, <1>3, <1>4, <2>1, StepBlocks DEF Steps, At
<1>5. CASE /\ failures' = failures + 1 /\ Goto(r, "done")
           /\ credits' \in {credits, Append(credits, p)}
  <2>1. failures' > 0
    BY <1>5 DEF TypeInv, RestOK
  <2>. QED  BY <1>1, <1>2, <1>3, <1>5, <2>1, StepBlocks DEF Steps, At
<1>. QED  BY <1>4, <1>5 DEF PostShare

\* After a death nothing is on its way, and the memory is empty.
LEMMA CrashBlocks ==
    ASSUME TypeInv, TypeInv', BlockInv, Crash
    PROVE  BlockInv'
<1>1. /\ Submissions' = Submissions /\ DOMAIN pow' = {} /\ deaths' > 0
      /\ \A r \in Submissions : submissions'[r].step = "done"
  BY Emptied
<1>2. OnItsWay' /\ MemoryOfBlocks' /\ CreditedFirst'
  BY <1>1 DEF OnItsWay, Past, MemoryOfBlocks, CreditedFirst, At
<1>3. BlockAfterItsShare'
  BY DEF Crash, BlockInv, BlockAfterItsShare
<1>4. NoBlockForgotten'
  BY <1>1, FaultExcuses
<1>. QED  BY <1>2, <1>3, <1>4 DEF BlockInv

\* Every step keeps what is known of blocks.
LEMMA NextBlocks == TypeInv /\ BlockInv /\ [Next]_vars => BlockInv'
<1>. SUFFICES ASSUME TypeInv, BlockInv, [Next]_vars PROVE BlockInv'
  OBVIOUS
<1>0. TypeInv'
  BY NextTypes
<1>1. ASSUME NEW r \in Submissions, processShare(r) PROVE BlockInv'
  BY <1>0, <1>1, NodeTakesBlocks, DropBlocks, CheckBlocks, MarkBlocks, ShareBlocks,
     PostBlockBlocks DEF processShare
<1>2. CASE NewTemplate \/ UNCHANGED vars
  BY <1>2 DEF NewTemplate, vars, BlockInv, OnItsWay, MemoryOfBlocks, CreditedFirst, At, Past,
     BlockAfterItsShare, NoBlockForgotten, Submissions, InFlight, ProofOf
<1>. QED  BY <1>0, <1>1, <1>2, SubmitBlocks, CrashBlocks DEF Next

\* It holds at the start: nothing is submitted.
LEMMA InitBlocks == Init => BlockInv
<1>. SUFFICES ASSUME Init PROVE BlockInv
  OBVIOUS
<1>1. Submissions = {} /\ DOMAIN pow = {} /\ taken = {}
  BY DEF Init, Submissions
<1>2. recorded = << >> /\ DOMAIN recorded = {}
  BY DEF Init
<1>3. BlockAfterItsShare
  BY <1>2 DEF BlockAfterItsShare, IsInjective, ToSet
<1>. QED  BY <1>1, <1>3 DEF BlockInv, OnItsWay, MemoryOfBlocks, CreditedFirst, NoBlockForgotten

\* The engine learns of a block once, only if the node took it, and only after the
\* share that found it (WriteBlock, engine.go), through lost requests and deaths.
THEOREM BlocksInOrder == Spec => []BlockAfterItsShare
<1>1. BlockInv => BlockAfterItsShare
  BY DEF BlockInv
<1>. QED  BY InitTypes, NextTypes, InitBlocks, NextBlocks, <1>1, PTL DEF Spec

\* A block the node took reaches the engine or is on its way there, unless a request
\* or the process failed: the memory of proofs never stops one (handlers.go).
THEOREM BlocksReachEngine == Spec => []NoBlockForgotten
<1>1. BlockInv => NoBlockForgotten
  BY DEF BlockInv
<1>. QED  BY InitTypes, NextTypes, InitBlocks, NextBlocks, <1>1, PTL DEF Spec

------------------------------------------------------------------------------
(* The memory of proofs *)

\* Event k makes the memory forget height h whatever came before it,
Clears(k, h) ==
    \/ seen[k].kind = "restart"
    \/ seen[k].kind = "checked" /\ HeightOf[seen[k].proof] < h

\* or because the chain has left the window behind.
Leaves(k, h) == seen[k].kind = "checked" /\ HeightOf[seen[k].proof] > h + PowWindow

Marked(i) == seen[i].kind = "marked"

MarkedHeight(i) == HeightOf[seen[i].proof]

InMemory(p) == HeightOf[p] \in DOMAIN pow /\ p \in pow[HeightOf[p]]

EventIds == 1..Len(seen)

\* The j-th event may let the proof of the i-th through again, for a submission that
\* began after b events: Excuse, with the submission apart.
Excused(i, j, b) ==
    \/ b < i
    \/ \E k \in i..j : Clears(k, MarkedHeight(i)) \/ (Leaves(k, MarkedHeight(i)) /\ b < k)

\* Events and submissions are about proofs, and about none the chain has not come to.
SeenOK ==
    /\ \A k \in EventIds :
          seen[k].kind # "restart" => /\ seen[k].proof \in Proofs
                                      /\ HeightOf[seen[k].proof] <= tip
    /\ \A r \in Submissions : HeightOf[ProofOf(r)] <= tip

\* When a submission began the chain had not left its window behind.
BegunInWindow ==
    \A r \in Submissions :
        /\ submissions[r].began <= Len(seen)
        /\ \A k \in 1..submissions[r].began : ~Leaves(k, HeightOf[ProofOf(r)])

\* A proof that was marked is in the memory until something makes it forget.
Remembered ==
    \A i \in EventIds :
        Marked(i) => \/ InMemory(seen[i].proof)
                     \/ \E k \in i..Len(seen) : Clears(k, MarkedHeight(i))
                                                \/ Leaves(k, MarkedHeight(i))

\* What is about to be marked once more has its excuse already.
ExcusedBefore ==
    \A r \in Submissions, i \in EventIds :
        At(r, "mark") /\ Marked(i) /\ seen[i].proof = ProofOf(r)
            => Excused(i, Len(seen), submissions[r].began)

\* What is known of the memory of proofs
SeenInv ==
    SeenOK /\ BegunInWindow /\ Remembered /\ ExcusedBefore /\ SecondCreditHasExcuse

\* SecondCreditHasExcuse in these terms
LEMMA ExcuseIsExcused ==
    SecondCreditHasExcuse <=>
        \A i, j \in EventIds :
            i < j /\ Marked(i) /\ Marked(j) /\ seen[i].proof = seen[j].proof
                => Excused(i, j, seen[j].began)
BY DEF SecondCreditHasExcuse, Excuse, Excused, Clears, Leaves, Marked, MarkedHeight, EventIds

\* A step that adds no event and neither changes the memory nor brings a submission
\* to its mark
LEMMA NothingSeen ==
    ASSUME TypeInv, SeenInv, UNCHANGED <<seen, pow>>, tip' \in Nat, tip <= tip',
           \A r \in Submissions' :
               \/ /\ r \in Submissions /\ ProofOf(r)' = ProofOf(r)
                  /\ submissions'[r].began = submissions[r].began
                  /\ At(r, "mark")' => At(r, "mark")
               \/ /\ ProofOf(r)' \in Proofs /\ HeightOf[ProofOf(r)'] <= tip
                  /\ HeightOf[ProofOf(r)'] + PowWindow >= tip
                  /\ submissions'[r].began = Len(seen)
                  /\ ~At(r, "mark")'
    PROVE  SeenInv'
<1>0. /\ tip \in Nat /\ Len(seen) \in Nat /\ EventIds' = EventIds /\ PowWindow \in Nat
      /\ \A k \in EventIds : seen[k].kind # "restart" => HeightOf[seen[k].proof] \in Nat
  BY EthSharesAssumption DEF TypeInv, RestOK, EventIds, SeenInv, SeenOK
<1>1. SeenOK'
  <2>1. ASSUME NEW k \in EventIds, seen[k].kind # "restart"
        PROVE  seen[k].proof \in Proofs /\ HeightOf[seen[k].proof] <= tip'
    BY <1>0, <2>1 DEF SeenInv, SeenOK
  <2>2. ASSUME NEW r \in Submissions' PROVE HeightOf[ProofOf(r)'] <= tip'
    <3>1. HeightOf[ProofOf(r)'] <= tip
      BY DEF SeenInv, SeenOK
    <3>2. ProofOf(r)' \in Proofs
      BY RecordOf DEF TypeInv
    <3>3. HeightOf[ProofOf(r)'] \in Nat
      BY <3>2, EthSharesAssumption
    <3>. QED  BY <1>0, <3>1, <3>3
  <2>. QED  BY <1>0, <2>1, <2>2 DEF SeenOK
<1>2. BegunInWindow'
  <2>. SUFFICES ASSUME NEW r \in Submissions'
                PROVE  /\ submissions'[r].began <= Len(seen)
                       /\ \A k \in 1..submissions'[r].began : ~Leaves(k, HeightOf[ProofOf(r)'])
    BY DEF BegunInWindow, Leaves
  <2>1. CASE r \in Submissions /\ ProofOf(r)' = ProofOf(r)
             /\ submissions'[r].began = submissions[r].began
    BY <2>1 DEF SeenInv, BegunInWindow
  <2>2. CASE /\ ProofOf(r)' \in Proofs /\ HeightOf[ProofOf(r)'] + PowWindow >= tip
             /\ submissions'[r].began = Len(seen)
    <3>1. ASSUME NEW k \in 1..Len(seen), Leaves(k, HeightOf[ProofOf(r)']) PROVE FALSE
      <4>1. /\ HeightOf[seen[k].proof] > HeightOf[ProofOf(r)'] + PowWindow
            /\ HeightOf[seen[k].proof] <= tip /\ HeightOf[seen[k].proof] \in Nat
        BY <1>0, <3>1 DEF Leaves, SeenInv, SeenOK, EventIds
      <4>2. HeightOf[ProofOf(r)'] \in Nat
        BY <2>2, EthSharesAssumption
      <4>. QED  BY <1>0, <2>2, <4>1, <4>2
    <3>. QED  BY <1>0, <2>2, <3>1
  <2>. QED  BY <2>1, <2>2
<1>3. Remembered'
  BY <1>0 DEF SeenInv, Remembered, Marked, InMemory, Clears, Leaves, MarkedHeight
<1>4. ExcusedBefore'
  BY <1>0 DEF SeenInv, ExcusedBefore, Excused, At, Marked, Clears, Leaves, MarkedHeight
<1>5. SecondCreditHasExcuse'
  <2>1. SecondCreditHasExcuse /\ seen' = seen
    BY DEF SeenInv
  <2>2. \A i, j : Excuse(i, j)' <=> Excuse(i, j)
    BY <2>1 DEF Excuse
  <2>. QED  BY <2>1, <2>2 DEF SecondCreditHasExcuse
<1>. QED  BY <1>1, <1>2, <1>3, <1>4, <1>5 DEF SeenInv

\* What an event adds to the history, and what stays as it was
LEMMA EventAdded ==
    ASSUME TypeInv, NEW e \in Events, seen' = Append(seen, e)
    PROVE  LET n == Len(seen)
           IN  /\ n \in Nat /\ Len(seen') = n + 1 /\ EventIds' = EventIds \union {n + 1}
               /\ \A i \in EventIds : i \in 1..n /\ seen'[i] = seen[i]
               /\ seen'[n + 1] = e
<1>1. seen \in Seq(Events)
  BY DEF TypeInv, RestOK
<1>2. /\ Len(seen') = Len(seen) + 1 /\ Len(seen) \in Nat
      /\ \A i \in 1..Len(seen) : seen'[i] = seen[i]
      /\ seen'[Len(seen) + 1] = e
  BY <1>1, Added
<1>3. 1..(Len(seen) + 1) = 1..Len(seen) \union {Len(seen) + 1}
  BY <1>2
<1>. QED  BY <1>2, <1>3 DEF EventIds

\* An event takes no excuse away, and new excuses are old ones.
LEMMA StillExcused ==
    ASSUME TypeInv, NEW e \in Events, seen' = Append(seen, e),
           NEW i \in EventIds, NEW j \in EventIds, NEW b \in Nat, NEW n, n = Len(seen)
    PROVE  /\ Excused(i, j, b)' <=> Excused(i, j, b)
           /\ Excused(i, n, b) => Excused(i, n + 1, b)'
<1>1. /\ n \in Nat /\ \A k \in 1..n : seen'[k] = seen[k]
      /\ i \in 1..n /\ j \in 1..n
  BY EventAdded DEF EventIds
<1>2. \A k \in 1..n : \A h : (Clears(k, h)' <=> Clears(k, h)) /\ (Leaves(k, h)' <=> Leaves(k, h))
  BY <1>1 DEF Clears, Leaves
<1>3. MarkedHeight(i)' = MarkedHeight(i)
  BY <1>1 DEF MarkedHeight
<1>4. Excused(i, j, b)' <=> Excused(i, j, b)
  <2>1. i..j \subseteq 1..n
    BY <1>1
  <2>. QED  BY <1>2, <1>3, <2>1 DEF Excused
<1>5. Excused(i, n, b) => Excused(i, n + 1, b)'
  <2>1. i..n \subseteq 1..n /\ i..n \subseteq i..(n + 1)
    BY <1>1
  <2>. QED  BY <1>2, <1>3, <2>1 DEF Excused
<1>. QED  BY <1>4, <1>5

\* What a step keeps that adds an event: the event has to be about a proof the chain
\* has come to, the memory may lose only what the event makes it forget, and what is
\* marked, or about to be, has its excuse.
LEMMA SomethingSeen ==
    ASSUME TypeInv, SeenInv, NEW e \in Events, NEW n, n = Len(seen),
           seen' = Append(seen, e), tip' = tip,
           e.kind # "restart" => e.proof \in Proofs /\ HeightOf[e.proof] <= tip,
           Submissions' = Submissions,
           \A r \in Submissions : /\ ProofOf(r)' = ProofOf(r)
                                  /\ submissions'[r].began = submissions[r].began,
           \A p \in Proofs :
               InMemory(p) => \/ InMemory(p)'
                              \/ Clears(n + 1, HeightOf[p])'
                              \/ Leaves(n + 1, HeightOf[p])',
           Marked(n + 1)' => InMemory(e.proof)',
           \A r \in Submissions, i \in EventIds :
               At(r, "mark")' /\ ~At(r, "mark") /\ Marked(i) /\ seen[i].proof = ProofOf(r)
                   => Excused(i, n, submissions[r].began),
           Marked(n + 1)' => \E r \in Submissions :
               /\ At(r, "mark") /\ ~At(r, "mark")'
               /\ e.proof = ProofOf(r) /\ e.began = submissions[r].began
    PROVE  SeenInv'
<1>0. /\ n \in Nat /\ Len(seen') = n + 1 /\ EventIds' = EventIds \union {n + 1}
      /\ EventIds = 1..n
      /\ \A i \in EventIds : seen'[i] = seen[i]
      /\ seen'[n + 1] = e
  BY EventAdded DEF EventIds
<1>1. \A r \in Submissions : /\ submissions[r].began \in Nat /\ submissions[r].began <= n
                             /\ ProofOf(r) \in Proofs
  BY RecordOf DEF TypeInv, SeenInv, BegunInWindow
<1>2. \A k \in EventIds : \A h : (Clears(k, h)' <=> Clears(k, h)) /\ (Leaves(k, h)' <=> Leaves(k, h))
  BY <1>0 DEF Clears, Leaves
<1>3. \A i \in EventIds : /\ Marked(i)' <=> Marked(i)
                          /\ MarkedHeight(i)' = MarkedHeight(i)
                          /\ seen'[i].proof = seen[i].proof
  BY <1>0 DEF Marked, MarkedHeight
<1>4. SeenOK'
  <2>1. \A k \in EventIds' : seen'[k].kind # "restart" =>
            seen'[k].proof \in Proofs /\ HeightOf[seen'[k].proof] <= tip
    BY <1>0 DEF SeenInv, SeenOK
  <2>. QED  BY <2>1 DEF SeenInv, SeenOK
<1>5. BegunInWindow'
  <2>. SUFFICES ASSUME NEW r \in Submissions
                PROVE  /\ submissions[r].began <= n + 1
                       /\ \A k \in 1..submissions[r].began : ~Leaves(k, HeightOf[ProofOf(r)])'
    BY <1>0 DEF BegunInWindow
  <2>1. 1..submissions[r].began \subseteq EventIds
    BY <1>0, <1>1
  <2>. QED  BY <1>0, <1>1, <1>2, <2>1 DEF SeenInv, BegunInWindow
<1>6. Remembered'
  <2>. SUFFICES ASSUME NEW i \in EventIds', Marked(i)'
                PROVE  \/ InMemory(seen[i].proof)'
                       \/ \E k \in i..(n + 1) : Clears(k, MarkedHeight(i))'
                                                \/ Leaves(k, MarkedHeight(i))'
    BY <1>0 DEF Remembered
  <2>1. CASE i = n + 1
    BY <1>0, <2>1
  <2>2. CASE i \in EventIds
    <3>1. Marked(i) /\ MarkedHeight(i)' = MarkedHeight(i) /\ seen'[i].proof = seen[i].proof
      BY <1>3, <2>2
    <3>2. seen[i].proof \in Proofs /\ MarkedHeight(i) = HeightOf[seen[i].proof]
      BY <2>2, <3>1 DEF Marked, MarkedHeight, SeenInv, SeenOK
    <3>3. CASE InMemory(seen[i].proof)
      <4>1. n + 1 \in i..(n + 1)
        BY <1>0, <2>2
      <4>. QED  BY <3>1, <3>2, <3>3, <4>1
    <3>4. CASE \E k \in i..n : Clears(k, MarkedHeight(i)) \/ Leaves(k, MarkedHeight(i))
      <4>1. i..n \subseteq EventIds /\ i..n \subseteq i..(n + 1)
        BY <1>0, <2>2
      <4>. QED  BY <1>2, <3>1, <3>4, <4>1
    <3>. QED  BY <2>2, <3>1, <3>3, <3>4 DEF SeenInv, Remembered
  <2>. QED  BY <1>0, <2>1, <2>2
<1>7. ExcusedBefore'
  <2>. SUFFICES ASSUME NEW r \in Submissions, NEW i \in EventIds', At(r, "mark")', Marked(i)',
                       seen'[i].proof = ProofOf(r), NEW b, b = submissions[r].began
                PROVE  Excused(i, n + 1, b)'
    BY <1>0 DEF ExcusedBefore
  <2>1. CASE i = n + 1
    <3>1. b < i
      BY <1>0, <1>1, <2>1
    <3>. QED  BY <3>1 DEF Excused
  <2>2. CASE i \in EventIds
    <3>1. Marked(i) /\ seen[i].proof = ProofOf(r)
      BY <1>3, <2>2
    <3>2. Excused(i, n, b)
      BY <2>2, <3>1 DEF SeenInv, ExcusedBefore
    <3>. QED  BY <1>1, <2>2, <3>2, StillExcused
  <2>. QED  BY <1>0, <2>1, <2>2
<1>8. SecondCreditHasExcuse'
  <2>. SUFFICES ASSUME NEW i \in EventIds', NEW j \in EventIds', i < j,
                       Marked(i)', Marked(j)', seen'[i].proof = seen'[j].proof,
                       NEW b, b = seen'[j].began
                PROVE  Excused(i, j, b)'
    BY DEF SecondCreditHasExcuse, Excuse, Excused, Clears, Leaves, Marked, MarkedHeight, EventIds
  <2>1. i \in EventIds
    BY <1>0
  <2>2. CASE j \in EventIds
    <3>1. Marked(i) /\ Marked(j) /\ seen[i].proof = seen[j].proof /\ b = seen[j].began
      BY <1>0, <1>3, <2>1, <2>2
    <3>2. b \in Nat
      <4>1. seen \in Seq(Events)
        BY DEF TypeInv, RestOK
      <4>2. seen[j] \in Events
        BY <2>2, <4>1 DEF EventIds
      <4>. QED  BY <3>1, <4>2 DEF Events
    <3>3. Excused(i, j, b)
      BY <2>1, <2>2, <3>1, ExcuseIsExcused DEF SeenInv
    <3>. QED  BY <2>1, <2>2, <3>2, <3>3, StillExcused
  <2>3. CASE j = n + 1
    <3>1. PICK r \in Submissions : /\ At(r, "mark")
                                   /\ e.proof = ProofOf(r) /\ e.began = submissions[r].began
      BY <2>3
    <3>2. /\ Marked(i) /\ seen[i].proof = ProofOf(r) /\ b = submissions[r].began
      BY <1>0, <1>3, <2>1, <2>3, <3>1
    <3>3. Excused(i, n, b)
      BY <2>1, <3>1, <3>2 DEF SeenInv, ExcusedBefore
    <3>. QED  BY <1>1, <2>1, <2>3, <3>2, <3>3, StillExcused
  <2>. QED  BY <1>0, <2>2, <2>3
<1>. QED  BY <1>4, <1>5, <1>6, <1>7, <1>8 DEF SeenInv

\* A check forgets heights below its own, or more than the window above: uint64
\* subtraction makes the ones above it as far away as the ones far below.
LEMMA WhatIsForgotten ==
    ASSUME PowOK, NEW h \in 1..MaxTip, NEW k \in DOMAIN pow, k \notin Kept(h)
    PROVE  h < k \/ h > k + PowWindow
<1>1. k \in 1..MaxTip /\ MaxTip \in Nat /\ PowWindow \in Nat /\ Minus(h, k) > PowWindow
  BY EthSharesAssumption DEF PowOK, Kept, Forgotten
<1>2. CASE h >= k
  <2>1. Minus(h, k) = h - k
    BY <1>1, <1>2, MinusInOrder
  <2>. QED  BY <1>1, <1>2, <2>1
<1>. QED  BY <1>1, <1>2

\* A proof is checked: what is not known is either new or excused.
LEMMA CheckSeen ==
    ASSUME TypeInv, SeenInv, NEW r \in Submissions, CheckPoW(r)
    PROVE  SeenInv'
<1>. DEFINE p == ProofOf(r)
            h == HeightOf[p]
            known == h \in Kept(h) /\ p \in pow[h]
<1>0. PICK n, e : n = Len(seen) /\ e = Event("checked", r)
  OBVIOUS
<1>1. /\ p \in Proofs /\ h \in 1..MaxTip /\ e \in Events /\ PowOK
      /\ e.kind = "checked" /\ e.proof = p
  BY <1>0, RecordOf DEF TypeInv, Event
<1>2. /\ At(r, "check") /\ pow' = CheckedAt(h) /\ seen' = Append(seen, e) /\ tip' = tip
  BY <1>0 DEF CheckPoW, CheckedAt
<1>3. PICK s \in {"done", "mark"} : Goto(r, s) /\ (s = "mark" => ~known)
  BY DEF CheckPoW
<1>4. Moves(r, s)
  BY <1>3, GotoMoves DEF TypeInv, Steps
<1>5. /\ n \in Nat /\ seen'[n + 1] = e /\ EventIds = 1..n
  BY <1>0, <1>1, <1>2, EventAdded DEF EventIds
<1>6. ASSUME NEW b \in Proofs, InMemory(b)
      PROVE  InMemory(b)' \/ Clears(n + 1, HeightOf[b])' \/ Leaves(n + 1, HeightOf[b])'
  <2>. DEFINE k == HeightOf[b]
  <2>1. k \in DOMAIN pow /\ b \in pow[k]
    BY <1>6 DEF InMemory
  <2>2. CASE k \in Kept(h)
    <3>1. k \in DOMAIN pow' /\ pow'[k] = pow[k]
      BY <1>2, <2>2 DEF CheckedAt
    <3>. QED  BY <2>1, <3>1 DEF InMemory
  <2>3. CASE k \notin Kept(h)
    <3>1. h < k \/ h > k + PowWindow
      BY <1>1, <2>1, <2>3, WhatIsForgotten
    <3>. QED  BY <1>1, <1>5, <3>1 DEF Clears, Leaves
  <2>. QED  BY <2>2, <2>3
<1>7. ASSUME NEW i \in EventIds, Marked(i), seen[i].proof = p, s = "mark"
      PROVE  Excused(i, n, submissions[r].began)
  <2>1. MarkedHeight(i) = h
    BY <1>7 DEF MarkedHeight
  <2>2. CASE InMemory(p)
    <3>1. h \in DOMAIN pow /\ p \in pow[h]
      BY <2>2 DEF InMemory
    <3>2. h \notin Kept(h)
      BY <1>3, <1>7, <3>1
    <3>3. h < h \/ h > h + PowWindow
      BY <1>1, <3>1, <3>2, WhatIsForgotten
    <3>4. h \in Nat /\ PowWindow \in Nat
      BY <1>1, EthSharesAssumption
    <3>. QED  BY <3>3, <3>4
  <2>3. CASE \E k \in i..n : Clears(k, h) \/ Leaves(k, h)
    <3>1. PICK k \in i..n : Clears(k, h) \/ Leaves(k, h)
      BY <2>3
    <3>2. ASSUME Leaves(k, h) PROVE submissions[r].began < k
      <4>1. submissions[r].began \in Nat /\ k \in 1..n
        BY <1>5, RecordOf DEF TypeInv
      <4>2. k \notin 1..submissions[r].began
        BY <3>2 DEF SeenInv, BegunInWindow
      <4>. QED  BY <4>1, <4>2
    <3>. QED  BY <2>1, <3>1, <3>2 DEF Excused
  <2>. QED  BY <1>0, <1>7, <2>1, <2>2, <2>3 DEF SeenInv, Remembered
<1>8. ~Marked(n + 1)'
  BY <1>1, <1>5 DEF Marked
<1>9. HeightOf[e.proof] <= tip
  BY <1>1 DEF SeenInv, SeenOK
<1>10. /\ Submissions' = Submissions
       /\ \A q \in Submissions : /\ ProofOf(q)' = ProofOf(q)
                                 /\ submissions'[q].began = submissions[q].began
                                 /\ At(q, "mark")' /\ ~At(q, "mark") => q = r /\ s = "mark"
  BY <1>4 DEF Moves, ProofOf, At
<1>. HIDE DEF p, h, known
<1>11. \A q \in Submissions, i \in EventIds :
           At(q, "mark")' /\ ~At(q, "mark") /\ Marked(i) /\ seen[i].proof = ProofOf(q)
               => Excused(i, n, submissions[q].began)
  BY <1>7, <1>10 DEF p
<1>. QED  BY <1>0, <1>1, <1>2, <1>6, <1>8, <1>9, <1>10, <1>11, SomethingSeen

\* A proof is marked: its excuse is the one it got when it was checked.
LEMMA MarkSeen ==
    ASSUME TypeInv, SeenInv, NEW r \in Submissions, MarkPoW(r)
    PROVE  SeenInv'
<1>0. PICK n, e, p, h : /\ n = Len(seen) /\ e = Event("marked", r)
                       /\ p = ProofOf(r) /\ h = HeightOf[p]
  OBVIOUS
<1>1. /\ p \in Proofs /\ e \in Events /\ e.kind = "marked" /\ e.proof = p
      /\ e.began = submissions[r].began
  BY <1>0, RecordOf DEF TypeInv, Event
<1>2. /\ At(r, "mark") /\ h \in DOMAIN pow /\ pow' = [pow EXCEPT ![h] = @ \union {p}]
      /\ seen' = Append(seen, e) /\ Goto(r, "share") /\ tip' = tip
  BY <1>0 DEF MarkPoW
<1>3. Moves(r, "share")
  BY <1>2, GotoMoves DEF TypeInv, Steps
<1>4. /\ DOMAIN pow' = DOMAIN pow
      /\ \A k \in DOMAIN pow : pow[k] \subseteq pow'[k]
      /\ p \in pow'[h]
  BY <1>2
<1>5. InMemory(p)' /\ \A b \in Proofs : InMemory(b) => InMemory(b)'
  BY <1>0, <1>2, <1>4 DEF InMemory
<1>6. HeightOf[e.proof] <= tip
  BY <1>0, <1>1 DEF SeenInv, SeenOK
<1>7. /\ Submissions' = Submissions /\ ~At(r, "mark")'
      /\ \A q \in Submissions : /\ ProofOf(q)' = ProofOf(q)
                                /\ submissions'[q].began = submissions[q].began
                                /\ At(q, "mark")' => At(q, "mark")
  BY <1>3 DEF Moves, ProofOf, At
<1>8. InMemory(e.proof)'
  BY <1>1, <1>5
<1>9. \E q \in Submissions : /\ At(q, "mark") /\ ~At(q, "mark")'
                             /\ e.proof = ProofOf(q) /\ e.began = submissions[q].began
  BY <1>0, <1>1, <1>2, <1>7
<1>. QED  BY <1>0, <1>1, <1>2, <1>5, <1>6, <1>7, <1>8, <1>9, SomethingSeen

\* A death forgets everything.
LEMMA CrashSeen == ASSUME TypeInv, SeenInv, Crash PROVE SeenInv'
<1>0. PICK n, e : n = Len(seen) /\ e = [kind |-> "restart", proof |-> "none", began |-> n]
  OBVIOUS
<1>1. e \in Events /\ e.kind = "restart" /\ seen' = Append(seen, e) /\ tip' = tip
  BY <1>0 DEF Crash, Events, TypeInv, RestOK
<1>2. seen'[n + 1] = e
  BY <1>0, <1>1, EventAdded
<1>3. ~Marked(n + 1)' /\ \A h : Clears(n + 1, h)'
  BY <1>1, <1>2 DEF Marked, Clears
<1>4. /\ Submissions' = Submissions
      /\ \A q \in Submissions : /\ ProofOf(q)' = ProofOf(q)
                                /\ submissions'[q].began = submissions[q].began
                                /\ ~At(q, "mark")'
  BY Emptied DEF ProofOf, At
<1>. QED  BY <1>0, <1>1, <1>3, <1>4, SomethingSeen

\* Every step keeps what is known of the memory.
LEMMA NextSeen == TypeInv /\ SeenInv /\ [Next]_vars => SeenInv'
<1>. SUFFICES ASSUME TypeInv, SeenInv, [Next]_vars PROVE SeenInv'
  OBVIOUS
<1>0. tip \in Nat
  BY DEF TypeInv, RestOK
<1>1. ASSUME NEW p \in Proofs, Submit(p) PROVE SeenInv'
  <2>. DEFINE new == [proof |-> p, began |-> Len(seen),
                      step |-> IF p \in BlockProofs THEN "node" ELSE "check"]
  <2>1. /\ submissions' = Append(submissions, new) /\ submissions \in Seq(Records)
        /\ UNCHANGED <<seen, pow, tip>>
    BY <1>1 DEF Submit, TypeInv
  <2>2. /\ new \in Records /\ new.proof = p /\ new.began = Len(seen) /\ new.step # "mark"
    BY DEF TypeInv, RestOK, Records, Steps
  <2>. HIDE DEF new
  <2>3. /\ \A r \in Submissions : submissions'[r] = submissions[r]
        /\ \A r \in Submissions' : r \notin Submissions => submissions'[r] = new
    BY <2>1, <2>2 DEF Submissions
  <2>4. HeightOf[p] <= tip /\ HeightOf[p] + PowWindow >= tip
    <3>1. /\ HeightOf[p] <= tip /\ HeightOf[p] + Backlog > tip
          /\ HeightOf[p] \in Nat /\ PowWindow \in Nat /\ Backlog \in Nat /\ Backlog <= PowWindow
      BY <1>1, EthSharesAssumption DEF Submit, Mineable
    <3>. QED  BY <1>0, <3>1
  <2>5. ASSUME NEW r \in Submissions'
        PROVE  \/ /\ r \in Submissions /\ ProofOf(r)' = ProofOf(r)
                  /\ submissions'[r].began = submissions[r].began
                  /\ At(r, "mark")' => At(r, "mark")
               \/ /\ ProofOf(r)' \in Proofs /\ HeightOf[ProofOf(r)'] <= tip
                  /\ HeightOf[ProofOf(r)'] + PowWindow >= tip
                  /\ submissions'[r].began = Len(seen)
                  /\ ~At(r, "mark")'
    <3>1. CASE r \in Submissions
      BY <2>3, <3>1 DEF ProofOf, At
    <3>2. CASE r \notin Submissions
      BY <2>2, <2>3, <2>4, <3>2 DEF ProofOf, At
    <3>. QED  BY <3>1, <3>2
  <2>6. tip' = tip /\ UNCHANGED <<seen, pow>>
    BY <2>1
  <2>7. tip' \in Nat /\ tip <= tip'
    BY <1>0, <2>6
  <2>. QED  BY <2>5, <2>6, <2>7, NothingSeen
<1>2. ASSUME NEW r \in Submissions, processShare(r), ~CheckPoW(r), ~MarkPoW(r) PROVE SeenInv'
  <2>1. PICK s \in Steps \ {"node", "mark"} : Goto(r, s) /\ UNCHANGED <<tip, seen, pow>>
    BY <1>2, ProcessKinds DEF processShare
  <2>2. Moves(r, s)
    BY <2>1, GotoMoves DEF TypeInv
  <2>3. \A q \in Submissions' : /\ q \in Submissions /\ ProofOf(q)' = ProofOf(q)
                                /\ submissions'[q].began = submissions[q].began
                                /\ At(q, "mark")' => At(q, "mark")
    BY <2>1, <2>2 DEF Moves, ProofOf, At
  <2>. QED  BY <1>0, <2>1, <2>3, NothingSeen
<1>3. CASE NewTemplate \/ UNCHANGED vars
  <2>1. UNCHANGED <<seen, pow, submissions>> /\ tip' \in Nat /\ tip <= tip'
    BY <1>0, <1>3 DEF NewTemplate, vars
  <2>2. \A q \in Submissions' : /\ q \in Submissions /\ ProofOf(q)' = ProofOf(q)
                                /\ submissions'[q].began = submissions[q].began
                                /\ At(q, "mark")' => At(q, "mark")
    BY <2>1 DEF Submissions, ProofOf, At
  <2>. QED  BY <2>1, <2>2, NothingSeen
<1>. QED  BY <1>1, <1>2, <1>3, CheckSeen, MarkSeen, CrashSeen DEF Next

\* It holds at the start: there is no event.
LEMMA InitSeen == Init => SeenInv
<1>. SUFFICES ASSUME Init PROVE SeenInv
  OBVIOUS
<1>1. Submissions = {} /\ EventIds = {} /\ 1..Len(seen) = {}
  BY DEF Init, Submissions, EventIds
<1>. QED  BY <1>1 DEF SeenInv, SeenOK, BegunInWindow, Remembered, ExcusedBefore,
              SecondCreditHasExcuse

\* A proof is let through a second time only for one of four reasons: the submissions
\* overlapped, the process restarted, a lower height was checked in between, or the
\* second was still being handled when the chain had left the window (checkPoWExist
\* and the maps it shares, handlers.go); whatever the window, the backlog and the load.
THEOREM OnlyExcusedTwice == Spec => []SecondCreditHasExcuse
<1>1. SeenInv => SecondCreditHasExcuse
  BY DEF SeenInv
<1>. QED  BY InitTypes, NextTypes, InitSeen, NextSeen, <1>1, PTL DEF Spec
================================================================================
