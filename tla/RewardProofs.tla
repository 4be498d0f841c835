----------------------------- MODULE RewardProofs -----------------------------
(***************************************************************************)
(* Proofs about the programs that work on the tables of PoolDatabase, for  *)
(* every set of wallets and every bound: the engine and the unlocker in    *)
(* RewardPipeline, then the validator in Payouts.                          *)
(***************************************************************************)
EXTENDS RewardPipeline, Payouts, Sums

------------------------------------------------------------------------------
(* Tables and requests *)

\* Every request knows a block of the table or none, and one that was counted
\* knows the block it was counted in.
KnownBlocks ==
    \A r \in RequestIds :
        /\ requests[r].block \in BlockIds \cup {None}
        /\ requests[r].at = "counted" => requests[r].block \in BlockIds

TypeInv == TypeOK /\ KnownBlocks

\* What changes with one row of a sequence
LEMMA RowChanged ==
    ASSUME NEW R, NEW s \in Seq(R), NEW c \in 1..Len(s), NEW x \in R,
           NEW t, t = [s EXCEPT ![c] = x]
    PROVE  /\ t \in Seq(R) /\ Len(t) = Len(s)
           /\ \A b \in 1..Len(s) : b # c => t[b] = s[b]
           /\ t[c] = x
<1>1. s \in [1..Len(s) -> R] /\ Len(s) \in Nat
  OBVIOUS
<1>2. t \in [1..Len(s) -> R]
  BY <1>1
<1>. QED  BY <1>1, <1>2

\* A request moves on, and nothing else about it or the others changes.
LEMMA GotoMoves ==
    ASSUME requests \in Seq(Requests), NEW r \in RequestIds,
           NEW s \in Steps \cup Ends, NEW b \in Nat, Goto(r, s, b)
    PROVE  /\ requests' \in Seq(Requests) /\ Len(requests') = Len(requests)
           /\ RequestIds' = RequestIds
           /\ \A q \in RequestIds : q # r => requests'[q] = requests[q]
           /\ requests'[r].at = s /\ requests'[r].block = b
           /\ requests'[r].wallet = requests[r].wallet
           /\ requests'[r].kind = requests[r].kind
<1>. DEFINE x == [requests[r] EXCEPT !.at = s, !.block = b]
<1>1. requests[r] \in Requests
  BY DEF RequestIds
<1>2. x \in Requests /\ x.at = s /\ x.block = b
      /\ x.wallet = requests[r].wallet /\ x.kind = requests[r].kind
  BY <1>1 DEF Requests
<1>3. requests' = [requests EXCEPT ![r] = x]
  <2>1. requests \in [1..Len(requests) -> Requests] /\ r \in 1..Len(requests)
    BY DEF RequestIds
  <2>. QED  BY <2>1 DEF Goto
<1>. HIDE DEF x
<1>4. /\ requests' \in Seq(Requests) /\ Len(requests') = Len(requests)
      /\ \A q \in 1..Len(requests) : q # r => requests'[q] = requests[q]
      /\ requests'[r] = x
  BY <1>2, <1>3, RowChanged DEF RequestIds
<1>. QED  BY <1>2, <1>4 DEF RequestIds

\* A share is added to a round of the table.
LEMMA ShareAdded ==
    ASSUME roundShares \in Seq(Rounds), NEW b \in 1..Len(roundShares), NEW w \in Wallets,
           AddShare(b, w)
    PROVE  /\ roundShares' \in Seq(Rounds) /\ Len(roundShares') = Len(roundShares)
           /\ \A c \in 1..Len(roundShares) : \A v \in Wallets :
                  roundShares'[c][v] = IF c = b /\ v = w THEN roundShares[c][v] + 1
                                       ELSE roundShares[c][v]
<1>. DEFINE x == [roundShares[b] EXCEPT ![w] = @ + 1]
<1>1. roundShares[b] \in Rounds
  OBVIOUS
<1>2. x \in Rounds /\ \A v \in Wallets : x[v] = IF v = w THEN roundShares[b][v] + 1
                                                ELSE roundShares[b][v]
  BY <1>1 DEF Rounds
<1>3. roundShares' = [roundShares EXCEPT ![b] = x]
  BY DEF AddShare
<1>. HIDE DEF x
<1>4. /\ roundShares' \in Seq(Rounds) /\ Len(roundShares') = Len(roundShares)
      /\ \A c \in 1..Len(roundShares) : c # b => roundShares'[c] = roundShares[c]
      /\ roundShares'[b] = x
  BY <1>2, <1>3, RowChanged
<1>. QED  BY <1>2, <1>4

\* A row is appended to a sequence.
LEMMA RowAppended ==
    ASSUME NEW R, NEW s \in Seq(R), NEW x \in R, NEW t, t = Append(s, x)
    PROVE  /\ t \in Seq(R) /\ Len(t) = Len(s) + 1
           /\ \A b \in 1..Len(s) : t[b] = s[b]
           /\ t[Len(s) + 1] = x
  OBVIOUS

\* The first block of the list is one of it.
LEMMA BlockIsFirst ==
    ASSUME blocks \in Seq(Blocks), todo \subseteq BlockIds, todo # {}
    PROVE  Block \in todo /\ Block \in BlockIds
<1>. DEFINE T == {1..n : n \in todo}
<1>1. todo \subseteq Nat /\ T \subseteq SUBSET BlockIds /\ T # {}
  <2>1. Len(blocks) \in Nat
    OBVIOUS
  <2>2. todo \subseteq Nat /\ \A n \in todo : 1..n \subseteq BlockIds
    BY <2>1 DEF BlockIds
  <2>. QED  BY <2>2
<1>2. IsFiniteSet(BlockIds)
  BY FS_Interval DEF BlockIds
<1>3. PICK m \in T : \A s \in T : s \subseteq m => s = m
  <2>. HIDE DEF T
  <2>1. T # {} /\ T \in SUBSET (SUBSET BlockIds)
    BY <1>1
  <2>. QED  BY <1>2, <2>1, Minimal, SMTT(30)
<1>4. PICK k \in todo : m = 1..k
  OBVIOUS
<1>5. ASSUME NEW n \in todo, n < k PROVE FALSE
  <2>1. n \in Nat /\ k \in Nat
    BY <1>1
  <2>2. 1..n \subseteq 1..k /\ k \in 1..k /\ k \notin 1..n
    <3>1. k # 0
      BY <1>4 DEF BlockIds
    <3>. QED  BY <1>5, <2>1, <3>1
  <2>3. 1..n \in T
    OBVIOUS
  <2>. QED  BY <1>3, <1>4, <2>2, <2>3
<1>6. \A n \in todo : k <= n
  BY <1>1, <1>5
<1>. QED  BY <1>6 DEF Block, Min

\* Sets of at most one element
LEMMA Small ==
    /\ \A x : Cardinality({x}) = 1 /\ IsFiniteSet({x})
    /\ Cardinality({}) = 0 /\ IsFiniteSet({})
  BY FS_EmptySet, FS_Singleton

\* A request moves on to a block of the table: requests are still what they were.
LEMMA MoveTyped ==
    ASSUME TypeInv, BlockIds \subseteq BlockIds', NEW r \in RequestIds,
           NEW s \in Steps \cup Ends, NEW b \in BlockIds' \cup {None}, Goto(r, s, b),
           s = "counted" => b \in BlockIds'
    PROVE  requests' \in Seq(Requests) /\ KnownBlocks'
<1>1. requests \in Seq(Requests) /\ b \in Nat
  BY DEF TypeInv, TypeOK, EngineTypeOK, None, BlockIds
<1>2. /\ requests' \in Seq(Requests)
      /\ RequestIds' = RequestIds
      /\ \A q \in RequestIds : q # r => requests'[q] = requests[q]
      /\ requests'[r].at = s /\ requests'[r].block = b
  BY <1>1, GotoMoves
<1>3. ASSUME NEW q \in RequestIds
      PROVE  /\ requests'[q].block \in BlockIds' \cup {None}
             /\ requests'[q].at = "counted" => requests'[q].block \in BlockIds'
  <2>1. CASE q = r
    BY <1>2, <2>1
  <2>2. CASE q # r
    BY <1>2, <2>2 DEF TypeInv, KnownBlocks
  <2>. QED  BY <2>1, <2>2
<1>4. KnownBlocks'
  BY <1>2, <1>3 DEF KnownBlocks
<1>. QED  BY <1>2, <1>4

\* A step of the engine that leaves the tables, or blocks at least, well formed
LEMMA EngineTyped ==
    ASSUME TypeInv, UNCHANGED <<rewards, unlockerVars>>,
           blocks' \in Seq(Blocks), roundShares' \in Seq(Rounds),
           Len(roundShares') = Len(blocks'), BlockIds \subseteq BlockIds',
           requests' \in Seq(Requests), KnownBlocks',
           cache' \subseteq BlockIds' \cup {None}, Cardinality(cache') <= 1,
           failures' \in 0..MaxFailures, crashes' \in 0..MaxCrashes
    PROVE  TypeInv'
<1>1. DatabaseTypeOK'
  BY DEF TypeInv, TypeOK, EngineTypeOK, DatabaseTypeOK
<1>2. EngineTypeOK'
  BY <1>1 DEF EngineTypeOK
<1>3. UnlockerTypeOK'
  BY DEF TypeInv, TypeOK, UnlockerTypeOK, unlockerVars
<1>. QED  BY <1>2, <1>3 DEF TypeInv, TypeOK

\* A step of a request that changes neither blocks nor the number of rounds
LEMMA StepTyped ==
    ASSUME TypeInv, UNCHANGED <<blocks, rewards, crashes, unlockerVars>>,
           failures' \in 0..MaxFailures,
           roundShares' \in Seq(Rounds), Len(roundShares') = Len(roundShares),
           NEW r \in RequestIds, NEW s \in Steps \cup Ends, NEW b \in BlockIds \cup {None},
           Goto(r, s, b), s = "counted" => b \in BlockIds,
           cache' \subseteq BlockIds \cup {None}, Cardinality(cache') <= 1
    PROVE  TypeInv'
<1>1. BlockIds' = BlockIds
  BY DEF BlockIds
<1>2. requests' \in Seq(Requests) /\ KnownBlocks'
  BY <1>1, MoveTyped
<1>. QED  BY <1>1, <1>2, EngineTyped DEF TypeInv, TypeOK, EngineTypeOK, DatabaseTypeOK

\* Every step of a share request
LEMMA ShareStepTyped ==
    ASSUME TypeInv, NEW r \in RequestIds, ShareStep(r), UNCHANGED unlockerVars
    PROVE  TypeInv'
<1>1. /\ blocks \in Seq(Blocks) /\ roundShares \in Seq(Rounds)
      /\ Len(roundShares) = Len(blocks) /\ requests \in Seq(Requests)
      /\ cache \subseteq BlockIds \cup {None} /\ Cardinality(cache) <= 1
      /\ failures \in 0..MaxFailures /\ crashes \in 0..MaxCrashes
  BY DEF TypeInv, TypeOK, EngineTypeOK, DatabaseTypeOK
<1>2. requests[r].block \in BlockIds \cup {None} /\ requests[r].wallet \in Wallets
  <2>1. requests[r] \in Requests
    BY <1>1 DEF RequestIds
  <2>. QED  BY <2>1 DEF TypeInv, KnownBlocks, Requests
<1>3. /\ {"probe", "update", "insertBlock", "select", "store", "probeRow", "insertRow"}
             \subseteq Steps \cup Ends
      /\ {"counted", "skipped", "closed", "failed"} \subseteq Steps \cup Ends
  BY DEF Steps, Ends
<1>4. CASE Lookup(r)
  <2>1. UNCHANGED <<dbVars, cache, failures, crashes>>
    BY <1>4 DEF Lookup
  <2>2. CASE Goto(r, "probe", None)
    BY <1>1, <1>3, <2>1, <2>2, StepTyped DEF dbVars
  <2>3. ASSUME NEW b \in cache, Goto(r, "update", b) PROVE TypeInv'
    BY <1>1, <1>3, <2>1, <2>3, StepTyped DEF dbVars
  <2>. QED  BY <1>4, <2>2, <2>3 DEF Lookup
<1>5. CASE Probe(r)
  <2>1. UNCHANGED <<dbVars, cache, failures, crashes>>
    BY <1>5 DEF Probe
  <2>2. PICK s \in {"insertBlock", "select"} : Goto(r, s, None)
    BY <1>5 DEF Probe
  <2>. QED  BY <1>1, <1>3, <2>1, <2>2, StepTyped DEF dbVars
<1>6. CASE InsertOpenBlock(r)
  <2>1. /\ blocks' = Append(blocks, [mined |-> 0, valid |-> "unknown", unlocked |-> FALSE])
        /\ roundShares' = Append(roundShares, NoShares)
        /\ Goto(r, "select", None)
        /\ UNCHANGED <<rewards, cache, failures, crashes>>
    BY <1>6 DEF InsertOpenBlock, InsertBlock
  <2>2. blocks' \in Seq(Blocks) /\ Len(blocks') = Len(blocks) + 1
    BY <1>1, <2>1, RowAppended DEF Blocks
  <2>3. roundShares' \in Seq(Rounds) /\ Len(roundShares') = Len(roundShares) + 1
    BY <1>1, <2>1, RowAppended DEF Rounds, NoShares
  <2>4. BlockIds \subseteq BlockIds'
    BY <1>1, <2>2 DEF BlockIds
  <2>5. requests' \in Seq(Requests) /\ KnownBlocks'
    BY <1>3, <2>1, <2>4, MoveTyped
  <2>6. cache' \subseteq BlockIds' \cup {None} /\ Len(roundShares') = Len(blocks')
    BY <1>1, <2>1, <2>2, <2>3, <2>4
  <2>. QED  BY <1>1, <2>1, <2>2, <2>3, <2>4, <2>5, <2>6, EngineTyped
<1>7. CASE SelectOpenBlock(r)
  <2>1. UNCHANGED <<dbVars, cache, failures, crashes>>
    BY <1>7 DEF SelectOpenBlock
  <2>2. PICK b \in BlockIds \cup {None} : Goto(r, "store", b)
    BY <1>7 DEF SelectOpenBlock, OpenBlocks
  <2>. QED  BY <1>1, <1>3, <2>1, <2>2, StepTyped DEF dbVars
<1>8. CASE StoreBlock(r)
  <2>1. /\ cache' = {requests[r].block} /\ Goto(r, "update", requests[r].block)
        /\ UNCHANGED <<dbVars, failures, crashes>>
    BY <1>8 DEF StoreBlock
  <2>2. cache' \subseteq BlockIds \cup {None} /\ Cardinality(cache') <= 1
    BY <1>2, <2>1, Small
  <2>. QED  BY <1>1, <1>2, <1>3, <2>1, <2>2, StepTyped DEF dbVars
<1>9. ASSUME UNCHANGED <<blocks, rewards, cache, failures, crashes>>,
             NEW b \in BlockIds \cup {None}, NEW s \in Steps \cup Ends, Goto(r, s, b),
             \/ UNCHANGED roundShares /\ s # "counted"
             \/ \E w \in Wallets : AddShare(b, w) /\ b # None
      PROVE  TypeInv'
  <2>1. CASE UNCHANGED roundShares /\ s # "counted"
    BY <1>1, <1>9, <2>1, StepTyped
  <2>2. ASSUME NEW w \in Wallets, AddShare(b, w), b # None PROVE TypeInv'
    <3>1. b \in BlockIds /\ b \in 1..Len(roundShares)
      BY <1>1, <2>2 DEF BlockIds
    <3>2. roundShares' \in Seq(Rounds) /\ Len(roundShares') = Len(roundShares)
      BY <1>1, <2>2, <3>1, ShareAdded
    <3>. QED  BY <1>1, <1>9, <3>1, <3>2, StepTyped
  <2>. QED  BY <1>9, <2>1, <2>2
<1>10. CASE UpdateRow(r)
  BY <1>2, <1>3, <1>9, <1>10 DEF UpdateRow
<1>11. CASE ProbeRow(r)
  BY <1>2, <1>3, <1>9, <1>11 DEF ProbeRow, dbVars
<1>12. CASE InsertRow(r)
  BY <1>2, <1>3, <1>9, <1>12 DEF InsertRow
<1>. QED  BY <1>4, <1>5, <1>6, <1>7, <1>8, <1>10, <1>11, <1>12 DEF ShareStep

\* A new request knows no block yet.
LEMMA ArrivalTyped ==
    ASSUME TypeInv, NEW q \in Requests, q.at # "counted", q.block = None,
           requests' = Append(requests, q),
           UNCHANGED <<dbVars, cache, failures, crashes, unlockerVars>>
    PROVE  TypeInv'
<1>1. requests \in Seq(Requests)
  BY DEF TypeInv, TypeOK, EngineTypeOK
<1>2. /\ requests' \in Seq(Requests) /\ Len(requests') = Len(requests) + 1
      /\ \A r \in RequestIds : requests'[r] = requests[r]
      /\ requests'[Len(requests) + 1] = q
  BY <1>1, RowAppended DEF RequestIds
<1>3. BlockIds' = BlockIds
  BY DEF BlockIds, dbVars
<1>4. \A r \in RequestIds' : r \in RequestIds \/ r = Len(requests) + 1
  BY <1>1, <1>2 DEF RequestIds
<1>5. KnownBlocks'
  BY <1>2, <1>3, <1>4 DEF TypeInv, KnownBlocks
<1>. QED  BY <1>2, <1>3, <1>5, EngineTyped
          DEF TypeInv, TypeOK, EngineTypeOK, DatabaseTypeOK, dbVars

\* Rows of blocks change, not their number.
LEMMA BlocksTyped ==
    ASSUME TypeInv, UNCHANGED <<roundShares, rewards, failures, crashes, unlockerVars>>,
           blocks' \in Seq(Blocks), Len(blocks') = Len(blocks),
           cache' \subseteq BlockIds \cup {None}, Cardinality(cache') <= 1,
           \/ UNCHANGED requests
           \/ \E r \in RequestIds, s \in {"forget", "closed", "failed"} : Goto(r, s, None)
    PROVE  TypeInv'
<1>1. BlockIds' = BlockIds
  BY DEF BlockIds
<1>2. requests' \in Seq(Requests) /\ KnownBlocks'
  <2>1. CASE UNCHANGED requests
    BY <1>1, <2>1 DEF TypeInv, TypeOK, EngineTypeOK, KnownBlocks, RequestIds
  <2>2. ASSUME NEW r \in RequestIds, NEW s \in {"forget", "closed", "failed"},
               Goto(r, s, None)
        PROVE  requests' \in Seq(Requests) /\ KnownBlocks'
    <3>1. s \in Steps \cup Ends /\ s # "counted"
      BY <2>2 DEF Steps, Ends
    <3>. QED  BY <1>1, <2>2, <3>1, MoveTyped
  <2>. QED  BY <2>1, <2>2
<1>. QED  BY <1>1, <1>2, EngineTyped DEF TypeInv, TypeOK, EngineTypeOK, DatabaseTypeOK

\* A function on the indices of a sequence is a sequence as long.
LEMMA AsLong ==
    ASSUME NEW R, NEW s \in Seq(R), NEW t, t \in [1..Len(s) -> R]
    PROVE  t \in Seq(R) /\ Len(t) = Len(s)
  OBVIOUS

\* Every step of the engine
LEMMA EngineNextTyped ==
    ASSUME TypeInv, EngineNext, UNCHANGED unlockerVars
    PROVE  TypeInv'
<1>1. /\ blocks \in Seq(Blocks) /\ roundShares \in Seq(Rounds)
      /\ Len(roundShares) = Len(blocks) /\ requests \in Seq(Requests)
      /\ cache \subseteq BlockIds \cup {None} /\ Cardinality(cache) <= 1
      /\ failures \in 0..MaxFailures /\ crashes \in 0..MaxCrashes
  BY DEF TypeInv, TypeOK, EngineTypeOK, DatabaseTypeOK
<1>2. ASSUME NEW w \in Wallets, ShareArrives(w) \/ BlockArrives(w) PROVE TypeInv'
  <2>1. PICK k \in {"share", "block"}, s \in {"lookup", "close"} :
            /\ requests' = Append(requests, [kind |-> k, wallet |-> w, at |-> s, block |-> None])
            /\ UNCHANGED <<dbVars, cache, failures, crashes>>
    BY <1>2 DEF ShareArrives, BlockArrives
  <2>2. [kind |-> k, wallet |-> w, at |-> s, block |-> None] \in Requests
    BY DEF Requests, Steps, None
  <2>3. s # "counted"
    OBVIOUS
  <2>. QED  BY <2>1, <2>2, <2>3, ArrivalTyped
<1>3. ASSUME NEW r \in RequestIds, ShareStep(r) PROVE TypeInv'
  BY <1>3, ShareStepTyped
<1>4. ASSUME NEW r \in RequestIds, CloseBlocks(r) PROVE TypeInv'
  <2>1. /\ blocks' = [b \in BlockIds |->
               IF b \in OpenBlocks THEN [blocks[b] EXCEPT !.mined = r] ELSE blocks[b]]
        /\ Goto(r, "forget", None)
        /\ UNCHANGED <<roundShares, rewards, cache, failures, crashes>>
    BY <1>4 DEF CloseBlocks
  <2>2. ASSUME NEW b \in BlockIds PROVE blocks'[b] \in Blocks
    <3>1. blocks[b] \in Blocks /\ r \in Nat
      BY <1>1 DEF BlockIds, RequestIds
    <3>. QED  BY <2>1, <3>1 DEF Blocks
  <2>3. blocks' \in [1..Len(blocks) -> Blocks]
    BY <2>1, <2>2 DEF BlockIds
  <2>4. blocks' \in Seq(Blocks) /\ Len(blocks') = Len(blocks)
    BY <1>1, <2>3, AsLong
  <2>. QED  BY <1>1, <2>1, <2>4, BlocksTyped
<1>5. ASSUME NEW r \in RequestIds, ForgetBlock(r) PROVE TypeInv'
  <2>1. cache' = {} /\ UNCHANGED <<dbVars, failures, crashes>>
        /\ \E s \in {"forget", "closed", "failed"} : Goto(r, s, None)
    BY <1>5 DEF ForgetBlock
  <2>2. Cardinality(cache') <= 1
    BY <2>1, Small
  <2>. QED  BY <1>1, <2>1, <2>2, BlocksTyped DEF dbVars
<1>6. ASSUME NEW r \in RequestIds, RequestFails(r) PROVE TypeInv'
  <2>1. Goto(r, "failed", requests[r].block) /\ UNCHANGED <<dbVars, cache, crashes>>
    BY <1>6 DEF RequestFails
  <2>2. failures' \in 0..MaxFailures
    BY <1>1, <1>6, EngineAssumption DEF RequestFails
  <2>3. requests[r].block \in BlockIds \cup {None} /\ "failed" \in Steps \cup Ends
    BY DEF TypeInv, KnownBlocks, Ends
  <2>. QED  BY <1>1, <2>1, <2>2, <2>3, StepTyped DEF dbVars
<1>7. ASSUME NEW b \in BlockIds, NEW verdict \in {"yes", "no"}, ValidateBlock(b, verdict)
      PROVE  TypeInv'
  <2>. DEFINE row == [blocks[b] EXCEPT !.valid = verdict]
  <2>1. blocks[b] \in Blocks
    BY <1>1 DEF BlockIds
  <2>2. row \in Blocks
    BY <2>1 DEF Blocks
  <2>3. blocks' = [blocks EXCEPT ![b] = row] /\ UNCHANGED <<roundShares, rewards, engineVars>>
    BY <1>7 DEF ValidateBlock
  <2>. HIDE DEF row
  <2>4. blocks' \in Seq(Blocks) /\ Len(blocks') = Len(blocks)
    BY <1>1, <2>2, <2>3, RowChanged DEF BlockIds
  <2>. QED  BY <1>1, <2>3, <2>4, BlocksTyped DEF engineVars
<1>8. CASE EngineCrash
  <2>1. /\ crashes < MaxCrashes /\ crashes' = crashes + 1 /\ cache' = {}
        /\ requests' = [r \in RequestIds |->
               IF r \in InFlight THEN [requests[r] EXCEPT !.at = "failed"] ELSE requests[r]]
        /\ UNCHANGED <<dbVars, failures>>
    BY <1>8 DEF EngineCrash
  <2>2. ASSUME NEW r \in RequestIds
        PROVE  /\ requests'[r] \in Requests
               /\ requests'[r].block = requests[r].block
               /\ requests'[r].at = "counted" => requests[r].at = "counted"
    <3>1. requests[r] \in Requests
      BY <1>1 DEF RequestIds
    <3>. QED  BY <2>1, <3>1 DEF Requests, Ends
  <2>3. requests' \in [1..Len(requests) -> Requests]
    BY <2>1, <2>2 DEF RequestIds
  <2>4. requests' \in Seq(Requests) /\ Len(requests') = Len(requests)
    BY <1>1, <2>3, AsLong
  <2>5. BlockIds' = BlockIds /\ RequestIds' = RequestIds
    BY <2>1, <2>4 DEF BlockIds, RequestIds, dbVars
  <2>6. KnownBlocks'
    BY <2>2, <2>5 DEF TypeInv, KnownBlocks
  <2>7. crashes' \in 0..MaxCrashes /\ Cardinality(cache') <= 1
    BY <1>1, <2>1, Small, EngineAssumption
  <2>. QED  BY <1>1, <2>1, <2>4, <2>5, <2>6, <2>7, EngineTyped DEF dbVars
<1>. QED  BY <1>2, <1>3, <1>4, <1>5, <1>6, <1>7, <1>8 DEF EngineNext

------------------------------------------------------------------------------
(* Rewards are a bag *)

\* One more row
LEMMA RewardInserted ==
    ASSUME IsABag(rewards), NEW row, InsertReward(row)
    PROVE  /\ IsABag(rewards') /\ BagToSet(rewards') = BagToSet(rewards) \cup {row}
           /\ \A x \in BagToSet(rewards) : x # row => rewards'[x] = rewards[x]
           /\ row \notin BagToSet(rewards) => rewards'[row] = 1
<1>1. rewards \in [BagToSet(rewards) -> {n \in Nat : n > 0}]
  BY DEF IsABag, BagToSet
<1>2. rewards' = [x \in BagToSet(rewards) \cup {row} |->
                      (IF x \in BagToSet(rewards) THEN rewards[x] ELSE 0)
                      + (IF x \in {row} THEN 1 ELSE 0)]
  BY DEF InsertReward, SetToBag, (+), BagToSet
<1>3. \A x \in BagToSet(rewards) \cup {row} : rewards'[x] \in {n \in Nat : n > 0}
  BY <1>1, <1>2
<1>4. BagToSet(rewards') = BagToSet(rewards) \cup {row}
  BY <1>2 DEF BagToSet
<1>5. IsABag(rewards')
  BY <1>2, <1>3 DEF IsABag
<1>6. \A x \in BagToSet(rewards) : x # row => rewards'[x] = rewards[x]
  BY <1>1, <1>2
<1>7. row \notin BagToSet(rewards) => rewards'[row] = 1
  BY <1>2
<1>. QED  BY <1>4, <1>5, <1>6, <1>7

\* The rows of some blocks
LEMMA RewardsOfBlocks ==
    ASSUME IsABag(rewards), NEW B
    PROVE  /\ IsABag(RewardsOf(B))
           /\ BagToSet(RewardsOf(B)) = {r \in BagToSet(rewards) : r.block \in B}
           /\ \A x \in BagToSet(RewardsOf(B)) : RewardsOf(B)[x] = rewards[x]
<1>1. rewards \in [BagToSet(rewards) -> {n \in Nat : n > 0}]
  BY DEF IsABag, BagToSet
<1>. QED  BY <1>1 DEF RewardsOf, IsABag, BagToSet

------------------------------------------------------------------------------
(* Type correctness of the unlocker's steps *)

\* A step that writes neither blocks nor shares, and leaves rewards well formed
LEMMA PayerTyped ==
    ASSUME TypeInv, UNCHANGED <<blocks, roundShares, engineVars>>,
           IsABag(rewards') /\ BagToSet(rewards') \subseteq Rewards,
           step' \in UnlockerSteps, todo' \subseteq BlockIds, step' = "list" <=> todo' = {},
           total' \in Nat, unpaid' \subseteq ShareRows, deaths' \in 0..MaxUnlockerCrashes
    PROVE  TypeInv'
<1>1. BlockIds' = BlockIds /\ RequestIds' = RequestIds
  BY DEF BlockIds, RequestIds, engineVars
<1>2. DatabaseTypeOK'
  BY DEF TypeInv, TypeOK, EngineTypeOK, DatabaseTypeOK
<1>3. EngineTypeOK'
  BY <1>1, <1>2 DEF TypeInv, TypeOK, EngineTypeOK, engineVars
<1>4. UnlockerTypeOK'
  BY <1>1 DEF UnlockerTypeOK
<1>5. KnownBlocks'
  BY <1>1 DEF TypeInv, KnownBlocks, engineVars
<1>. QED  BY <1>3, <1>4, <1>5 DEF TypeInv, TypeOK

\* Inserting a row of the block at hand
LEMMA InsertTyped ==
    ASSUME TypeInv, NEW row \in Rewards, InsertReward(row),
           UNCHANGED <<blocks, roundShares, engineVars, todo, total, deaths>>,
           step' \in UnlockerSteps \ {"list"}, step # "list", unpaid' \subseteq ShareRows
    PROVE  TypeInv'
<1>1. IsABag(rewards) /\ BagToSet(rewards) \subseteq Rewards
  BY DEF TypeInv, TypeOK, EngineTypeOK, DatabaseTypeOK
<1>2. IsABag(rewards') /\ BagToSet(rewards') \subseteq Rewards
  BY <1>1, RewardInserted
<1>. QED  BY <1>2, PayerTyped DEF TypeInv, TypeOK, UnlockerTypeOK

\* What a round sums up to
LEMMA TotalTyped ==
    ASSUME roundShares \in Seq(Rounds), NEW b \in 1..Len(roundShares)
    PROVE  TotalShares(b) \in Nat
<1>1. roundShares[b] \in Rounds
  OBVIOUS
<1>2. \A w \in Wallets : roundShares[b][w] \in Nat
  BY <1>1 DEF Rounds
<1>. QED  BY <1>2, SumType, DatabaseAssumption DEF TotalShares

\* Every step of the unlocker
LEMMA UnlockerNextTyped ==
    ASSUME TypeInv, UnlockerNext, UNCHANGED engineVars
    PROVE  TypeInv'
<1>1. /\ blocks \in Seq(Blocks) /\ roundShares \in Seq(Rounds)
      /\ Len(roundShares) = Len(blocks)
      /\ IsABag(rewards) /\ BagToSet(rewards) \subseteq Rewards
  BY DEF TypeInv, TypeOK, EngineTypeOK, DatabaseTypeOK
<1>2. /\ step \in UnlockerSteps /\ todo \subseteq BlockIds /\ (step = "list" <=> todo = {})
      /\ total \in Nat /\ unpaid \subseteq ShareRows /\ deaths \in 0..MaxUnlockerCrashes
  BY DEF TypeInv, TypeOK, UnlockerTypeOK
<1>3. step # "list" => Block \in todo /\ Block \in BlockIds
  BY <1>1, <1>2, BlockIsFirst
<1>4. CASE ListBlocks
  BY <1>1, <1>2, <1>4, PayerTyped DEF ListBlocks, Unlockable, UnlockerSteps, dbVars
<1>5. CASE DeleteRewards
  <2>1. IsABag(rewards') /\ BagToSet(rewards') \subseteq Rewards
    BY <1>1, <1>5, RewardsOfBlocks DEF DeleteRewards
  <2>. QED  BY <1>2, <1>5, <2>1, PayerTyped DEF DeleteRewards, UnlockerSteps
<1>6. CASE SumShares
  <2>1. TotalShares(Block) \in Nat
    BY <1>1, <1>3, <1>6, TotalTyped DEF SumShares, BlockIds
  <2>2. /\ UNCHANGED <<dbVars, unpaid, deaths>> /\ total' = TotalShares(Block)
        /\ step' \in UnlockerSteps /\ todo' \subseteq BlockIds
        /\ (step' = "list" <=> todo' = {})
    BY <1>2, <1>6 DEF SumShares, UnlockerSteps
  <2>. QED  BY <1>1, <1>2, <2>1, <2>2, PayerTyped DEF dbVars
<1>7. CASE PayFee
  <2>1. /\ UNCHANGED <<blocks, roundShares, todo, total, unpaid, deaths>>
        /\ step # "list" /\ step' = "rows"
    BY <1>7 DEF PayFee
  <2>2. step' \in UnlockerSteps \ {"list"}
    BY <2>1 DEF UnlockerSteps
  <2>. DEFINE row == [block |-> Block, for |-> "fee", wallet |-> "pool", part |-> 1, of |-> 1]
  <2>3. row \in Rewards
    BY <1>3, <2>1 DEF Rewards, BlockIds
  <2>4. InsertReward(row) \/ UNCHANGED rewards
    BY <1>7 DEF PayFee
  <2>. HIDE DEF row
  <2>. QED  BY <1>1, <1>2, <2>1, <2>2, <2>3, <2>4, InsertTyped, PayerTyped
<1>8. CASE SelectRows
  <2>1. Contributors(Block) \subseteq Wallets
        /\ \A w \in Wallets : roundShares[Block][w] \in Nat
    BY <1>1, <1>3, <1>8 DEF SelectRows, Contributors, BlockIds, Rounds
  <2>2. unpaid' \subseteq ShareRows
    BY <1>8, <2>1 DEF SelectRows, ShareRows
  <2>. QED  BY <1>1, <1>2, <1>8, <2>2, PayerTyped DEF SelectRows, UnlockerSteps, dbVars
<1>9. ASSUME NEW u \in unpaid, PayRow(u) PROVE TypeInv'
  <2>1. /\ UNCHANGED <<blocks, roundShares, step, todo, total, deaths>>
        /\ unpaid' = unpaid \ {u} /\ step = "pay"
    BY <1>9 DEF PayRow
  <2>. DEFINE row == [block |-> Block, for |-> "shares", wallet |-> u.wallet,
                      part |-> u.shares, of |-> total]
  <2>2. u \in ShareRows
    BY <1>2
  <2>3. row \in Rewards
    BY <1>2, <1>3, <2>1, <2>2 DEF Rewards, ShareRows, BlockIds
  <2>4. InsertReward(row)
    BY <1>9 DEF PayRow
  <2>. HIDE DEF row
  <2>5. step' \in UnlockerSteps \ {"list"} /\ step # "list"
    BY <2>1 DEF UnlockerSteps
  <2>. QED  BY <1>2, <2>1, <2>3, <2>4, <2>5, InsertTyped
<1>10. CASE MarkUnlocked
  <2>1. /\ Block \in todo /\ Block \in BlockIds
        /\ blocks' = [blocks EXCEPT ![Block].unlocked = TRUE]
        /\ todo' = todo \ {Block} /\ step' = IF todo = {Block} THEN "list" ELSE "delete"
        /\ UNCHANGED <<roundShares, rewards, total, unpaid, deaths, engineVars>>
    BY <1>3, <1>10 DEF MarkUnlocked
  <2>2. PICK k \in BlockIds : k = Block
    BY <2>1
  <2>. DEFINE row == [blocks[k] EXCEPT !.unlocked = TRUE]
  <2>3. blocks[k] \in Blocks
    BY <1>1 DEF BlockIds
  <2>4. blocks' \in Seq(Blocks) /\ Len(blocks') = Len(blocks)
    <3>1. row \in Blocks
      BY <2>3 DEF Blocks
    <3>2. blocks' = [blocks EXCEPT ![k] = row]
      BY <2>1, <2>2
    <3>. HIDE DEF row
    <3>. QED  BY <1>1, <3>1, <3>2, RowChanged DEF BlockIds
  <2>5. BlockIds' = BlockIds /\ RequestIds' = RequestIds
    BY <2>1, <2>4 DEF BlockIds, RequestIds, engineVars
  <2>6. DatabaseTypeOK'
    BY <1>1, <2>1, <2>4 DEF DatabaseTypeOK
  <2>7. EngineTypeOK' /\ KnownBlocks'
    BY <2>1, <2>5, <2>6 DEF TypeInv, TypeOK, EngineTypeOK, KnownBlocks, engineVars
  <2>8. UnlockerTypeOK'
    BY <1>2, <2>1, <2>5 DEF UnlockerTypeOK, UnlockerSteps
  <2>. QED  BY <2>7, <2>8 DEF TypeInv, TypeOK
<1>11. CASE UnlockerCrash
  BY <1>1, <1>2, <1>11, UnlockerAssumption, PayerTyped DEF UnlockerCrash, UnlockerSteps, dbVars
<1>. QED  BY <1>4, <1>5, <1>6, <1>7, <1>8, <1>9, <1>10, <1>11 DEF UnlockerNext, UnlockerStep

\* The tables are well formed when there is nothing in them, and every step of
\* either program keeps them so.
LEMMA TypeInductive ==
    /\ Init => TypeInv
    /\ TypeInv /\ [Next]_vars => TypeInv'
<1>1. ASSUME Init PROVE TypeInv
  <2>1. /\ blocks = <<>> /\ roundShares = <<>> /\ rewards = EmptyBag
        /\ cache = {} /\ requests = <<>> /\ failures = 0 /\ crashes = 0
        /\ step = "list" /\ todo = {} /\ total = 0 /\ unpaid = {} /\ deaths = 0
    BY <1>1 DEF Init, DatabaseInit, EngineInit, UnlockerInit
  <2>2. IsABag(rewards) /\ BagToSet(rewards) = {}
    BY <2>1 DEF EmptyBag, SetToBag, IsABag, BagToSet
  <2>3. BlockIds = {} /\ RequestIds = {}
    BY <2>1 DEF BlockIds, RequestIds
  <2>4. DatabaseTypeOK
    BY <2>1, <2>2 DEF DatabaseTypeOK
  <2>5. EngineTypeOK
    BY <2>1, <2>4, Small, EngineAssumption DEF EngineTypeOK
  <2>6. UnlockerTypeOK
    BY <2>1, UnlockerAssumption DEF UnlockerTypeOK, UnlockerSteps
  <2>. QED  BY <2>3, <2>5, <2>6 DEF TypeInv, TypeOK, KnownBlocks
<1>2. ASSUME TypeInv, [Next]_vars PROVE TypeInv'
  <2>1. CASE EngineNext /\ UNCHANGED unlockerVars
    BY <1>2, <2>1, EngineNextTyped
  <2>2. CASE UnlockerNext /\ UNCHANGED engineVars
    BY <1>2, <2>2, UnlockerNextTyped
  <2>3. CASE UNCHANGED vars
    BY <1>2, <2>3 DEF vars, dbVars, engineVars, unlockerVars, TypeInv, TypeOK, EngineTypeOK,
                      DatabaseTypeOK, UnlockerTypeOK, KnownBlocks, BlockIds, RequestIds
  <2>. QED  BY <1>2, <2>1, <2>2, <2>3 DEF Next
<1>. QED  BY <1>1, <1>2

\* The tables, the requests and the unlocker's variables hold what the code may put
\* there, whatever interrupts what.
THEOREM TypeCorrect == Spec => []TypeOK
<1>1. TypeInv => TypeOK
  BY DEF TypeInv
<1>. QED  BY TypeInductive, <1>1, PTL DEF Spec

------------------------------------------------------------------------------
(* Shares and the requests that counted them *)

\* Requests that counted a share of wallet w in round b
CountedIn(b, w) == {r \in RequestIds : /\ requests[r].at = "counted"
                                       /\ requests[r].block = b
                                       /\ requests[r].wallet = w}

\* A request that ended stays as it is,
EndedStay ==
    /\ RequestIds \subseteq RequestIds'
    /\ \A r \in RequestIds : requests[r].at \in Ends => requests'[r] = requests[r]

\* and no other is counted or skipped,
NoneCounts == \A r \in RequestIds' : requests'[r].at = "counted" =>
                                         r \in RequestIds /\ requests[r].at = "counted"

NoneSkips == \A r \in RequestIds' : requests'[r].at = "skipped" =>
                                        r \in RequestIds /\ requests[r].at = "skipped"

\* unless one counts its share or is skipped in round b.
Counts(r, b) ==
    /\ requests[r].at \in {"update", "insertRow"} /\ requests[r].block = b
    /\ AddShare(b, requests[r].wallet)
    /\ Goto(r, "counted", b)

Skips(r, b) == requests[r].wallet \in Contributors(b) /\ Goto(r, "skipped", b)

\* Where a request stands tells whether it has ended.
LEMMA StepsAndEnds == Steps \cap Ends = {}
  BY DEF Steps, Ends

\* What a move to a step, or to an end other than these two, leaves alone
LEMMA MoveKeeps ==
    ASSUME requests \in Seq(Requests), NEW r \in InFlight, NEW s \in Steps \cup Ends,
           NEW b \in Nat, Goto(r, s, b)
    PROVE  /\ EndedStay
           /\ s # "counted" => NoneCounts
           /\ s # "skipped" => NoneSkips
<1>1. /\ RequestIds' = RequestIds
      /\ \A q \in RequestIds : q # r => requests'[q] = requests[q]
      /\ requests'[r].at = s
  BY GotoMoves DEF InFlight
<1>2. requests[r].at \notin Ends
  BY StepsAndEnds DEF InFlight
<1>. QED  BY <1>1, <1>2 DEF EndedStay, NoneCounts, NoneSkips

\* A step of the engine counts one share, or skips one, or inserts a round without
\* shares, or does nothing to the shares.
LEMMA EngineShape ==
    ASSUME TypeInv, EngineNext
    PROVE  /\ EndedStay
           /\ \/ \E r \in InFlight, b \in BlockIds : Counts(r, b) /\ NoneSkips
              \/ /\ NoneCounts
                 /\ UNCHANGED roundShares \/ InsertBlock
                 /\ NoneSkips \/ \E r \in InFlight, b \in BlockIds : Skips(r, b)
<1>. DEFINE Goal == /\ EndedStay
                    /\ \/ \E r \in InFlight, b \in BlockIds : Counts(r, b) /\ NoneSkips
                       \/ /\ NoneCounts
                          /\ UNCHANGED roundShares \/ InsertBlock
                          /\ NoneSkips \/ \E r \in InFlight, b \in BlockIds : Skips(r, b)
<1>1. requests \in Seq(Requests)
  BY DEF TypeInv, TypeOK, EngineTypeOK
<1>2. ASSUME NEW w \in Wallets, ShareArrives(w) \/ BlockArrives(w) PROVE Goal
  <2>1. PICK k \in {"share", "block"}, s \in {"lookup", "close"} :
            requests' = Append(requests, [kind |-> k, wallet |-> w, at |-> s, block |-> None])
    BY <1>2 DEF ShareArrives, BlockArrives
  <2>2. PICK q : q = [kind |-> k, wallet |-> w, at |-> s, block |-> None]
    OBVIOUS
  <2>3. q \in Requests /\ q.at \notin {"counted", "skipped"}
    BY <2>2 DEF Requests, Steps, None
  <2>4. /\ Len(requests') = Len(requests) + 1
        /\ \A r \in RequestIds : requests'[r] = requests[r]
        /\ requests'[Len(requests) + 1] = q
    BY <1>1, <2>1, <2>2, <2>3, RowAppended DEF RequestIds
  <2>5. /\ RequestIds \subseteq RequestIds'
        /\ \A r \in RequestIds' : r \in RequestIds \/ r = Len(requests) + 1
    BY <1>1, <2>4 DEF RequestIds
  <2>6. EndedStay /\ NoneCounts /\ NoneSkips
    BY <2>3, <2>4, <2>5 DEF EndedStay, NoneCounts, NoneSkips
  <2>. QED  BY <1>2, <2>6 DEF ShareArrives, BlockArrives, dbVars
<1>3. ASSUME NEW r \in InFlight, NEW s \in (Steps \cup Ends) \ {"counted"}, NEW b \in Nat,
             Goto(r, s, b), s = "skipped" => b \in BlockIds /\ Skips(r, b),
             UNCHANGED roundShares \/ InsertBlock
      PROVE  Goal
  BY <1>1, <1>3, MoveKeeps
<1>4. ASSUME NEW r \in InFlight, NEW b \in BlockIds, Counts(r, b) PROVE Goal
  <2>1. b \in Nat /\ "counted" \in Ends
    BY DEF BlockIds, Ends
  <2>. QED  BY <1>1, <1>4, <2>1, MoveKeeps DEF Counts
<1>5. \A r \in InFlight : /\ requests[r].block \in BlockIds \cup {None}
                          /\ requests[r].block \in Nat /\ r \in RequestIds
  BY DEF TypeInv, KnownBlocks, InFlight, BlockIds, None
<1>6. /\ None \in Nat /\ BlockIds \subseteq Nat /\ cache \subseteq Nat
      /\ (Steps \cup {"closed", "failed"}) \subseteq (Steps \cup Ends) \ {"counted"}
      /\ "skipped" \in (Steps \cup Ends) \ {"counted"}
      /\ {"lookup", "probe", "insertBlock", "select", "store", "update", "probeRow",
          "insertRow", "close", "forget"} = Steps
      /\ "skipped" \notin Steps
  BY DEF None, BlockIds, Steps, Ends, TypeInv, TypeOK, EngineTypeOK
<1>7. \A r, s : At(r, s) /\ s \in Steps => r \in InFlight
  BY DEF At, InFlight
<1>8. ASSUME NEW r \in RequestIds, Lookup(r) \/ Probe(r) \/ SelectOpenBlock(r) \/ StoreBlock(r)
      PROVE  Goal
  <2>1. r \in InFlight /\ UNCHANGED roundShares
    BY <1>6, <1>7, <1>8 DEF Lookup, Probe, SelectOpenBlock, StoreBlock, dbVars
  <2>2. PICK s \in Steps, b \in Nat : Goto(r, s, b)
    BY <1>5, <1>6, <1>8, <2>1 DEF Lookup, Probe, SelectOpenBlock, StoreBlock, OpenBlocks
  <2>. QED  BY <1>3, <1>6, <2>1, <2>2
<1>9. ASSUME NEW r \in RequestIds, InsertOpenBlock(r) PROVE Goal
  <2>1. r \in InFlight /\ InsertBlock /\ Goto(r, "select", None)
    BY <1>6, <1>7, <1>9 DEF InsertOpenBlock
  <2>. QED  BY <1>3, <1>6, <2>1
<1>10. ASSUME NEW r \in RequestIds, UpdateRow(r) PROVE Goal
  <2>1. r \in InFlight
    BY <1>6, <1>7, <1>10 DEF UpdateRow
  <2>. QED  BY <1>3, <1>4, <1>5, <1>6, <1>10, <2>1 DEF UpdateRow, Counts, At
<1>11. ASSUME NEW r \in RequestIds, ProbeRow(r) PROVE Goal
  <2>1. r \in InFlight /\ UNCHANGED roundShares
    BY <1>6, <1>7, <1>11 DEF ProbeRow, dbVars
  <2>. QED  BY <1>3, <1>5, <1>6, <1>11, <2>1 DEF ProbeRow, Skips
<1>12. ASSUME NEW r \in RequestIds, InsertRow(r) PROVE Goal
  <2>1. r \in InFlight
    BY <1>6, <1>7, <1>12 DEF InsertRow
  <2>. QED  BY <1>3, <1>4, <1>5, <1>6, <1>12, <2>1 DEF InsertRow, Counts, At
<1>13. ASSUME NEW r \in RequestIds, CloseBlocks(r) \/ ForgetBlock(r) \/ RequestFails(r)
      PROVE  Goal
  <2>1. r \in InFlight /\ UNCHANGED roundShares
    BY <1>6, <1>7, <1>13 DEF CloseBlocks, ForgetBlock, RequestFails, dbVars
  <2>2. PICK s \in Steps \cup {"closed", "failed"}, b \in Nat : Goto(r, s, b)
    BY <1>5, <1>6, <1>13, <2>1 DEF CloseBlocks, ForgetBlock, RequestFails
  <2>3. s # "skipped"
    BY <1>6
  <2>. QED  BY <1>3, <1>6, <2>1, <2>2, <2>3
<1>14. ASSUME NEW b \in BlockIds, NEW verdict \in {"yes", "no"}, ValidateBlock(b, verdict)
       PROVE  Goal
  BY <1>14 DEF ValidateBlock, engineVars, EndedStay, NoneCounts, NoneSkips, RequestIds
<1>15. CASE EngineCrash
  <2>1. /\ requests' = [r \in RequestIds |->
               IF r \in InFlight THEN [requests[r] EXCEPT !.at = "failed"] ELSE requests[r]]
        /\ UNCHANGED roundShares
    BY <1>15 DEF EngineCrash, dbVars
  <2>2. RequestIds' = RequestIds
    BY <2>1, <1>1 DEF RequestIds
  <2>3. \A r \in RequestIds : requests[r] \in Requests
    BY <1>1 DEF RequestIds
  <2>4. \A r \in RequestIds : IF r \in InFlight THEN requests'[r].at = "failed"
                              ELSE requests'[r] = requests[r]
    BY <2>1, <2>3 DEF Requests
  <2>5. \A r \in RequestIds : requests[r].at \in Ends => r \notin InFlight
    BY StepsAndEnds DEF InFlight
  <2>. QED  BY <2>1, <2>2, <2>4, <2>5 DEF EndedStay, NoneCounts, NoneSkips
<1>. QED  BY <1>2, <1>8, <1>9, <1>10, <1>11, <1>12, <1>13, <1>14, <1>15 DEF EngineNext, ShareStep

\* The requests are finitely many.
LEMMA CountedFinite ==
    ASSUME TypeInv, NEW b, NEW w
    PROVE  IsFiniteSet(CountedIn(b, w)) /\ Cardinality(CountedIn(b, w)) \in Nat
<1>1. Len(requests) \in Nat
  BY DEF TypeInv, TypeOK, EngineTypeOK
<1>2. IsFiniteSet(RequestIds)
  BY <1>1, FS_Interval DEF RequestIds
<1>3. CountedIn(b, w) \subseteq RequestIds
  BY DEF CountedIn
<1>. QED  BY <1>2, <1>3, FS_Subset, FS_CardinalityType

\* What has been counted stays counted if no other request counts.
LEMMA CountedSame ==
    ASSUME EndedStay, NoneCounts, NEW b, NEW w
    PROVE  CountedIn(b, w)' = CountedIn(b, w)
  BY DEF EndedStay, NoneCounts, CountedIn, Ends

\* A share is in its round's row, and its request among those counted there.
LEMMA CountKeepsSum ==
    ASSUME TypeInv, TypeInv', CountsAddUp, NEW r \in InFlight, NEW c \in BlockIds, Counts(r, c)
    PROVE  CountsAddUp'
<1>. DEFINE v == requests[r].wallet
<1>1. requests \in Seq(Requests) /\ roundShares \in Seq(Rounds)
      /\ r \in RequestIds /\ c \in Nat /\ c \in 1..Len(roundShares) /\ "counted" \in Ends
  BY DEF TypeInv, TypeOK, EngineTypeOK, DatabaseTypeOK, InFlight, BlockIds, Ends
<1>2. v \in Wallets
  <2>1. requests[r] \in Requests
    BY <1>1 DEF RequestIds
  <2>. QED  BY <2>1 DEF Requests
<1>3. /\ RequestIds' = RequestIds
      /\ \A q \in RequestIds : q # r => requests'[q] = requests[q]
      /\ requests'[r].at = "counted" /\ requests'[r].block = c /\ requests'[r].wallet = v
  BY <1>1, GotoMoves DEF Counts
<1>4. /\ Len(roundShares') = Len(roundShares)
      /\ \A b \in BlockIds, w \in Wallets :
             roundShares'[b][w] = IF b = c /\ w = v THEN roundShares[b][w] + 1
                                  ELSE roundShares[b][w]
  <2>1. AddShare(c, v) /\ BlockIds = 1..Len(roundShares)
    BY DEF Counts, TypeInv, TypeOK, EngineTypeOK, DatabaseTypeOK, BlockIds
  <2>. QED  BY <1>1, <1>2, <2>1, ShareAdded
<1>5. BlockIds' = BlockIds
  BY <1>4 DEF TypeInv, TypeOK, EngineTypeOK, DatabaseTypeOK, BlockIds
<1>6. requests[r].at # "counted"
  BY DEF InFlight, Steps
<1>7. ASSUME NEW b \in BlockIds, NEW w \in Wallets
      PROVE  roundShares'[b][w] = Cardinality(CountedIn(b, w)')
  <2>1. roundShares[b][w] = Cardinality(CountedIn(b, w))
    BY DEF CountsAddUp, CountedIn
  <2>2. CASE b = c /\ w = v
    <3>1. CountedIn(b, w)' = CountedIn(b, w) \cup {r} /\ r \notin CountedIn(b, w)
      BY <1>3, <1>6, <2>2, <1>1 DEF CountedIn
    <3>2. IsFiniteSet(CountedIn(b, w))
      BY CountedFinite
    <3>3. Cardinality(CountedIn(b, w) \cup {r}) = Cardinality(CountedIn(b, w)) + 1
      BY <3>1, <3>2, FS_AddElement
    <3>. QED  BY <1>4, <2>1, <2>2, <3>1, <3>3
  <2>3. CASE ~(b = c /\ w = v)
    <3>1. CountedIn(b, w)' = CountedIn(b, w)
      BY <1>3, <1>6, <2>3 DEF CountedIn
    <3>. QED  BY <1>4, <2>1, <2>3, <3>1
  <2>. QED  BY <2>2, <2>3
<1>. QED  BY <1>5, <1>7 DEF CountsAddUp, CountedIn

\* No step of the engine loses or repeats a share.
LEMMA EngineCounts ==
    ASSUME TypeInv, TypeInv', CountsAddUp, EngineNext
    PROVE  CountsAddUp'
<1>1. EndedStay
  BY EngineShape
<1>2. ASSUME NEW r \in InFlight, NEW b \in BlockIds, Counts(r, b) PROVE CountsAddUp'
  BY <1>2, CountKeepsSum
<1>3. ASSUME NoneCounts, UNCHANGED roundShares PROVE CountsAddUp'
  <2>1. BlockIds' = BlockIds
    BY <1>3 DEF TypeInv, TypeOK, EngineTypeOK, DatabaseTypeOK, BlockIds
  <2>2. \A b \in BlockIds, w \in Wallets : CountedIn(b, w)' = CountedIn(b, w)
    BY <1>1, <1>3, CountedSame
  <2>. QED  BY <1>3, <2>1, <2>2 DEF CountsAddUp, CountedIn
<1>4. ASSUME NoneCounts, InsertBlock PROVE CountsAddUp'
  <2>1. /\ Len(roundShares') = Len(roundShares) + 1 /\ Len(blocks') = Len(blocks) + 1
        /\ \A b \in BlockIds : roundShares'[b] = roundShares[b]
        /\ roundShares'[Len(roundShares) + 1] = NoShares
    <3>1. NoShares \in Rounds
      BY DEF NoShares, Rounds
    <3>. QED  BY <1>4, <3>1, RowAppended
              DEF InsertBlock, TypeInv, TypeOK, EngineTypeOK, DatabaseTypeOK, BlockIds
  <2>2. \A b \in BlockIds' : b \in BlockIds \/ (b = Len(blocks) + 1 /\ b \notin BlockIds)
    BY <2>1 DEF TypeInv, TypeOK, EngineTypeOK, DatabaseTypeOK, BlockIds
  <2>3. ASSUME NEW b \in BlockIds', NEW w \in Wallets
        PROVE  roundShares'[b][w] = Cardinality(CountedIn(b, w)')
    <3>1. CountedIn(b, w)' = CountedIn(b, w)
      BY <1>1, <1>4, CountedSame
    <3>2. CASE b \in BlockIds
      BY <2>1, <3>1, <3>2 DEF CountsAddUp, CountedIn
    <3>3. CASE b = Len(blocks) + 1 /\ b \notin BlockIds
      <4>1. CountedIn(b, w) = {}
        BY <3>3 DEF CountedIn, TypeInv, KnownBlocks
      <4>2. roundShares'[b] = NoShares
        BY <2>1, <3>3 DEF TypeInv, TypeOK, EngineTypeOK, DatabaseTypeOK
      <4>. QED  BY <3>1, <4>1, <4>2, Small DEF NoShares
    <3>. QED  BY <2>2, <3>2, <3>3
  <2>. QED  BY <2>3 DEF CountsAddUp, CountedIn
<1>. QED  BY <1>2, <1>3, <1>4, EngineShape

\* A wallet that has a row has had a share counted in it.
LEMMA RowMeansCounted ==
    ASSUME TypeInv, CountsAddUp, NEW b \in BlockIds, NEW w \in Contributors(b)
    PROVE  \E q \in RequestIds : /\ requests[q].at = "counted" /\ requests[q].wallet = w
                                 /\ requests[q].block = b
<1>1. w \in Wallets /\ roundShares[b][w] > 0
  BY DEF Contributors
<1>2. Cardinality(CountedIn(b, w)) # 0
  BY <1>1, CountedFinite DEF CountsAddUp, CountedIn
<1>3. CountedIn(b, w) # {}
  BY <1>2, Small
<1>. QED  BY <1>3 DEF CountedIn

\* A request is only skipped when its wallet has a row already.
LEMMA EngineSkips ==
    ASSUME TypeInv, CountsAddUp, SkippedShareHasRival, EngineNext
    PROVE  SkippedShareHasRival'
<1>. DEFINE Rival(r, q) == /\ requests[q].at = "counted"
                           /\ requests[q].wallet = requests[r].wallet
                           /\ requests[q].block = requests[r].block
<1>1. EndedStay /\ (NoneSkips \/ \E r \in InFlight, b \in BlockIds : Skips(r, b))
  BY EngineShape
<1>2. ASSUME NEW r \in RequestIds, requests[r].at = "skipped"
      PROVE  \E q \in RequestIds' \ {r} : Rival(r, q)'
  <2>1. PICK q \in RequestIds \ {r} : Rival(r, q)
    BY <1>2 DEF SkippedShareHasRival
  <2>2. requests'[r] = requests[r] /\ requests'[q] = requests[q] /\ q \in RequestIds'
    BY <1>1, <1>2, <2>1 DEF EndedStay, Ends
  <2>. QED  BY <2>1, <2>2
<1>3. CASE NoneSkips
  BY <1>1, <1>2, <1>3 DEF NoneSkips, SkippedShareHasRival
<1>4. ASSUME NEW r \in InFlight, NEW b \in BlockIds, Skips(r, b) PROVE SkippedShareHasRival'
  <2>1. requests \in Seq(Requests) /\ r \in RequestIds /\ b \in Nat /\ "skipped" \in Ends
    BY DEF TypeInv, TypeOK, EngineTypeOK, InFlight, BlockIds, Ends
  <2>2. /\ RequestIds' = RequestIds
        /\ \A q \in RequestIds : q # r => requests'[q] = requests[q]
        /\ requests'[r].block = b /\ requests'[r].wallet = requests[r].wallet
    BY <1>4, <2>1, GotoMoves DEF Skips
  <2>3. PICK q \in RequestIds : /\ requests[q].at = "counted" /\ requests[q].block = b
                                /\ requests[q].wallet = requests[r].wallet
    BY <1>4, RowMeansCounted DEF Skips
  <2>4. q # r
    BY <2>3 DEF InFlight, Steps
  <2>5. \A p \in RequestIds : requests'[p].at = "skipped" =>
            \E o \in RequestIds \ {p} : Rival(p, o)'
    BY <1>2, <2>2, <2>3, <2>4
  <2>. QED  BY <2>2, <2>5 DEF SkippedShareHasRival
<1>. QED  BY <1>1, <1>3, <1>4

\* Tables and requests agree when there are none, and no step makes them differ.
LEMMA SharesInductive ==
    /\ Init => CountsAddUp /\ SkippedShareHasRival
    /\ TypeInv /\ TypeInv' /\ CountsAddUp /\ SkippedShareHasRival /\ [Next]_vars =>
           CountsAddUp' /\ SkippedShareHasRival'
<1>1. ASSUME Init PROVE CountsAddUp /\ SkippedShareHasRival
  BY <1>1 DEF Init, DatabaseInit, EngineInit, CountsAddUp, SkippedShareHasRival, BlockIds,
              RequestIds
<1>2. ASSUME TypeInv, TypeInv', CountsAddUp, SkippedShareHasRival, [Next]_vars
      PROVE  CountsAddUp' /\ SkippedShareHasRival'
  <2>1. CASE EngineNext
    BY <1>2, <2>1, EngineCounts, EngineSkips
  <2>2. CASE UNCHANGED <<roundShares, engineVars>>
    <3>1. BlockIds' = BlockIds
      BY <1>2, <2>2 DEF TypeInv, TypeOK, EngineTypeOK, DatabaseTypeOK, BlockIds
    <3>. QED  BY <1>2, <2>2, <3>1 DEF engineVars, CountsAddUp, SkippedShareHasRival, RequestIds
  <2>3. ASSUME UnlockerNext PROVE UNCHANGED roundShares
    BY <2>3 DEF UnlockerNext, UnlockerStep, ListBlocks, DeleteRewards, SumShares, PayFee,
                SelectRows, PayRow, MarkUnlocked, UnlockerCrash, dbVars
  <2>. QED  BY <1>2, <2>1, <2>2, <2>3 DEF Next, vars, dbVars
<1>. QED  BY <1>1, <1>2

\* Nothing is counted twice and nothing counted is lost (submit_share), with any number of
\* requests at once, failing or cut off by a death of the engine at any statement.
THEOREM SharesAddUp == Spec => []CountsAddUp
  BY TypeInductive, SharesInductive, PTL DEF Spec

\* A share answered 200 without being counted lost a race against another of its wallet,
\* which was counted in the same round.
THEOREM SkipsLoseRaces == Spec => []SkippedShareHasRival
  BY TypeInductive, SharesInductive, PTL DEF Spec

------------------------------------------------------------------------------
(* What the programs leave alone *)

\* The engine neither unlocks a block nor pays; it changes a mined block only by its
\* first verdict; and rounds only gain shares.
EngineSteady ==
    /\ UNCHANGED rewards /\ BlockIds \subseteq BlockIds'
    /\ \A b \in BlockIds :
          /\ blocks'[b].unlocked = blocks[b].unlocked
          /\ blocks[b].mined # 0 => blocks'[b].mined = blocks[b].mined
          /\ blocks'[b].valid # blocks[b].valid => blocks[b].valid = "unknown" /\ b \notin OpenBlocks
    /\ \A b \in BlockIds' \ BlockIds :
          blocks'[b] = [mined |-> 0, valid |-> "unknown", unlocked |-> FALSE]

\* No step of the engine does otherwise.
LEMMA EngineIsSteady == ASSUME TypeInv, EngineNext PROVE EngineSteady
<1>1. blocks \in Seq(Blocks) /\ \A b \in BlockIds : blocks[b] \in Blocks
  BY DEF TypeInv, TypeOK, EngineTypeOK, DatabaseTypeOK, BlockIds
<1>2. ASSUME UNCHANGED <<blocks, rewards>> PROVE EngineSteady
  BY <1>2 DEF EngineSteady, BlockIds
<1>3. ASSUME NEW r \in RequestIds, InsertOpenBlock(r) PROVE EngineSteady
  <2>1. PICK new : new = [mined |-> 0, valid |-> "unknown", unlocked |-> FALSE]
    OBVIOUS
  <2>2. new \in Blocks
    BY <2>1 DEF Blocks
  <2>3. blocks' = Append(blocks, new) /\ UNCHANGED rewards
    BY <1>3, <2>1 DEF InsertOpenBlock, InsertBlock
  <2>4. /\ Len(blocks') = Len(blocks) + 1
        /\ \A b \in BlockIds : blocks'[b] = blocks[b]
        /\ blocks'[Len(blocks) + 1] = new
    BY <1>1, <2>2, <2>3, RowAppended DEF BlockIds
  <2>5. /\ BlockIds \subseteq BlockIds'
        /\ \A b \in BlockIds' \ BlockIds : b = Len(blocks) + 1
    BY <1>1, <2>4 DEF BlockIds
  <2>. QED  BY <2>1, <2>3, <2>4, <2>5 DEF EngineSteady
<1>4. ASSUME NEW r \in RequestIds, CloseBlocks(r) PROVE EngineSteady
  <2>1. /\ blocks' = [b \in BlockIds |->
               IF b \in OpenBlocks THEN [blocks[b] EXCEPT !.mined = r] ELSE blocks[b]]
        /\ UNCHANGED rewards
    BY <1>4 DEF CloseBlocks
  <2>2. BlockIds' = BlockIds
    BY <1>1, <2>1 DEF BlockIds
  <2>3. ASSUME NEW b \in BlockIds
        PROVE  /\ blocks'[b].unlocked = blocks[b].unlocked
               /\ blocks[b].mined # 0 => blocks'[b].mined = blocks[b].mined
               /\ blocks'[b].valid = blocks[b].valid
    <3>1. blocks[b] \in Blocks
      BY <1>1
    <3>. QED  BY <2>1, <3>1 DEF Blocks, OpenBlocks
  <2>. QED  BY <2>1, <2>2, <2>3 DEF EngineSteady
<1>5. ASSUME NEW c \in BlockIds, NEW verdict \in {"yes", "no"}, ValidateBlock(c, verdict)
      PROVE  EngineSteady
  <2>. DEFINE row == [blocks[c] EXCEPT !.valid = verdict]
  <2>1. /\ row \in Blocks /\ row.unlocked = blocks[c].unlocked /\ row.mined = blocks[c].mined
    BY <1>1 DEF Blocks
  <2>2. blocks' = [blocks EXCEPT ![c] = row] /\ UNCHANGED rewards
        /\ blocks[c].valid = "unknown" /\ c \notin OpenBlocks
    BY <1>5 DEF ValidateBlock, BlocksToValidate
  <2>. HIDE DEF row
  <2>3. /\ Len(blocks') = Len(blocks) /\ blocks'[c] = row
        /\ \A b \in BlockIds : b # c => blocks'[b] = blocks[b]
    BY <1>1, <2>1, <2>2, RowChanged DEF BlockIds
  <2>4. BlockIds' = BlockIds
    BY <2>3 DEF BlockIds
  <2>. QED  BY <2>1, <2>2, <2>3, <2>4 DEF EngineSteady
<1>6. ASSUME NEW r \in RequestIds, ShareStep(r) PROVE EngineSteady
  BY <1>2, <1>3, <1>6 DEF ShareStep, Lookup, Probe, SelectOpenBlock, StoreBlock, UpdateRow,
                          ProbeRow, InsertRow, dbVars
<1>. QED  BY <1>2, <1>4, <1>5, <1>6 DEF EngineNext, ShareArrives, BlockArrives, ForgetBlock,
                                        RequestFails, EngineCrash, dbVars

\* What a round had, it has, and it gains at most one share of a request at work on it.
RoundsGain ==
    \A b \in BlockIds :
        \/ roundShares'[b] = roundShares[b]
        \/ /\ \A w \in Wallets : roundShares[b][w] <= roundShares'[b][w]
           /\ \E r \in InFlight : /\ requests[r].at \in {"update", "insertRow"}
                                  /\ requests[r].block = b

\* No step of the engine takes a share away.
LEMMA EngineGains == ASSUME TypeInv, EngineNext PROVE RoundsGain
<1>1. roundShares \in Seq(Rounds) /\ BlockIds = 1..Len(roundShares)
  BY DEF TypeInv, TypeOK, EngineTypeOK, DatabaseTypeOK, BlockIds
<1>2. ASSUME NEW r \in InFlight, NEW c \in BlockIds, Counts(r, c) PROVE RoundsGain
  <2>1. requests[r] \in Requests
    BY DEF TypeInv, TypeOK, EngineTypeOK, InFlight, RequestIds
  <2>2. PICK v \in Wallets : v = requests[r].wallet
    BY <2>1 DEF Requests
  <2>3. AddShare(c, v)
    BY <1>2, <2>2 DEF Counts
  <2>4. \A b \in BlockIds : \A w \in Wallets :
            roundShares'[b][w] = IF b = c /\ w = v THEN roundShares[b][w] + 1
                                 ELSE roundShares[b][w]
    BY <1>1, <2>3, ShareAdded
  <2>5. \A b \in BlockIds : b # c => roundShares'[b] = roundShares[b]
    BY <1>1, <2>3 DEF AddShare
  <2>6. \A w \in Wallets : roundShares[c][w] \in Nat
    BY <1>1 DEF Rounds
  <2>7. \A w \in Wallets : roundShares[c][w] <= roundShares'[c][w]
    BY <2>4, <2>6
  <2>. QED  BY <1>2, <2>5, <2>7 DEF RoundsGain, Counts
<1>3. ASSUME InsertBlock PROVE RoundsGain
  <2>1. NoShares \in Rounds
    BY DEF NoShares, Rounds
  <2>. QED  BY <1>1, <1>3, <2>1, RowAppended DEF InsertBlock, RoundsGain
<1>. QED  BY <1>2, <1>3, EngineShape DEF RoundsGain

\* The unlocker never touches mined_at, is_valid or the shares.
UnlockerSteady ==
    /\ UNCHANGED roundShares /\ BlockIds' = BlockIds
    /\ \A b \in BlockIds : /\ blocks'[b].mined = blocks[b].mined
                           /\ blocks'[b].valid = blocks[b].valid
                           /\ blocks'[b].unlocked = (blocks[b].unlocked \/ (MarkUnlocked /\ b = Block))

\* None of its steps does.
LEMMA UnlockerIsSteady == ASSUME TypeInv, UnlockerNext PROVE UnlockerSteady
<1>1. blocks \in Seq(Blocks) /\ \A b \in BlockIds : blocks[b] \in Blocks
  BY DEF TypeInv, TypeOK, EngineTypeOK, DatabaseTypeOK, BlockIds
<1>2. ASSUME UNCHANGED <<blocks, roundShares>>, ~MarkUnlocked PROVE UnlockerSteady
  BY <1>1, <1>2 DEF UnlockerSteady, BlockIds, Blocks
<1>3. CASE MarkUnlocked
  <2>1. /\ step = "pay" /\ blocks' = [blocks EXCEPT ![Block].unlocked = TRUE]
        /\ UNCHANGED roundShares
    BY <1>3 DEF MarkUnlocked
  <2>2. PICK k \in BlockIds : k = Block
    BY <1>1, <2>1, BlockIsFirst DEF TypeInv, TypeOK, UnlockerTypeOK
  <2>. DEFINE row == [blocks[k] EXCEPT !.unlocked = TRUE]
  <2>3. row \in Blocks /\ row.mined = blocks[k].mined /\ row.valid = blocks[k].valid
        /\ row.unlocked = TRUE
    BY <1>1 DEF Blocks
  <2>4. blocks' = [blocks EXCEPT ![k] = row]
    BY <2>1, <2>2
  <2>. HIDE DEF row
  <2>5. /\ Len(blocks') = Len(blocks) /\ blocks'[k] = row
        /\ \A b \in BlockIds : b # k => blocks'[b] = blocks[b]
    BY <1>1, <2>3, <2>4, RowChanged DEF BlockIds
  <2>6. ASSUME NEW b \in BlockIds
        PROVE  /\ blocks'[b].mined = blocks[b].mined /\ blocks'[b].valid = blocks[b].valid
               /\ blocks'[b].unlocked = (blocks[b].unlocked \/ (MarkUnlocked /\ b = Block))
    <3>1. blocks[b].unlocked \in BOOLEAN
      BY <1>1 DEF Blocks
    <3>2. CASE b = k
      BY <1>3, <2>2, <2>3, <2>5, <3>1, <3>2
    <3>3. CASE b # k
      BY <2>2, <2>5, <3>1, <3>3
    <3>. QED  BY <3>2, <3>3
  <2>. QED  BY <2>1, <2>5, <2>6 DEF UnlockerSteady, BlockIds
<1>4. CASE ~MarkUnlocked
  <2>1. UNCHANGED <<blocks, roundShares>>
    BY <1>4 DEF UnlockerNext, UnlockerStep, ListBlocks, DeleteRewards, SumShares, PayFee,
                SelectRows, PayRow, UnlockerCrash, dbVars
  <2>. QED  BY <1>2, <1>4, <2>1
<1>. QED  BY <1>3, <1>4

\* A block that was mined stays so, under the request that closed it: no other request
\* takes it over (submit_block), no verdict, payout or restart reopens it.
THEOREM MinedForGood == Spec => MinedStaysMined
<1>1. ASSUME TypeInv, [Next]_vars
      PROVE  [\A b \in BlockIds : blocks[b].mined # 0 => blocks'[b].mined = blocks[b].mined]_
                 <<dbVars, engineVars>>
  <2>1. CASE EngineNext
    BY <1>1, <2>1, EngineIsSteady DEF EngineSteady
  <2>2. CASE UnlockerNext
    BY <1>1, <2>2, UnlockerIsSteady DEF UnlockerSteady
  <2>3. CASE UNCHANGED vars
    BY <2>3 DEF vars
  <2>. QED  BY <1>1, <2>1, <2>2, <2>3 DEF Next
<1>. QED  BY TypeInductive, <1>1, PTL DEF Spec, MinedStaysMined

------------------------------------------------------------------------------
(* Calm traffic *)

\* Requests do not overlap where a round changes hands, and none fails half way; the
\* engine may die all the same.
Quiet == Calm /\ MaxFailures = 0

\* Where a request leaves a round, or asks for the next one
Turning == {"close", "forget", "probe", "insertBlock", "select", "store"}

\* Where it is about to write a row of the round it knows
Writing == {"update", "probeRow", "insertRow"}

\* A request that turns a round is alone; one that writes knows the cached id.
Orderly(r) ==
    /\ requests[r].at \in {"close", "forget"} <=> requests[r].kind = "block"
    /\ requests[r].at \in Turning => InFlight = {r}
    /\ requests[r].at = "lookup" /\ cache = {} => InFlight = {r}
    /\ requests[r].at \in {"probe", "insertBlock", "select", "store"} => cache = {}
    /\ requests[r].at \in Writing => cache = {requests[r].block}
    /\ requests[r].at = "insertBlock" => OpenBlocks = {}
    /\ requests[r].at = "select" => OpenBlocks # {}
    /\ requests[r].at = "store" => requests[r].block \in OpenBlocks

\* The cached id is that of an open round, but for the moment after it is closed,
Current == (\A r \in InFlight : requests[r].at # "forget") => cache \subseteq OpenBlocks

\* and there is one open round at most, the last.
OneOpen == OpenBlocks \subseteq {Len(blocks)}

\* Until the first death of the engine a round without shares has a request on its way.
Filling == {"select", "store"} \cup Writing

Filled ==
    crashes = 0 => \A b \in BlockIds :
        \/ Contributors(b) # {}
        \/ b \in OpenBlocks /\ \E r \in InFlight : requests[r].at \in Filling

CalmInv == /\ \A r \in InFlight : Orderly(r)
           /\ Current
           /\ OneOpen
           /\ Filled

\* A move changes what is known of the request that moves.
LEMMA CalmMove ==
    ASSUME TypeInv, CalmInv, NEW r \in InFlight, NEW s \in Steps \cup Ends, NEW b \in Nat,
           Goto(r, s, b),
           \/ InFlight = {r}
           \/ UNCHANGED <<cache, blocks>> /\ requests[r].at # "forget",
           s \in Steps => Orderly(r)'
    PROVE  /\ \A q \in InFlight' : Orderly(q)'
           /\ InFlight' = IF s \in Steps THEN InFlight ELSE InFlight \ {r}
           /\ \A q \in InFlight : q # r => requests'[q] = requests[q]
<1>1. /\ RequestIds' = RequestIds /\ r \in RequestIds
      /\ \A q \in RequestIds : q # r => requests'[q] = requests[q]
      /\ requests'[r].at = s
  BY GotoMoves DEF TypeInv, TypeOK, EngineTypeOK, InFlight
<1>2. InFlight' = IF s \in Steps THEN InFlight ELSE InFlight \ {r}
  BY <1>1 DEF InFlight
<1>3. ASSUME NEW q \in InFlight', q # r PROVE Orderly(q)'
  <2>1. q \in InFlight /\ requests'[q] = requests[q] /\ q \in RequestIds
    BY <1>1, <1>2, <1>3 DEF InFlight
  <2>2. Orderly(q) /\ InFlight # {q} /\ InFlight # {r}
    BY <1>3, <2>1 DEF CalmInv
  <2>3. cache' = cache /\ OpenBlocks' = OpenBlocks
    BY <2>2 DEF OpenBlocks, BlockIds
  <2>. QED  BY <2>1, <2>2, <2>3 DEF Orderly, Turning
<1>4. r \in InFlight' => Orderly(r)'
  BY <1>1 DEF InFlight
<1>. QED  BY <1>1, <1>2, <1>3, <1>4 DEF InFlight

\* Who has shares in a round keeps them.
LEMMA ContributorsStay ==
    ASSUME TypeInv, TypeInv', RoundsGain, BlockIds \subseteq BlockIds', NEW c \in BlockIds
    PROVE  Contributors(c) \subseteq Contributors(c)'
<1>1. /\ roundShares \in Seq(Rounds) /\ BlockIds = 1..Len(roundShares)
      /\ roundShares' \in Seq(Rounds) /\ c \in 1..Len(roundShares')
  BY DEF TypeInv, TypeOK, EngineTypeOK, DatabaseTypeOK, BlockIds
<1>2. roundShares[c] \in Rounds /\ roundShares'[c] \in Rounds
  BY <1>1
<1>3. \A w \in Wallets : roundShares[c][w] <= roundShares'[c][w]
  <2>1. roundShares'[c] = roundShares[c]
        \/ \A w \in Wallets : roundShares[c][w] <= roundShares'[c][w]
    BY DEF RoundsGain
  <2>. QED  BY <1>2, <2>1 DEF Rounds
<1>. QED  BY <1>2, <1>3 DEF Contributors, Rounds

\* So does a move that leaves the cache and the blocks alone.
LEMMA QuietMove ==
    ASSUME TypeInv, TypeInv', CalmInv, RoundsGain, NEW r \in InFlight, NEW s \in Steps \cup Ends,
           NEW b \in Nat, Goto(r, s, b), UNCHANGED <<cache, blocks, crashes>>,
           requests[r].at # "forget", s # "forget",
           s \in Steps => Orderly(r)',
           requests[r].at \in Filling => s \in Filling \/ \A c \in OpenBlocks : Contributors(c)' # {}
    PROVE  CalmInv'
<1>1. /\ \A q \in InFlight' : Orderly(q)'
      /\ InFlight' = IF s \in Steps THEN InFlight ELSE InFlight \ {r}
      /\ \A q \in InFlight : q # r => requests'[q] = requests[q]
  BY CalmMove
<1>2. BlockIds' = BlockIds /\ OpenBlocks' = OpenBlocks
  BY DEF BlockIds, OpenBlocks
<1>3. requests'[r].at = s
  BY GotoMoves DEF TypeInv, TypeOK, EngineTypeOK, InFlight
<1>4. Current'
  <2>1. \A q \in InFlight : requests[q].at # "forget"
    <3>. SUFFICES ASSUME NEW q \in InFlight, requests[q].at = "forget" PROVE FALSE
      OBVIOUS
    <3>1. InFlight = {q}
      BY DEF CalmInv, Orderly, Turning
    <3>. QED  BY <3>1
  <2>. QED  BY <1>2, <2>1 DEF CalmInv, Current
<1>5. OneOpen'
  BY <1>2 DEF CalmInv, OneOpen
<1>6. Filled'
  <2>. SUFFICES ASSUME crashes = 0, NEW c \in BlockIds, Contributors(c)' = {}
                PROVE  c \in OpenBlocks /\ \E q \in InFlight' : requests'[q].at \in Filling
    BY <1>2 DEF Filled
  <2>1. Contributors(c) = {}
    BY <1>2, ContributorsStay
  <2>2. PICK q \in InFlight : c \in OpenBlocks /\ requests[q].at \in Filling
    BY <2>1 DEF CalmInv, Filled
  <2>3. CASE q # r
    BY <1>1, <2>2, <2>3
  <2>4. CASE q = r
    BY <1>1, <1>3, <2>2, <2>4 DEF Filling, Writing, Steps
  <2>. QED  BY <2>2, <2>3, <2>4
<1>. QED  BY <1>1, <1>4, <1>5, <1>6 DEF CalmInv

\* A step that only writes columns other than mined_at, and no shares
LEMMA CalmStays ==
    ASSUME CalmInv, BlockIds' = BlockIds, Len(blocks') = Len(blocks),
           UNCHANGED <<roundShares, engineVars>>,
           \A b \in BlockIds : blocks'[b].mined = blocks[b].mined
    PROVE  CalmInv'
<1>1. OpenBlocks' = OpenBlocks /\ InFlight' = InFlight
  BY DEF OpenBlocks, InFlight, RequestIds, engineVars
<1>2. \A r \in InFlight' : Orderly(r)'
  BY <1>1 DEF CalmInv, Orderly, engineVars
<1>3. Current' /\ OneOpen' /\ Filled'
  BY <1>1 DEF CalmInv, Current, OneOpen, Filled, Contributors, engineVars
<1>. QED  BY <1>2, <1>3 DEF CalmInv

\* A request is let in only when nobody turns a round, and alone if it is to turn one.
LEMMA CalmArrival ==
    ASSUME Quiet, TypeInv, CalmInv, NEW w \in Wallets, ShareArrives(w) \/ BlockArrives(w)
    PROVE  CalmInv'
<1>1. requests \in Seq(Requests)
  BY DEF TypeInv, TypeOK, EngineTypeOK
<1>2. PICK k \in {"share", "block"}, s \in {"lookup", "close"} :
          /\ MayArrive(k) /\ (k = "block" <=> s = "close")
          /\ requests' = Append(requests, [kind |-> k, wallet |-> w, at |-> s, block |-> None])
          /\ UNCHANGED <<dbVars, cache, failures, crashes>>
  BY DEF ShareArrives, BlockArrives
<1>3. PICK x : x = [kind |-> k, wallet |-> w, at |-> s, block |-> None]
  OBVIOUS
<1>4. x \in Requests /\ x.at = s /\ x.kind = k /\ s \in Steps
  BY <1>3 DEF Requests, Steps, None
<1>0. PICK n : n = Len(requests) + 1
  OBVIOUS
<1>5. /\ Len(requests') = n /\ requests'[n] = x
      /\ \A r \in RequestIds : requests'[r] = requests[r]
  BY <1>0, <1>1, <1>2, <1>3, <1>4, RowAppended DEF RequestIds
<1>6. RequestIds' = RequestIds \cup {n} /\ n \notin RequestIds
  BY <1>0, <1>1, <1>5 DEF RequestIds
<1>7. InFlight' = InFlight \cup {n} /\ n \notin InFlight
  BY <1>4, <1>5, <1>6 DEF InFlight
<1>8. OpenBlocks' = OpenBlocks /\ BlockIds' = BlockIds
  BY <1>2 DEF OpenBlocks, BlockIds, dbVars
<1>9. /\ InFlight # {} => k = "share" /\ cache # {}
      /\ \A r \in InFlight : requests[r].kind # "block"
  BY <1>2 DEF MayArrive, Overlaps, Quiet
<1>10. ASSUME NEW r \in InFlight PROVE Orderly(r)' /\ requests[r].at # "forget"
  <2>1. Orderly(r) /\ requests'[r] = requests[r] /\ cache' = cache /\ cache # {}
    BY <1>2, <1>5, <1>9 DEF CalmInv, InFlight
  <2>2. requests[r].at \notin Turning
    BY <1>9, <2>1 DEF Orderly, Turning
  <2>. QED  BY <1>8, <2>1, <2>2 DEF Orderly, Turning
<1>11. Orderly(n)'
  <2>1. requests'[n].at = s /\ requests'[n].kind = k
    BY <1>4, <1>5
  <2>2. cache' = cache
    BY <1>2
  <2>3. s = "close" \/ cache = {} => InFlight' = {n}
    BY <1>2, <1>7, <1>9
  <2>. QED  BY <1>2, <2>1, <2>2, <2>3 DEF Orderly, Turning, Writing
<1>12. Current'
  BY <1>2, <1>8, <1>10 DEF CalmInv, Current
<1>13. OneOpen' /\ Filled'
  <2>1. \A c \in BlockIds : Contributors(c)' = Contributors(c)
    BY <1>2 DEF Contributors, dbVars
  <2>2. OneOpen' /\ crashes' = crashes
    BY <1>2, <1>8 DEF CalmInv, OneOpen, dbVars
  <2>3. \A r \in InFlight : r \in InFlight' /\ requests'[r] = requests[r]
    BY <1>5, <1>7 DEF InFlight
  <2>. QED  BY <1>8, <2>1, <2>2, <2>3 DEF CalmInv, Filled
<1>. QED  BY <1>7, <1>10, <1>11, <1>12, <1>13 DEF CalmInv

\* The steps of get_current_block
LEMMA CalmTurns ==
    ASSUME TypeInv, TypeInv', CalmInv, RoundsGain, NEW r \in RequestIds,
           Lookup(r) \/ Probe(r) \/ InsertOpenBlock(r) \/ SelectOpenBlock(r) \/ StoreBlock(r)
    PROVE  CalmInv'
<1>1. /\ requests \in Seq(Requests) /\ None \in Nat /\ BlockIds \subseteq Nat
      /\ blocks \in Seq(Blocks) /\ roundShares \in Seq(Rounds)
      /\ cache \subseteq BlockIds \cup {None} /\ Cardinality(cache) <= 1
  BY DEF TypeInv, TypeOK, EngineTypeOK, DatabaseTypeOK, None, BlockIds
<1>2. r \in InFlight
  BY DEF Lookup, Probe, InsertOpenBlock, SelectOpenBlock, StoreBlock, At, InFlight, Steps
<1>3. Orderly(r) /\ requests[r].block \in Nat
  BY <1>1, <1>2 DEF CalmInv, TypeInv, KnownBlocks, None, BlockIds
<1>4. ASSUME NEW s \in Steps, NEW b \in Nat, Goto(r, s, b)
      PROVE  /\ s \in Steps \cup Ends
             /\ requests'[r].at = s /\ requests'[r].block = b
             /\ requests'[r].kind = requests[r].kind
             /\ InFlight' = InFlight
  <2>1. /\ RequestIds' = RequestIds
        /\ \A q \in RequestIds : q # r => requests'[q] = requests[q]
        /\ requests'[r].at = s /\ requests'[r].block = b
        /\ requests'[r].kind = requests[r].kind
    BY <1>1, <1>4, GotoMoves
  <2>. QED  BY <1>2, <2>1 DEF InFlight
<1>5. {"probe", "insertBlock", "select", "store", "update"} \subseteq Steps
  BY DEF Steps
<1>6. CASE Lookup(r)
  <2>1. UNCHANGED <<cache, blocks, crashes>> /\ requests[r].at = "lookup"
    BY <1>6 DEF Lookup, At, dbVars
  <2>2. CASE cache = {} /\ Goto(r, "probe", None)
    <3>1. Orderly(r)'
      BY <1>1, <1>3, <1>4, <1>5, <2>1, <2>2 DEF Orderly, Turning, Writing
    <3>. QED  BY <1>1, <1>2, <1>4, <1>5, <2>1, <2>2, <3>1, QuietMove DEF Filling, Writing
  <2>3. ASSUME NEW b \in cache, Goto(r, "update", b) PROVE CalmInv'
    <3>1. cache = {b} /\ b \in Nat
      <4>1. IsFiniteSet(BlockIds \cup {None})
        <5>1. IsFiniteSet(BlockIds)
          BY <1>1, FS_Interval DEF BlockIds
        <5>. QED  BY <5>1, FS_AddElement
      <4>2. IsFiniteSet(cache)
        BY <1>1, <4>1, FS_Subset
      <4>3. Cardinality(cache \ {b}) = Cardinality(cache) - 1 /\ IsFiniteSet(cache \ {b})
        BY <2>3, <4>2, FS_RemoveElement
      <4>4. Cardinality(cache \ {b}) = 0
        BY <1>1, <4>2, <4>3, FS_CardinalityType
      <4>5. cache \ {b} = {}
        BY <4>3, <4>4, FS_EmptySet
      <4>. QED  BY <1>1, <2>3, <4>5
    <3>2. Orderly(r)'
      BY <1>3, <1>4, <1>5, <2>1, <2>3, <3>1 DEF Orderly, Turning, Writing
    <3>. QED  BY <1>2, <1>4, <1>5, <2>1, <2>3, <3>1, <3>2, QuietMove DEF Filling, Writing
  <2>. QED  BY <1>6, <2>2, <2>3 DEF Lookup
<1>7. CASE Probe(r)
  <2>1. /\ UNCHANGED <<cache, blocks, crashes>> /\ requests[r].at = "probe"
        /\ OpenBlocks' = OpenBlocks
    BY <1>7 DEF Probe, At, dbVars, OpenBlocks, BlockIds
  <2>2. PICK s \in {"insertBlock", "select"} :
            /\ Goto(r, s, None)
            /\ IF s = "insertBlock" THEN OpenBlocks = {} ELSE OpenBlocks # {}
    BY <1>7 DEF Probe
  <2>3. Orderly(r)'
    BY <1>1, <1>3, <1>4, <1>5, <2>1, <2>2 DEF Orderly, Turning, Writing
  <2>. QED  BY <1>1, <1>2, <1>4, <1>5, <2>1, <2>2, <2>3, QuietMove DEF Filling, Writing
<1>8. CASE InsertOpenBlock(r)
  <2>1. /\ Goto(r, "select", None) /\ requests[r].at = "insertBlock"
        /\ UNCHANGED <<cache, crashes>> /\ InsertBlock
    BY <1>8 DEF InsertOpenBlock, At
  <2>2. OpenBlocks = {} /\ cache = {} /\ InFlight = {r}
    BY <1>3, <2>1 DEF Orderly, Turning
  <2>3. /\ Len(blocks') = Len(blocks) + 1 /\ blocks'[Len(blocks) + 1].mined = 0
        /\ \A b \in BlockIds : blocks'[b] = blocks[b]
    <3>1. PICK new : new = [mined |-> 0, valid |-> "unknown", unlocked |-> FALSE]
      OBVIOUS
    <3>2. new \in Blocks
      BY <3>1 DEF Blocks
    <3>3. blocks' = Append(blocks, new)
      BY <2>1, <3>1 DEF InsertBlock
    <3>. QED  BY <1>1, <3>1, <3>2, <3>3, RowAppended DEF BlockIds
  <2>4. OpenBlocks' = {Len(blocks')} /\ BlockIds' = BlockIds \cup {Len(blocks')}
    <3>1. BlockIds' = BlockIds \cup {Len(blocks')} /\ Len(blocks) \in Nat
      BY <1>1, <2>3 DEF BlockIds
    <3>2. \A b \in BlockIds' : b \in OpenBlocks' <=> b = Len(blocks')
      BY <2>2, <2>3, <3>1 DEF OpenBlocks, BlockIds
    <3>. QED  BY <3>1, <3>2 DEF OpenBlocks
  <2>5. Orderly(r)'
    BY <1>1, <1>3, <1>4, <1>5, <2>1, <2>2, <2>4 DEF Orderly, Turning, Writing
  <2>6. \A q \in InFlight' : Orderly(q)'
    BY <1>1, <1>2, <1>4, <1>5, <2>1, <2>2, <2>5, CalmMove
  <2>7. Current' /\ OneOpen'
    BY <2>1, <2>2, <2>4 DEF Current, OneOpen
  <2>8. Filled'
    <3>1. r \in InFlight' /\ requests'[r].at \in Filling
      BY <1>1, <1>2, <1>4, <1>5, <2>1 DEF Filling
    <3>2. ASSUME crashes = 0, NEW b \in BlockIds PROVE Contributors(b)' # {}
      <4>1. Contributors(b) # {}
        BY <2>2, <3>2 DEF CalmInv, Filled
      <4>. QED  BY <2>4, <4>1, ContributorsStay
    <3>. QED  BY <2>1, <2>4, <3>1, <3>2 DEF Filled
  <2>. QED  BY <2>6, <2>7, <2>8 DEF CalmInv
<1>9. CASE SelectOpenBlock(r)
  <2>1. /\ UNCHANGED <<cache, blocks, crashes>> /\ requests[r].at = "select"
        /\ OpenBlocks' = OpenBlocks
    BY <1>9 DEF SelectOpenBlock, At, dbVars, OpenBlocks, BlockIds
  <2>2. PICK b \in OpenBlocks : Goto(r, "store", b)
    BY <1>3, <1>9, <2>1 DEF SelectOpenBlock, Orderly
  <2>3. b \in Nat
    BY <1>1 DEF OpenBlocks
  <2>4. Orderly(r)'
    BY <1>3, <1>4, <1>5, <2>1, <2>2, <2>3 DEF Orderly, Turning, Writing
  <2>. QED  BY <1>2, <1>4, <1>5, <2>1, <2>2, <2>3, <2>4, QuietMove DEF Filling, Writing
<1>10. CASE StoreBlock(r)
  <2>. DEFINE b == requests[r].block
  <2>1. /\ UNCHANGED <<blocks, crashes, roundShares>> /\ requests[r].at = "store"
        /\ cache' = {b} /\ Goto(r, "update", b)
        /\ OpenBlocks' = OpenBlocks /\ BlockIds' = BlockIds
    BY <1>10 DEF StoreBlock, At, dbVars, OpenBlocks, BlockIds
  <2>2. b \in OpenBlocks /\ InFlight = {r}
    BY <1>3, <2>1 DEF Orderly, Turning
  <2>3. Orderly(r)'
    BY <1>3, <1>4, <1>5, <2>1, <2>2 DEF Orderly, Turning, Writing
  <2>4. \A q \in InFlight' : Orderly(q)'
    BY <1>2, <1>3, <1>4, <1>5, <2>1, <2>2, <2>3, CalmMove
  <2>5. Current' /\ OneOpen'
    BY <2>1, <2>2 DEF CalmInv, Current, OneOpen
  <2>6. r \in InFlight' /\ requests'[r].at \in Filling
    BY <1>2, <1>3, <1>4, <1>5, <2>1 DEF Filling, Writing
  <2>7. Filled'
    BY <2>1, <2>2, <2>6 DEF CalmInv, Filled, Contributors
  <2>. QED  BY <2>4, <2>5, <2>7 DEF CalmInv
<1>. QED  BY <1>6, <1>7, <1>8, <1>9, <1>10

\* A request that writes does so in the open round.
LEMMA WritesOpenRound ==
    ASSUME TypeInv, CalmInv, NEW r \in InFlight, requests[r].at \in Writing
    PROVE  /\ OpenBlocks = {requests[r].block} /\ cache = {requests[r].block}
           /\ requests[r].block \in BlockIds
<1>1. cache = {requests[r].block}
  BY DEF CalmInv, Orderly
<1>2. ASSUME NEW q \in InFlight, requests[q].at = "forget" PROVE FALSE
  <2>1. InFlight = {q}
    BY <1>2 DEF CalmInv, Orderly, Turning
  <2>. QED  BY <1>2, <2>1 DEF Writing
<1>3. cache \subseteq OpenBlocks /\ OpenBlocks \subseteq {Len(blocks)}
  BY <1>2 DEF CalmInv, Current, OneOpen
<1>. QED  BY <1>1, <1>3 DEF OpenBlocks

\* The steps that write a share
LEMMA CalmWrites ==
    ASSUME TypeInv, TypeInv', CalmInv, RoundsGain, NEW r \in RequestIds,
           UpdateRow(r) \/ ProbeRow(r) \/ InsertRow(r)
    PROVE  CalmInv'
<1>. PICK b : b = requests[r].block
  OBVIOUS
<1>. PICK w : w = requests[r].wallet
  OBVIOUS
<1>1. requests \in Seq(Requests) /\ roundShares \in Seq(Rounds) /\ Len(roundShares) = Len(blocks)
  BY DEF TypeInv, TypeOK, EngineTypeOK, DatabaseTypeOK
<1>2. r \in InFlight /\ requests[r].at \in Writing /\ w \in Wallets
  <2>1. requests[r] \in Requests
    BY <1>1 DEF RequestIds
  <2>. QED  BY <2>1 DEF UpdateRow, ProbeRow, InsertRow, At, InFlight, Steps, Writing, Requests
<1>3. OpenBlocks = {b} /\ cache = {b} /\ b \in BlockIds /\ b \in Nat /\ b # None /\ Orderly(r)
  BY <1>2, WritesOpenRound DEF CalmInv, BlockIds, None
<1>4. UNCHANGED <<cache, blocks, crashes>> /\ OpenBlocks' = OpenBlocks
  BY DEF UpdateRow, ProbeRow, InsertRow, dbVars, OpenBlocks, BlockIds
<1>5. requests[r].at # "forget" /\ requests[r].at \notin {"close", "forget"}
  BY <1>2 DEF Writing
<1>6. ASSUME NEW s \in {"probeRow", "insertRow"}, Goto(r, s, b) PROVE CalmInv'
  <2>1. s \in Steps /\ s \in Filling /\ s \in Writing /\ s # "forget"
    BY DEF Steps, Filling, Writing
  <2>2. /\ requests'[r].at = s /\ requests'[r].block = b
        /\ requests'[r].kind = requests[r].kind
    BY <1>1, <1>3, <1>6, <2>1, GotoMoves
  <2>3. Orderly(r)'
    BY <1>3, <1>4, <1>5, <2>1, <2>2 DEF Orderly, Turning
  <2>. QED  BY <1>2, <1>3, <1>4, <1>5, <1>6, <2>1, <2>3, QuietMove
<1>7. ASSUME NEW s \in {"counted", "skipped", "failed"}, Goto(r, s, b), Contributors(b)' # {}
      PROVE  CalmInv'
  <2>1. s \in Steps \cup Ends /\ s \notin Steps /\ s # "forget"
    BY DEF Steps, Ends
  <2>. QED  BY <1>2, <1>3, <1>4, <1>5, <1>7, <2>1, QuietMove
<1>8. ASSUME AddShare(b, w) PROVE Contributors(b)' # {}
  <2>1. b \in 1..Len(roundShares) /\ roundShares[b] \in Rounds
    BY <1>1, <1>3 DEF BlockIds
  <2>2. roundShares'[b][w] = roundShares[b][w] + 1 /\ roundShares[b][w] \in Nat
    <3>1. PICK c \in 1..Len(roundShares) : c = b
      BY <2>1
    <3>2. PICK v \in Wallets : v = w
      BY <1>2
    <3>3. AddShare(c, v)
      BY <1>8, <3>1, <3>2
    <3>4. roundShares'[c][v] = roundShares[c][v] + 1
      BY <1>1, <3>3, ShareAdded
    <3>. QED  BY <2>1, <3>1, <3>2, <3>4 DEF Rounds
  <2>3. w \in {v \in Wallets : roundShares'[b][v] > 0}
    BY <1>2, <2>2
  <2>. QED  BY <2>3 DEF Contributors
<1>9. w \in Contributors(b) => Contributors(b)' # {}
  BY <1>3, <1>4, ContributorsStay DEF BlockIds
<1>10. CASE UpdateRow(r)
  BY <1>6, <1>7, <1>8, <1>10 DEF UpdateRow
<1>11. CASE ProbeRow(r)
  BY <1>3, <1>6, <1>7, <1>9, <1>11 DEF ProbeRow
<1>12. CASE InsertRow(r)
  BY <1>3, <1>7, <1>8, <1>9, <1>12 DEF InsertRow
<1>. QED  BY <1>10, <1>11, <1>12

\* Closing a round empties the table of open ones; the id is forgotten next.
LEMMA CalmCloses ==
    ASSUME TypeInv, TypeInv', CalmInv, NEW r \in RequestIds, CloseBlocks(r) \/ ForgetBlock(r)
    PROVE  CalmInv'
<1>1. requests \in Seq(Requests) /\ None \in Nat /\ r \in Nat /\ r # 0
      /\ \A b \in BlockIds : blocks[b] \in Blocks
  BY DEF TypeInv, TypeOK, EngineTypeOK, DatabaseTypeOK, None, RequestIds, BlockIds
<1>2. /\ r \in InFlight /\ requests[r].at \in {"close", "forget"}
      /\ requests[r].at \in Turning /\ requests[r].at \notin Filling
  BY DEF CloseBlocks, ForgetBlock, At, InFlight, Steps, Turning, Filling, Writing
<1>3. InFlight = {r} /\ Orderly(r)
  BY <1>2 DEF CalmInv, Orderly
<1>4. \A b \in BlockIds : crashes = 0 => Contributors(b) # {}
  BY <1>2, <1>3 DEF CalmInv, Filled
<1>5. CASE CloseBlocks(r)
  <2>1. /\ blocks' = [b \in BlockIds |->
               IF b \in OpenBlocks THEN [blocks[b] EXCEPT !.mined = r] ELSE blocks[b]]
        /\ Goto(r, "forget", None) /\ UNCHANGED <<roundShares, crashes>>
    BY <1>5 DEF CloseBlocks
  <2>2. BlockIds' = BlockIds
    BY <2>1 DEF TypeInv, TypeOK, EngineTypeOK, DatabaseTypeOK, BlockIds
  <2>3. ASSUME NEW b \in BlockIds PROVE blocks'[b].mined # 0
    BY <1>1, <2>1 DEF OpenBlocks, Blocks
  <2>4. OpenBlocks' = {}
    BY <2>2, <2>3 DEF OpenBlocks
  <2>5. "forget" \in Steps
    BY DEF Steps
  <2>6. requests'[r].at = "forget" /\ requests'[r].kind = requests[r].kind
        /\ InFlight' = {r}
    <3>1. /\ RequestIds' = RequestIds
          /\ \A q \in RequestIds : q # r => requests'[q] = requests[q]
          /\ requests'[r].at = "forget" /\ requests'[r].kind = requests[r].kind
      BY <1>1, <2>1, <2>5, GotoMoves
    <3>2. InFlight' = InFlight
      BY <1>2, <2>5, <3>1 DEF InFlight
    <3>. QED  BY <1>3, <3>1, <3>2
  <2>7. Orderly(r)'
    BY <1>2, <1>3, <2>6 DEF Orderly, Turning, Writing
  <2>8. Current' /\ OneOpen'
    BY <2>4, <2>6 DEF Current, OneOpen
  <2>9. Filled'
    BY <1>4, <2>1, <2>2 DEF Filled, Contributors
  <2>. QED  BY <2>6, <2>7, <2>8, <2>9 DEF CalmInv
<1>6. CASE ForgetBlock(r)
  <2>1. PICK s \in {"failed", "closed"} : Goto(r, s, None)
    BY <1>6 DEF ForgetBlock
  <2>2. cache' = {} /\ UNCHANGED <<blocks, roundShares, crashes>>
    BY <1>6 DEF ForgetBlock, dbVars
  <2>3. s \in Steps \cup Ends /\ s \notin Steps
    BY DEF Steps, Ends
  <2>4. InFlight' = {}
    <3>1. InFlight' = InFlight \ {r}
      BY <1>1, <1>2, <1>3, <2>1, <2>3, CalmMove
    <3>. QED  BY <1>3, <3>1
  <2>5. BlockIds' = BlockIds /\ OpenBlocks' = OpenBlocks
    BY <2>2 DEF BlockIds, OpenBlocks
  <2>6. Current' /\ OneOpen'
    BY <2>2, <2>5 DEF CalmInv, Current, OneOpen
  <2>7. Filled'
    BY <1>4, <2>2, <2>5 DEF Filled, Contributors
  <2>. QED  BY <2>4, <2>6, <2>7 DEF CalmInv
<1>. QED  BY <1>5, <1>6

\* A death leaves no request and an empty cache, with the tables as they are.
LEMMA CalmCrash == ASSUME TypeInv, CalmInv, EngineCrash PROVE CalmInv'
<1>1. /\ crashes' = crashes + 1 /\ cache' = {} /\ UNCHANGED dbVars
      /\ requests' = [r \in RequestIds |->
             IF r \in InFlight THEN [requests[r] EXCEPT !.at = "failed"] ELSE requests[r]]
  BY DEF EngineCrash
<1>2. RequestIds' = RequestIds /\ \A r \in RequestIds : requests[r] \in Requests
  BY <1>1 DEF TypeInv, TypeOK, EngineTypeOK, RequestIds
<1>3. \A r \in RequestIds : requests'[r].at \notin Steps
  BY <1>1, <1>2 DEF InFlight, Requests, Steps
<1>4. InFlight' = {}
  BY <1>2, <1>3 DEF InFlight
<1>5. BlockIds' = BlockIds /\ OpenBlocks' = OpenBlocks
  BY <1>1 DEF BlockIds, OpenBlocks, dbVars
<1>6. crashes' # 0
  BY <1>1 DEF TypeInv, TypeOK, EngineTypeOK
<1>. QED  BY <1>1, <1>4, <1>5, <1>6 DEF CalmInv, Current, OneOpen, Filled, dbVars

\* Every step of either program keeps calm traffic's invariant.
LEMMA CalmInductive ==
    /\ Init => CalmInv
    /\ Quiet /\ TypeInv /\ TypeInv' /\ CalmInv /\ [Next]_vars => CalmInv'
<1>1. ASSUME Init PROVE CalmInv
  BY <1>1 DEF Init, DatabaseInit, EngineInit, CalmInv, Current, OneOpen, Filled, InFlight,
              RequestIds, BlockIds, OpenBlocks
<1>2. ASSUME Quiet, TypeInv, TypeInv', CalmInv, [Next]_vars PROVE CalmInv'
  <2>1. ASSUME NEW w \in Wallets, ShareArrives(w) \/ BlockArrives(w) PROVE CalmInv'
    BY <1>2, <2>1, CalmArrival
  <2>2. ASSUME NEW r \in RequestIds, ShareStep(r), EngineNext PROVE CalmInv'
    <3>1. RoundsGain
      BY <1>2, <2>2, EngineGains
    <3>. QED  BY <1>2, <2>2, <3>1, CalmTurns, CalmWrites DEF ShareStep
  <2>3. ASSUME NEW r \in RequestIds, CloseBlocks(r) \/ ForgetBlock(r) PROVE CalmInv'
    BY <1>2, <2>3, CalmCloses
  <2>4. ASSUME NEW r \in RequestIds, RequestFails(r) PROVE CalmInv'
    BY <1>2, <2>4 DEF RequestFails, Quiet, TypeInv, TypeOK, EngineTypeOK
  <2>5. ASSUME NEW b \in BlockIds, NEW verdict \in {"yes", "no"}, ValidateBlock(b, verdict)
        PROVE  CalmInv'
    <3>. DEFINE row == [blocks[b] EXCEPT !.valid = verdict]
    <3>1. blocks \in Seq(Blocks) /\ blocks[b] \in Blocks
      BY <1>2 DEF TypeInv, TypeOK, EngineTypeOK, DatabaseTypeOK, BlockIds
    <3>2. row \in Blocks /\ row.mined = blocks[b].mined
      BY <3>1 DEF Blocks
    <3>3. blocks' = [blocks EXCEPT ![b] = row] /\ UNCHANGED <<roundShares, engineVars>>
      BY <2>5 DEF ValidateBlock
    <3>. HIDE DEF row
    <3>4. /\ Len(blocks') = Len(blocks) /\ blocks'[b] = row
          /\ \A c \in BlockIds : c # b => blocks'[c] = blocks[c]
      BY <3>1, <3>2, <3>3, RowChanged DEF BlockIds
    <3>. QED  BY <1>2, <3>2, <3>3, <3>4, CalmStays DEF BlockIds
  <2>6. CASE EngineCrash
    BY <1>2, <2>6, CalmCrash
  <2>7. CASE EngineNext
    BY <2>1, <2>2, <2>3, <2>4, <2>5, <2>6, <2>7 DEF EngineNext
  <2>8. CASE UnlockerNext /\ UNCHANGED engineVars
    <3>1. UnlockerSteady
      BY <1>2, <2>8, UnlockerIsSteady
    <3>2. Len(blocks') = Len(blocks)
      BY <1>2, <3>1 DEF UnlockerSteady, TypeInv, TypeOK, EngineTypeOK, DatabaseTypeOK
    <3>. QED  BY <1>2, <2>8, <3>1, <3>2, CalmStays DEF UnlockerSteady
  <2>9. CASE UNCHANGED vars
    BY <1>2, <2>9, CalmStays DEF vars, dbVars, BlockIds
  <2>. QED  BY <1>2, <2>7, <2>8, <2>9 DEF Next
<1>. QED  BY <1>1, <1>2

\* Under calm traffic the cached id is that of the open round whenever the engine is idle,
\* also after it died (block_by_coin, get_current_block).
THEOREM CacheIsCurrent == ASSUME Quiet PROVE Spec => []CacheIsOpenRound
<1>1. CalmInv => CacheIsOpenRound
  BY DEF CalmInv, Current, CacheIsOpenRound
<1>. QED  BY TypeInductive, CalmInductive, <1>1, PTL DEF Spec

\* Under calm traffic and until the engine dies no round is closed empty.
THEOREM NoneClosedEmpty == ASSUME Quiet PROVE Spec => []NoEmptyRound
<1>1. CalmInv => NoEmptyRound
  BY DEF CalmInv, Filled, NoEmptyRound
<1>. QED  BY TypeInductive, CalmInductive, <1>1, PTL DEF Spec

------------------------------------------------------------------------------
(* Under calm traffic the tables are a ledger of rounds *)

\* The rounds of RoundLedger, as RoundsInOrder maps them
LedgerRound(b) == [shares |-> roundShares[b], closed |-> blocks[b].mined # 0]

LedgerRounds == [b \in BlockIds |-> LedgerRound(b)]

\* are a sequence, as long as the table.
LedgerOK ==
    /\ Len(LedgerRounds) = Len(blocks) /\ DOMAIN LedgerRounds = BlockIds
    /\ LedgerRounds \in Seq([shares : Rounds, closed : BOOLEAN])
    /\ \A b \in BlockIds : LedgerRounds[b] = LedgerRound(b)

\* That is their type.
LEMMA LedgerIsSeq == TypeInv => LedgerOK
<1>. SUFFICES ASSUME TypeInv PROVE LedgerOK
  OBVIOUS
<1>. DEFINE R == [shares : Rounds, closed : BOOLEAN]
<1>1. blocks \in Seq(Blocks) /\ roundShares \in Seq(Rounds) /\ Len(roundShares) = Len(blocks)
  BY DEF TypeInv, TypeOK, EngineTypeOK, DatabaseTypeOK
<1>2. \A b \in BlockIds : LedgerRound(b) \in R
  BY <1>1 DEF LedgerRound, BlockIds
<1>3. LedgerRounds \in [1..Len(blocks) -> R]
  BY <1>2 DEF LedgerRounds, BlockIds
<1>. HIDE DEF R
<1>4. LedgerRounds \in Seq(R) /\ Len(LedgerRounds) = Len(blocks)
  BY <1>1, <1>3, AsLong
<1>. QED  BY <1>4 DEF LedgerOK, LedgerRounds, R

\* Two sequences of rounds are equal if their rounds are.
LEMMA LedgerEqual ==
    ASSUME NEW R, NEW s \in Seq(R), NEW t \in Seq(R), Len(s) = Len(t),
           \A b \in 1..Len(s) : s[b] = t[b]
    PROVE  s = t
  OBVIOUS

\* A step that closes nothing and counts nothing changes no round.
LEMMA LedgerSame ==
    ASSUME UNCHANGED roundShares, BlockIds' = BlockIds,
           \A b \in BlockIds : blocks'[b].mined = blocks[b].mined
    PROVE  UNCHANGED LedgerRounds
  BY DEF LedgerRounds, LedgerRound

\* A round is open in the ledger when a block is open.
LEMMA LedgerOpen ==
    ASSUME TypeInv, CalmInv
    PROVE  Ledger!RoundIsOpen <=> OpenBlocks # {}
<1>1. /\ Len(LedgerRounds) = Len(blocks) /\ DOMAIN LedgerRounds = BlockIds
      /\ LedgerRounds \in Seq([shares : Rounds, closed : BOOLEAN])
      /\ \A b \in BlockIds : LedgerRounds[b] = LedgerRound(b)
  BY LedgerIsSeq DEF LedgerOK
<1>2. Ledger!RoundIsOpen <=> LedgerRounds # <<>> /\ ~LedgerRounds[Len(LedgerRounds)].closed
  BY DEF Ledger!RoundIsOpen, LedgerRounds, LedgerRound
<1>3. Len(blocks) \in Nat /\ BlockIds = 1..Len(blocks)
  BY DEF TypeInv, TypeOK, EngineTypeOK, DatabaseTypeOK, BlockIds
<1>4. LedgerRounds # <<>> <=> Len(blocks) # 0
  BY <1>1, <1>3
<1>5. OpenBlocks # {} <=> Len(blocks) \in OpenBlocks
  BY DEF CalmInv, OneOpen
<1>6. Len(blocks) # 0 => (LedgerRounds[Len(blocks)].closed <=> blocks[Len(blocks)].mined # 0)
  BY <1>1, <1>3 DEF LedgerRound
<1>. QED  BY <1>1, <1>2, <1>3, <1>4, <1>5, <1>6 DEF OpenBlocks

\* A new block is a new round,
LEMMA LedgerOpens ==
    ASSUME TypeInv, TypeInv', CalmInv, NEW r \in RequestIds, InsertOpenBlock(r)
    PROVE  Ledger!Open
<1>1. InsertBlock /\ OpenBlocks = {}
  <2>1. r \in InFlight /\ requests[r].at = "insertBlock"
    BY DEF InsertOpenBlock, At, InFlight, Steps
  <2>. QED  BY <2>1 DEF InsertOpenBlock, CalmInv, Orderly
<1>2. /\ blocks \in Seq(Blocks) /\ roundShares \in Seq(Rounds)
      /\ Len(roundShares) = Len(blocks) /\ BlockIds = 1..Len(blocks)
  BY DEF TypeInv, TypeOK, EngineTypeOK, DatabaseTypeOK, BlockIds
<1>3. PICK new : new = [mined |-> 0, valid |-> "unknown", unlocked |-> FALSE]
  OBVIOUS
<1>4. new \in Blocks /\ NoShares \in Rounds
  BY <1>3 DEF Blocks, NoShares, Rounds
<1>5. blocks' = Append(blocks, new) /\ roundShares' = Append(roundShares, NoShares)
  BY <1>1, <1>3 DEF InsertBlock
<1>6. PICK n : n = Len(blocks) + 1
  OBVIOUS
<1>7. /\ Len(blocks') = n /\ \A b \in BlockIds : blocks'[b] = blocks[b]
      /\ blocks'[n] = new
      /\ \A b \in BlockIds : roundShares'[b] = roundShares[b]
      /\ roundShares'[n] = NoShares
  BY <1>2, <1>4, <1>5, <1>6, RowAppended
<1>. DEFINE x == [shares |-> NoShares, closed |-> FALSE]
            R == [shares : Rounds, closed : BOOLEAN]
<1>8. LedgerRounds' = Append(LedgerRounds, x)
  <2>1. /\ Len(LedgerRounds) = Len(blocks) /\ LedgerRounds \in Seq(R)
        /\ \A b \in BlockIds : LedgerRounds[b] = LedgerRound(b)
    BY LedgerIsSeq DEF LedgerOK
  <2>2. /\ Len(LedgerRounds') = Len(blocks') /\ LedgerRounds' \in Seq(R)
        /\ \A b \in BlockIds' : LedgerRounds'[b] = LedgerRound(b)'
    <3>1. LedgerOK'
      BY LedgerIsSeq, PTL
    <3>. QED  BY <3>1 DEF LedgerOK
  <2>3. x \in R
    BY <1>4
  <2>4. /\ Append(LedgerRounds, x) \in Seq(R) /\ Len(Append(LedgerRounds, x)) = n
        /\ \A b \in 1..Len(LedgerRounds) : Append(LedgerRounds, x)[b] = LedgerRounds[b]
        /\ Append(LedgerRounds, x)[n] = x
    BY <1>6, <2>1, <2>3, RowAppended
  <2>5. \A b \in BlockIds' : b \in BlockIds \/ b = n
    BY <1>2, <1>6, <1>7 DEF BlockIds
  <2>6. \A b \in BlockIds : LedgerRound(b)' = LedgerRound(b)
    BY <1>7 DEF LedgerRound
  <2>7. LedgerRound(n)' = x
    <3>1. blocks'[n].mined = 0
      BY <1>3, <1>7
    <3>2. (blocks'[n].mined # 0) = FALSE
      BY <3>1
    <3>. QED  BY <1>7, <3>2, Zenon DEF LedgerRound
  <2>8. \A b \in 1..n : LedgerRounds'[b] = Append(LedgerRounds, x)[b]
    BY <1>2, <1>6, <1>7, <2>1, <2>2, <2>4, <2>5, <2>6, <2>7 DEF BlockIds
  <2>. HIDE DEF R, x
  <2>. QED  BY <1>7, <2>2, <2>4, <2>8, LedgerEqual
<1>. QED  BY <1>1, <1>8, LedgerOpen DEF Ledger!Open, NoShares, LedgerRounds, LedgerRound

\* a share of a request that writes is counted in the last,
LEMMA LedgerCounts ==
    ASSUME TypeInv, TypeInv', CalmInv, NEW r \in InFlight, requests[r].at \in Writing,
           UNCHANGED blocks, AddShare(requests[r].block, requests[r].wallet)
    PROVE  \E w \in Wallets : Ledger!Count(w)
<1>1. /\ blocks \in Seq(Blocks) /\ roundShares \in Seq(Rounds)
      /\ Len(roundShares) = Len(blocks) /\ BlockIds = 1..Len(blocks) /\ BlockIds' = BlockIds
  BY DEF TypeInv, TypeOK, EngineTypeOK, DatabaseTypeOK, BlockIds
<1>2. PICK n : n = Len(blocks)
  OBVIOUS
<1>3. requests[r].block = n /\ n \in OpenBlocks /\ n \in BlockIds
  BY <1>2, WritesOpenRound DEF CalmInv, OneOpen
<1>4. PICK w \in Wallets : w = requests[r].wallet
  <2>1. requests[r] \in Requests
    BY DEF TypeInv, TypeOK, EngineTypeOK, InFlight, RequestIds
  <2>. QED  BY <2>1 DEF Requests
<1>5. /\ \A b \in BlockIds : b # n => roundShares'[b] = roundShares[b]
      /\ roundShares'[n] = [roundShares[n] EXCEPT ![w] = @ + 1]
  BY <1>1, <1>3, <1>4 DEF AddShare
<1>. DEFINE R == [shares : Rounds, closed : BOOLEAN]
            x == [LedgerRounds[n] EXCEPT !.shares = [LedgerRounds[n].shares EXCEPT
                                                         ![w] = LedgerRounds[n].shares[w] + 1]]
<1>6. /\ Len(LedgerRounds) = n /\ LedgerRounds \in Seq(R)
      /\ \A b \in BlockIds : LedgerRounds[b] = LedgerRound(b)
  BY <1>2, LedgerIsSeq DEF LedgerOK
<1>7. /\ Len(LedgerRounds') = n /\ LedgerRounds' \in Seq(R)
      /\ \A b \in BlockIds : LedgerRounds'[b] = LedgerRound(b)'
  <2>1. LedgerOK'
    BY LedgerIsSeq, PTL
  <2>. QED  BY <1>1, <1>2, <2>1 DEF LedgerOK
<1>8. x = LedgerRound(n)'
  <2>1. PICK c \in BOOLEAN : c = (blocks[n].mined # 0)
    OBVIOUS
  <2>2. LedgerRounds[n] = [shares |-> roundShares[n], closed |-> c]
    BY <1>3, <1>6, <2>1, Zenon DEF LedgerRound
  <2>3. LedgerRound(n)' = [shares |-> roundShares'[n], closed |-> c]
    <3>1. blocks' = blocks
      OBVIOUS
    <3>. QED  BY <2>1, <3>1, Zenon DEF LedgerRound
  <2>. QED  BY <1>5, <2>2, <2>3
<1>9. x \in R
  <2>. HIDE DEF x, R
  <2>1. n \in 1..Len(LedgerRounds') /\ x = LedgerRounds'[n]
    BY <1>1, <1>2, <1>3, <1>7, <1>8
  <2>. QED  BY <1>7, <2>1
<1>10. LedgerRounds' = [LedgerRounds EXCEPT ![n] = x]
  <2>. DEFINE t == [LedgerRounds EXCEPT ![n] = x]
  <2>. HIDE DEF x, R
  <2>1. /\ t \in Seq(R) /\ Len(t) = n /\ t[n] = x
        /\ \A b \in 1..n : b # n => t[b] = LedgerRounds[b]
    BY <1>1, <1>2, <1>3, <1>6, <1>9, RowChanged
  <2>2. \A b \in 1..n : b # n => LedgerRound(b)' = LedgerRound(b)
    BY <1>1, <1>2, <1>5 DEF LedgerRound
  <2>3. \A b \in 1..n : LedgerRounds'[b] = t[b]
    BY <1>1, <1>2, <1>6, <1>7, <1>8, <2>1, <2>2
  <2>. HIDE DEF t
  <2>4. LedgerRounds' = t
    BY <1>7, <2>1, <2>3, LedgerEqual
  <2>. QED  BY <2>4 DEF t
<1>11. LedgerRounds' = [LedgerRounds EXCEPT ![Len(LedgerRounds)].shares[w] = @ + 1]
  BY <1>6, <1>10
<1>. QED  BY <1>3, <1>11, LedgerOpen DEF Ledger!Count, LedgerRounds, LedgerRound

\* and submit_block closes it, if there is one.
LEMMA LedgerCloses ==
    ASSUME TypeInv, TypeInv', CalmInv, NEW r \in RequestIds, CloseBlocks(r)
    PROVE  Ledger!Close \/ UNCHANGED LedgerRounds
<1>1. /\ blocks \in Seq(Blocks) /\ Len(blocks) \in Nat /\ BlockIds = 1..Len(blocks)
      /\ \A b \in BlockIds : blocks[b] \in Blocks
      /\ r # 0 /\ r \in Nat
  BY DEF TypeInv, TypeOK, EngineTypeOK, DatabaseTypeOK, BlockIds, RequestIds
<1>2. /\ blocks' = [b \in BlockIds |->
             IF b \in OpenBlocks THEN [blocks[b] EXCEPT !.mined = r] ELSE blocks[b]]
      /\ UNCHANGED roundShares
  BY DEF CloseBlocks
<1>3. Len(blocks') = Len(blocks) /\ BlockIds' = BlockIds
  BY <1>1, <1>2 DEF BlockIds
<1>4. \A b \in BlockIds : blocks'[b].mined = IF b \in OpenBlocks THEN r ELSE blocks[b].mined
  BY <1>1, <1>2 DEF Blocks
<1>5. CASE OpenBlocks = {}
  BY <1>2, <1>3, <1>4, <1>5, LedgerSame
<1>6. CASE OpenBlocks # {}
  <2>1. PICK n : n = Len(blocks)
    OBVIOUS
  <2>2. OpenBlocks = {n} /\ n \in BlockIds
    BY <1>6, <2>1 DEF CalmInv, OneOpen, OpenBlocks
  <2>. DEFINE R == [shares : Rounds, closed : BOOLEAN]
              x == [LedgerRounds[n] EXCEPT !.closed = TRUE]
              t == [LedgerRounds EXCEPT ![n] = x]
  <2>3. /\ Len(LedgerRounds) = n /\ LedgerRounds \in Seq(R)
        /\ \A b \in BlockIds : LedgerRounds[b] = LedgerRound(b)
    BY <2>1, LedgerIsSeq DEF LedgerOK
  <2>4. /\ Len(LedgerRounds') = n /\ LedgerRounds' \in Seq(R)
        /\ \A b \in BlockIds : LedgerRounds'[b] = LedgerRound(b)'
    <3>1. LedgerOK'
      BY LedgerIsSeq, PTL
    <3>. QED  BY <1>3, <2>1, <3>1 DEF LedgerOK
  <2>5. x = LedgerRound(n)'
    <3>1. PICK c \in BOOLEAN : c = (blocks[n].mined # 0)
      OBVIOUS
    <3>2. LedgerRounds[n] = [shares |-> roundShares[n], closed |-> c]
      BY <2>2, <2>3, <3>1, Zenon DEF LedgerRound
    <3>3. blocks'[n].mined = r
      BY <1>4, <2>2
    <3>4. (blocks'[n].mined # 0) = TRUE
      BY <1>1, <3>3
    <3>5. LedgerRound(n)' = [shares |-> roundShares[n], closed |-> TRUE]
      BY <1>2, <3>4, Zenon DEF LedgerRound
    <3>6. x = [shares |-> roundShares[n], closed |-> TRUE]
      <4>1. \A u, v, y : [[shares |-> u, closed |-> v] EXCEPT !.closed = y]
                            = [shares |-> u, closed |-> y]
        OBVIOUS
      <4>2. \A u, v : [[shares |-> u, closed |-> v] EXCEPT !.closed = TRUE]
                          = [shares |-> u, closed |-> TRUE]
        BY <4>1, Zenon
      <4>. QED  BY <3>2, <4>2, Zenon
    <3>. QED  BY <3>5, <3>6, Zenon
  <2>6. x \in R
    <3>. HIDE DEF x, R
    <3>1. n \in 1..Len(LedgerRounds') /\ x = LedgerRounds'[n]
      BY <1>1, <2>1, <2>2, <2>4, <2>5
    <3>. QED  BY <2>4, <3>1
  <2>7. LedgerRounds' = t
    <3>. HIDE DEF x, R
    <3>1. /\ t \in Seq(R) /\ Len(t) = n /\ t[n] = x
          /\ \A b \in 1..n : b # n => t[b] = LedgerRounds[b]
      BY <1>1, <2>1, <2>2, <2>3, <2>6, RowChanged
    <3>2. \A b \in 1..n : b # n => LedgerRound(b)' = LedgerRound(b)
      BY <1>1, <1>2, <1>4, <2>1, <2>2 DEF LedgerRound
    <3>3. \A b \in 1..n : LedgerRounds'[b] = t[b]
      BY <1>1, <2>1, <2>3, <2>4, <2>5, <3>1, <3>2
    <3>. HIDE DEF t
    <3>. QED  BY <2>4, <3>1, <3>3, LedgerEqual
  <2>8. LedgerRounds' = [LedgerRounds EXCEPT ![Len(LedgerRounds)].closed = TRUE]
    BY <2>3, <2>7
  <2>. QED  BY <1>6, <2>8, LedgerOpen DEF Ledger!Close, LedgerRounds, LedgerRound
<1>. QED  BY <1>5, <1>6

\* Under calm traffic the blocks and shares of the tables are the rounds of a ledger: one is
\* open at a time, only it takes shares, and what is closed never changes, whatever the
\* unlocker does meanwhile and however often either dies.
THEOREM TablesAreALedger == ASSUME Quiet PROVE Spec => RoundsInOrder
<1>1. Init => Ledger!Init
  <2>. SUFFICES ASSUME Init PROVE Ledger!Init
    OBVIOUS
  <2>1. BlockIds = {} /\ 1..0 = {}
    BY DEF Init, DatabaseInit, BlockIds
  <2>. QED  BY <2>1 DEF Ledger!Init
<1>2. ASSUME TypeInv, TypeInv', CalmInv, [Next]_vars
      PROVE  Ledger!Next \/ UNCHANGED LedgerRounds
  <2>1. CASE UNCHANGED <<blocks, roundShares>>
    BY <2>1, LedgerSame DEF BlockIds
  <2>2. ASSUME NEW r \in RequestIds, ShareStep(r) PROVE Ledger!Next \/ UNCHANGED LedgerRounds
    <3>1. CASE InsertOpenBlock(r)
      BY <1>2, <3>1, LedgerOpens DEF Ledger!Next
    <3>2. CASE UpdateRow(r) \/ InsertRow(r)
      <4>1. r \in InFlight /\ requests[r].at \in Writing /\ UNCHANGED blocks
        BY <3>2 DEF UpdateRow, InsertRow, At, InFlight, Steps, Writing
      <4>2. UNCHANGED roundShares \/ AddShare(requests[r].block, requests[r].wallet)
        BY <3>2 DEF UpdateRow, InsertRow
      <4>. QED  BY <1>2, <2>1, <4>1, <4>2, LedgerCounts DEF Ledger!Next
    <3>. QED  BY <2>1, <2>2, <3>1, <3>2 DEF ShareStep, Lookup, Probe, SelectOpenBlock,
                                            StoreBlock, ProbeRow, dbVars
  <2>3. ASSUME NEW r \in RequestIds, CloseBlocks(r)
        PROVE  Ledger!Next \/ UNCHANGED LedgerRounds
    BY <1>2, <2>3, LedgerCloses DEF Ledger!Next
  <2>4. ASSUME NEW b \in BlockIds, NEW verdict \in {"yes", "no"}, ValidateBlock(b, verdict)
        PROVE  UNCHANGED LedgerRounds
    <3>1. \A c \in BlockIds : blocks'[c].mined = blocks[c].mined
      BY <1>2, <2>4 DEF ValidateBlock, TypeInv, TypeOK, EngineTypeOK, DatabaseTypeOK, BlockIds,
                        Blocks
    <3>2. BlockIds' = BlockIds /\ UNCHANGED roundShares
      BY <1>2, <2>4 DEF ValidateBlock, TypeInv, TypeOK, EngineTypeOK, DatabaseTypeOK, BlockIds
    <3>. QED  BY <3>1, <3>2, LedgerSame
  <2>5. CASE EngineNext
    BY <2>1, <2>2, <2>3, <2>4, <2>5 DEF EngineNext, ShareArrives, BlockArrives, ForgetBlock,
                                        RequestFails, EngineCrash, dbVars
  <2>6. CASE UnlockerNext
    BY <1>2, <2>6, UnlockerIsSteady, LedgerSame DEF UnlockerSteady
  <2>. QED  BY <1>2, <2>1, <2>5, <2>6 DEF Next, vars, dbVars
<1>3. LedgerRounds = [b \in BlockIds |-> [shares |-> roundShares[b], closed |-> blocks[b].mined # 0]]
  BY DEF LedgerRounds, LedgerRound
<1>4. TypeInv /\ TypeInv' /\ CalmInv /\ [Next]_vars =>
          [Ledger!Next]_([b \in BlockIds |-> [shares |-> roundShares[b],
                                              closed |-> blocks[b].mined # 0]])
  BY <1>2, <1>3 DEF LedgerRounds, LedgerRound
<1>. QED  BY TypeInductive, CalmInductive, <1>1, <1>4, PTL DEF Spec, RoundsInOrder, Ledger!Spec

------------------------------------------------------------------------------
(* What the unlocker pays *)

RowsOf(b) == {row \in BagToSet(rewards) : row.block = b}

FeeRow(b) == [block |-> b, for |-> "fee", wallet |-> "pool", part |-> 1, of |-> 1]

FeeRows(b) == IF PaysFee THEN {FeeRow(b)} ELSE {}

ShareRow(b, w, n, t) == [block |-> b, for |-> "shares", wallet |-> w, part |-> n, of |-> t]

\* Block b has the fee and what is due, by g, to each of the wallets W, each row once.
Pays(b, g, t, W) ==
    /\ RowsOf(b) = FeeRows(b) \cup {ShareRow(b, w, g[w], t) : w \in W}
    /\ \A row \in RowsOf(b) : rewards[row] = 1

\* Wallets g gives anything
Due(g) == {w \in Wallets : g[w] > 0}

\* What is divided is at most what is given; exactly the round, under calm traffic.
Fits(b, g, t) ==
    /\ t <= SumFunctionOnSet(g, Wallets)
    /\ Quiet => g = roundShares[b] /\ t = TotalShares(b)

\* An unlocked block has paid everyone.
PaidOff(b) == \E g \in Rounds, t \in Nat : Pays(b, g, t, Due(g)) /\ Fits(b, g, t)

ShareOf(g, w) == [wallet |-> w, shares |-> g[w]]

\* At "pay" block b has paid those whose row is not unpaid any more.
PartlyPaid(b) ==
    \E g \in Rounds :
        /\ unpaid \subseteq {ShareOf(g, w) : w \in Due(g)}
        /\ Pays(b, g, total, {w \in Due(g) : ShareOf(g, w) \notin unpaid})
        /\ Fits(b, g, total)

\* What an attempt at block b has written and knows
Attempt(b) ==
    /\ step \in {"sum", "fee"} => RowsOf(b) = {}
    /\ step \in {"fee", "rows"} => total <= TotalShares(b) /\ (Quiet => total = TotalShares(b))
    /\ step = "rows" => Pays(b, NoShares, total, {})
    /\ step = "pay" => PartlyPaid(b)

\* Only closed blocks have verdicts, and only valid ones are listed or unlocked.
Listed ==
    /\ todo \subseteq Unlockable
    /\ \A b \in BlockIds : blocks[b].valid # "unknown" => b \notin OpenBlocks
    /\ \A b \in Unlocked : blocks[b].valid = "yes"

PayInv == /\ Listed
          /\ \A b \in Unlocked : PaidOff(b)
          /\ \A b \in todo : b = Block => Attempt(b)

\* No two wallets share a row, and none has the fee's.
LEMMA RowsApart ==
    /\ \A b, w, n, t : ShareRow(b, w, n, t) # FeeRow(b) /\ ShareRow(b, w, n, t).block = b
    /\ \A b, w, n, t, v, m : ShareRow(b, w, n, t) = ShareRow(b, v, m, t) => w = v
    /\ \A b : FeeRow(b).block = b
    /\ \A g, w, v : ShareOf(g, w) = ShareOf(g, v) => w = v
  BY DEF ShareRow, FeeRow, ShareOf

\* Closed rounds keep their shares under calm traffic, and lose none under any.
LEMMA TotalsGrow ==
    ASSUME TypeInv, TypeInv', RoundsGain, BlockIds \subseteq BlockIds', NEW b \in BlockIds
    PROVE  TotalShares(b) <= TotalShares(b)'
<1>1. roundShares[b] \in Rounds /\ roundShares'[b] \in Rounds
  <2>1. /\ roundShares \in Seq(Rounds) /\ BlockIds = 1..Len(roundShares)
        /\ roundShares' \in Seq(Rounds) /\ BlockIds' = 1..Len(roundShares')
    BY DEF TypeInv, TypeOK, EngineTypeOK, DatabaseTypeOK, BlockIds
  <2>. QED  BY <2>1
<1>2. \A w \in Wallets : /\ roundShares[b][w] \in Nat /\ roundShares'[b][w] \in Nat
                         /\ roundShares[b][w] <= roundShares'[b][w]
  <2>1. roundShares'[b] = roundShares[b]
        \/ \A w \in Wallets : roundShares[b][w] <= roundShares'[b][w]
    BY DEF RoundsGain
  <2>. QED  BY <1>1, <2>1 DEF Rounds
<1>. QED  BY <1>2, SumMonotone, DatabaseAssumption DEF TotalShares

\* A closed round gains nothing under calm traffic.
LEMMA ClosedFixed ==
    ASSUME TypeInv, CalmInv, RoundsGain, NEW b \in BlockIds \ OpenBlocks
    PROVE  roundShares'[b] = roundShares[b]
<1>1. ASSUME NEW r \in InFlight, requests[r].at \in {"update", "insertRow"}, requests[r].block = b
      PROVE  FALSE
  BY <1>1, WritesOpenRound DEF Writing
<1>. QED  BY <1>1 DEF RoundsGain

\* The engine's steps leave it: they pay nothing, and change no closed round when it counts.
LEMMA EngineKeepsPay ==
    ASSUME TypeInv, TypeInv', Quiet => CalmInv, PayInv, EngineNext, UNCHANGED unlockerVars
    PROVE  PayInv'
<1>1. EngineSteady /\ RoundsGain
  BY EngineIsSteady, EngineGains
<1>2. /\ UNCHANGED <<rewards, step, todo, total, unpaid>> /\ BlockIds \subseteq BlockIds'
      /\ todo \subseteq BlockIds
  BY <1>1 DEF EngineSteady, unlockerVars, TypeInv, TypeOK, UnlockerTypeOK
<1>3. Unlocked' = Unlocked
  <2>1. \A b \in BlockIds' \ BlockIds : blocks'[b].unlocked = FALSE
    BY <1>1 DEF EngineSteady
  <2>. QED  BY <1>1, <1>2, <2>1 DEF Unlocked, EngineSteady
<1>4. Listed'
  <2>1. todo' \subseteq Unlockable'
    BY <1>1, <1>2 DEF PayInv, Listed, Unlockable, EngineSteady
  <2>2. ASSUME NEW b \in BlockIds', blocks'[b].valid # "unknown" PROVE b \notin OpenBlocks'
    <3>1. b \in BlockIds
      BY <1>1, <2>2 DEF EngineSteady
    <3>2. b \notin OpenBlocks
      BY <1>1, <2>2, <3>1 DEF EngineSteady, PayInv, Listed
    <3>. QED  BY <1>1, <3>1, <3>2 DEF EngineSteady, OpenBlocks
  <2>3. \A b \in Unlocked' : blocks'[b].valid = "yes"
    BY <1>1, <1>3 DEF PayInv, Listed, EngineSteady, Unlocked
  <2>. QED  BY <2>1, <2>2, <2>3 DEF Listed
<1>5. ASSUME NEW b \in BlockIds, blocks[b].valid = "yes"
      PROVE  /\ TotalShares(b) <= TotalShares(b)'
             /\ Quiet => roundShares'[b] = roundShares[b] /\ TotalShares(b)' = TotalShares(b)
  <2>1. b \in BlockIds \ OpenBlocks
    BY <1>5 DEF PayInv, Listed
  <2>2. Quiet => roundShares'[b] = roundShares[b]
    BY <1>1, <2>1, ClosedFixed
  <2>. QED  BY <1>1, <1>2, <2>2, TotalsGrow DEF TotalShares
<1>6. \A b, g, t, W : Pays(b, g, t, W)' <=> Pays(b, g, t, W)
  BY <1>2 DEF Pays, RowsOf
<1>7. ASSUME NEW b \in BlockIds, blocks[b].valid = "yes", NEW g, NEW t, Fits(b, g, t)
      PROVE  Fits(b, g, t)'
  BY <1>5, <1>7 DEF Fits
<1>8. ASSUME NEW b \in Unlocked' PROVE PaidOff(b)'
  <2>1. b \in BlockIds /\ blocks[b].valid = "yes" /\ PaidOff(b)
    BY <1>3, <1>8 DEF PayInv, Listed, Unlocked
  <2>2. PICK g \in Rounds, t \in Nat : Pays(b, g, t, Due(g)) /\ Fits(b, g, t)
    BY <2>1 DEF PaidOff
  <2>3. Pays(b, g, t, Due(g))' /\ Fits(b, g, t)'
    BY <1>6, <1>7, <2>1, <2>2
  <2>. QED  BY <2>3 DEF PaidOff
<1>9. ASSUME NEW b \in todo', b = Block' PROVE Attempt(b)'
  <2>1. /\ b \in BlockIds /\ blocks[b].valid = "yes" /\ Attempt(b)
    BY <1>2, <1>9 DEF PayInv, Listed, Unlockable, Block
  <2>2. step = "pay" => PartlyPaid(b)'
    <3>. SUFFICES ASSUME step = "pay" PROVE PartlyPaid(b)'
      OBVIOUS
    <3>1. PICK g \in Rounds :
              /\ unpaid \subseteq {ShareOf(g, w) : w \in Due(g)}
              /\ Pays(b, g, total, {w \in Due(g) : ShareOf(g, w) \notin unpaid})
              /\ Fits(b, g, total)
      BY <2>1 DEF Attempt, PartlyPaid
    <3>2. PICK t, W : t = total /\ W = {w \in Due(g) : ShareOf(g, w) \notin unpaid}
      OBVIOUS
    <3>3. Pays(b, g, t, W)' /\ Fits(b, g, t)'
      BY <1>6, <1>7, <2>1, <3>1, <3>2
    <3>. QED  BY <1>2, <3>1, <3>2, <3>3 DEF PartlyPaid, Pays, Fits
  <2>3. step = "rows" => Pays(b, NoShares, total, {})'
    <3>. SUFFICES ASSUME step = "rows" PROVE Pays(b, NoShares, total, {})'
      OBVIOUS
    <3>. QED  BY <1>2, <2>1 DEF Attempt, Pays, RowsOf
  <2>4. step \in {"fee", "rows"} =>
            total <= TotalShares(b)' /\ (Quiet => total = TotalShares(b)')
    <3>1. TotalShares(b) \in Nat /\ TotalShares(b)' \in Nat /\ total \in Nat
      <4>1. /\ roundShares \in Seq(Rounds) /\ b \in 1..Len(roundShares) /\ total \in Nat
        BY <2>1 DEF TypeInv, TypeOK, EngineTypeOK, DatabaseTypeOK, UnlockerTypeOK, BlockIds
      <4>2. roundShares' \in Seq(Rounds) /\ b \in 1..Len(roundShares')
        BY <1>2, <2>1 DEF TypeInv, TypeOK, EngineTypeOK, DatabaseTypeOK, BlockIds
      <4>3. roundShares'[b] \in Rounds
        BY <4>2
      <4>4. TotalShares(b)' \in Nat
        BY <4>3, SumType, DatabaseAssumption DEF TotalShares, Rounds
      <4>. QED  BY <4>1, <4>4, TotalTyped
    <3>. QED  BY <1>5, <2>1, <3>1 DEF Attempt
  <2>. QED  BY <1>2, <2>1, <2>2, <2>3, <2>4 DEF Attempt, RowsOf
<1>. QED  BY <1>4, <1>8, <1>9 DEF PayInv

\* A step that leaves the rows of block b
RowsStay(b) == RowsOf(b)' = RowsOf(b) /\ \A row \in RowsOf(b) : rewards'[row] = rewards[row]

\* leaves a block paid off if it was.
LEMMA PaidOffStays ==
    ASSUME UNCHANGED roundShares, NEW b, RowsStay(b), PaidOff(b)
    PROVE  PaidOff(b)'
<1>1. PICK g \in Rounds, t \in Nat : Pays(b, g, t, Due(g)) /\ Fits(b, g, t)
  BY DEF PaidOff
<1>2. Pays(b, g, t, Due(g))'
  BY <1>1 DEF RowsStay, Pays
<1>3. Fits(b, g, t)'
  BY <1>1 DEF Fits, TotalShares
<1>. QED  BY <1>2, <1>3 DEF PaidOff

\* One more row for block k
LEMMA InsertStays ==
    ASSUME TypeInv, NEW row, InsertReward(row), NEW k, row.block = k
    PROVE  /\ \A b : b # k => RowsStay(b)
           /\ RowsOf(k)' = RowsOf(k) \cup {row}
           /\ \A x \in RowsOf(k) : x # row => rewards'[x] = rewards[x]
           /\ row \notin RowsOf(k) => rewards'[row] = 1
<1>1. /\ BagToSet(rewards') = BagToSet(rewards) \cup {row}
      /\ \A x \in BagToSet(rewards) : x # row => rewards'[x] = rewards[x]
      /\ row \notin BagToSet(rewards) => rewards'[row] = 1
  BY RewardInserted DEF TypeInv, TypeOK, EngineTypeOK, DatabaseTypeOK
<1>. QED  BY <1>1 DEF RowsStay, RowsOf

\* The rows of an attempt that is started again are gone, and no others.
LEMMA DeleteStays ==
    ASSUME TypeInv, NEW k, rewards' = RewardsOf(BlockIds \ {k})
    PROVE  /\ \A b \in BlockIds \ {k} : RowsStay(b)
           /\ RowsOf(k)' = {}
<1>1. /\ BagToSet(rewards') = {r \in BagToSet(rewards) : r.block \in BlockIds \ {k}}
      /\ \A x \in BagToSet(rewards') : rewards'[x] = rewards[x]
  BY RewardsOfBlocks DEF TypeInv, TypeOK, EngineTypeOK, DatabaseTypeOK
<1>. QED  BY <1>1 DEF RowsStay, RowsOf

\* The unlocker's steps keep it: an attempt begins with no row, adds the fee and then
\* one row for each wallet that it read, and is over when all have theirs.
LEMMA UnlockerKeepsPay ==
    ASSUME TypeInv, PayInv, UnlockerNext, UNCHANGED engineVars
    PROVE  PayInv' /\ \A b \in Unlocked : b \in Unlocked' /\ RowsStay(b)
<1>. DEFINE Kept == PayInv' /\ \A b \in Unlocked : b \in Unlocked' /\ RowsStay(b)
<1>1. /\ blocks \in Seq(Blocks) /\ roundShares \in Seq(Rounds) /\ BlockIds = 1..Len(roundShares)
      /\ todo \subseteq BlockIds /\ (step = "list" <=> todo = {}) /\ total \in Nat
      /\ \A b \in BlockIds : blocks[b] \in Blocks
  BY DEF TypeInv, TypeOK, EngineTypeOK, DatabaseTypeOK, UnlockerTypeOK, BlockIds
<1>2. UnlockerSteady
  BY UnlockerIsSteady
<1>3. BlockIds' = BlockIds /\ UNCHANGED roundShares /\ OpenBlocks' = OpenBlocks
  BY <1>2 DEF UnlockerSteady, OpenBlocks
<1>4. ASSUME ~MarkUnlocked, todo' \subseteq Unlockable
      PROVE  Listed' /\ Unlocked' = Unlocked
  <2>1. Unlocked' = Unlocked /\ Unlockable' = Unlockable
    BY <1>2, <1>3, <1>4 DEF Unlocked, Unlockable, UnlockerSteady
  <2>. QED  BY <1>2, <1>3, <1>4, <2>1 DEF PayInv, Listed, UnlockerSteady, Unlocked
<1>5. PICK k : k = Block
  OBVIOUS
<1>6. step # "list" => k \in todo /\ k \in BlockIds /\ blocks[k].valid = "yes" /\ k \notin Unlocked
                       /\ Attempt(k)
  BY <1>1, <1>5, BlockIsFirst DEF PayInv, Listed, Unlockable, Unlocked
<1>7. todo' = todo => Block' = k
  BY <1>5 DEF Block
<1>8. ASSUME ~MarkUnlocked, todo' \subseteq Unlockable,
             \A b \in Unlocked : RowsStay(b),
             \A b \in todo' : b = Block' => Attempt(b)'
      PROVE  Kept
  <2>1. \A b \in Unlocked : PaidOff(b)'
    BY <1>3, <1>8, PaidOffStays DEF PayInv
  <2>. QED  BY <1>4, <1>8, <2>1 DEF PayInv
<1>9. UNCHANGED rewards => \A b : RowsStay(b)
  BY DEF RowsStay, RowsOf
<1>10. CASE ListBlocks
  <2>1. ~MarkUnlocked /\ todo' = Unlockable /\ step' = "delete" /\ UNCHANGED rewards
    BY <1>10 DEF ListBlocks, MarkUnlocked, dbVars
  <2>. QED  BY <1>8, <1>9, <2>1 DEF Attempt
<1>11. CASE DeleteRewards
  <2>1. /\ ~MarkUnlocked /\ UNCHANGED todo /\ step # "list" /\ step' = "sum"
        /\ rewards' = RewardsOf(BlockIds \ {k})
    BY <1>5, <1>11 DEF DeleteRewards, MarkUnlocked
  <2>2. \A b \in Unlocked : RowsStay(b)
    BY <1>6, <2>1, DeleteStays DEF Unlocked
  <2>3. RowsOf(k)' = {}
    BY <2>1, DeleteStays
  <2>. QED  BY <1>7, <1>8, <2>1, <2>2, <2>3 DEF PayInv, Listed, Attempt
<1>12. CASE SumShares
  <2>1. /\ ~MarkUnlocked /\ UNCHANGED rewards /\ step = "sum" /\ total' = TotalShares(k)
        /\ \/ todo' = {}
           \/ step' = "fee" /\ UNCHANGED todo
    BY <1>5, <1>12 DEF SumShares, MarkUnlocked, dbVars
  <2>2. RowsOf(k)' = {} /\ TotalShares(k)' = TotalShares(k) /\ TotalShares(k) \in Nat
    BY <1>1, <1>3, <1>6, <2>1, TotalTyped DEF Attempt, RowsOf, TotalShares
  <2>3. UNCHANGED todo /\ step' = "fee" => Attempt(k)'
    BY <2>1, <2>2 DEF Attempt
  <2>. QED  BY <1>7, <1>8, <1>9, <2>1, <2>3 DEF PayInv, Listed
<1>13. CASE PayFee
  <2>1. /\ ~MarkUnlocked /\ step = "fee" /\ step' = "rows" /\ UNCHANGED <<todo, total>>
        /\ IF PaysFee THEN InsertReward(FeeRow(k)) ELSE UNCHANGED rewards
    BY <1>5, <1>13 DEF PayFee, MarkUnlocked, FeeRow
  <2>2. RowsOf(k) = {} /\ total <= TotalShares(k) /\ (Quiet => total = TotalShares(k))
    BY <1>6, <2>1 DEF Attempt
  <2>3. /\ \A b \in Unlocked : RowsStay(b)
        /\ RowsOf(k)' = FeeRows(k) /\ \A row \in RowsOf(k)' : rewards'[row] = 1
    <3>1. CASE PaysFee
      <4>1. InsertReward(FeeRow(k)) /\ FeeRow(k).block = k
        BY <2>1, <3>1, RowsApart
      <4>2. PICK row : row = FeeRow(k)
        OBVIOUS
      <4>3. /\ \A b : b # k => RowsStay(b)
            /\ RowsOf(k)' = RowsOf(k) \cup {row}
            /\ row \notin RowsOf(k) => rewards'[row] = 1
        BY <4>1, <4>2, InsertStays
      <4>. QED  BY <1>6, <2>1, <2>2, <3>1, <4>2, <4>3 DEF FeeRows
    <3>2. CASE ~PaysFee
      BY <1>9, <2>1, <2>2, <3>2 DEF FeeRows, RowsOf
    <3>. QED  BY <3>1, <3>2
  <2>4. TotalShares(k)' = TotalShares(k)
    BY <1>3 DEF TotalShares
  <2>5. PICK t : t = total
    OBVIOUS
  <2>6. Pays(k, NoShares, t, {})'
    BY <2>3 DEF Pays
  <2>7. Attempt(k)'
    BY <2>1, <2>2, <2>4, <2>5, <2>6 DEF Attempt, Pays
  <2>. QED  BY <1>7, <1>8, <2>1, <2>3, <2>7 DEF PayInv, Listed
<1>14. CASE SelectRows
  <2>1. /\ ~MarkUnlocked /\ step = "rows" /\ step' = "pay" /\ UNCHANGED <<rewards, todo, total>>
        /\ unpaid' = {[wallet |-> w, shares |-> roundShares[k][w]] : w \in Contributors(k)}
    BY <1>5, <1>14 DEF SelectRows, MarkUnlocked, dbVars
  <2>2. /\ total <= TotalShares(k) /\ (Quiet => total = TotalShares(k))
        /\ Pays(k, NoShares, total, {})
    BY <1>6, <2>1 DEF Attempt
  <2>3. PICK g \in Rounds : g = roundShares[k]
    BY <1>1, <1>6, <2>1
  <2>4. Due(g) = Contributors(k) /\ unpaid' = {ShareOf(g, w) : w \in Due(g)}
    BY <2>1, <2>3 DEF Due, Contributors, ShareOf
  <2>5. PICK t : t = total
    OBVIOUS
  <2>6. Pays(k, g, t, {})'
    <3>1. RowsOf(k)' = FeeRows(k) /\ \A row \in RowsOf(k)' : rewards'[row] = 1
      BY <2>1, <2>2 DEF Pays, RowsOf
    <3>. QED  BY <3>1 DEF Pays
  <2>7. Fits(k, g, t)'
    BY <1>3, <2>2, <2>3, <2>5 DEF Fits, TotalShares
  <2>8. PartlyPaid(k)'
    <3>1. {w \in Due(g) : ShareOf(g, w) \notin unpaid'} = {} /\ total' = t
      BY <2>1, <2>4, <2>5
    <3>2. Pays(k, g, total, {w \in Due(g) : ShareOf(g, w) \notin unpaid})'
      BY <2>6, <3>1 DEF Pays
    <3>3. Fits(k, g, total)'
      BY <2>7, <3>1 DEF Fits
    <3>. QED  BY <2>4, <3>2, <3>3 DEF PartlyPaid
  <2>9. Attempt(k)'
    BY <2>1, <2>8 DEF Attempt
  <2>. QED  BY <1>7, <1>8, <1>9, <2>1, <2>9 DEF PayInv, Listed
<1>15. ASSUME NEW u \in unpaid, PayRow(u) PROVE Kept
  <2>1. /\ step = "pay" /\ UNCHANGED <<step, todo, total>> /\ unpaid' = unpaid \ {u}
        /\ InsertReward(ShareRow(k, u.wallet, u.shares, total)) /\ unpaid # {}
    BY <1>5, <1>15 DEF PayRow, ShareRow
  <2>2. ~MarkUnlocked
    BY <2>1 DEF MarkUnlocked
  <2>3. PICK g \in Rounds :
            /\ unpaid \subseteq {ShareOf(g, w) : w \in Due(g)}
            /\ Pays(k, g, total, {w \in Due(g) : ShareOf(g, w) \notin unpaid})
            /\ Fits(k, g, total)
    BY <1>6, <2>1 DEF Attempt, PartlyPaid
  <2>4. PICK v \in Due(g) : u = ShareOf(g, v)
    BY <2>3
  <2>5. PICK W : W = {w \in Due(g) : ShareOf(g, w) \notin unpaid}
    OBVIOUS
  <2>6. {w \in Due(g) : ShareOf(g, w) \notin unpaid'} = W \cup {v} /\ v \notin W
    <3>1. \A w \in Due(g) : ShareOf(g, w) \notin unpaid' <=> ShareOf(g, w) \notin unpaid \/ w = v
      BY <2>1, <2>4, RowsApart
    <3>. QED  BY <1>15, <2>4, <2>5, <3>1
  <2>7. PICK t : t = total
    OBVIOUS
  <2>8. PICK row : row = ShareRow(k, v, g[v], t)
    OBVIOUS
  <2>9. InsertReward(row) /\ row.block = k
    BY <2>1, <2>4, <2>7, <2>8, RowsApart DEF ShareOf
  <2>10. RowsOf(k) = FeeRows(k) \cup {ShareRow(k, w, g[w], t) : w \in W}
         /\ \A x \in RowsOf(k) : rewards[x] = 1
    BY <2>3, <2>5, <2>7 DEF Pays
  <2>11. row \notin RowsOf(k)
    <3>1. row \notin FeeRows(k)
      BY <2>8, RowsApart DEF FeeRows
    <3>2. ASSUME NEW w \in W, row = ShareRow(k, w, g[w], t) PROVE FALSE
      BY <2>6, <2>8, <3>2, RowsApart
    <3>. QED  BY <2>10, <3>1, <3>2
  <2>12. /\ \A b : b # k => RowsStay(b)
         /\ RowsOf(k)' = RowsOf(k) \cup {row}
         /\ \A x \in RowsOf(k) : rewards'[x] = rewards[x]
         /\ rewards'[row] = 1
    BY <2>9, <2>11, InsertStays
  <2>13. Pays(k, g, t, W \cup {v})'
    <3>1. RowsOf(k)' = FeeRows(k) \cup {ShareRow(k, w, g[w], t) : w \in W \cup {v}}
      BY <2>8, <2>10, <2>12
    <3>2. \A x \in RowsOf(k)' : rewards'[x] = 1
      BY <2>10, <2>12
    <3>. QED  BY <3>1, <3>2 DEF Pays
  <2>14. Fits(k, g, t)'
    BY <1>3, <2>3, <2>7 DEF Fits, TotalShares
  <2>15. PartlyPaid(k)'
    <3>1. unpaid' \subseteq {ShareOf(g, w) : w \in Due(g)} /\ total' = t
      BY <2>1, <2>3, <2>7
    <3>2. Pays(k, g, total, {w \in Due(g) : ShareOf(g, w) \notin unpaid})'
      BY <2>6, <2>13, <3>1 DEF Pays
    <3>3. Fits(k, g, total)'
      BY <2>14, <3>1 DEF Fits
    <3>. QED  BY <3>1, <3>2, <3>3 DEF PartlyPaid
  <2>16. Attempt(k)'
    BY <2>1, <2>15 DEF Attempt
  <2>17. \A b \in Unlocked : RowsStay(b)
    BY <1>6, <2>1, <2>12
  <2>. QED  BY <1>7, <1>8, <2>1, <2>2, <2>16, <2>17 DEF PayInv, Listed
<1>16. CASE MarkUnlocked
  <2>1. /\ step = "pay" /\ unpaid = {} /\ todo' = todo \ {k} /\ UNCHANGED <<rewards, total>>
        /\ step' \in {"list", "delete"}
    BY <1>5, <1>16 DEF MarkUnlocked
  <2>2. k \in todo /\ k \in BlockIds /\ blocks[k].valid = "yes" /\ PartlyPaid(k)
    BY <1>6, <2>1 DEF Attempt
  <2>3. Unlocked' = Unlocked \cup {k}
    BY <1>2, <1>3, <1>5, <1>16, <2>2 DEF Unlocked, UnlockerSteady
  <2>4. PICK g \in Rounds : Pays(k, g, total, Due(g)) /\ Fits(k, g, total)
    <3>1. PICK g \in Rounds :
              /\ Pays(k, g, total, {w \in Due(g) : ShareOf(g, w) \notin unpaid})
              /\ Fits(k, g, total)
      BY <2>2 DEF PartlyPaid
    <3>2. {w \in Due(g) : ShareOf(g, w) \notin unpaid} = Due(g)
      BY <2>1
    <3>. QED  BY <3>1, <3>2
  <2>5. PaidOff(k)
    BY <1>1, <2>4 DEF PaidOff
  <2>6. \A b \in Unlocked' : PaidOff(b)'
    BY <1>3, <1>9, <2>1, <2>3, <2>5, PaidOffStays DEF PayInv
  <2>7. Listed'
    <3>1. todo' \subseteq Unlockable'
      BY <1>2, <1>3, <1>5, <2>1 DEF PayInv, Listed, Unlockable, UnlockerSteady
    <3>2. \A b \in BlockIds' : blocks'[b].valid # "unknown" => b \notin OpenBlocks'
      BY <1>2, <1>3 DEF PayInv, Listed, UnlockerSteady
    <3>3. \A b \in Unlocked' : blocks'[b].valid = "yes"
      BY <1>2, <2>2, <2>3 DEF PayInv, Listed, UnlockerSteady, Unlocked
    <3>. QED  BY <3>1, <3>2, <3>3 DEF Listed
  <2>8. \A b : Attempt(b)'
    BY <2>1 DEF Attempt
  <2>9. \A b \in Unlocked : b \in Unlocked' /\ RowsStay(b)
    BY <1>9, <2>1, <2>3
  <2>. QED  BY <2>6, <2>7, <2>8, <2>9 DEF PayInv
<1>17. CASE UnlockerCrash
  <2>1. step' = "list" /\ todo' = {} /\ UNCHANGED <<rewards, blocks>>
    BY <1>17 DEF UnlockerCrash, dbVars
  <2>2. ~MarkUnlocked
    <3>1. deaths \in Nat /\ deaths' = deaths + 1
      BY <1>17, UnlockerAssumption DEF UnlockerCrash, TypeInv, TypeOK, UnlockerTypeOK
    <3>. QED  BY <3>1 DEF MarkUnlocked
  <2>. QED  BY <1>8, <1>9, <2>1, <2>2
<1>. QED  BY <1>10, <1>11, <1>12, <1>13, <1>14, <1>15, <1>16, <1>17 DEF UnlockerNext, UnlockerStep

\* Under calm traffic requests are calm.
Calmly == Quiet => CalmInv

\* What is paid stays in order, whatever the engine does meanwhile.
LEMMA PayInductive ==
    /\ Init => Calmly /\ PayInv
    /\ TypeInv /\ TypeInv' /\ Calmly /\ [Next]_vars => Calmly'
    /\ TypeInv /\ TypeInv' /\ Calmly /\ PayInv /\ [Next]_vars => PayInv'
<1>1. ASSUME Init PROVE PayInv
  <2>1. BlockIds = {} /\ todo = {}
    BY <1>1 DEF Init, DatabaseInit, UnlockerInit, BlockIds
  <2>. QED  BY <2>1 DEF PayInv, Listed, Unlocked
<1>2. Init => Calmly
  BY CalmInductive DEF Calmly
<1>3. TypeInv /\ TypeInv' /\ Calmly /\ [Next]_vars => Calmly'
  BY CalmInductive DEF Calmly
<1>4. ASSUME TypeInv, TypeInv', Calmly, PayInv, [Next]_vars PROVE PayInv'
  <2>1. CASE EngineNext /\ UNCHANGED unlockerVars
    BY <1>4, <2>1, EngineKeepsPay DEF Calmly
  <2>2. CASE UnlockerNext /\ UNCHANGED engineVars
    BY <1>4, <2>2, UnlockerKeepsPay
  <2>3. CASE UNCHANGED vars
    <3>1. /\ UNCHANGED <<blocks, roundShares, rewards, step, todo, total, unpaid>>
      BY <2>3 DEF vars, dbVars, unlockerVars
    <3>2. /\ BlockIds' = BlockIds /\ Unlocked' = Unlocked /\ Block' = Block
          /\ \A b : TotalShares(b)' = TotalShares(b)
          /\ \A b, g, t, W : Pays(b, g, t, W)' <=> Pays(b, g, t, W)
      BY <3>1 DEF BlockIds, Unlocked, Block, TotalShares, Pays, RowsOf
    <3>3. \A b, g, t : Fits(b, g, t)' <=> Fits(b, g, t)
      BY <3>1, <3>2 DEF Fits
    <3>4. Listed'
      BY <1>4, <3>1, <3>2 DEF PayInv, Listed, Unlockable, OpenBlocks
    <3>5. \A b : PaidOff(b) => PaidOff(b)'
      BY <3>2, <3>3 DEF PaidOff
    <3>6. ASSUME NEW b, PartlyPaid(b) PROVE PartlyPaid(b)'
      <4>1. PICK g \in Rounds :
                /\ unpaid \subseteq {ShareOf(g, w) : w \in Due(g)}
                /\ Pays(b, g, total, {w \in Due(g) : ShareOf(g, w) \notin unpaid})
                /\ Fits(b, g, total)
        BY <3>6 DEF PartlyPaid
      <4>2. PICK t, W : t = total /\ W = {w \in Due(g) : ShareOf(g, w) \notin unpaid}
        OBVIOUS
      <4>3. Pays(b, g, t, W)' /\ Fits(b, g, t)'
        BY <3>2, <3>3, <4>1, <4>2
      <4>. QED  BY <3>1, <4>1, <4>2, <4>3 DEF PartlyPaid, Pays, Fits
    <3>7. ASSUME NEW b, Attempt(b) PROVE Attempt(b)'
      <4>1. step = "rows" => Pays(b, NoShares, total, {})'
        BY <3>1, <3>7 DEF Attempt, Pays, RowsOf
      <4>. QED  BY <3>1, <3>2, <3>6, <3>7, <4>1 DEF Attempt, RowsOf
    <3>. QED  BY <1>4, <3>1, <3>2, <3>4, <3>5, <3>7 DEF PayInv
  <2>. QED  BY <1>4, <2>1, <2>2, <2>3 DEF Next
<1>. QED  BY <1>1, <1>2, <1>3, <1>4

\* Rows of a block that has paid off: those for shares, one for each wallet, and the fee
LEMMA PaidRows ==
    ASSUME NEW b, NEW g \in Rounds, NEW t, Pays(b, g, t, Due(g))
    PROVE  /\ SharePayments(b) = {ShareRow(b, w, g[w], t) : w \in Due(g)}
           /\ \A w \in Wallets :
                  PaymentsTo(b, w) = IF w \in Due(g) THEN {ShareRow(b, w, g[w], t)} ELSE {}
           /\ PaymentsTo(b, "pool") = FeeRows(b)
<1>1. RowsOf(b) = FeeRows(b) \cup {ShareRow(b, w, g[w], t) : w \in Due(g)}
  BY DEF Pays
<1>2. /\ SharePayments(b) = {row \in RowsOf(b) : row.for = "shares"}
      /\ \A w : PaymentsTo(b, w) = {row \in RowsOf(b) : row.wallet = w}
  BY DEF SharePayments, PaymentsTo, RowsOf
<1>3. \A row \in FeeRows(b) : row.wallet = "pool" /\ row.for = "fee"
  BY DEF FeeRows, FeeRow
<1>4. \A w, n : ShareRow(b, w, n, t).wallet = w /\ ShareRow(b, w, n, t).for = "shares"
  BY DEF ShareRow
<1>5. Due(g) \subseteq Wallets /\ "pool" \notin Wallets
  BY DatabaseAssumption DEF Due
<1>6. SharePayments(b) = {ShareRow(b, w, g[w], t) : w \in Due(g)}
  BY <1>1, <1>2, <1>3, <1>4
<1>7. PaymentsTo(b, "pool") = FeeRows(b)
  <2>1. \A w \in Due(g) : ShareRow(b, w, g[w], t).wallet # "pool"
    BY <1>4, <1>5
  <2>2. \A row \in RowsOf(b) : row.wallet = "pool" <=> row \in FeeRows(b)
    BY <1>1, <1>3, <2>1
  <2>3. PaymentsTo(b, "pool") = {row \in RowsOf(b) : row.wallet = "pool"}
    BY <1>2
  <2>. QED  BY <1>1, <2>2, <2>3
<1>8. ASSUME NEW w \in Wallets
      PROVE  PaymentsTo(b, w) = IF w \in Due(g) THEN {ShareRow(b, w, g[w], t)} ELSE {}
  BY <1>1, <1>2, <1>3, <1>4, <1>5
<1>. QED  BY <1>6, <1>7, <1>8

\* An unlocked block pays a wallet at most once, and its fee once if there is one, however
\* often the unlocker dies and starts its blocks again.
THEOREM OnePayment == Spec => []PaidAtMostOnce
<1>1. ASSUME PayInv PROVE PaidAtMostOnce
  <2>1. SUFFICES ASSUME NEW b \in Unlocked
                 PROVE  /\ \A w \in Wallets : Cardinality(PaymentsTo(b, w)) <= 1
                        /\ Cardinality(PaymentsTo(b, "pool")) = IF PaysFee THEN 1 ELSE 0
                        /\ \A row \in BagToSet(rewards) : row.block = b => rewards[row] = 1
    BY DEF PaidAtMostOnce
  <2>2. PICK g \in Rounds, t \in Nat : Pays(b, g, t, Due(g))
    BY <1>1, <2>1 DEF PayInv, PaidOff
  <2>3. \A row \in BagToSet(rewards) : row.block = b => rewards[row] = 1
    BY <2>2 DEF Pays, RowsOf
  <2>4. Cardinality(PaymentsTo(b, "pool")) = IF PaysFee THEN 1 ELSE 0
    <3>1. PaymentsTo(b, "pool") = FeeRows(b)
      BY <2>2, PaidRows
    <3>2. Cardinality(FeeRows(b)) = IF PaysFee THEN 1 ELSE 0
      BY FS_Singleton, FS_EmptySet DEF FeeRows
    <3>. QED  BY <3>1, <3>2
  <2>5. ASSUME NEW w \in Wallets PROVE Cardinality(PaymentsTo(b, w)) <= 1
    <3>1. PaymentsTo(b, w) = IF w \in Due(g) THEN {ShareRow(b, w, g[w], t)} ELSE {}
      BY <2>2, PaidRows
    <3>. QED  BY <3>1, FS_Singleton, FS_EmptySet
  <2>. QED  BY <2>3, <2>4, <2>5
<1>. QED  BY TypeInductive, PayInductive, <1>1, PTL DEF Spec

\* The parts an unlocked block has paid add up to what each was divided by, or more:
\* shares still arrive between the SUM and the rows.
THEOREM FullyPaid == Spec => []NeverUnderpaid
<1>1. ASSUME PayInv PROVE NeverUnderpaid
  <2>1. SUFFICES ASSUME NEW b \in Unlocked, NEW row \in SharePayments(b)
                 PROVE  PaidParts(b) >= row.of
    BY DEF NeverUnderpaid
  <2>2. PICK g \in Rounds, t \in Nat :
            Pays(b, g, t, Due(g)) /\ t <= SumFunctionOnSet(g, Wallets)
    BY <1>1, <2>1 DEF PayInv, PaidOff, Fits
  <2>3. SharePayments(b) = {ShareRow(b, w, g[w], t) : w \in Due(g)}
    BY <2>2, PaidRows
  <2>4. row.of = t
    BY <2>1, <2>3 DEF ShareRow
  <2>. DEFINE h == [w \in Wallets |-> ShareRow(b, w, g[w], t)]
              parts == [x \in SharePayments(b) |-> x.part * rewards[x]]
  <2>5. SharePayments(b) = {h[w] : w \in Due(g)}
    BY <2>3 DEF Due
  <2>6. IsFiniteSet(Wallets) /\ IsFiniteSet(Due(g)) /\ \A w \in Wallets : g[w] \in Nat
    BY <2>2, DatabaseAssumption, FS_Subset DEF Rounds, Due
  <2>7. \A w \in Due(g) : g[w] \in Nat /\ parts[h[w]] = g[w]
    <3>1. ASSUME NEW w \in Due(g) PROVE parts[h[w]] = g[w]
      <4>1. h[w] = ShareRow(b, w, g[w], t) /\ h[w] \in SharePayments(b) /\ g[w] \in Nat
        BY <2>5, <2>6 DEF Due
      <4>2. rewards[h[w]] = 1
        BY <2>2, <4>1 DEF Pays
      <4>3. h[w].part = g[w]
        BY <4>1 DEF ShareRow
      <4>. QED  BY <4>1, <4>2, <4>3
    <3>. QED  BY <2>6, <3>1 DEF Due
  <2>8. \A w, v \in Due(g) : h[w] = h[v] => w = v
    BY RowsApart DEF Due
  <2>9. SumFunctionOnSet(parts, {h[w] : w \in Due(g)}) = SumFunctionOnSet(g, Due(g))
    <3>. HIDE DEF h, parts
    <3>. QED  BY <2>6, <2>7, <2>8, SumRenamed
  <2>10. SumFunctionOnSet(g, Due(g)) = SumFunctionOnSet(g, Wallets)
    BY <2>6, SumSupport DEF Due
  <2>11. PaidParts(b) = SumFunctionOnSet(parts, SharePayments(b))
    BY DEF PaidParts, SumFunction
  <2>12. SumFunctionOnSet(g, Wallets) \in Nat
    BY <2>6, SumType
  <2>. HIDE DEF h, parts
  <2>. QED  BY <2>2, <2>4, <2>5, <2>9, <2>10, <2>11, <2>12
<1>. QED  BY TypeInductive, PayInductive, <1>1, PTL DEF Spec

\* Under calm traffic everyone in the round of an unlocked block has the part of the round
\* that is theirs.
THEOREM PaidInProportion == ASSUME Quiet PROVE Spec => []PaidExactly
<1>1. ASSUME PayInv, TypeInv PROVE PaidExactly
  <2>1. SUFFICES ASSUME NEW b \in Unlocked, NEW w \in Contributors(b)
                 PROVE  \E row \in PaymentsTo(b, w) :
                            row.part = roundShares[b][w] /\ row.of = TotalShares(b)
    BY DEF PaidExactly
  <2>2. PICK g \in Rounds, t \in Nat : /\ Pays(b, g, t, Due(g))
                                       /\ g = roundShares[b] /\ t = TotalShares(b)
    BY <1>1, <2>1 DEF PayInv, PaidOff, Fits
  <2>3. w \in Wallets /\ w \in Due(g)
    BY <2>1, <2>2 DEF Contributors, Due
  <2>4. PaymentsTo(b, w) = {ShareRow(b, w, g[w], t)}
    BY <2>2, <2>3, PaidRows
  <2>. QED  BY <2>2, <2>4 DEF ShareRow
<1>. QED  BY TypeInductive, PayInductive, <1>1, PTL DEF Spec

\* What an unlocked block has paid is never deleted, repeated or added to.
THEOREM RewardsFinal == Spec => UnlockedRewardsAreFinal
<1>1. ASSUME NEW b, IsABag(rewards), IsABag(rewards'), RowsStay(b)
      PROVE  RewardsOf({b})' = RewardsOf({b})
  BY <1>1 DEF RewardsOf, RowsStay, RowsOf
<1>2. ASSUME TypeInv, TypeInv', PayInv, [Next]_vars
      PROVE  \A b \in Unlocked : b \in Unlocked' /\ RewardsOf({b})' = RewardsOf({b})
  <2>1. IsABag(rewards) /\ IsABag(rewards')
    BY <1>2 DEF TypeInv, TypeOK, EngineTypeOK, DatabaseTypeOK
  <2>2. \A b \in Unlocked : b \in Unlocked' /\ RowsStay(b)
    <3>1. CASE EngineNext
      BY <1>2, <3>1, EngineIsSteady DEF EngineSteady, Unlocked, RowsStay, RowsOf
    <3>2. CASE UnlockerNext /\ UNCHANGED engineVars
      BY <1>2, <3>2, UnlockerKeepsPay
    <3>3. CASE UNCHANGED vars
      BY <3>3 DEF vars, dbVars, Unlocked, BlockIds, RowsStay, RowsOf
    <3>. QED  BY <1>2, <3>1, <3>2, <3>3 DEF Next
  <2>. QED  BY <1>1, <2>1, <2>2
<1>3. TypeInv /\ TypeInv' /\ PayInv /\ [Next]_vars =>
          [\A b \in Unlocked : b \in Unlocked' /\ RewardsOf({b})' = RewardsOf({b})]_vars
  BY <1>2
<1>. QED  BY TypeInductive, PayInductive, <1>3, PTL DEF Spec, UnlockedRewardsAreFinal

------------------------------------------------------------------------------
(* Verdicts on blocks: the validator of Payouts *)

\* A closed block with Depth blocks on top: no switch of branches reaches it.
Deep(b) == b \in BlockIds \ OpenBlocks /\ DeepEnough(b)

\* What is found of a deep block cannot become wrong.
Sound(v) == Deep(v.block) /\ v = VerdictOn(v.block)

\* What the columns and the chain are
ChainInv ==
    /\ blocks \in Seq(Blocks) /\ Len(blocks) <= MaxRounds
    /\ tip \in Nat /\ heights \in [1..MaxRounds -> Nat]

\* A verdict is only ever written on a deep block, and is what the chain says.
VerdictInv ==
    \A b \in BlockIds : blocks[b].valid # "unknown" =>
        Deep(b) /\ blocks[b].valid = VerdictOn(b).valid

\* The validator works on closed blocks, and what it holds or has posted is sound.
WorkInv ==
    /\ pass.asked \subseteq BlockIds \ OpenBlocks
    /\ \A v \in pass.unlockedBlocks : Sound(v)
    /\ \A v \in BagToSet(posts) : Sound(v)

\* The inductive invariant
VerdictIInv == ChainInv /\ VerdictInv /\ WorkInv

\* A step that leaves deep blocks as they are
ChainSteady ==
    /\ ChainInv'
    /\ Len(blocks) <= Len(blocks')
    /\ \A b \in BlockIds \ OpenBlocks : b \in (BlockIds \ OpenBlocks)'
    /\ \A b \in BlockIds : Deep(b) => Deep(b)' /\ (b \in kept <=> b \in kept')

\* What changes with one row of blocks, or with none if there is no such row
LEMMA VerdictWritten ==
    ASSUME NEW s \in Seq(Blocks), NEW c, NEW r, c \in 1..Len(s) => r \in Blocks,
           NEW t, t = [s EXCEPT ![c] = r]
    PROVE  /\ t \in Seq(Blocks) /\ Len(t) = Len(s)
           /\ \A b \in 1..Len(s) : b # c => t[b] = s[b]
           /\ c \in 1..Len(s) => t[c] = r
<1>1. s \in [1..Len(s) -> Blocks] /\ Len(s) \in Nat
  OBVIOUS
<1>2. t \in [1..Len(s) -> Blocks]
  BY <1>1
<1>3. t \in Seq(Blocks) /\ Len(t) = Len(s)
  BY <1>1, <1>2
<1>. QED  BY <1>1, <1>3

\* Every block has a height.
LEMMA IdsInRange == ChainInv => BlockIds \subseteq 1..MaxRounds
  BY ValidatorAssumption DEF ChainInv, BlockIds

\* What a bag holds after an addition and a removal
LEMMA BagsHold ==
    ASSUME NEW B, NEW S
    PROVE  /\ BagToSet(B (+) SetToBag(S)) = BagToSet(B) \cup S
           /\ BagToSet(B (-) SetToBag(S)) \subseteq BagToSet(B)
           /\ BagToSet(EmptyBag) = {}
<1>1. BagToSet(B (+) SetToBag(S)) = BagToSet(B) \cup S
  BY DEF BagToSet, SetToBag, (+)
<1>2. BagToSet(B (-) SetToBag(S)) \subseteq BagToSet(B)
  BY DEF BagToSet, SetToBag, (-)
<1>3. BagToSet(EmptyBag) = {}
  BY DEF BagToSet, SetToBag, EmptyBag
<1>. QED  BY <1>1, <1>2, <1>3

\* Sound verdicts stay sound in a steady step.
LEMMA SoundStays ==
    ASSUME ChainSteady, NEW v, Sound(v)
    PROVE  Sound(v)'
<1>. DEFINE b == v.block
<1>1. Deep(b) /\ v = VerdictOn(b)
  BY DEF Sound
<1>2. b \in BlockIds
  BY <1>1 DEF Deep
<1>3. Deep(b)' /\ (b \in kept <=> b \in kept')
  BY <1>1, <1>2 DEF ChainSteady
<1>4. VerdictOn(b)' = VerdictOn(b)
  BY <1>3 DEF VerdictOn
<1>. QED  BY <1>1, <1>3, <1>4 DEF Sound

\* The verdicts written stay true if a steady step writes none.
LEMMA VerdictsStay ==
    ASSUME VerdictIInv, ChainSteady, \A b \in BlockIds' : blocks'[b].valid =
               IF b \in BlockIds THEN blocks[b].valid ELSE "unknown"
    PROVE  VerdictInv'
<1>. SUFFICES ASSUME NEW b \in BlockIds', blocks'[b].valid # "unknown"
              PROVE  Deep(b)' /\ blocks'[b].valid = VerdictOn(b)'.valid
  BY DEF VerdictInv
<1>1. b \in BlockIds /\ blocks'[b].valid = blocks[b].valid
  OBVIOUS
<1>2. Deep(b) /\ blocks[b].valid = VerdictOn(b).valid
  BY <1>1 DEF VerdictIInv, VerdictInv
<1>3. Deep(b)' /\ (b \in kept <=> b \in kept')
  BY <1>1, <1>2 DEF ChainSteady
<1>4. VerdictOn(b)' = VerdictOn(b)
  BY <1>3 DEF VerdictOn
<1>. QED  BY <1>1, <1>2, <1>3, <1>4

\* A step that leaves chain and blocks alone is steady.
LEMMA UntouchedIsSteady ==
    ASSUME ChainInv, UNCHANGED <<blocks, chainVars>>
    PROVE  ChainSteady
<1>1. blocks' = blocks /\ tip' = tip /\ heights' = heights /\ kept' = kept
  BY DEF chainVars
<1>. QED  BY <1>1 DEF ChainSteady, ChainInv, Deep, DeepEnough, DepthOf, BlockIds, OpenBlocks

\* A step that neither closes a block nor touches the chain, and may add one
LEMMA SameColumns ==
    ASSUME ChainInv, ChainInv', UNCHANGED chainVars,
           Len(blocks) <= Len(blocks'),
           \A b \in BlockIds : blocks'[b].mined = blocks[b].mined
    PROVE  ChainSteady
<1>1. tip' = tip /\ heights' = heights /\ kept' = kept
  BY DEF chainVars
<1>2. \A b \in BlockIds : b \in BlockIds'
  BY DEF ChainInv, BlockIds
<1>3. \A b \in BlockIds \ OpenBlocks : b \in (BlockIds \ OpenBlocks)'
  BY <1>2 DEF OpenBlocks
<1>4. \A b \in BlockIds : Deep(b) => Deep(b)'
  BY <1>1, <1>3 DEF Deep, DeepEnough, DepthOf
<1>. QED  BY <1>1, <1>3, <1>4 DEF ChainSteady

\* Work that is left alone in a steady step stays sound.
LEMMA WorkStays ==
    ASSUME WorkInv, ChainSteady,
           pass'.asked \subseteq BlockIds \ OpenBlocks,
           \A v \in pass'.unlockedBlocks : Sound(v),
           \A v \in BagToSet(posts') : Sound(v)
    PROVE  WorkInv'
<1>1. pass'.asked \subseteq (BlockIds \ OpenBlocks)'
  BY DEF ChainSteady
<1>2. \A v \in pass'.unlockedBlocks : Sound(v)'
  BY SoundStays
<1>3. \A v \in BagToSet(posts') : Sound(v)'
  BY SoundStays
<1>. QED  BY <1>1, <1>2, <1>3 DEF WorkInv

\* It holds before there is any block.
LEMMA InitVerdictIInv == PayoutsInit => VerdictIInv
<1>. SUFFICES ASSUME PayoutsInit PROVE VerdictIInv
  OBVIOUS
<1>1. blocks = <<>> /\ tip = 0 /\ heights = [b \in 1..MaxRounds |-> 0]
      /\ pass = Resting /\ posts = EmptyBag
  BY DEF PayoutsInit, DatabaseInit, ValidatorInit
<1>2. BlockIds = {}
  BY <1>1 DEF BlockIds
<1>3. ChainInv
  BY <1>1, ValidatorAssumption DEF ChainInv
<1>4. WorkInv
  BY <1>1, BagsHold DEF WorkInv, Resting
<1>. QED  BY <1>2, <1>3, <1>4 DEF VerdictIInv, VerdictInv

------------------------------------------------------------------------------
(* Rounds and the chain *)

\* A new round's block has no verdict.
LEMMA OpenKeeps == ASSUME VerdictIInv, Open PROVE VerdictIInv'
<1>. DEFINE new == [mined |-> 0, valid |-> "unknown", unlocked |-> FALSE]
<1>1. /\ blocks' = Append(blocks, new) /\ Len(blocks) < MaxRounds
      /\ UNCHANGED <<chainVars, validatorVars>>
  BY DEF Open, InsertBlock
<1>2. new \in Blocks
  BY DEF Blocks
<1>3. /\ blocks' \in Seq(Blocks) /\ Len(blocks') = Len(blocks) + 1
      /\ \A b \in BlockIds : blocks'[b] = blocks[b]
      /\ blocks'[Len(blocks) + 1] = new
  BY <1>1, <1>2 DEF VerdictIInv, ChainInv, BlockIds
<1>4. ChainInv'
  BY <1>1, <1>3, ValidatorAssumption DEF VerdictIInv, ChainInv, chainVars
<1>5. ChainSteady
  <2>1. Len(blocks) <= Len(blocks')
    BY <1>3 DEF VerdictIInv, ChainInv
  <2>. QED  BY <1>1, <1>3, <1>4, <2>1, SameColumns DEF VerdictIInv
<1>6. \A b \in BlockIds' : blocks'[b].valid =
          IF b \in BlockIds THEN blocks[b].valid ELSE "unknown"
  BY <1>3 DEF VerdictIInv, ChainInv, BlockIds
<1>7. WorkInv'
  BY <1>1, <1>5, WorkStays DEF VerdictIInv, WorkInv, validatorVars
<1>. QED  BY <1>4, <1>5, <1>6, <1>7, VerdictsStay DEF VerdictIInv

\* Whatever leaves blocks, chain and validator alone keeps it, as Count does.
LEMMA CountKeeps ==
    ASSUME VerdictIInv, UNCHANGED <<blocks, chainVars, validatorVars>>
    PROVE  VerdictIInv'
<1>1. ChainSteady
  BY UntouchedIsSteady DEF VerdictIInv
<1>2. VerdictInv'
  BY <1>1, VerdictsStay DEF BlockIds
<1>3. WorkInv'
  BY <1>1, WorkStays DEF VerdictIInv, WorkInv, validatorVars
<1>. QED  BY <1>1, <1>2, <1>3 DEF VerdictIInv, ChainSteady

\* The block that closes the round is new on the chain, so not deep.
LEMMA CloseKeeps == ASSUME VerdictIInv, Close PROVE VerdictIInv'
<1>1. PICK c \in OpenBlocks :
          /\ blocks' = [blocks EXCEPT ![c].mined = 1]
          /\ heights' = [heights EXCEPT ![c] = tip + 1]
          /\ kept' = kept \cup {c}
  BY DEF Close
<1>2. tip' = tip + 1 /\ UNCHANGED validatorVars
  BY DEF Close
<1>3. c \in BlockIds /\ c \in 1..MaxRounds /\ ~Deep(c)
  <2>1. c \in BlockIds /\ c \in OpenBlocks
    BY DEF OpenBlocks
  <2>2. c \in 1..MaxRounds
    BY <2>1, IdsInRange DEF VerdictIInv
  <2>. QED  BY <2>1, <2>2 DEF Deep
<1>4. /\ blocks' \in Seq(Blocks) /\ Len(blocks') = Len(blocks)
      /\ \A b \in BlockIds : blocks'[b].valid = blocks[b].valid
      /\ \A b \in BlockIds \ {c} : blocks'[b] = blocks[b]
      /\ blocks'[c].mined = 1
  <2>. DEFINE row == [blocks[c] EXCEPT !.mined = 1]
  <2>1. blocks \in Seq(Blocks) /\ BlockIds = 1..Len(blocks)
    BY DEF VerdictIInv, ChainInv, BlockIds
  <2>2. blocks[c] \in Blocks
    BY <1>3, <2>1
  <2>3. row \in Blocks /\ row.mined = 1 /\ row.valid = blocks[c].valid
    BY <2>2 DEF Blocks
  <2>4. blocks' = [blocks EXCEPT ![c] = row]
    BY <1>1
  <2>. HIDE DEF row
  <2>5. /\ blocks' \in Seq(Blocks) /\ Len(blocks') = Len(blocks)
        /\ \A b \in BlockIds : b # c => blocks'[b] = blocks[b]
        /\ blocks'[c] = row
    BY <1>3, <2>1, <2>3, <2>4, VerdictWritten
  <2>. QED  BY <1>3, <2>3, <2>5
<1>5. ChainInv'
  BY <1>1, <1>2, <1>3, <1>4 DEF VerdictIInv, ChainInv
<1>6. BlockIds' = BlockIds
  BY <1>4 DEF BlockIds
<1>7. \A b \in BlockIds \ OpenBlocks : b \in (BlockIds \ OpenBlocks)'
  BY <1>1, <1>4, <1>6 DEF OpenBlocks
<1>8. ASSUME NEW b \in BlockIds, Deep(b) PROVE Deep(b)' /\ (b \in kept <=> b \in kept')
  <2>1. b # c /\ b \in (BlockIds \ OpenBlocks)'
    BY <1>3, <1>7, <1>8 DEF Deep
  <2>2. heights'[b] = heights[b] /\ heights[b] \in Nat
    BY <1>1, <2>1, IdsInRange DEF VerdictIInv, ChainInv
  <2>3. DeepEnough(b)'
    BY <1>2, <1>8, <2>2, ValidatorAssumption DEF Deep, DeepEnough, DepthOf, VerdictIInv, ChainInv
  <2>. QED  BY <1>1, <2>1, <2>3 DEF Deep
<1>9. ChainSteady
  BY <1>4, <1>5, <1>7, <1>8 DEF ChainSteady, VerdictIInv, ChainInv
<1>10. VerdictInv'
  BY <1>4, <1>6, <1>9, VerdictsStay
<1>11. WorkInv'
  BY <1>2, <1>9, WorkStays DEF VerdictIInv, WorkInv, validatorVars
<1>. QED  BY <1>5, <1>10, <1>11 DEF VerdictIInv

\* A switch of branches drops and restores shallow blocks only.
LEMMA ChainGrowsKeeps == ASSUME VerdictIInv, ChainGrows PROVE VerdictIInv'
<1>1. PICK K \in SUBSET Shallow : kept' = (kept \ Shallow) \cup K
  BY DEF ChainGrows
<1>2. tip' = tip + 1 /\ UNCHANGED <<heights, blocks, validatorVars>>
  BY DEF ChainGrows, dbVars
<1>3. ChainInv'
  BY <1>2 DEF VerdictIInv, ChainInv
<1>4. BlockIds' = BlockIds /\ OpenBlocks' = OpenBlocks
  BY <1>2 DEF BlockIds, OpenBlocks
<1>5. ASSUME NEW b \in BlockIds, Deep(b) PROVE Deep(b)' /\ (b \in kept <=> b \in kept')
  <2>1. heights[b] \in Nat /\ tip \in Nat /\ Depth \in Nat
    BY ValidatorAssumption DEF VerdictIInv, ChainInv, BlockIds
  <2>2. b \notin Shallow
    BY <1>5, <2>1 DEF Deep, DeepEnough, DepthOf, Shallow
  <2>3. DeepEnough(b)'
    BY <1>2, <1>5, <2>1 DEF Deep, DeepEnough, DepthOf
  <2>. QED  BY <1>1, <1>4, <1>5, <2>2, <2>3 DEF Deep
<1>6. ChainSteady
  BY <1>2, <1>3, <1>4, <1>5 DEF ChainSteady, VerdictIInv, ChainInv
<1>7. VerdictInv'
  BY <1>2, <1>4, <1>6, VerdictsStay
<1>8. WorkInv'
  BY <1>2, <1>6, WorkStays DEF VerdictIInv, WorkInv, validatorVars
<1>. QED  BY <1>3, <1>7, <1>8 DEF VerdictIInv

------------------------------------------------------------------------------
(* The validator *)

\* A pass asks for closed blocks only and keeps sound verdicts.
LEMMA PassKeeps ==
    ASSUME VerdictIInv, UNCHANGED <<blocks, chainVars>>,
           pass'.asked \subseteq BlockIds \ OpenBlocks,
           \A v \in pass'.unlockedBlocks : Sound(v),
           \A v \in BagToSet(posts') : Sound(v)
    PROVE  VerdictIInv'
<1>1. ChainSteady
  BY UntouchedIsSteady DEF VerdictIInv
<1>2. VerdictInv'
  BY <1>1, VerdictsStay DEF BlockIds
<1>3. WorkInv'
  BY <1>1, WorkStays DEF VerdictIInv
<1>. QED  BY <1>1, <1>2, <1>3 DEF VerdictIInv, ChainSteady

\* A pass asks for closed blocks.
LEMMA WakeKeeps == ASSUME VerdictIInv, Wake PROVE VerdictIInv'
<1>1. pass'.asked = BlocksToValidate /\ pass'.unlockedBlocks = {}
  BY DEF Wake, Resting
<1>2. BlocksToValidate \subseteq BlockIds \ OpenBlocks
  BY DEF BlocksToValidate
<1>3. UNCHANGED <<blocks, chainVars, posts>>
  BY DEF Wake, dbVars
<1>. QED  BY <1>1, <1>2, <1>3, PassKeeps DEF VerdictIInv, WorkInv

\* A verdict is formed when the header comes, and only on a deep block.
LEMMA HeaderKeeps == ASSUME VerdictIInv, NEW b \in pass.asked, HeaderAnswered(b) PROVE VerdictIInv'
<1>. DEFINE found == pass.unlockedBlocks \cup (IF DeepEnough(b) THEN {VerdictOn(b)} ELSE {})
<1>1. UNCHANGED <<blocks, chainVars>>
  BY DEF HeaderAnswered, dbVars
<1>2. \A v \in found : Sound(v)
  <2>1. b \in BlockIds \ OpenBlocks
    BY DEF VerdictIInv, WorkInv
  <2>2. VerdictOn(b).block = b
    BY DEF VerdictOn
  <2>3. DeepEnough(b) => Sound(VerdictOn(b))
    BY <2>1, <2>2 DEF Sound, Deep
  <2>. QED  BY <2>3 DEF VerdictIInv, WorkInv
<1>3. CASE pass.asked = {b}
  <2>1. pass' = Resting /\ posts' = posts (+) SetToBag(found)
    BY <1>3 DEF HeaderAnswered
  <2>2. BagToSet(posts') = BagToSet(posts) \cup found
    BY <2>1, BagsHold
  <2>. HIDE DEF found
  <2>3. \A v \in BagToSet(posts') : Sound(v)
    BY <1>2, <2>2 DEF VerdictIInv, WorkInv
  <2>. QED  BY <1>1, <2>1, <2>3, PassKeeps DEF Resting
<1>4. CASE pass.asked # {b}
  <2>1. pass' = [pass EXCEPT !.asked = @ \ {b}, !.unlockedBlocks = found] /\ UNCHANGED posts
    BY <1>4 DEF HeaderAnswered
  <2>. HIDE DEF found
  <2>2. pass'.asked \subseteq BlockIds \ OpenBlocks /\ pass'.unlockedBlocks \subseteq found
    BY <2>1 DEF VerdictIInv, WorkInv
  <2>. QED  BY <1>1, <1>2, <2>1, <2>2, PassKeeps DEF VerdictIInv, WorkInv
<1>. QED  BY <1>3, <1>4

\* validate_block writes a sound verdict, whenever it was formed.
LEMMA VerdictArrivesKeeps ==
    ASSUME VerdictIInv, NEW v \in BagToSet(posts), VerdictArrives(v)
    PROVE  VerdictIInv'
<1>1. /\ posts' = posts (-) SetToBag({v})
      /\ blocks' = [blocks EXCEPT ![v.block].valid = v.valid]
      /\ UNCHANGED <<chainVars, pass>>
  BY DEF VerdictArrives
<1>2. Deep(v.block) /\ v = VerdictOn(v.block)
  BY DEF VerdictIInv, WorkInv, Sound
<1>3. v.block \in BlockIds /\ v.valid \in {"yes", "no"}
  <2>1. VerdictOn(v.block).valid \in {"yes", "no"}
    BY DEF VerdictOn
  <2>. QED  BY <1>2, <2>1 DEF Deep
<1>4. /\ blocks' \in Seq(Blocks) /\ Len(blocks') = Len(blocks)
      /\ \A b \in BlockIds : blocks'[b].mined = blocks[b].mined
      /\ \A b \in BlockIds \ {v.block} : blocks'[b] = blocks[b]
      /\ blocks'[v.block].valid = v.valid
  <2>. DEFINE row == [blocks[v.block] EXCEPT !.valid = v.valid]
  <2>1. blocks \in Seq(Blocks) /\ BlockIds = 1..Len(blocks)
    BY DEF VerdictIInv, ChainInv, BlockIds
  <2>2. blocks[v.block] \in Blocks
    BY <1>3, <2>1
  <2>3. row \in Blocks /\ row.valid = v.valid /\ row.mined = blocks[v.block].mined
    BY <1>3, <2>2 DEF Blocks
  <2>4. blocks' = [blocks EXCEPT ![v.block] = row]
    BY <1>1
  <2>. HIDE DEF row
  <2>5. /\ blocks' \in Seq(Blocks) /\ Len(blocks') = Len(blocks)
        /\ \A b \in BlockIds : b # v.block => blocks'[b] = blocks[b]
        /\ blocks'[v.block] = row
    BY <1>3, <2>1, <2>3, <2>4, VerdictWritten
  <2>. QED  BY <1>3, <2>3, <2>5
<1>5. ChainInv'
  BY <1>1, <1>4 DEF VerdictIInv, ChainInv, chainVars
<1>6. ChainSteady
  <2>1. Len(blocks) <= Len(blocks')
    BY <1>4 DEF VerdictIInv, ChainInv
  <2>. QED  BY <1>1, <1>4, <1>5, <2>1, SameColumns DEF VerdictIInv
<1>7. VerdictInv'
  <2>. SUFFICES ASSUME NEW b \in BlockIds', blocks'[b].valid # "unknown"
                PROVE  Deep(b)' /\ blocks'[b].valid = VerdictOn(b)'.valid
    BY DEF VerdictInv
  <2>1. b \in BlockIds
    BY <1>4 DEF BlockIds
  <2>2. Deep(b) /\ blocks'[b].valid = VerdictOn(b).valid
    BY <1>2, <1>4, <2>1 DEF VerdictIInv, VerdictInv
  <2>3. Deep(b)' /\ VerdictOn(b)' = VerdictOn(b)
    BY <1>1, <1>6, <2>1, <2>2 DEF ChainSteady, VerdictOn, chainVars
  <2>. QED  BY <2>2, <2>3
<1>8. WorkInv'
  <2>1. BagToSet(posts') \subseteq BagToSet(posts)
    BY <1>1, BagsHold
  <2>. QED  BY <1>1, <1>6, <2>1, WorkStays DEF VerdictIInv, WorkInv
<1>. QED  BY <1>5, <1>7, <1>8 DEF VerdictIInv

\* Whatever fails takes work away and adds none.
LEMMA FaultKeeps ==
    ASSUME VerdictIInv, QueryFails \/ Dies \/ (\E b \in pass.asked : HeaderFails(b))
                 \/ (\E v \in BagToSet(posts) : VerdictLost(v))
    PROVE  VerdictIInv'
<1>1. UNCHANGED <<blocks, chainVars>>
  <2>1. CASE QueryFails \/ Dies
    BY <2>1 DEF QueryFails, Dies, dbVars
  <2>2. ASSUME NEW b \in pass.asked, HeaderFails(b) PROVE UNCHANGED <<blocks, chainVars>>
    BY <2>2 DEF HeaderFails, dbVars
  <2>3. ASSUME NEW v \in BagToSet(posts), VerdictLost(v)
        PROVE  UNCHANGED <<blocks, chainVars>>
    BY <2>3 DEF VerdictLost, dbVars
  <2>. QED  BY <2>1, <2>2, <2>3
<1>2. pass'.asked \subseteq pass.asked /\ pass'.unlockedBlocks \subseteq pass.unlockedBlocks
  <2>1. CASE QueryFails \/ Dies
    BY <2>1 DEF QueryFails, Dies, Resting
  <2>2. ASSUME NEW b \in pass.asked, HeaderFails(b)
        PROVE  pass'.asked = {} /\ pass'.unlockedBlocks = {}
    BY <2>2 DEF HeaderFails, Resting
  <2>3. ASSUME NEW v \in BagToSet(posts), VerdictLost(v) PROVE pass' = pass
    BY <2>3 DEF VerdictLost
  <2>. QED  BY <2>1, <2>2, <2>3
<1>3. BagToSet(posts') \subseteq BagToSet(posts)
  BY BagsHold DEF QueryFails, Dies, HeaderFails, VerdictLost
<1>. QED  BY <1>1, <1>2, <1>3, PassKeeps DEF VerdictIInv, WorkInv

\* So does every step of the validator and of the chain.
LEMMA ValidatorKeepsVerdicts == ASSUME VerdictIInv, ValidatorNext PROVE VerdictIInv'
<1>1. CASE Wake
  BY <1>1, WakeKeeps
<1>2. ASSUME NEW b \in pass.asked, HeaderAnswered(b) PROVE VerdictIInv'
  BY <1>2, HeaderKeeps
<1>3. CASE SomeVerdictArrives
  BY <1>3, VerdictArrivesKeeps DEF SomeVerdictArrives
<1>4. CASE ChainGrows
  BY <1>4, ChainGrowsKeeps
<1>5. CASE QueryFails \/ Dies \/ (\E b \in pass.asked : HeaderFails(b))
           \/ (\E v \in BagToSet(posts) : VerdictLost(v))
  BY <1>5, FaultKeeps
<1>. QED  BY <1>1, <1>2, <1>3, <1>4, <1>5 DEF ValidatorNext, ValidatorStep

------------------------------------------------------------------------------
(* The unlocker *)

\* It writes the column unlocked, and nothing else of blocks.
LEMMA UnlockerKeepsVerdicts ==
    ASSUME VerdictIInv, UnlockerNext, UNCHANGED <<chainVars, validatorVars>>
    PROVE  VerdictIInv'
<1>1. CASE MarkUnlocked
  <2>1. blocks' = [blocks EXCEPT ![Block].unlocked = TRUE]
    BY <1>1 DEF MarkUnlocked
  <2>2. /\ blocks' \in Seq(Blocks) /\ Len(blocks') = Len(blocks)
        /\ \A b \in BlockIds : /\ blocks'[b].mined = blocks[b].mined
                               /\ blocks'[b].valid = blocks[b].valid
    <3>. DEFINE row == [blocks[Block] EXCEPT !.unlocked = TRUE]
    <3>1. blocks \in Seq(Blocks) /\ BlockIds = 1..Len(blocks)
      BY DEF VerdictIInv, ChainInv, BlockIds
    <3>2. CASE Block \in BlockIds
      <4>1. blocks[Block] \in Blocks
        BY <3>1, <3>2
      <4>2. row \in Blocks /\ row.mined = blocks[Block].mined
            /\ row.valid = blocks[Block].valid
        BY <4>1 DEF Blocks
      <4>3. blocks' = [blocks EXCEPT ![Block] = row]
        BY <2>1
      <4>. HIDE DEF row
      <4>4. PICK k : k = Block
        OBVIOUS
      <4>5. /\ blocks' \in Seq(Blocks) /\ Len(blocks') = Len(blocks)
            /\ \A b \in BlockIds : b # k => blocks'[b] = blocks[b]
            /\ blocks'[k] = row
        <5>1. k \in BlockIds /\ blocks' = [blocks EXCEPT ![k] = row]
          BY <3>2, <4>3, <4>4
        <5>. QED  BY <3>1, <4>2, <5>1, VerdictWritten
      <4>. QED  BY <4>2, <4>4, <4>5
    <3>3. CASE Block \notin BlockIds
      <4>1. blocks \in [BlockIds -> Blocks]
        BY <3>1
      <4>2. blocks' = blocks
        BY <2>1, <3>3, <4>1
      <4>. QED  BY <3>1, <4>2
    <3>. QED  BY <3>2, <3>3
  <2>3. ChainInv'
    BY <2>2 DEF VerdictIInv, ChainInv, chainVars
  <2>4. ChainSteady
    <3>1. Len(blocks) <= Len(blocks')
      BY <2>2 DEF VerdictIInv, ChainInv
    <3>. QED  BY <2>2, <2>3, <3>1, SameColumns DEF VerdictIInv
  <2>5. BlockIds' = BlockIds
    BY <2>2 DEF BlockIds
  <2>6. VerdictInv'
    BY <2>2, <2>4, <2>5, VerdictsStay
  <2>7. WorkInv'
    BY <2>4, WorkStays DEF VerdictIInv, WorkInv, validatorVars
  <2>. QED  BY <2>3, <2>6, <2>7 DEF VerdictIInv
<1>2. CASE ~MarkUnlocked
  <2>1. UNCHANGED blocks
    BY <1>2 DEF UnlockerNext, UnlockerStep, UnlockerCrash, ListBlocks, DeleteRewards,
                SumShares, PayFee, SelectRows, PayRow, dbVars
  <2>. QED  BY <2>1, CountKeeps
<1>. QED  BY <1>1, <1>2

\* Every step of the composition keeps it.
LEMMA NextVerdictIInv == VerdictIInv /\ [PayoutsNext]_payoutVars => VerdictIInv'
<1>. SUFFICES ASSUME VerdictIInv, [PayoutsNext]_payoutVars PROVE VerdictIInv'
  OBVIOUS
<1>1. CASE Open
  BY <1>1, OpenKeeps
<1>2. CASE Close
  BY <1>2, CloseKeeps
<1>3. ASSUME NEW w \in Wallets, Count(w) PROVE VerdictIInv'
  BY <1>3, CountKeeps DEF Count
<1>4. CASE ValidatorNext
  BY <1>4, ValidatorKeepsVerdicts
<1>5. CASE UnlockerNext /\ UNCHANGED <<chainVars, validatorVars>>
  BY <1>5, UnlockerKeepsVerdicts
<1>6. CASE UNCHANGED payoutVars
  BY <1>6, CountKeeps DEF payoutVars, dbVars
<1>. QED  BY <1>1, <1>2, <1>3, <1>4, <1>5, <1>6 DEF PayoutsNext

\* No block is ever found valid that the chain has dropped, nor written off that it
\* has kept, although verdicts are posted without waiting and are listed, formed and
\* written at different times (runInterval, blockValidator.js).
THEOREM NoWrongVerdict == PayoutsSpec => []VerdictsAreTrue
<1>1. VerdictIInv => VerdictsAreTrue
  BY DEF VerdictIInv, VerdictInv, VerdictsAreTrue
<1>. QED  BY InitVerdictIInv, NextVerdictIInv, <1>1, PTL DEF PayoutsSpec

------------------------------------------------------------------------------
(* What the validator's variables hold *)

\* Posts stay a bag, whatever is put there or taken away.
LEMMA BagsStay ==
    ASSUME NEW B, IsABag(B), NEW S
    PROVE  /\ IsABag(B (+) SetToBag(S))
           /\ IsABag(B (-) SetToBag(S))
           /\ IsABag(EmptyBag)
<1>. DEFINE D == BagToSet(B)
            T(x) == IF x \in S THEN 1 ELSE 0
            P(x) == (IF x \in D THEN B[x] ELSE 0) + T(x)
            M(x) == B[x] - T(x)
<1>1. B \in [D -> {n \in Nat : n > 0}]
  BY DEF IsABag, BagToSet
<1>2. B (+) SetToBag(S) = [x \in D \cup S |-> P(x)]
  BY DEF SetToBag, (+), BagToSet
<1>3. B (-) SetToBag(S) = [x \in {y \in D : M(y) > 0} |-> M(x)]
  BY <1>1 DEF SetToBag, (-), BagToSet
<1>4. \A x \in D \cup S : P(x) \in {n \in Nat : n > 0}
  BY <1>1
<1>5. \A x \in {y \in D : M(y) > 0} : M(x) \in {n \in Nat : n > 0}
  BY <1>1
<1>6. IsABag(EmptyBag)
  BY DEF EmptyBag, SetToBag, IsABag
<1>. HIDE DEF P, M, D
<1>7. DOMAIN (B (+) SetToBag(S)) = D \cup S /\ DOMAIN (B (-) SetToBag(S)) = {y \in D : M(y) > 0}
  BY <1>2, <1>3
<1>. QED  BY <1>2, <1>3, <1>4, <1>5, <1>6, <1>7 DEF IsABag

\* At the start nothing is asked for or posted.
LEMMA InitValidatorType == PayoutsInit => ValidatorTypeOK
<1>1. BagToSet(EmptyBag) = {} /\ IsABag(EmptyBag)
  BY DEF EmptyBag, SetToBag, IsABag, BagToSet
<1>. QED  BY <1>1, ValidatorAssumption DEF PayoutsInit, ValidatorInit, ValidatorTypeOK, Resting

\* A pass as it was, or given up, while the chain stays and verdicts are taken away
LEMMA FaultTyped ==
    ASSUME ValidatorTypeOK, UNCHANGED <<dbVars, chainVars>>, faults' \in 0..MaxFaults,
           pass' \in {pass, Resting, [Resting EXCEPT !.at = "halted"]},
           IsABag(posts'), BagToSet(posts') \subseteq BagToSet(posts)
    PROVE  ValidatorTypeOK'
<1>1. /\ pass'.at \in {"timer", "headers", "halted"}
      /\ pass'.at = "headers" <=> pass'.asked # {}
      /\ pass'.asked \subseteq BlockIds
      /\ pass'.unlockedBlocks \subseteq Verdicts
  BY DEF ValidatorTypeOK, Resting
<1>. QED  BY <1>1 DEF ValidatorTypeOK, dbVars, chainVars, BlockIds

\* A header's answer adds a verdict on a block that was asked for.
LEMMA HeaderTyped ==
    ASSUME ValidatorTypeOK, ChainInv, NEW b \in pass.asked, HeaderAnswered(b)
    PROVE  ValidatorTypeOK'
<1>. DEFINE found == pass.unlockedBlocks \cup (IF DeepEnough(b) THEN {VerdictOn(b)} ELSE {})
<1>1. UNCHANGED <<blocks, tip, heights, kept, faults>> /\ BlockIds' = BlockIds
  BY DEF HeaderAnswered, dbVars, chainVars, BlockIds
<1>2. b \in 1..MaxRounds
  BY IdsInRange DEF ValidatorTypeOK
<1>3. found \subseteq Verdicts
  BY <1>2 DEF VerdictOn, Verdicts, ValidatorTypeOK
<1>4. CASE pass.asked = {b}
  <2>1. pass' = Resting /\ posts' = posts (+) SetToBag(found)
    BY <1>4 DEF HeaderAnswered
  <2>. HIDE DEF found
  <2>2. BagToSet(posts') = BagToSet(posts) \cup found /\ IsABag(posts')
    BY <2>1, BagsHold, BagsStay DEF ValidatorTypeOK
  <2>. QED  BY <1>1, <1>3, <2>1, <2>2 DEF ValidatorTypeOK, Resting
<1>5. CASE pass.asked # {b}
  <2>1. pass' = [pass EXCEPT !.asked = @ \ {b}, !.unlockedBlocks = found] /\ UNCHANGED posts
    BY <1>5 DEF HeaderAnswered
  <2>. HIDE DEF found
  <2>2. pass' = [pass EXCEPT !.asked = pass.asked \ {b}, !.unlockedBlocks = found]
    BY <2>1
  <2>. QED  BY <1>1, <1>3, <1>5, <2>1, <2>2 DEF ValidatorTypeOK
<1>. QED  BY <1>4, <1>5

\* Every step of the composition keeps these types.
LEMMA NextValidatorType ==
    ValidatorTypeOK /\ VerdictIInv /\ VerdictIInv' /\ [PayoutsNext]_payoutVars => ValidatorTypeOK'
<1>. SUFFICES ASSUME ValidatorTypeOK, VerdictIInv, VerdictIInv', [PayoutsNext]_payoutVars
              PROVE  ValidatorTypeOK'
  OBVIOUS
<1>1. Fault => faults' \in 0..MaxFaults
  BY ValidatorAssumption DEF Fault, ValidatorTypeOK
<1>2. ASSUME UNCHANGED <<chainVars, validatorVars>>, BlockIds \subseteq BlockIds'
      PROVE  ValidatorTypeOK'
  BY <1>2 DEF ValidatorTypeOK, chainVars, validatorVars
<1>3. ASSUME Len(blocks) <= Len(blocks') PROVE BlockIds \subseteq BlockIds'
  BY <1>3 DEF VerdictIInv, ChainInv, BlockIds
<1>4. CASE Open
  <2>1. Len(blocks') = Len(blocks) + 1
    BY <1>4 DEF Open, InsertBlock, VerdictIInv, ChainInv
  <2>. QED  BY <1>2, <1>3, <1>4, <2>1 DEF Open, VerdictIInv, ChainInv
<1>5. CASE Close
  <2>1. PICK c \in OpenBlocks : /\ blocks' = [blocks EXCEPT ![c].mined = 1]
                                /\ heights' = [heights EXCEPT ![c] = tip + 1]
                                /\ kept' = kept \cup {c}
    BY <1>5 DEF Close
  <2>2. BlockIds' = BlockIds /\ c \in BlockIds /\ c \in 1..MaxRounds
    BY <2>1, IdsInRange DEF VerdictIInv, ChainInv, BlockIds, OpenBlocks
  <2>3. tip' = tip + 1 /\ tip' \in 0..MaxHeight /\ UNCHANGED validatorVars
    BY <1>5, ValidatorAssumption DEF Close, ValidatorTypeOK
  <2>. QED  BY <2>1, <2>2, <2>3 DEF ValidatorTypeOK, validatorVars
<1>6. CASE \E w \in Wallets : Count(w)
  BY <1>2, <1>6 DEF Count, BlockIds
<1>7. CASE UnlockerNext /\ UNCHANGED <<chainVars, validatorVars>>
  <2>1. Len(blocks') = Len(blocks)
    <3>1. CASE MarkUnlocked
      BY <3>1 DEF MarkUnlocked, VerdictIInv, ChainInv
    <3>2. CASE ~MarkUnlocked
      BY <1>7, <3>2 DEF UnlockerNext, UnlockerStep, UnlockerCrash, ListBlocks, DeleteRewards,
                        SumShares, PayFee, SelectRows, PayRow, dbVars
    <3>. QED  BY <3>1, <3>2
  <2>. QED  BY <1>2, <1>3, <1>7, <2>1 DEF VerdictIInv, ChainInv
<1>8. CASE ChainGrows
  <2>1. PICK K \in SUBSET Shallow : kept' = (kept \ Shallow) \cup K
    BY <1>8 DEF ChainGrows
  <2>2. tip' \in 0..MaxHeight /\ UNCHANGED <<heights, blocks, validatorVars>>
    BY <1>8, ValidatorAssumption DEF ChainGrows, ValidatorTypeOK, dbVars
  <2>. QED  BY <2>1, <2>2 DEF ValidatorTypeOK, validatorVars, Shallow, BlockIds
<1>9. CASE Wake
  <2>1. /\ pass'.at = "headers" /\ pass'.asked = BlocksToValidate /\ pass'.unlockedBlocks = {}
        /\ BlocksToValidate # {} /\ BlocksToValidate \subseteq BlockIds
    BY <1>9 DEF Wake, Resting, BlocksToValidate
  <2>. QED  BY <1>9, <2>1 DEF Wake, ValidatorTypeOK, dbVars, chainVars, BlockIds
<1>10. ASSUME NEW b \in pass.asked, HeaderAnswered(b) PROVE ValidatorTypeOK'
  BY <1>10, HeaderTyped DEF VerdictIInv
<1>11. ASSUME NEW v \in BagToSet(posts), VerdictArrives(v) PROVE ValidatorTypeOK'
  <2>1. BlockIds' = BlockIds
    BY <1>11 DEF VerdictArrives, VerdictIInv, ChainInv, BlockIds
  <2>2. IsABag(posts') /\ BagToSet(posts') \subseteq BagToSet(posts)
    BY <1>11, BagsHold, BagsStay DEF VerdictArrives, ValidatorTypeOK
  <2>. QED  BY <1>11, <2>1, <2>2 DEF VerdictArrives, ValidatorTypeOK, chainVars
<1>12. CASE QueryFails \/ Dies
  BY <1>1, <1>12, FaultTyped, BagsStay, BagsHold DEF QueryFails, Dies, ValidatorTypeOK
<1>13. ASSUME NEW b \in pass.asked, HeaderFails(b) PROVE ValidatorTypeOK'
  BY <1>1, <1>13, FaultTyped DEF HeaderFails, ValidatorTypeOK
<1>14. ASSUME NEW v \in BagToSet(posts), VerdictLost(v) PROVE ValidatorTypeOK'
  BY <1>1, <1>14, FaultTyped, BagsStay, BagsHold DEF VerdictLost, ValidatorTypeOK
<1>15. CASE UNCHANGED payoutVars
  BY <1>2, <1>15 DEF payoutVars, dbVars, BlockIds
<1>. QED  BY <1>4, <1>5, <1>6, <1>7, <1>8, <1>9, <1>10, <1>11, <1>12, <1>13, <1>14, <1>15
            DEF PayoutsNext, ValidatorNext, ValidatorStep, SomeVerdictArrives

\* The pass and the posts hold what the code may put there: headers are asked for only of
\* blocks of the table, and until the last is answered the pass does not rest.
THEOREM ValidatorTypeCorrect == PayoutsSpec => []ValidatorTypeOK
<1>1. PayoutsSpec => []VerdictIInv
  BY InitVerdictIInv, NextVerdictIInv, PTL DEF PayoutsSpec
<1>. QED  BY <1>1, InitValidatorType, NextValidatorType, PTL DEF PayoutsSpec
================================================================================
