-------------------------- MODULE PaymentWatcherProofs --------------------------
(***************************************************************************)
(* Proofs about the payment watcher, for every set of addresses and every  *)
(* bound on payments, rounds and faults.                                   *)
(***************************************************************************)
EXTENDS PaymentWatcher, Sums, SequenceTheorems

Rounds == [closed : BOOLEAN, reward : 0..MaxPayments]

Faults == [node : 0..MaxFailures, requests : 0..MaxFailures,
           restarts : 0..MaxRestarts, deaths : 0..MaxDeaths]

\* No balance is larger than the number of payments made.
BalanceInv ==
    /\ received <= changes.payments
    /\ \A c \in Coinbases : balance[c] <= changes.payments

\* Only closed rounds are given a reward.
RoundsInv ==
    /\ Len(rounds) <= MaxRounds
    /\ \A r \in Open : rounds[r].reward = Unpaid

\* What the watcher knows at each of its statements
WatcherInv ==
    /\ step = "balance" => seen.coinbase \in Coinbases
    /\ step \in {"submit", "list", "validate"} => seen.balance > cache.balance
    /\ step = "list" => Unsettled # {}
    /\ step = "validate" => listed \in Unsettled

\* Faults that can cost a round its verdict
Charged == faults.requests + faults.restarts + faults.deaths

\* The open round of an engine that has forgotten it: its close cannot be answered.
Doomed == IF Open # {} /\ ~known THEN 1 ELSE 0

\* The round the watcher has closed and is about to settle
InHand == IF step \in {"list", "validate"} THEN 1 ELSE 0

\* Every round without a verdict, and every one that will be, has its fault.
SettleInv == Cardinality(Unsettled) + Doomed <= Charged + InHand

\* The inductive invariant
IInv == TypeOK /\ BalanceInv /\ RoundsInv /\ WatcherInv /\ SettleInv

------------------------------------------------------------------------------
(* Rounds *)

\* The rounds without a verdict can be counted.
LEMMA UnsettledCounts ==
    ASSUME rounds \in Seq(Rounds)
    PROVE  /\ IsFiniteSet(Unsettled) /\ Cardinality(Unsettled) \in Nat
           /\ IsFiniteSet(Open) /\ Cardinality(Open) \in Nat
<1>1. Len(rounds) \in Nat
  OBVIOUS
<1>2. IsFiniteSet(RoundIds)
  BY <1>1, FS_Interval DEF RoundIds
<1>3. Unsettled \subseteq RoundIds /\ Open \subseteq RoundIds
  BY DEF Unsettled, Open
<1>. QED  BY <1>2, <1>3, FS_Subset, FS_CardinalityType

\* A set of numbers below a bound has a largest one.
LEMMA Largest ==
    ASSUME NEW n \in Nat, NEW S \in SUBSET (1..n), S # {}
    PROVE  \E r \in S : \A q \in S : q <= r
<1>. DEFINE Below == {ss \in Nat \X Nat : ss[1] < ss[2]}
            Gaps == {n - q : q \in S}
<1>1. IsWellFoundedOn(Below, Nat)
  BY NatLessThanWellFounded DEF OpToRel
<1>2. Gaps \subseteq Nat /\ Gaps # {}
  <2>1. \A q \in S : n - q \in Nat
    OBVIOUS
  <2>2. PICK q : q \in S
    OBVIOUS
  <2>. QED  BY <2>1, <2>2
<1>3. PICK g \in Gaps : \A y \in Gaps : <<y, g>> \notin Below
  <2>. HIDE DEF Gaps, Below
  <2>. QED  BY <1>1, <1>2, WFMin
<1>4. \A y \in Gaps : y >= g
  <2>1. ASSUME NEW y \in Gaps PROVE y >= g
    <3>1. y \in Nat /\ g \in Nat /\ <<y, g>> \in Nat \X Nat
      BY <1>2, <1>3
    <3>2. ~(y < g)
      BY <1>3, <3>1
    <3>. QED  BY <3>1, <3>2
  <2>. QED  BY <2>1
<1>5. PICK r \in S : g = n - r
  BY <1>3
<1>6. ASSUME NEW q \in S PROVE q <= r
  <2>1. n - q >= n - r /\ q \in 1..n /\ r \in 1..n
    BY <1>4, <1>5
  <2>. QED  BY <2>1
<1>. QED  BY <1>5, <1>6

\* At most one round is open.
LEMMA OneOpen ==
    ASSUME TypeOK
    PROVE  Open # {} => \E r : Open = {r}
<1>. SUFFICES ASSUME Open # {} PROVE \E r : Open = {r}
  OBVIOUS
<1>1. PICK r : r \in Open
  OBVIOUS
<1>2. IsFiniteSet(Open) /\ Cardinality(Open) \in Nat /\ Cardinality(Open) <= 1
  BY UnsettledCounts DEF TypeOK, Rounds
<1>3. /\ IsFiniteSet(Open \ {r})
      /\ Cardinality(Open \ {r}) = Cardinality(Open) - 1
  BY <1>1, <1>2, FS_RemoveElement
<1>4. Cardinality(Open \ {r}) \in Nat
  BY <1>3, FS_CardinalityType
<1>5. Cardinality(Open \ {r}) = 0
  BY <1>2, <1>3, <1>4
<1>6. Open \ {r} = {}
  BY <1>3, <1>5, FS_EmptySet
<1>. QED  BY <1>1, <1>6

\* The rewards of the rounds, of which Rewarded is the sum
RewardBy == [r \in RoundIds |-> rounds[r].reward]

LEMMA RewardsAreSummed ==
    ASSUME NEW rs \in Seq(Rounds), NEW ids, ids = 1..Len(rs),
           NEW f, f = [r \in ids |-> rs[r].reward]
    PROVE  /\ IsFiniteSet(ids) /\ SumFunction(f) = SumFunctionOnSet(f, ids)
           /\ \A r \in ids : f[r] = rs[r].reward /\ f[r] \in Nat
           /\ SumFunction(f) \in Nat
<1>1. IsFiniteSet(ids)
  <2>1. Len(rs) \in Nat
    OBVIOUS
  <2>. QED  BY <2>1, FS_Interval
<1>2. SumFunction(f) = SumFunctionOnSet(f, ids)
  BY DEF SumFunction
<1>3. \A r \in ids : f[r] = rs[r].reward /\ f[r] \in Nat
  <2>1. \A r \in ids : rs[r] \in Rounds
    OBVIOUS
  <2>. QED  BY <2>1, WatcherAssumption DEF Rounds
<1>. QED  BY <1>1, <1>2, <1>3, SumType

LEMMA RewardedIsSum ==
    ASSUME rounds \in Seq(Rounds)
    PROVE  /\ IsFiniteSet(RoundIds) /\ Rewarded = SumFunctionOnSet(RewardBy, RoundIds)
           /\ \A r \in RoundIds : RewardBy[r] = rounds[r].reward /\ RewardBy[r] \in Nat
           /\ Rewarded \in Nat
BY RewardsAreSummed DEF Rewarded, RewardBy, RoundIds

\* It stays when no round gets a reward,
LEMMA RewardedStays ==
    ASSUME RoundIds' = RoundIds, \A r \in RoundIds : rounds'[r].reward = rounds[r].reward
    PROVE  Rewarded' = Rewarded
BY DEF Rewarded

\* or a new one has none,
LEMMA RewardedWithNew ==
    ASSUME rounds \in Seq(Rounds), rounds' \in Seq(Rounds), NEW k, k \notin RoundIds,
           RoundIds' = RoundIds \union {k},
           \A r \in RoundIds : rounds'[r].reward = rounds[r].reward, rounds'[k].reward = Unpaid
    PROVE  Rewarded' = Rewarded
<1>1. PICK f, g, s : f = RewardBy' /\ g = RewardBy /\ s = RoundIds
  OBVIOUS
<1>2. /\ IsFiniteSet(s) /\ Rewarded = SumFunctionOnSet(g, s)
      /\ \A r \in s : g[r] = rounds[r].reward /\ g[r] \in Nat
      /\ Rewarded \in Nat
  BY <1>1, RewardedIsSum
<1>3. /\ Rewarded' = SumFunctionOnSet(f, s \union {k})
      /\ \A r \in s \union {k} : f[r] = rounds'[r].reward /\ f[r] \in Nat
  BY <1>1, RewardsAreSummed DEF Rewarded, RewardBy, RoundIds
<1>4. Rewarded' = f[k] + SumFunctionOnSet(f, s)
  BY <1>1, <1>2, <1>3, SumAdd
<1>5. SumFunctionOnSet(f, s) = SumFunctionOnSet(g, s)
  <2>1. \A r \in s : f[r] = g[r]
    BY <1>1, <1>2, <1>3
  <2>. QED  BY <1>2, <2>1, SumSame
<1>6. f[k] = 0
  BY <1>3 DEF Unpaid
<1>. QED  BY <1>2, <1>4, <1>5, <1>6

\* and grows by what one gets that had none.
LEMMA RewardedGrows ==
    ASSUME rounds \in Seq(Rounds), rounds' \in Seq(Rounds), RoundIds' = RoundIds,
           NEW k \in RoundIds, rounds[k].reward = Unpaid,
           \A r \in RoundIds : r # k => rounds'[r].reward = rounds[r].reward
    PROVE  Rewarded' = Rewarded + rounds'[k].reward
<1>1. PICK f, g, s : f = RewardBy' /\ g = RewardBy /\ s = RoundIds
  OBVIOUS
<1>2. /\ IsFiniteSet(s) /\ Rewarded = SumFunctionOnSet(g, s) /\ k \in s
      /\ \A r \in s : g[r] = rounds[r].reward /\ g[r] \in Nat
  BY <1>1, RewardedIsSum
<1>3. /\ Rewarded' = SumFunctionOnSet(f, s)
      /\ \A r \in s : f[r] = rounds'[r].reward /\ f[r] \in Nat
  BY <1>1, RewardsAreSummed DEF Rewarded, RewardBy, RoundIds
<1>4. /\ Rewarded = g[k] + SumFunctionOnSet(g, s \ {k})
      /\ Rewarded' = f[k] + SumFunctionOnSet(f, s \ {k})
  BY <1>2, <1>3, SumRemove
<1>5. SumFunctionOnSet(f, s \ {k}) = SumFunctionOnSet(g, s \ {k})
  <2>1. IsFiniteSet(s \ {k}) /\ \A r \in s \ {k} : f[r] = g[r]
    BY <1>1, <1>2, <1>3, FS_Subset
  <2>. QED  BY <2>1, SumSame
<1>6. SumFunctionOnSet(g, s \ {k}) \in Nat
  BY <1>2, SumType, FS_Subset
<1>7. g[k] = 0 /\ f[k] = rounds'[k].reward /\ f[k] \in Nat
  BY <1>2, <1>3 DEF Unpaid
<1>. QED  BY <1>4, <1>5, <1>6, <1>7

\* The statement of /submit_block that closes whatever is open
CloseOpen == rounds' = [r \in RoundIds |-> [rounds[r] EXCEPT !.closed = TRUE]]

\* It leaves no round open, and at most one more without a verdict.
LEMMA Closed ==
    ASSUME TypeOK, RoundsInv, CloseOpen
    PROVE  /\ rounds' \in Seq(Rounds) /\ RoundsInv'
           /\ Open' = {} /\ Cardinality(Open') = 0
           /\ Unsettled' = Unsettled \union Open
           /\ Cardinality(Unsettled') \in Nat
           /\ Cardinality(Unsettled') <= Cardinality(Unsettled) + IF Open # {} THEN 1 ELSE 0
           /\ Rewarded' = Rewarded
<1>1. rounds \in Seq(Rounds) /\ Len(rounds) \in Nat
  BY DEF TypeOK, Rounds
<1>2. \A r \in 1..Len(rounds) : [rounds[r] EXCEPT !.closed = TRUE] \in Rounds
  <2>1. \A r \in 1..Len(rounds) : rounds[r] \in Rounds
    BY <1>1
  <2>. QED  BY <2>1 DEF Rounds
<1>3. /\ rounds' \in Seq(Rounds) /\ Len(rounds') = Len(rounds)
      /\ \A r \in RoundIds : rounds'[r].closed /\ rounds'[r].reward = rounds[r].reward
  <2>1. rounds' \in [1..Len(rounds) -> Rounds]
    BY <1>2 DEF CloseOpen, RoundIds
  <2>2. rounds' \in Seq(Rounds) /\ Len(rounds') = Len(rounds)
    BY <1>1, <2>1, SeqDef, LenProperties
  <2>3. \A r \in RoundIds : rounds'[r] = [rounds[r] EXCEPT !.closed = TRUE]
    BY DEF CloseOpen
  <2>4. \A r \in RoundIds : rounds[r] \in Rounds
    BY <1>1 DEF RoundIds
  <2>. QED  BY <2>2, <2>3, <2>4 DEF Rounds
<1>4. RoundIds' = RoundIds
  BY <1>3 DEF RoundIds
<1>5. Open' = {}
  BY <1>3, <1>4 DEF Open
<1>6. Unsettled' = Unsettled \union Open
  <2>0. \A r \in RoundIds : rounds[r] \in Rounds
    BY <1>1 DEF RoundIds
  <2>1. \A r \in RoundIds : rounds[r].closed \in BOOLEAN
    BY <2>0 DEF Rounds
  <2>2. \A r \in Open : r \in RoundIds /\ rounds[r].reward = Unpaid
    BY DEF RoundsInv, Open
  <2>. QED  BY <1>3, <1>4, <2>1, <2>2 DEF Unsettled, Open
<1>7. RoundsInv'
  BY <1>3, <1>5 DEF RoundsInv
<1>8. /\ Cardinality(Unsettled') \in Nat
      /\ Cardinality(Unsettled') <= Cardinality(Unsettled) + IF Open # {} THEN 1 ELSE 0
  <2>0. IsFiniteSet(Unsettled) /\ Cardinality(Unsettled) \in Nat
    BY <1>1, UnsettledCounts
  <2>1. CASE Open = {}
    <3>1. Unsettled' = Unsettled
      BY <1>6, <2>1
    <3>2. Cardinality(Unsettled') = Cardinality(Unsettled)
      BY <3>1
    <3>. QED  BY <2>0, <2>1, <3>2
  <2>2. CASE Open # {}
    <3>1. PICK r : Open = {r}
      BY <2>2, OneOpen
    <3>2. /\ Cardinality(Unsettled \union {r}) =
              IF r \in Unsettled THEN Cardinality(Unsettled) ELSE Cardinality(Unsettled) + 1
      BY <2>0, FS_AddElement
    <3>3. Cardinality(Unsettled') = Cardinality(Unsettled \union {r})
      BY <1>6, <3>1
    <3>. QED  BY <2>0, <2>2, <3>2, <3>3
  <2>. QED  BY <2>1, <2>2
<1>9. Cardinality(Open') = 0
  BY <1>5, FS_EmptySet
<1>10. Rewarded' = Rewarded
  BY <1>3, <1>4, RewardedStays
<1>. QED  BY <1>3, <1>5, <1>6, <1>7, <1>8, <1>9, <1>10

\* A share opens a round when there is none.
LEMMA Opened ==
    ASSUME TypeOK, RoundsInv, Open = {}, Len(rounds) < MaxRounds,
           rounds' = Append(rounds, [closed |-> FALSE, reward |-> Unpaid])
    PROVE  /\ rounds' \in Seq(Rounds) /\ RoundsInv'
           /\ Open' # {} /\ Cardinality(Open') = 1
           /\ Unsettled' = Unsettled /\ Rewarded' = Rewarded
<1>. DEFINE new == [closed |-> FALSE, reward |-> Unpaid]
<1>1. rounds \in Seq(Rounds) /\ Len(rounds) \in Nat /\ MaxPayments \in Nat /\ MaxRounds \in Nat
  BY WatcherAssumption DEF TypeOK, Rounds
<1>2. new \in Rounds /\ ~new.closed /\ new.reward = Unpaid
  BY <1>1 DEF Rounds, Unpaid
<1>. HIDE DEF new
<1>3. rounds' = Append(rounds, new)
  BY DEF new
<1>4. PICK k : k = Len(rounds) + 1
  OBVIOUS
<1>5. /\ rounds' \in Seq(Rounds) /\ Len(rounds') = k /\ k \in Nat
      /\ \A r \in RoundIds : rounds'[r] = rounds[r]
      /\ rounds'[k] = new
  BY <1>1, <1>2, <1>3, <1>4, AppendProperties DEF RoundIds
<1>6. RoundIds' = RoundIds \union {k}
  BY <1>1, <1>4, <1>5 DEF RoundIds
<1>7. Open' = {k}
  BY <1>2, <1>5, <1>6 DEF Open
<1>8. Unsettled' = Unsettled
  BY <1>2, <1>5, <1>6 DEF Unsettled
<1>9. RoundsInv'
  BY <1>1, <1>2, <1>4, <1>5, <1>7 DEF RoundsInv
<1>10. Rewarded' = Rewarded
  <2>1. k \notin RoundIds
    BY <1>1, <1>4 DEF RoundIds
  <2>. QED  BY <1>1, <1>2, <1>5, <1>6, <2>1, RewardedWithNew
<1>. QED  BY <1>5, <1>7, <1>8, <1>9, <1>10, FS_Singleton

\* A verdict settles one round.
LEMMA Settled ==
    ASSUME TypeOK, RoundsInv, NEW r \in Unsettled, NEW amount \in 1..MaxPayments,
           rounds' = [rounds EXCEPT ![r].reward = amount]
    PROVE  /\ rounds' \in Seq(Rounds) /\ RoundsInv'
           /\ Open' = Open
           /\ Cardinality(Unsettled') = Cardinality(Unsettled) - 1
           /\ Rewarded' = Rewarded + amount
<1>0. rounds \in Seq(Rounds) /\ MaxPayments \in Nat
  BY WatcherAssumption DEF TypeOK, Rounds
<1>1. /\ rounds \in Seq(Rounds) /\ Len(rounds) \in Nat /\ MaxPayments \in Nat
      /\ \A q \in RoundIds : rounds[q] \in Rounds
      /\ r \in RoundIds /\ rounds[r].closed
  BY <1>0 DEF RoundIds, Unsettled
<1>2. PICK new : new = [rounds[r] EXCEPT !.reward = amount]
  OBVIOUS
<1>3. new \in Rounds /\ new.closed /\ new.reward = amount
  BY <1>1, <1>2 DEF Rounds
<1>4. /\ rounds' \in Seq(Rounds) /\ Len(rounds') = Len(rounds)
      /\ \A q \in RoundIds : rounds'[q] = IF q = r THEN new ELSE rounds[q]
  BY <1>1, <1>2, <1>3 DEF RoundIds
<1>5. RoundIds' = RoundIds
  BY <1>4 DEF RoundIds
<1>6. Open' = Open
  BY <1>1, <1>3, <1>4, <1>5 DEF Open
<1>7. Unsettled' = Unsettled \ {r}
  BY <1>1, <1>3, <1>4, <1>5 DEF Unsettled, Unpaid
<1>8. RoundsInv'
  BY <1>1, <1>3, <1>4, <1>6 DEF RoundsInv, Open
<1>9. Cardinality(Unsettled \ {r}) = Cardinality(Unsettled) - 1
  BY <1>1, UnsettledCounts, FS_RemoveElement
<1>10. Rewarded' = Rewarded + amount
  <2>1. rounds[r].reward = Unpaid /\ rounds'[r].reward = amount
    BY <1>1, <1>3, <1>4 DEF Unsettled
  <2>. QED  BY <1>1, <1>4, <1>5, <2>1, RewardedGrows
<1>. QED  BY <1>4, <1>6, <1>7, <1>8, <1>9, <1>10

------------------------------------------------------------------------------
(* Steps *)

\* What is a number, and what is 0 or 1
LEMMA Numbers ==
    ASSUME TypeOK
    PROVE  /\ {MaxPayments, MaxMoves, MaxRounds, MaxFailures, MaxRestarts, MaxDeaths} \subseteq Nat
           /\ {faults.node, faults.requests, faults.restarts, faults.deaths} \subseteq Nat
           /\ Charged \in Nat /\ Cardinality(Unsettled) \in Nat
           /\ Doomed \in {0, 1} /\ InHand \in {0, 1}
<1>1. {MaxPayments, MaxMoves, MaxRounds, MaxFailures, MaxRestarts, MaxDeaths} \subseteq Nat
  BY WatcherAssumption
<1>2. {faults.node, faults.requests, faults.restarts, faults.deaths} \subseteq Nat
  BY <1>1 DEF TypeOK
<1>3. Cardinality(Unsettled) \in Nat
  BY UnsettledCounts DEF TypeOK, Rounds
<1>. QED  BY <1>1, <1>2, <1>3 DEF Charged, Doomed, InHand

\* The node's account changes: the watcher and the engine do not see it yet.
LEMMA NodeStep ==
    ASSUME IInv, Pay \/ Withdraw \/ \E c \in Coinbases : Move(c)
    PROVE  IInv'
<1>0. /\ UNCHANGED <<engineVars, watcherVars, faults>>
      /\ MaxPayments \in Nat /\ MaxMoves \in Nat
  BY Numbers DEF IInv, Pay, Withdraw, Move
<1>1. /\ changes \in [payments : 0..MaxPayments, moves : 0..MaxMoves]
      /\ received \in 0..MaxPayments /\ balance \in [Coinbases -> 0..MaxPayments]
      /\ coinbase \in Coinbases /\ BalanceInv
  BY DEF IInv, TypeOK
<1>2. /\ changes' \in [payments : 0..MaxPayments, moves : 0..MaxMoves]
      /\ received' \in 0..MaxPayments /\ balance' \in [Coinbases -> 0..MaxPayments]
      /\ coinbase' \in Coinbases /\ BalanceInv'
  <2>1. CASE Pay
    <3>1. /\ changes'.payments = changes.payments + 1 /\ changes.payments < MaxPayments
          /\ changes' \in [payments : 0..MaxPayments, moves : 0..MaxMoves]
      BY <1>0, <1>1, <2>1 DEF Pay
    <3>2. /\ balance' = [balance EXCEPT ![coinbase] = @ + 1]
          /\ received' = received + 1 /\ coinbase' = coinbase
      BY <2>1 DEF Pay
    <3>3. \A c \in Coinbases : balance'[c] \in 0..MaxPayments /\ balance'[c] <= changes'.payments
      BY <1>0, <1>1, <3>1, <3>2 DEF BalanceInv
    <3>4. received' \in 0..MaxPayments /\ received' <= changes'.payments
      BY <1>0, <1>1, <3>1, <3>2 DEF BalanceInv
    <3>5. balance' \in [Coinbases -> 0..MaxPayments]
      BY <1>1, <3>2, <3>3
    <3>. QED  BY <1>1, <3>1, <3>2, <3>3, <3>4, <3>5 DEF BalanceInv
  <2>2. CASE Withdraw
    <3>1. /\ changes'.payments = changes.payments + 1 /\ changes.payments < MaxPayments
          /\ changes' \in [payments : 0..MaxPayments, moves : 0..MaxMoves]
      BY <1>0, <1>1, <2>2 DEF Withdraw
    <3>2. /\ balance' = [balance EXCEPT ![coinbase] = 0]
          /\ received' = received /\ coinbase' = coinbase
      BY <2>2 DEF Withdraw
    <3>3. \A c \in Coinbases : balance'[c] \in 0..MaxPayments /\ balance'[c] <= changes'.payments
      BY <1>0, <1>1, <3>1, <3>2 DEF BalanceInv
    <3>4. received' <= changes'.payments
      BY <1>0, <1>1, <3>1, <3>2 DEF BalanceInv
    <3>5. balance' \in [Coinbases -> 0..MaxPayments]
      BY <1>1, <3>2, <3>3
    <3>. QED  BY <1>1, <3>1, <3>2, <3>3, <3>4, <3>5 DEF BalanceInv
  <2>3. ASSUME NEW c \in Coinbases, Move(c)
        PROVE  /\ changes' \in [payments : 0..MaxPayments, moves : 0..MaxMoves]
               /\ received' = received /\ balance' = balance
               /\ coinbase' \in Coinbases /\ BalanceInv'
    BY <1>0, <1>1, <2>3 DEF Move, BalanceInv
  <2>. QED  BY <1>1, <2>1, <2>2, <2>3
<1>3. TypeOK'
  BY <1>0, <1>2 DEF IInv, TypeOK, engineVars, watcherVars, Open, RoundIds
<1>4. RoundsInv' /\ WatcherInv' /\ SettleInv'
  BY <1>0 DEF IInv, RoundsInv, WatcherInv, SettleInv, Doomed, Charged, InHand,
              engineVars, watcherVars, Open, Unsettled, RoundIds
<1>. QED  BY <1>2, <1>3, <1>4 DEF IInv

\* A share reaches the engine, or the engine restarts.
LEMMA EngineStep == ASSUME IInv, Share \/ EngineRestarts PROVE IInv'
<1>. USE DEF IInv
<1>0. /\ UNCHANGED nodeVars /\ UNCHANGED watcherVars
      /\ rounds \in Seq(Rounds) /\ Charged \in Nat
  BY Numbers DEF Share, EngineRestarts, TypeOK, Rounds
<1>1. CASE Share
  <2>1. /\ rounds' \in Seq(Rounds) /\ RoundsInv' /\ Unsettled' = Unsettled
        /\ Open' # {} /\ Cardinality(Open') <= 1
    <3>1. CASE Open # {} /\ UNCHANGED rounds
      BY <1>0, <3>1 DEF TypeOK, RoundsInv, Unsettled, Open, RoundIds
    <3>2. CASE /\ Open = {} /\ Len(rounds) < MaxRounds
               /\ rounds' = Append(rounds, [closed |-> FALSE, reward |-> Unpaid])
      <4>1. 1 <= 1
        OBVIOUS
      <4>. QED  BY <3>2, <4>1, Opened
    <3>. QED  BY <1>1, <3>1, <3>2 DEF Share
  <2>2. known' = TRUE /\ faults' = faults
    BY <1>1 DEF Share
  <2>3. TypeOK'
    BY <1>0, <2>1, <2>2 DEF TypeOK, Rounds, nodeVars, watcherVars
  <2>4. WatcherInv' /\ BalanceInv'
    BY <1>0, <2>1 DEF WatcherInv, BalanceInv, nodeVars, watcherVars
  <2>5. Doomed' = 0 /\ InHand' = InHand /\ Charged' = Charged
    BY <1>0, <2>2 DEF Doomed, InHand, Charged, watcherVars
  <2>6. SettleInv'
    BY <2>1, <2>5, Numbers DEF SettleInv
  <2>. QED  BY <2>1, <2>3, <2>4, <2>6
<1>2. CASE EngineRestarts
  <2>1. /\ rounds' = rounds /\ known' = FALSE /\ faults.restarts < MaxRestarts
        /\ faults' = [faults EXCEPT !.restarts = @ + 1]
        /\ Unsettled' = Unsettled /\ Open' = Open /\ known
    BY <1>2 DEF EngineRestarts, Unsettled, Open, RoundIds
  <2>2. /\ faults' \in Faults
        /\ faults'.requests = faults.requests /\ faults'.deaths = faults.deaths
        /\ faults'.restarts = faults.restarts + 1
    <3>1. faults \in Faults /\ MaxRestarts \in Nat
      BY WatcherAssumption DEF TypeOK, Faults
    <3>. QED  BY <2>1, <3>1 DEF Faults
  <2>3. TypeOK'
    BY <1>0, <2>1, <2>2 DEF TypeOK, Faults, nodeVars, watcherVars
  <2>4. RoundsInv' /\ WatcherInv' /\ BalanceInv'
    BY <1>0, <2>1 DEF RoundsInv, WatcherInv, BalanceInv, nodeVars, watcherVars
  <2>5. /\ Doomed = 0 /\ Doomed' \in {0, 1} /\ InHand' = InHand
        /\ Charged' = Charged + 1
    BY <1>0, <2>1, <2>2, Numbers DEF Doomed, InHand, Charged, watcherVars
  <2>6. SettleInv'
    BY <2>1, <2>5, Numbers DEF SettleInv
  <2>. QED  BY <2>3, <2>4, <2>6
<1>. QED  BY <1>1, <1>2

\* What stays as it was while the engine does nothing
LEMMA EngineKept ==
    ASSUME UNCHANGED engineVars
    PROVE  /\ Unsettled' = Unsettled /\ Open' = Open /\ Doomed' = Doomed
           /\ RoundsInv => RoundsInv'
BY DEF engineVars, Unsettled, Open, RoundIds, Doomed, RoundsInv

\* An iteration that is done has a new mark and no round in hand.
LEMMA Finished ==
    ASSUME TypeOK, Done
    PROVE  cache' \in Caches /\ step' = "truncate" /\ InHand' = 0
<1>1. cache \in Caches /\ seen \in Caches
  BY DEF TypeOK
<1>2. cache' \in Caches
  BY <1>1 DEF Done, Caches
<1>. QED  BY <1>2 DEF Done, Goto, InHand

\* The node is asked, or cannot be.
LEMMA AskStep == ASSUME IInv, AskCoinbase \/ AskBalance \/ NodeFails PROVE IInv'
<1>. USE DEF IInv
<1>0. /\ UNCHANGED <<nodeVars, engineVars>> /\ file' = file /\ listed' = listed
      /\ seen \in Caches /\ cache \in Caches
      /\ coinbase \in Coinbases /\ balance \in [Coinbases -> 0..MaxPayments]
      /\ faults \in Faults /\ MaxFailures \in Nat
  BY WatcherAssumption DEF AskCoinbase, AskBalance, NodeFails, TypeOK, Faults
<1>1. /\ seen' \in Caches /\ cache' \in Caches
      /\ step' \in {"coinbase", "balance", "submit", "truncate"}
      /\ step' = "balance" => seen'.coinbase \in Coinbases
      /\ step' = "submit" => seen'.balance > cache'.balance
  <2>1. CASE AskCoinbase
    BY <1>0, <2>1 DEF AskCoinbase, Goto, Caches
  <2>2. CASE AskBalance
    <3>1. PICK b, sees : b = balance[seen.coinbase] /\ sees = [seen EXCEPT !.balance = b]
      OBVIOUS
    <3>2. seen.coinbase \in Coinbases
      BY <2>2 DEF AskBalance, WatcherInv
    <3>3. sees \in Caches /\ b \in 0..MaxPayments /\ sees.balance = b
      BY <1>0, <3>1, <3>2 DEF Caches
    <3>4. /\ seen' = sees
          /\ \/ cache' = sees /\ step' = "truncate"
             \/ cache' = cache /\ b > cache.balance /\ step' = "submit"
             \/ cache' = cache /\ step' = "coinbase"
      BY <2>2, <3>1 DEF AskBalance, Goto
    <3>. QED  BY <1>0, <3>3, <3>4
  <2>3. CASE NodeFails
    BY <1>0, <2>3 DEF NodeFails, Goto
  <2>. QED  BY <2>1, <2>2, <2>3
<1>2. /\ faults' \in Faults /\ faults'.requests = faults.requests
      /\ faults'.restarts = faults.restarts /\ faults'.deaths = faults.deaths
  <2>1. CASE NodeFails
    BY <1>0, <2>1 DEF NodeFails, Faults
  <2>2. CASE faults' = faults
    BY <1>0, <2>2
  <2>. QED  BY <2>1, <2>2 DEF AskCoinbase, AskBalance
<1>3. TypeOK'
  BY <1>0, <1>1, <1>2, EngineKept DEF TypeOK, Faults, nodeVars, engineVars
<1>4. RoundsInv' /\ BalanceInv' /\ WatcherInv'
  BY <1>0, <1>1, EngineKept DEF BalanceInv, WatcherInv, nodeVars
<1>5. InHand = 0 /\ InHand' = 0 /\ Charged' = Charged
  BY <1>1, <1>2 DEF AskCoinbase, AskBalance, NodeFails, InHand, Charged
<1>6. SettleInv'
  BY <1>0, <1>5, EngineKept DEF SettleInv
<1>. QED  BY <1>3, <1>4, <1>6

\* The open round is closed, whether the answer comes or not.
LEMMA CloseStep == ASSUME IInv, SubmitBlock \/ AnswerLost PROVE IInv'
<1>. USE DEF IInv
<1>0. /\ UNCHANGED nodeVars /\ file' = file /\ seen' = seen /\ listed' = listed
      /\ step = "submit" /\ CloseOpen /\ known' = FALSE
      /\ faults \in Faults /\ MaxFailures \in Nat
      /\ {faults.requests, faults.restarts, faults.deaths} \subseteq Nat
  BY WatcherAssumption, Numbers DEF SubmitBlock, AnswerLost, CloseOpen, TypeOK, Faults
<1>1. PICK c, u, k, d :
          c = Charged /\ u = Cardinality(Unsettled) /\ k = Cardinality(Unsettled') /\ d = Doomed
  OBVIOUS
<1>2. /\ rounds' \in Seq(Rounds) /\ RoundsInv' /\ Open' = {} /\ Cardinality(Open') <= 1
      /\ Unsettled' = Unsettled \union Open
      /\ k \in Nat /\ k <= u + IF Open # {} THEN 1 ELSE 0
      /\ u \in Nat /\ c \in Nat
  <2>1. 0 <= 1
    OBVIOUS
  <2>. QED  BY <1>0, <1>1, <2>1, Closed, Numbers
<1>3. Doomed' = 0 /\ InHand = 0 /\ u + d <= c
  BY <1>0, <1>1, <1>2, Numbers DEF Doomed, InHand, SettleInv
<1>4. CASE SubmitBlock /\ known
  <2>1. cache' = cache /\ step' = "list" /\ faults' = faults
    BY <1>4 DEF SubmitBlock, Goto
  <2>2. TypeOK'
    BY <1>0, <1>2, <2>1 DEF TypeOK, Rounds, nodeVars
  <2>3. WatcherInv' /\ BalanceInv'
    BY <1>0, <1>2, <1>4, <2>1 DEF TypeOK, WatcherInv, BalanceInv, nodeVars
  <2>4. InHand' = 1 /\ Charged' = c
    BY <1>1, <2>1 DEF InHand, Charged
  <2>5. k <= c + 1
    BY <1>1, <1>2, <1>3, Numbers
  <2>6. SettleInv'
    BY <1>1, <1>2, <1>3, <2>4, <2>5 DEF SettleInv
  <2>. QED  BY <1>2, <2>2, <2>3, <2>6
<1>5. CASE SubmitBlock /\ ~known
  <2>1. Done /\ faults' = faults
    BY <1>5 DEF SubmitBlock
  <2>2. cache' \in Caches /\ step' = "truncate" /\ InHand' = 0
    BY <2>1, Finished
  <2>3. TypeOK'
    BY <1>0, <1>2, <2>1, <2>2 DEF TypeOK, Rounds, nodeVars
  <2>4. WatcherInv' /\ BalanceInv'
    BY <1>0, <2>2 DEF WatcherInv, BalanceInv, nodeVars
  <2>5. Charged' = c /\ d = IF Open # {} THEN 1 ELSE 0
    BY <1>1, <1>5, <2>1 DEF Charged, Doomed
  <2>6. k <= c
    BY <1>2, <1>3, <2>5
  <2>7. SettleInv'
    BY <1>1, <1>2, <1>3, <2>2, <2>5, <2>6 DEF SettleInv
  <2>. QED  BY <1>2, <2>3, <2>4, <2>7
<1>6. CASE AnswerLost
  <2>1. /\ Done /\ faults.requests < MaxFailures
        /\ faults' = [faults EXCEPT !.requests = @ + 1]
    BY <1>6 DEF AnswerLost
  <2>2. cache' \in Caches /\ step' = "truncate" /\ InHand' = 0
    BY <2>1, Finished
  <2>3. /\ faults' \in Faults /\ faults'.requests = faults.requests + 1
        /\ faults'.restarts = faults.restarts /\ faults'.deaths = faults.deaths
    BY <1>0, <2>1 DEF Faults
  <2>4. TypeOK'
    BY <1>0, <1>2, <2>2, <2>3 DEF TypeOK, Rounds, Faults, nodeVars
  <2>5. WatcherInv' /\ BalanceInv'
    BY <1>0, <2>2 DEF WatcherInv, BalanceInv, nodeVars
  <2>6. Charged' = c + 1
    BY <1>0, <1>1, <2>3 DEF Charged
  <2>7. k <= c + 1
    BY <1>1, <1>2, <1>3, Numbers
  <2>8. SettleInv'
    BY <1>1, <1>2, <1>3, <2>2, <2>6, <2>7 DEF SettleInv
  <2>. QED  BY <1>2, <2>4, <2>5, <2>8
<1>. QED  BY <1>4, <1>5, <1>6

\* A closed round is looked for.
LEMMA ListStep == ASSUME IInv, ListBlocks PROVE IInv'
<1>. USE DEF IInv
<1>0. /\ UNCHANGED <<nodeVars, engineVars>> /\ file' = file /\ seen' = seen /\ faults' = faults
      /\ step = "list" /\ Unsettled # {}
  BY DEF ListBlocks, WatcherInv
<1>1. cache' = cache /\ step' = "validate"
      /\ listed' = CHOOSE r \in Unsettled : \A q \in Unsettled : q <= r
  BY <1>0 DEF ListBlocks, Goto
<1>2. listed' \in Unsettled /\ listed' \in 0..MaxRounds
  <2>1. /\ Unsettled \in SUBSET (1..Len(rounds)) /\ Len(rounds) \in Nat
        /\ Len(rounds) <= MaxRounds /\ MaxRounds \in Nat
    BY WatcherAssumption DEF Unsettled, RoundIds, TypeOK, RoundsInv
  <2>2. \E r \in Unsettled : \A q \in Unsettled : q <= r
    BY <1>0, <2>1, Largest
  <2>3. listed' \in Unsettled
    BY <1>1, <2>2
  <2>. QED  BY <2>1, <2>3
<1>3. TypeOK'
  BY <1>0, <1>1, <1>2, EngineKept DEF TypeOK, nodeVars, engineVars
<1>4. RoundsInv' /\ BalanceInv' /\ WatcherInv'
  BY <1>0, <1>1, <1>2, EngineKept DEF BalanceInv, WatcherInv, nodeVars
<1>5. InHand = 1 /\ InHand' = 1 /\ Charged' = Charged
  BY <1>0, <1>1 DEF InHand, Charged
<1>6. SettleInv'
  BY <1>0, <1>5, EngineKept DEF SettleInv
<1>. QED  BY <1>3, <1>4, <1>6

\* The round listed is settled.
LEMMA ValidateStep == ASSUME IInv, ValidateBlock PROVE IInv'
<1>. USE DEF IInv
<1>0. /\ UNCHANGED nodeVars /\ file' = file /\ seen' = seen /\ faults' = faults
      /\ listed' = listed /\ known' = known /\ step = "validate" /\ Done
  BY DEF ValidateBlock
<1>1. PICK amount : amount = seen.balance - cache.balance
  OBVIOUS
<1>2. listed \in Unsettled /\ amount \in 1..MaxPayments
  <2>1. listed \in Unsettled /\ seen.balance > cache.balance
    BY <1>0 DEF WatcherInv
  <2>2. seen.balance \in 0..MaxPayments /\ cache.balance \in 0..MaxPayments /\ MaxPayments \in Nat
    BY WatcherAssumption DEF TypeOK, Caches
  <2>. QED  BY <1>1, <2>1, <2>2
<1>3. /\ rounds' \in Seq(Rounds) /\ RoundsInv' /\ Open' = Open
      /\ Cardinality(Unsettled') = Cardinality(Unsettled) - 1
  <2>1. rounds' = [rounds EXCEPT ![listed].reward = amount]
    BY <1>1 DEF ValidateBlock
  <2>. QED  BY <1>2, <2>1, Settled
<1>4. cache' \in Caches /\ step' = "truncate" /\ InHand' = 0 /\ InHand = 1
  BY <1>0, Finished DEF InHand
<1>5. TypeOK'
  BY <1>0, <1>3, <1>4 DEF TypeOK, Rounds, nodeVars
<1>6. WatcherInv' /\ BalanceInv'
  BY <1>0, <1>4 DEF WatcherInv, BalanceInv, nodeVars
<1>7. Doomed' = Doomed /\ Charged' = Charged
  BY <1>0, <1>3 DEF Doomed, Charged
<1>8. SettleInv'
  BY <1>3, <1>4, <1>7, Numbers DEF SettleInv
<1>. QED  BY <1>3, <1>5, <1>6, <1>8

\* A request is lost: if a round was in hand, the fault is charged with it.
LEMMA LostStep == ASSUME IInv, RequestLost PROVE IInv'
<1>. USE DEF IInv
<1>0. /\ UNCHANGED <<nodeVars, engineVars>> /\ file' = file /\ seen' = seen /\ listed' = listed
      /\ Done /\ faults.requests < MaxFailures
      /\ faults' = [faults EXCEPT !.requests = @ + 1]
      /\ faults \in Faults /\ MaxFailures \in Nat
  BY WatcherAssumption DEF RequestLost, TypeOK, Faults
<1>1. cache' \in Caches /\ step' = "truncate" /\ InHand' = 0
  BY <1>0, Finished
<1>2. /\ faults' \in Faults /\ faults'.requests = faults.requests + 1
      /\ faults'.restarts = faults.restarts /\ faults'.deaths = faults.deaths
  BY <1>0 DEF Faults
<1>3. TypeOK'
  BY <1>0, <1>1, <1>2, EngineKept DEF TypeOK, Faults, nodeVars, engineVars
<1>4. RoundsInv' /\ BalanceInv' /\ WatcherInv'
  BY <1>0, <1>1, EngineKept DEF BalanceInv, WatcherInv, nodeVars
<1>5. Charged' = Charged + 1
  BY <1>2, Numbers DEF Charged
<1>6. SettleInv'
  BY <1>0, <1>1, <1>5, EngineKept, Numbers DEF SettleInv
<1>. QED  BY <1>3, <1>4, <1>6

\* The file is written, or the watcher dies and reads it.
LEMMA FileStep == ASSUME IInv, Truncate \/ Write \/ Die PROVE IInv'
<1>. USE DEF IInv
<1>0. /\ UNCHANGED <<nodeVars, engineVars>> /\ seen' = seen /\ listed' = listed
      /\ faults \in Faults /\ MaxDeaths \in Nat
      /\ file \in Caches \union {Torn} /\ cache \in Caches
  BY WatcherAssumption DEF Truncate, Write, Die, TypeOK, Faults
<1>1. EmptyCache \in Caches
  BY WatcherAssumption DEF EmptyCache, Caches
<1>2. /\ file' \in Caches \union {Torn} /\ cache' \in Caches
      /\ step' \in {"write", "coinbase"}
  BY <1>0, <1>1 DEF Truncate, Write, Die, Goto
<1>3. CASE Truncate \/ Write
  <2>1. faults' = faults /\ InHand = 0 /\ InHand' = 0
    BY <1>2, <1>3 DEF Truncate, Write, InHand
  <2>2. TypeOK'
    BY <1>0, <1>2, <2>1, EngineKept DEF TypeOK, nodeVars, engineVars
  <2>3. RoundsInv' /\ BalanceInv' /\ WatcherInv'
    BY <1>0, <1>2, EngineKept DEF BalanceInv, WatcherInv, nodeVars
  <2>4. SettleInv'
    BY <1>0, <2>1, EngineKept DEF SettleInv, Charged
  <2>. QED  BY <2>2, <2>3, <2>4
<1>4. CASE Die
  <2>1. /\ faults' \in Faults /\ faults'.deaths = faults.deaths + 1
        /\ faults'.restarts = faults.restarts /\ faults'.requests = faults.requests
    BY <1>0, <1>4 DEF Die, Faults
  <2>2. TypeOK'
    BY <1>0, <1>2, <2>1, EngineKept DEF TypeOK, Faults, nodeVars, engineVars
  <2>3. RoundsInv' /\ BalanceInv' /\ WatcherInv'
    BY <1>0, <1>2, EngineKept DEF BalanceInv, WatcherInv, nodeVars
  <2>4. Charged' = Charged + 1 /\ InHand' = 0
    BY <1>2, <2>1, Numbers DEF Charged, InHand
  <2>5. SettleInv'
    BY <1>0, <2>4, EngineKept, Numbers DEF SettleInv
  <2>. QED  BY <2>2, <2>3, <2>5
<1>. QED  BY <1>3, <1>4

\* Every step keeps the invariant.
LEMMA NextIInv == IInv /\ [Next]_vars => IInv'
<1>. SUFFICES ASSUME IInv, [Next]_vars PROVE IInv'
  OBVIOUS
<1>1. CASE UNCHANGED vars
  <2>1. UNCHANGED <<nodeVars, engineVars, watcherVars, faults>>
    BY <1>1 DEF vars
  <2>2. TypeOK' /\ RoundsInv'
    BY <2>1, EngineKept DEF IInv, TypeOK, nodeVars, engineVars, watcherVars
  <2>3. BalanceInv' /\ WatcherInv'
    BY <2>1, EngineKept DEF IInv, BalanceInv, WatcherInv, nodeVars, watcherVars
  <2>4. SettleInv'
    BY <2>1, EngineKept DEF IInv, SettleInv, Charged, InHand, watcherVars
  <2>. QED  BY <2>2, <2>3, <2>4 DEF IInv
<1>. QED  BY <1>1, NodeStep, EngineStep, AskStep, CloseStep, ListStep, ValidateStep,
             LostStep, FileStep DEF Next, WatcherStep

\* It holds at the start: there is no round.
LEMMA InitIInv == Init => IInv
<1>. SUFFICES ASSUME Init PROVE IInv
  OBVIOUS
<1>1. RoundIds = {} /\ Open = {} /\ Unsettled = {}
  BY DEF Init, RoundIds, Open, Unsettled
<1>2. Cardinality(Open) = 0 /\ Cardinality(Unsettled) = 0
  BY <1>1, FS_EmptySet
<1>3. rounds \in Seq([closed : BOOLEAN, reward : 0..MaxPayments])
  BY DEF Init
<1>4. EmptyCache \in Caches
  BY WatcherAssumption DEF EmptyCache, Caches
<1>5. TypeOK
  BY <1>1, <1>2, <1>3, <1>4, WatcherAssumption DEF Init, TypeOK
<1>6. BalanceInv /\ RoundsInv /\ WatcherInv
  BY <1>1, WatcherAssumption DEF Init, BalanceInv, RoundsInv, WatcherInv
<1>7. SettleInv
  BY <1>1, <1>2 DEF Init, SettleInv, Doomed, InHand, Charged
<1>. QED  BY <1>5, <1>6, <1>7 DEF IInv

\* Accounts, rounds, cache and file hold what the code may put there; in particular
\* a reward is never negative, and at most one round is open.
THEOREM TypeCorrect == Spec => []TypeOK
<1>1. IInv => TypeOK
  BY DEF IInv
<1>. QED  BY InitIInv, NextIInv, <1>1, PTL DEF Spec

\* A fault costs at most one round its verdict, however many payments, rounds and
\* addresses there are and wherever in an iteration of block_discovery it strikes.
THEOREM FaultsCostOneRound == Spec => []RoundsSettled
<1>1. IInv => RoundsSettled
  <2>. SUFFICES ASSUME IInv, step \notin {"list", "validate"}
                PROVE  Cardinality(Unsettled) <= Charged
    BY DEF RoundsSettled, Charged
  <2>1. InHand = 0
    BY DEF InHand
  <2>. QED  BY <2>1, Numbers DEF IInv, SettleInv
<1>. QED  BY InitIInv, NextIInv, <1>1, PTL DEF Spec

------------------------------------------------------------------------------
(* What comes in covers what is rewarded *)

\* Where the watcher has found a payment and not recorded it
Handling == step \in {"submit", "list", "validate"}

\* An address never holds more than was paid in all,
BalancesIn == \A c \in Coinbases : balance[c] <= received

\* and the watcher only compares balances of one address.
SameAddress == Handling => cache.coinbase = seen.coinbase /\ seen.coinbase \in Coinbases

\* What came in after the first n payments is all that address can show above the mark.
MarkedAt(n) ==
    cache.coinbase \in Coinbases => balance[cache.coinbase] + n <= cache.balance + received

\* The balance in hand was read after m payments, n of them before the mark.
SeenAt(n, m) == /\ seen.balance + n <= cache.balance + m
                /\ balance[seen.coinbase] + m <= seen.balance + received

\* The present life has rewarded no more than came in before its mark, and every life before
\* it no more than has come in.
CountedTo(n) ==
    /\ Rewarded <= faults.deaths * received + n
    /\ MarkedAt(n)
    /\ Handling => \E m \in n..received : SeenAt(n, m)

CoverInv == BalancesIn /\ SameAddress /\ \E n \in 0..received : CountedTo(n)

\* Products of numbers
LEMMA Products ==
    ASSUME NEW d \in Nat, NEW r \in Nat
    PROVE  /\ d * r \in Nat
           /\ d * (r + 1) = d * r + d
           /\ (d + 1) * r = d * r + r
           /\ (1 + d) * r = d * r + r
  OBVIOUS

\* What is a number
LEMMA Amounts ==
    ASSUME TypeOK
    PROVE  /\ received \in Nat /\ faults.deaths \in Nat /\ Rewarded \in Nat
           /\ cache.balance \in Nat /\ seen.balance \in Nat
           /\ \A c \in Coinbases : balance[c] \in Nat
<1>1. rounds \in Seq(Rounds)
  BY DEF TypeOK, Rounds
<1>2. Rewarded \in Nat
  BY <1>1, RewardedIsSum
<1>. QED  BY <1>2, WatcherAssumption DEF TypeOK, Caches

\* Steps that pay nothing and leave what the watcher knows, or just move it on
LEMMA CoverStays ==
    ASSUME CoverInv, UNCHANGED <<balance, received, cache>>, Rewarded' = Rewarded,
           faults'.deaths = faults.deaths, Handling' => Handling /\ seen' = seen
    PROVE  CoverInv'
<1>1. PICK n \in 0..received : CountedTo(n)
  BY DEF CoverInv
<1>2. MarkedAt(n)'
  BY <1>1 DEF CountedTo, MarkedAt
<1>3. ASSUME Handling' PROVE \E m \in n..received' : SeenAt(n, m)'
  <2>1. PICK m \in n..received : SeenAt(n, m)
    BY <1>1, <1>3 DEF CountedTo
  <2>. QED  BY <1>3, <2>1 DEF SeenAt
<1>4. CountedTo(n)'
  BY <1>1, <1>2, <1>3 DEF CountedTo
<1>. QED  BY <1>1, <1>4 DEF CoverInv, BalancesIn, SameAddress

\* The iteration is done: the mark moves to what was seen, which pays for the reward.
LEMMA CoverDone ==
    ASSUME TypeOK, CoverInv, Handling, Done, UNCHANGED <<balance, received, seen>>,
           faults'.deaths = faults.deaths, Rewarded' \in Nat,
           Rewarded' + cache.balance <= Rewarded + seen.balance
    PROVE  CoverInv'
<1>1. PICK n \in 0..received : CountedTo(n)
  BY DEF CoverInv
<1>2. PICK m \in n..received : SeenAt(n, m)
  BY <1>1 DEF CountedTo
<1>3. /\ received \in Nat /\ m \in 0..received /\ n <= m
      /\ cache.balance \in Nat /\ seen.balance \in Nat /\ Rewarded \in Nat
  BY <1>1, <1>2, Amounts
<1>4. /\ cache'.coinbase = cache.coinbase /\ cache'.balance = seen.balance
      /\ step' = "truncate"
  BY DEF Done, Goto, TypeOK, Caches
<1>5. MarkedAt(m)'
  BY <1>2, <1>4 DEF CoverInv, SameAddress, SeenAt, MarkedAt
<1>6. Rewarded' <= faults'.deaths * received' + m
  <2>1. PICK p : p = faults.deaths * received
    OBVIOUS
  <2>2. p \in Nat
    BY <2>1, Amounts, Products
  <2>3. Rewarded <= p + n /\ seen.balance + n <= cache.balance + m
    BY <1>1, <1>2, <2>1 DEF CountedTo, SeenAt
  <2>4. Rewarded' <= p + m
    BY <1>3, <2>2, <2>3
  <2>. QED  BY <2>1, <2>4
<1>7. ~Handling'
  BY <1>4 DEF Handling
<1>8. CountedTo(m)'
  BY <1>5, <1>6, <1>7 DEF CountedTo
<1>. QED  BY <1>3, <1>7, <1>8 DEF CoverInv, BalancesIn, SameAddress

\* A payment is one more that came in, for every life.
LEMMA CoverPay == ASSUME TypeOK, CoverInv, Pay PROVE CoverInv'
<1>1. /\ UNCHANGED <<coinbase, rounds, step, cache, seen, faults>>
      /\ received' = received + 1
      /\ balance' = [balance EXCEPT ![coinbase] = @ + 1]
  BY DEF Pay, engineVars, watcherVars
<1>2. /\ coinbase \in Coinbases /\ balance \in [Coinbases -> 0..MaxPayments] /\ MaxPayments \in Nat
  BY WatcherAssumption DEF TypeOK
<1>3. /\ received \in Nat /\ faults.deaths \in Nat /\ Rewarded \in Nat
      /\ cache.balance \in Nat /\ seen.balance \in Nat
      /\ \A c \in Coinbases : /\ balance[c] \in Nat /\ balance'[c] \in Nat
                              /\ balance'[c] <= balance[c] + 1
  BY <1>1, <1>2, Amounts
<1>4. Rewarded' = Rewarded /\ (Handling' <=> Handling)
  BY <1>1 DEF Rewarded, RoundIds, Handling
<1>5. PICK n \in 0..received : CountedTo(n)
  BY DEF CoverInv
<1>6. Rewarded' <= faults'.deaths * received' + n
  <2>1. Rewarded <= faults.deaths * received + n
    BY <1>5 DEF CountedTo
  <2>2. /\ faults.deaths * received \in Nat
        /\ faults.deaths * (received + 1) = faults.deaths * received + faults.deaths
    BY <1>3, Products
  <2>. QED  BY <1>1, <1>3, <1>4, <1>5, <2>1, <2>2
<1>7. MarkedAt(n)'
  BY <1>1, <1>3, <1>5 DEF CountedTo, MarkedAt
<1>8. ASSUME Handling' PROVE \E m \in n..received' : SeenAt(n, m)'
  <2>1. PICK m \in n..received : SeenAt(n, m)
    BY <1>4, <1>5, <1>8 DEF CountedTo
  <2>2. SeenAt(n, m)'
    BY <1>1, <1>3, <1>4, <1>8, <2>1 DEF SeenAt, CoverInv, SameAddress
  <2>. QED  BY <1>1, <1>3, <1>5, <2>1, <2>2
<1>9. CountedTo(n)'
  BY <1>6, <1>7, <1>8 DEF CountedTo
<1>10. BalancesIn'
  BY <1>1, <1>3 DEF CoverInv, BalancesIn
<1>. QED  BY <1>1, <1>3, <1>4, <1>5, <1>9, <1>10 DEF CoverInv, SameAddress

\* Money that is taken out makes what an address shows less.
LEMMA CoverWithdraw == ASSUME TypeOK, CoverInv, Withdraw PROVE CoverInv'
<1>1. /\ UNCHANGED <<coinbase, received, rounds, step, cache, seen, faults>>
      /\ balance' = [balance EXCEPT ![coinbase] = 0]
  BY DEF Withdraw, engineVars, watcherVars
<1>2. /\ coinbase \in Coinbases /\ balance \in [Coinbases -> 0..MaxPayments] /\ MaxPayments \in Nat
  BY WatcherAssumption DEF TypeOK
<1>3. /\ received \in Nat /\ cache.balance \in Nat /\ seen.balance \in Nat
      /\ \A c \in Coinbases : balance[c] \in Nat /\ balance'[c] \in Nat /\ balance'[c] <= balance[c]
  BY <1>1, <1>2, Amounts
<1>4. Rewarded' = Rewarded /\ (Handling' <=> Handling)
  BY <1>1 DEF Rewarded, RoundIds, Handling
<1>5. PICK n \in 0..received : CountedTo(n)
  BY DEF CoverInv
<1>6. MarkedAt(n)'
  BY <1>1, <1>3, <1>5 DEF CountedTo, MarkedAt
<1>7. ASSUME Handling' PROVE \E m \in n..received' : SeenAt(n, m)'
  <2>1. PICK m \in n..received : SeenAt(n, m)
    BY <1>4, <1>5, <1>7 DEF CountedTo
  <2>2. SeenAt(n, m)'
    BY <1>1, <1>3, <1>4, <1>5, <1>7, <2>1 DEF SeenAt, CoverInv, SameAddress
  <2>. QED  BY <1>1, <2>1, <2>2
<1>8. CountedTo(n)'
  BY <1>1, <1>4, <1>5, <1>6, <1>7 DEF CountedTo
<1>9. BalancesIn'
  BY <1>1, <1>3 DEF CoverInv, BalancesIn
<1>. QED  BY <1>1, <1>4, <1>5, <1>8, <1>9 DEF CoverInv, SameAddress

\* A balance is read: the mark of another address moves to it, and a larger one of the same
\* address has all that came in since the mark behind it.
LEMMA CoverAsk == ASSUME IInv, CoverInv, AskBalance PROVE CoverInv'
<1>1. /\ UNCHANGED <<balance, received, rounds, faults>> /\ step = "balance"
      /\ seen.coinbase \in Coinbases /\ TypeOK
  BY DEF AskBalance, nodeVars, engineVars, IInv, WatcherInv
<1>2. PICK b, sees : b = balance[seen.coinbase] /\ sees = [seen EXCEPT !.balance = b]
  OBVIOUS
<1>3. /\ b \in Nat /\ received \in Nat /\ b <= received /\ cache.balance \in Nat
      /\ sees.coinbase = seen.coinbase /\ sees.balance = b
  BY <1>1, <1>2, Amounts DEF CoverInv, BalancesIn, TypeOK, Caches
<1>4. /\ seen' = sees
      /\ IF cache.coinbase # seen.coinbase
         THEN cache' = sees /\ step' = "truncate"
         ELSE cache' = cache /\ step' = IF b > cache.balance THEN "submit" ELSE "coinbase"
  BY <1>2 DEF AskBalance, Goto
<1>5. Rewarded' = Rewarded
  BY <1>1 DEF Rewarded, RoundIds
<1>6. PICK n \in 0..received : CountedTo(n)
  BY DEF CoverInv
<1>7. CASE cache.coinbase # seen.coinbase
  <2>1. /\ ~Handling' /\ cache' = sees
    BY <1>4, <1>7 DEF Handling
  <2>2. MarkedAt(received)'
    BY <1>1, <1>2, <1>3, <2>1 DEF MarkedAt
  <2>3. Rewarded' <= faults'.deaths * received' + received
    <3>1. Rewarded <= faults.deaths * received + n /\ faults.deaths * received \in Nat
          /\ Rewarded \in Nat
      BY <1>1, <1>6, Amounts, Products DEF CountedTo
    <3>. QED  BY <1>1, <1>3, <1>5, <1>6, <3>1
  <2>4. CountedTo(received)'
    BY <1>1, <2>1, <2>2, <2>3 DEF CountedTo, MarkedAt
  <2>. QED  BY <1>1, <1>3, <2>1, <2>4 DEF CoverInv, BalancesIn, SameAddress
<1>8. CASE cache.coinbase = seen.coinbase
  <2>1. cache' = cache /\ MarkedAt(n)
    BY <1>4, <1>6, <1>8 DEF CountedTo
  <2>2. SeenAt(n, received)'
    BY <1>1, <1>2, <1>3, <1>4, <1>6, <1>8, <2>1 DEF SeenAt, MarkedAt
  <2>3. MarkedAt(n)'
    BY <1>1, <2>1 DEF MarkedAt
  <2>4. \E m \in n..received' : SeenAt(n, m)'
    <3>1. received \in n..received
      BY <1>3, <1>6
    <3>. QED  BY <1>1, <2>2, <3>1 DEF SeenAt
  <2>5. CountedTo(n)'
    BY <1>1, <1>5, <1>6, <2>3, <2>4 DEF CountedTo
  <2>6. SameAddress' /\ BalancesIn'
    BY <1>1, <1>3, <1>4, <1>8, <2>1 DEF SameAddress, CoverInv, BalancesIn
  <2>. QED  BY <1>1, <1>6, <2>5, <2>6 DEF CoverInv
<1>. QED  BY <1>7, <1>8

\* A new life begins with no reward of its own, whatever mark it finds in the file.
LEMMA CoverDie == ASSUME TypeOK, CoverInv, Die PROVE CoverInv'
<1>1. /\ UNCHANGED <<balance, received, rounds>> /\ step' = "coinbase"
      /\ faults' = [faults EXCEPT !.deaths = @ + 1]
      /\ cache' = IF file = Torn THEN EmptyCache ELSE file
  BY DEF Die, nodeVars, engineVars, Goto
<1>2. /\ faults'.deaths = faults.deaths + 1 /\ cache'.balance \in Nat
      /\ received \in Nat /\ faults.deaths \in Nat /\ Rewarded \in Nat
      /\ \A c \in Coinbases : balance[c] \in Nat
  <2>1. EmptyCache.balance \in Nat /\ \A c \in Caches : c.balance \in Nat
    BY WatcherAssumption DEF Caches, EmptyCache
  <2>2. cache'.balance \in Nat
    BY <1>1, <2>1 DEF TypeOK
  <2>3. faults'.deaths = faults.deaths + 1
    BY <1>1 DEF TypeOK
  <2>. QED  BY <2>2, <2>3, Amounts
<1>3. Rewarded' = Rewarded /\ ~Handling'
  BY <1>1 DEF Rewarded, RoundIds, Handling
<1>4. PICK n \in 0..received : CountedTo(n)
  BY DEF CoverInv
<1>5. Rewarded' <= faults'.deaths * received' + 0
  <2>1. /\ Rewarded <= faults.deaths * received + n /\ faults.deaths * received \in Nat
        /\ (faults.deaths + 1) * received = faults.deaths * received + received
    BY <1>2, <1>4, Products DEF CountedTo
  <2>. QED  BY <1>1, <1>2, <1>3, <1>4, <2>1
<1>6. MarkedAt(0)'
  BY <1>1, <1>2 DEF MarkedAt, CoverInv, BalancesIn
<1>7. CountedTo(0)'
  BY <1>3, <1>5, <1>6 DEF CountedTo
<1>. QED  BY <1>1, <1>2, <1>3, <1>7 DEF CoverInv, BalancesIn, SameAddress

\* Every step keeps it.
LEMMA NextCoverInv == IInv /\ CoverInv /\ [Next]_vars => CoverInv'
<1>. SUFFICES ASSUME IInv, CoverInv, [Next]_vars PROVE CoverInv'
  OBVIOUS
<1>0. TypeOK /\ RoundsInv /\ WatcherInv
  BY DEF IInv
<1>1. UNCHANGED rounds => Rewarded' = Rewarded
  BY DEF Rewarded, RoundIds
<1>2. CASE UNCHANGED vars
  BY <1>1, <1>2, CoverStays DEF vars, nodeVars, engineVars, watcherVars, Handling
<1>3. CASE (\E c \in Coinbases : Move(c)) \/ AskCoinbase \/ Truncate \/ Write
  BY <1>1, <1>3, CoverStays DEF Move, AskCoinbase, Truncate, Write, nodeVars, engineVars,
                                watcherVars, Handling, Goto
<1>4. CASE Share
  <2>1. Rewarded' = Rewarded
    BY <1>0, <1>1, <1>4, Opened DEF Share
  <2>. QED  BY <1>4, <2>1, CoverStays DEF Share, nodeVars, watcherVars, Handling
<1>5. CASE EngineRestarts \/ NodeFails
  <2>1. faults'.deaths = faults.deaths
    BY <1>0, <1>5 DEF TypeOK, EngineRestarts, NodeFails
  <2>. QED  BY <1>1, <1>5, <2>1, CoverStays DEF EngineRestarts, NodeFails, nodeVars, engineVars,
                                                watcherVars, Handling, Goto
<1>6. Handling => /\ cache.balance \in Nat /\ seen.balance \in Nat /\ Rewarded \in Nat
                  /\ cache.balance < seen.balance
  BY <1>0, Amounts DEF WatcherInv, Handling
<1>7. ASSUME Handling, Done, Rewarded' = Rewarded, UNCHANGED <<balance, received, seen>>,
             faults'.deaths = faults.deaths
      PROVE  CoverInv'
  <2>1. Rewarded' \in Nat /\ Rewarded' + cache.balance <= Rewarded + seen.balance
    BY <1>6, <1>7
  <2>. QED  BY <1>0, <1>7, <2>1, CoverDone
<1>8. CASE SubmitBlock \/ AnswerLost
  <2>1. CloseOpen /\ Handling /\ UNCHANGED <<balance, received, seen>>
    BY <1>8 DEF SubmitBlock, AnswerLost, CloseOpen, Handling, nodeVars
  <2>2. Rewarded' = Rewarded
    BY <1>0, <2>1, Closed
  <2>3. faults'.deaths = faults.deaths
    BY <1>0, <1>8 DEF TypeOK, SubmitBlock, AnswerLost
  <2>4. Done \/ UNCHANGED cache
    BY <1>8 DEF SubmitBlock, AnswerLost
  <2>. QED  BY <1>7, <2>1, <2>2, <2>3, <2>4, CoverStays
<1>9. CASE ListBlocks \/ RequestLost
  <2>1. Handling /\ UNCHANGED <<balance, received, seen, rounds>>
    BY <1>9 DEF ListBlocks, RequestLost, Handling, nodeVars, engineVars
  <2>2. faults'.deaths = faults.deaths
    BY <1>0, <1>9 DEF TypeOK, ListBlocks, RequestLost
  <2>3. Done \/ UNCHANGED cache
    BY <1>9 DEF ListBlocks, RequestLost
  <2>. QED  BY <1>1, <1>7, <2>1, <2>2, <2>3, CoverStays
<1>10. CASE ValidateBlock
  <2>1. /\ UNCHANGED <<balance, received, seen, faults>> /\ Done /\ Handling
        /\ listed \in Unsettled
    BY <1>0, <1>10 DEF ValidateBlock, nodeVars, Handling, WatcherInv
  <2>2. PICK amount : amount = seen.balance - cache.balance
    OBVIOUS
  <2>3. amount \in 1..MaxPayments
    <3>1. seen.balance \in 0..MaxPayments /\ cache.balance \in 0..MaxPayments
      BY <1>0 DEF TypeOK, Caches
    <3>2. MaxPayments \in Nat /\ cache.balance < seen.balance
      BY <1>6, <2>1, WatcherAssumption
    <3>. QED  BY <2>2, <3>1, <3>2
  <2>4. Rewarded' = Rewarded + amount
    BY <1>0, <1>10, <2>1, <2>2, <2>3, Settled DEF ValidateBlock
  <2>5. Rewarded' \in Nat /\ Rewarded' + cache.balance <= Rewarded + seen.balance
    BY <1>6, <2>1, <2>2, <2>3, <2>4
  <2>. QED  BY <1>0, <2>1, <2>5, CoverDone
<1>. QED  BY <1>0, <1>2, <1>3, <1>4, <1>5, <1>8, <1>9, <1>10, CoverPay, CoverWithdraw, CoverAsk,
             CoverDie DEF Next, WatcherStep

LEMMA InitCoverInv == Init => CoverInv
<1>. SUFFICES ASSUME Init PROVE CoverInv
  OBVIOUS
<1>1. RoundIds = {} /\ rounds \in Seq(Rounds)
  BY DEF Init, RoundIds
<1>2. Rewarded = 0
  BY <1>1, RewardedIsSum, SumEmpty
<1>3. BalancesIn /\ SameAddress
  BY DEF Init, BalancesIn, SameAddress, Handling
<1>4. CountedTo(0)
  BY <1>2 DEF Init, CountedTo, MarkedAt, Handling, EmptyCache
<1>. QED  BY <1>3, <1>4 DEF Init, CoverInv

\* What is rewarded to all rounds together is covered by what came in, once for every life of
\* the watcher: withdrawals, moves of the coinbase and lost requests never make it more.
THEOREM PaymentsCoverRewards == Spec => []RewardsCovered
<1>1. IInv /\ CoverInv => RewardsCovered
  <2>. SUFFICES ASSUME IInv, CoverInv PROVE RewardsCovered
    OBVIOUS
  <2>1. PICK n \in 0..received : Rewarded <= faults.deaths * received + n
    BY DEF CoverInv, CountedTo
  <2>2. /\ faults.deaths * received \in Nat /\ received \in Nat /\ Rewarded \in Nat
        /\ (1 + faults.deaths) * received = faults.deaths * received + received
    BY Amounts, Products DEF IInv
  <2>. QED  BY <2>1, <2>2 DEF RewardsCovered
<1>. QED  BY InitIInv, NextIInv, InitCoverInv, NextCoverInv, <1>1, PTL DEF Spec
================================================================================
