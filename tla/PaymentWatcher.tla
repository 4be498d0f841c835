---------------------------- MODULE PaymentWatcher ----------------------------
(***************************************************************************)
(* The payment watcher of the relaying pool, block_discovery in            *)
(* src/proxy_ethereum/main.py.  The relay mines at another pool under one  *)
(* address; whenever the balance of the node's coinbase has grown, the     *)
(* open round is closed and given what came in as its reward.              *)
(*                                                                         *)
(* One loop: every request is a step here, and so are the write of the     *)
(* cache file's bytes and the truncation before it.  The process may die   *)
(* between any two and starts again from the file.                         *)
(*                                                                         *)
(* The engine (src/pool_engine/main.py) is seen from its only client: a    *)
(* request is one step of it, which may fail before or after its effect.   *)
(* PoolEngine has what happens inside.                                     *)
(***************************************************************************)
EXTENDS Naturals, Sequences, FiniteSets, FiniteSetsExt

CONSTANTS
    Coinbases,      \* addresses the node may mine to
    MaxPayments,    \* bound: payments and withdrawals
    MaxMoves,       \* bound: changes of the node's coinbase
    MaxRounds,      \* bound: rounds ever opened
    MaxFailures,    \* bound: requests to the node, and to the engine, that fail
    MaxRestarts,    \* bound: restarts of the engine
    MaxDeaths       \* bound: deaths of the watcher

ASSUME WatcherAssumption ==
    /\ Coinbases # {}
    /\ {MaxPayments, MaxMoves, MaxRounds, MaxFailures, MaxRestarts, MaxDeaths} \subseteq Nat

VARIABLES
    coinbase,   \* what eth_coinbase answers
    balance,    \* what eth_getBalance answers, by address
    received,   \* all that was ever paid to any of them while it was the coinbase
    changes,    \* payments, withdrawals and moves so far
    rounds,     \* the engine's blocks: whether closed, and the reward once valid
    known,      \* the engine has an entry in block_by_coin
    step,       \* the statement of block_discovery that comes next
    cache,      \* the cache in memory
    file,       \* and in .proxy_ethereum_cache
    seen,       \* coinbase and balance this iteration has read
    listed,     \* the block this iteration is to validate
    faults      \* requests that failed, restarts of the engine, deaths so far

nodeVars == <<coinbase, balance, received, changes>>
engineVars == <<rounds, known>>
watcherVars == <<step, cache, file, seen, listed>>
vars == <<nodeVars, engineVars, watcherVars, faults>>

\* The coinbase of a cache that was never filled in
Nobody == "none"

\* What json.load cannot read: the file after open(..., "w")
Torn == [coinbase |-> "torn", balance |-> 0]

EmptyCache == [coinbase |-> Nobody, balance |-> 0]

Unpaid == 0

RoundIds == 1..Len(rounds)
Open == {r \in RoundIds : ~rounds[r].closed}

\* What blocks_to_validate lists
Unsettled == {r \in RoundIds : rounds[r].closed /\ rounds[r].reward = Unpaid}

------------------------------------------------------------------------------
(* The node, the miners and the engine *)

Pay ==
    /\ changes.payments < MaxPayments
    /\ changes' = [changes EXCEPT !.payments = @ + 1]
    /\ balance' = [balance EXCEPT ![coinbase] = @ + 1]
    /\ received' = received + 1
    /\ UNCHANGED <<coinbase, engineVars, watcherVars, faults>>

\* The owner of the wallet takes money out.
Withdraw ==
    /\ changes.payments < MaxPayments
    /\ changes' = [changes EXCEPT !.payments = @ + 1]
    /\ balance[coinbase] > 0
    /\ balance' = [balance EXCEPT ![coinbase] = 0]
    /\ UNCHANGED <<coinbase, received, engineVars, watcherVars, faults>>

Move(c) ==
    /\ changes.moves < MaxMoves
    /\ changes' = [changes EXCEPT !.moves = @ + 1]
    /\ coinbase # c
    /\ coinbase' = c
    /\ UNCHANGED <<balance, received, engineVars, watcherVars, faults>>

\* A share reaches the engine: an open round and its cached id.
Share ==
    /\ ~known
    /\ \/ Open # {} /\ UNCHANGED rounds
       \/ /\ Open = {} /\ Len(rounds) < MaxRounds
          /\ rounds' = Append(rounds, [closed |-> FALSE, reward |-> Unpaid])
    /\ known' = TRUE
    /\ UNCHANGED <<nodeVars, watcherVars, faults>>

EngineRestarts ==
    /\ faults.restarts < MaxRestarts
    /\ known
    /\ known' = FALSE
    /\ faults' = [faults EXCEPT !.restarts = @ + 1]
    /\ UNCHANGED <<nodeVars, rounds, watcherVars>>

------------------------------------------------------------------------------
(* block_discovery *)

Goto(s) == step' = s

\* eth_coinbase, then eth_getBalance of what it answered
AskCoinbase ==
    /\ step = "coinbase"
    /\ seen' = [seen EXCEPT !.coinbase = coinbase]
    /\ Goto("balance")
    /\ UNCHANGED <<nodeVars, engineVars, cache, file, listed, faults>>

\* Mutant of AskBalance: every balance that is not lower is a payment.
AskBalanceAny ==
    LET b == balance[seen.coinbase]
        sees == [seen EXCEPT !.balance = b]
    IN
    /\ step = "balance"
    /\ seen' = sees
    /\ IF cache.coinbase # seen.coinbase
       THEN cache' = sees /\ Goto("truncate")
       ELSE /\ UNCHANGED cache
            /\ Goto(IF b >= cache.balance THEN "submit" ELSE "coinbase")
    /\ UNCHANGED <<nodeVars, engineVars, file, listed, faults>>

\* A changed coinbase is cached as it is; a grown balance is a new payment.
AskBalance ==
    LET b == balance[seen.coinbase]
        sees == [seen EXCEPT !.balance = b]
    IN
    /\ step = "balance"
    /\ seen' = sees
    /\ IF cache.coinbase # seen.coinbase
       THEN cache' = sees /\ Goto("truncate")
       ELSE /\ UNCHANGED cache
            /\ Goto(IF b > cache.balance THEN "submit" ELSE "coinbase")
    /\ UNCHANGED <<nodeVars, engineVars, file, listed, faults>>

\* Mutant of NodeFails: the exception ends the task.
NodeFailsForGood ==
    /\ step \in {"coinbase", "balance"}
    /\ faults.node < MaxFailures
    /\ faults' = [faults EXCEPT !.node = @ + 1]
    /\ Goto("ended")
    /\ UNCHANGED <<nodeVars, engineVars, cache, file, seen, listed>>

\* The node cannot be reached: sleep and try again.
NodeFails ==
    /\ step \in {"coinbase", "balance"}
    /\ faults.node < MaxFailures
    /\ faults' = [faults EXCEPT !.node = @ + 1]
    /\ Goto("coinbase")
    /\ UNCHANGED <<nodeVars, engineVars, cache, file, seen, listed>>

\* Mutant of Done: an iteration with a payment does not move the mark.
DoneUnmoved ==
    /\ UNCHANGED cache
    /\ Goto("truncate")

\* The cache takes the new balance over, whether the block was validated or not.
Done ==
    /\ cache' = [cache EXCEPT !.balance = seen.balance]
    /\ Goto("truncate")

\* /submit_block closes the open round, then deletes the cached id: a KeyError,
\* and so an answer the watcher cannot read, when there is none.
SubmitBlock ==
    /\ step = "submit"
    /\ rounds' = [r \in RoundIds |-> [rounds[r] EXCEPT !.closed = TRUE]]
    /\ known' = FALSE
    /\ IF known THEN Goto("list") /\ UNCHANGED cache ELSE Done
    /\ UNCHANGED <<nodeVars, file, seen, listed, faults>>

\* /blocks_to_validate: the last of the list by id; an IndexError when it is empty
ListBlocks ==
    /\ step = "list"
    /\ IF Unsettled = {}
       THEN Done /\ UNCHANGED listed
       ELSE /\ listed' = CHOOSE r \in Unsettled : \A q \in Unsettled : q <= r
            /\ Goto("validate")
            /\ UNCHANGED cache
    /\ UNCHANGED <<nodeVars, engineVars, file, seen, faults>>

ValidateBlock ==
    /\ step = "validate"
    /\ rounds' = [rounds EXCEPT ![listed].reward = seen.balance - cache.balance]
    /\ Done
    /\ UNCHANGED <<nodeVars, known, file, seen, listed, faults>>

\* One of the three fails before the engine has done anything,
RequestLost ==
    /\ step \in {"submit", "list", "validate"}
    /\ faults.requests < MaxFailures
    /\ faults' = [faults EXCEPT !.requests = @ + 1]
    /\ Done
    /\ UNCHANGED <<nodeVars, engineVars, file, seen, listed>>

\* or /submit_block after it: the answer is lost.  (To lose the answer of
\* /validate_block makes no difference.)
AnswerLost ==
    /\ step = "submit"
    /\ faults.requests < MaxFailures
    /\ faults' = [faults EXCEPT !.requests = @ + 1]
    /\ rounds' = [r \in RoundIds |-> [rounds[r] EXCEPT !.closed = TRUE]]
    /\ known' = FALSE
    /\ Done
    /\ UNCHANGED <<nodeVars, file, seen, listed>>

\* open(..., "w"), then write and close; and sleep
Truncate ==
    /\ step = "truncate"
    /\ file' = Torn
    /\ Goto("write")
    /\ UNCHANGED <<nodeVars, engineVars, cache, seen, listed, faults>>

Write ==
    /\ step = "write"
    /\ file' = cache
    /\ Goto("coinbase")
    /\ UNCHANGED <<nodeVars, engineVars, cache, seen, listed, faults>>

\* The process dies and is started again: the cache is what json.load reads.
Die ==
    /\ faults.deaths < MaxDeaths
    /\ faults' = [faults EXCEPT !.deaths = @ + 1]
    /\ cache' = IF file = Torn THEN EmptyCache ELSE file
    /\ Goto("coinbase")
    /\ UNCHANGED <<nodeVars, engineVars, file, seen, listed>>

------------------------------------------------------------------------------

\* No file on the first start, which json.load cannot read either.
Init ==
    /\ coinbase \in Coinbases
    /\ balance = [c \in Coinbases |-> 0]
    /\ received = 0
    /\ changes = [payments |-> 0, moves |-> 0]
    /\ rounds = <<>>
    /\ known = FALSE
    /\ step = "coinbase"
    /\ cache = EmptyCache
    /\ file = Torn
    /\ seen = EmptyCache
    /\ listed = 0
    /\ faults = [node |-> 0, requests |-> 0, restarts |-> 0, deaths |-> 0]

WatcherStep ==
    \/ AskCoinbase
    \/ AskBalance
    \/ SubmitBlock
    \/ ListBlocks
    \/ ValidateBlock
    \/ Truncate
    \/ Write

Next ==
    \/ Pay \/ Withdraw \/ \E c \in Coinbases : Move(c)
    \/ Share \/ EngineRestarts
    \/ WatcherStep
    \/ NodeFails \/ RequestLost \/ AnswerLost \/ Die

Spec == Init /\ [][Next]_vars

\* The loop goes on after every exception: the queries and the requests to the
\* engine have their own handlers, aiohttp gives a request five minutes, and the
\* container is restarted when the process ends.
FairSpec == Spec /\ WF_vars(WatcherStep)

------------------------------------------------------------------------------
(* Properties *)

Caches == [coinbase : Coinbases \cup {Nobody}, balance : 0..MaxPayments]

TypeOK ==
    /\ coinbase \in Coinbases
    /\ balance \in [Coinbases -> 0..MaxPayments]
    /\ received \in 0..MaxPayments
    /\ changes \in [payments : 0..MaxPayments, moves : 0..MaxMoves]
    /\ rounds \in Seq([closed : BOOLEAN, reward : 0..MaxPayments])
    /\ Cardinality(Open) <= 1 /\ (known => Open # {})
    /\ step \in {"coinbase", "balance", "submit", "list", "validate", "truncate", "write"}
    /\ cache \in Caches /\ file \in Caches \cup {Torn} /\ seen \in Caches
    /\ listed \in 0..MaxRounds
    /\ faults \in [node : 0..MaxFailures, requests : 0..MaxFailures,
                   restarts : 0..MaxRestarts, deaths : 0..MaxDeaths]

Rewarded == SumFunction([r \in RoundIds |-> rounds[r].reward])

\* The rewards of all rounds together never exceed what came in, whatever fails,
\* whatever is withdrawn and wherever the node moves.  Only a death of the
\* watcher between the verdict and the file makes a payment count once more, so
\* no payment is rewarded more often than one time per life.
RewardsCovered == Rewarded <= (1 + faults.deaths) * received

\* A round that is closed is given its reward in the same iteration, unless a
\* request fails, the engine has lost its cache or the watcher dies; every such
\* fault costs the miners of at most one round their verdict, which no later
\* iteration makes up for.
RoundsSettled ==
    step \notin {"list", "validate"} =>
        Cardinality(Unsettled) <= faults.requests + faults.restarts + faults.deaths

\* Once the node is left alone the watcher has seen everything it has to, under
\* the address the node then has, whatever failed or died before.
CatchesUp == <>[](cache.coinbase = coinbase /\ cache.balance >= balance[coinbase])
==============================================================================
