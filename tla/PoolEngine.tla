------------------------------ MODULE PoolEngine ------------------------------
(***************************************************************************)
(* The engine, src/pool_engine/main.py, for one coin: the service the      *)
(* stratum servers post shares and blocks to.                              *)
(*                                                                         *)
(* It is an asyncio server: every `await' of a handler lets others run, so *)
(* a handler is a sequence of steps here, one per statement that reaches   *)
(* the database and one per access to block_by_coin, the cached id of the  *)
(* open round.  A request may fail at any step (the database refuses, the  *)
(* client goes away and aiohttp cancels the handler), and the engine may   *)
(* die with its cache and every request it was handling.                   *)
(*                                                                         *)
(* Left out: workers, workers_history and nodes, which share nothing with  *)
(* the rounds; what follows the commit of a share cannot undo it.          *)
(***************************************************************************)
EXTENDS PoolDatabase

CONSTANTS
    Calm,           \* TRUE: requests never overlap where a round changes hands
    MaxInFlight,    \* bound: requests handled at the same time
    MaxRequests,    \* bound: requests ever made
    MaxBlockPosts,  \* bound: /submit_block requests among them
    MaxFailures,    \* bound: requests that fail
    MaxCrashes      \* bound: deaths of the engine

ASSUME EngineAssumption ==
    /\ Calm \in BOOLEAN
    /\ {MaxInFlight, MaxRequests, MaxBlockPosts, MaxFailures, MaxCrashes} \subseteq Nat

VARIABLES
    cache,          \* block_by_coin[coin]: {} when there is no entry
    requests,       \* requests in order of arrival
    failures,       \* requests that failed so far
    crashes         \* deaths so far

engineVars == <<cache, requests, failures, crashes>>

\* The id of no block: ids start at 1.
None == 0

\* Where a request stands.  A share: look the cache up, insert an open block if
\* the snapshot had none, select its id, store it, UPDATE, INSERT if the
\* snapshot had no row.  A block: close, forget the cached id.
Steps == {"lookup", "probe", "insertBlock", "select", "store", "update", "probeRow",
          "insertRow", "close", "forget"}

\* How it ended: its share is in a row; nothing was inserted, yet the response
\* is 200; the block request went through; an error, or it died.
Ends == {"counted", "skipped", "closed", "failed"}

Requests == [kind : {"share", "block"}, wallet : Wallets,
             at : Steps \cup Ends, block : Nat]

RequestIds == 1..Len(requests)
InFlight == {r \in RequestIds : requests[r].at \in Steps}

\* Request r moves on, knowing block b.
Goto(r, step, b) == requests' = [requests EXCEPT ![r].at = step, ![r].block = b]

At(r, step) == r \in RequestIds /\ requests[r].at = step

------------------------------------------------------------------------------
(* Requests arrive, fail and die *)

\* What calm traffic is: whoever closes a round or asks for the next one is alone
\* with the engine.  The code does nothing to make its traffic calm.
Overlaps(kind) ==
    \/ InFlight # {} /\ (kind = "block" \/ cache = {})
    \/ \E r \in InFlight : requests[r].kind = "block"

MayArrive(kind) ==
    /\ Cardinality(InFlight) < MaxInFlight
    /\ Len(requests) < MaxRequests
    /\ Calm => ~Overlaps(kind)

\* The stratum server posts a share.
ShareArrives(w) ==
    /\ MayArrive("share")
    /\ requests' = Append(requests, [kind |-> "share", wallet |-> w, at |-> "lookup",
                                     block |-> None])
    /\ UNCHANGED <<dbVars, cache, failures, crashes>>

Posts(kind, W) == {r \in RequestIds : requests[r].kind = kind /\ requests[r].wallet \in W}

\* It posts a block once its candidate's share has been answered (external: the
\* rule CryptonotePool keeps).
BlockArrives(w) ==
    /\ MayArrive("block")
    /\ Cardinality(Posts("block", Wallets)) < MaxBlockPosts
    /\ Cardinality(Posts("block", {w})) < Cardinality(Posts("share", {w}) \ InFlight)
    /\ requests' = Append(requests, [kind |-> "block", wallet |-> w, at |-> "close",
                                     block |-> None])
    /\ UNCHANGED <<dbVars, cache, failures, crashes>>

\* An error before the request's next effect.
RequestFails(r) ==
    /\ r \in InFlight
    /\ failures < MaxFailures
    /\ failures' = failures + 1
    /\ Goto(r, "failed", requests[r].block)
    /\ UNCHANGED <<dbVars, cache, crashes>>

\* The engine restarts: block_by_coin is empty, uncommitted work is rolled back.
EngineCrash ==
    /\ crashes < MaxCrashes
    /\ crashes' = crashes + 1
    /\ cache' = {}
    /\ requests' = [r \in RequestIds |->
           IF r \in InFlight THEN [requests[r] EXCEPT !.at = "failed"] ELSE requests[r]]
    /\ UNCHANGED <<dbVars, failures>>

------------------------------------------------------------------------------
(* get_current_block *)

Lookup(r) ==
    /\ At(r, "lookup")
    /\ \/ cache = {} /\ Goto(r, "probe", None)
       \/ \E b \in cache : Goto(r, "update", b)
    /\ UNCHANGED <<dbVars, cache, failures, crashes>>

\* Mutant of Probe: a new block is inserted without looking for an open one.
ProbeNothing(r) ==
    /\ At(r, "probe")
    /\ Goto(r, "insertBlock", None)
    /\ UNCHANGED <<dbVars, cache, failures, crashes>>

\* INSERT INTO blocks ... WHERE NOT EXISTS: the snapshot is taken,
Probe(r) ==
    /\ At(r, "probe")
    /\ Goto(r, IF OpenBlocks = {} THEN "insertBlock" ELSE "select", None)
    /\ UNCHANGED <<dbVars, cache, failures, crashes>>

\* and the row committed.  Nothing forbids a second open block.
InsertOpenBlock(r) ==
    /\ At(r, "insertBlock")
    /\ InsertBlock
    /\ Goto(r, "select", None)
    /\ UNCHANGED <<rewards, cache, failures, crashes>>

\* SELECT id ... WHERE mined_at IS NULL: the first of the rows, in any order.
SelectOpenBlock(r) ==
    /\ At(r, "select")
    /\ \/ \E b \in OpenBlocks : Goto(r, "store", b)
       \/ OpenBlocks = {} /\ Goto(r, "store", None)
    /\ UNCHANGED <<dbVars, cache, failures, crashes>>

\* block_by_coin[coin] = ..., once the await returns
StoreBlock(r) ==
    /\ At(r, "store")
    /\ cache' = {requests[r].block}
    /\ Goto(r, "update", requests[r].block)
    /\ UNCHANGED <<dbVars, failures, crashes>>

------------------------------------------------------------------------------
(* submit_share: the transaction on round_shares *)

\* Mutant of UpdateRow: the row is set to the share instead of increased by it.
UpdateRowOverwrites(r) ==
    LET w == requests[r].wallet
        b == requests[r].block
    IN
    /\ At(r, "update")
    /\ IF b # None /\ w \in Contributors(b)
       THEN roundShares' = [roundShares EXCEPT ![b][w] = 1] /\ Goto(r, "counted", b)
       ELSE UNCHANGED roundShares /\ Goto(r, "probeRow", b)
    /\ UNCHANGED <<blocks, rewards, cache, failures, crashes>>

\* UPDATE round_shares SET shares = shares + 1.  The row is locked until the
\* commit, so the sum is atomic.  Block id None matches no row.
UpdateRow(r) ==
    LET w == requests[r].wallet
        b == requests[r].block
    IN
    /\ At(r, "update")
    /\ IF b # None /\ w \in Contributors(b)
       THEN AddShare(b, w) /\ Goto(r, "counted", b)
       ELSE UNCHANGED roundShares /\ Goto(r, "probeRow", b)
    /\ UNCHANGED <<blocks, rewards, cache, failures, crashes>>

\* Mutant of ProbeRow: the INSERT looks for any row of the wallet, not of the block.
ProbeRowOfWallet(r) ==
    LET b == requests[r].block IN
    /\ At(r, "probeRow")
    /\ Goto(r, IF \E c \in BlockIds : requests[r].wallet \in Contributors(c)
               THEN "skipped" ELSE "insertRow", b)
    /\ UNCHANGED <<dbVars, cache, failures, crashes>>

\* INSERT INTO round_shares ... WHERE NOT EXISTS: with a row that another
\* request committed since the UPDATE, nothing is inserted.
ProbeRow(r) ==
    LET b == requests[r].block IN
    /\ At(r, "probeRow")
    /\ Goto(r, IF b # None /\ requests[r].wallet \in Contributors(b)
               THEN "skipped" ELSE "insertRow", b)
    /\ UNCHANGED <<dbVars, cache, failures, crashes>>

\* The row is inserted unless block_id is NULL or uq_round_shares is violated by
\* a row committed since the snapshot.
InsertRow(r) ==
    LET w == requests[r].wallet
        b == requests[r].block
    IN
    /\ At(r, "insertRow")
    /\ IF b = None \/ w \in Contributors(b)
       THEN UNCHANGED roundShares /\ Goto(r, "failed", b)
       ELSE AddShare(b, w) /\ Goto(r, "counted", b)
    /\ UNCHANGED <<blocks, rewards, cache, failures, crashes>>

------------------------------------------------------------------------------
(* submit_block and validate_block *)

\* Mutant of CloseBlocks: the UPDATE is not restricted to open blocks.
CloseEveryBlock(r) ==
    /\ At(r, "close")
    /\ blocks' = [b \in BlockIds |-> [blocks[b] EXCEPT !.mined = r]]
    /\ Goto(r, "forget", None)
    /\ UNCHANGED <<roundShares, rewards, cache, failures, crashes>>

\* UPDATE blocks SET mined_at ... WHERE mined_at IS NULL: every open block.
CloseBlocks(r) ==
    /\ At(r, "close")
    /\ blocks' = [b \in BlockIds |->
           IF b \in OpenBlocks THEN [blocks[b] EXCEPT !.mined = r] ELSE blocks[b]]
    /\ Goto(r, "forget", None)
    /\ UNCHANGED <<roundShares, rewards, cache, failures, crashes>>

\* Mutant of ForgetBlock: the cached id is kept.
KeepBlock(r) ==
    /\ At(r, "forget")
    /\ Goto(r, "closed", None)
    /\ UNCHANGED <<dbVars, cache, failures, crashes>>

\* del block_by_coin[coin]; a KeyError when there is no entry
ForgetBlock(r) ==
    /\ At(r, "forget")
    /\ cache' = {}
    /\ Goto(r, IF cache = {} THEN "failed" ELSE "closed", None)
    /\ UNCHANGED <<dbVars, failures, crashes>>

\* A validator posts its verdict on a block blocks_to_validate listed.  A second
\* verdict on the same block repeats the first, once it is deep in the chain.
ValidateBlock(b, verdict) ==
    /\ b \in BlocksToValidate
    /\ blocks' = [blocks EXCEPT ![b].valid = verdict]
    /\ UNCHANGED <<roundShares, rewards, engineVars>>

------------------------------------------------------------------------------

EngineInit ==
    /\ cache = {}
    /\ requests = <<>>
    /\ failures = 0
    /\ crashes = 0

ShareStep(r) ==
    \/ Lookup(r)
    \/ Probe(r)
    \/ InsertOpenBlock(r)
    \/ SelectOpenBlock(r)
    \/ StoreBlock(r)
    \/ UpdateRow(r)
    \/ ProbeRow(r)
    \/ InsertRow(r)

EngineNext ==
    \/ \E w \in Wallets : ShareArrives(w) \/ BlockArrives(w)
    \/ \E r \in RequestIds :
          ShareStep(r) \/ CloseBlocks(r) \/ ForgetBlock(r) \/ RequestFails(r)
    \/ \E b \in BlockIds : \E verdict \in {"yes", "no"} : ValidateBlock(b, verdict)
    \/ EngineCrash

EngineStart == DatabaseInit /\ EngineInit

EngineSpec == EngineStart /\ [][EngineNext]_<<dbVars, engineVars>>

------------------------------------------------------------------------------
(* Properties *)

\* The tables and the engine's memory hold what the code may put there.
EngineTypeOK ==
    /\ DatabaseTypeOK
    /\ cache \subseteq BlockIds \cup {None} /\ Cardinality(cache) <= 1
    /\ requests \in Seq(Requests)
    /\ failures \in 0..MaxFailures
    /\ crashes \in 0..MaxCrashes

\* Nothing is counted twice and nothing counted is lost: the shares in the
\* tables are those of the requests that counted one, in the round each of them
\* was given, through concurrent updates and inserts of one row.
CountsAddUp ==
    \A b \in BlockIds, w \in Wallets :
        roundShares[b][w] =
            Cardinality({r \in RequestIds : /\ requests[r].at = "counted"
                                            /\ requests[r].block = b
                                            /\ requests[r].wallet = w})

\* A share that is answered 200 without being counted lost a race against a
\* share of the same wallet that was counted in the same round; in particular it
\* can only happen to what would have been a wallet's first share of the round.
SkippedShareHasRival ==
    \A r \in RequestIds : requests[r].at = "skipped" =>
        \E q \in RequestIds \ {r} : /\ requests[q].at = "counted"
                                    /\ requests[q].wallet = requests[r].wallet
                                    /\ requests[q].block = requests[r].block

\* A block that was mined stays so, under the request that closed it: no later
\* request, racing it or not, takes it over, and no restart reopens it.
MinedStaysMined ==
    [][\A b \in BlockIds : blocks[b].mined # 0 => blocks'[b].mined = blocks[b].mined]_<<dbVars, engineVars>>

\* Under calm traffic in which no request fails half way, the cache between two
\* requests is the open round or nothing, also after a restart: a share is never
\* counted in a round that is over.
CacheIsOpenRound ==
    InFlight = {} => cache \subseteq OpenBlocks

\* Under the same conditions, as long as the engine stays up, no round is closed
\* empty: a block worth a reward always has someone to pay.
NoEmptyRound ==
    crashes = 0 => \A b \in BlockIds \ OpenBlocks : Contributors(b) # {}

Ledger == INSTANCE RoundLedger WITH
    rounds <- [b \in BlockIds |-> [shares |-> roundShares[b],
                                   closed |-> blocks[b].mined # 0]]

\* Under the same conditions the tables are the ledger of rounds that RoundLedger
\* describes: one round is open at a time, only it takes shares, and it is closed
\* for good, restarts included.
RoundsInOrder == Ledger!Spec
==============================================================================
