----------------------------- MODULE EthTemplates -----------------------------
(***************************************************************************)
(* Work of the Ethereum proxy: the block template, the goroutines that     *)
(* fetch it from the node and announce it, and the stratum sessions that   *)
(* mine it.                                                                *)
(*                                                                         *)
(* A fetch asks the node twice, for the pending block (a height) and for   *)
(* the work (a header); other fetches run between the answers, and the     *)
(* template they all copy their backlog from is swapped without a lock.    *)
(***************************************************************************)
EXTENDS Naturals, Sequences, FiniteSets

CONSTANTS
    Fetchers,    \* goroutines that fetch: the timer's, and finders of blocks
    Timer,       \* the one that runs over and over
    Sessions,    \* stratum connections
    maxBacklog,  \* 3 in the code
    MaxFails,    \* failed state updates that make the proxy sick
    StartHeight, \* height of the node's pending block at first
    MaxWorks,    \* bound: headers the node ever offers
    MaxErrors,   \* bound: requests that fail
    MaxFinds,    \* bound: fetches by finders of a block
    MaxLogins    \* bound: logins

ASSUME EthTemplatesAssumption ==
    /\ Timer \in Fetchers
    /\ maxBacklog \in Nat \ {0} /\ MaxFails \in Nat \ {0}
    /\ StartHeight \in Nat /\ StartHeight >= maxBacklog
    /\ MaxWorks \in Nat \ {0}
    /\ {MaxErrors, MaxFinds, MaxLogins} \subseteq Nat

VARIABLES
    works,       \* the node: heights of the headers it offered, newest last
    template,    \* blockTemplate: header (0: none yet), height, headers
    fetch,       \* fetcher -> what its fetchBlockTemplate has in its variables
    sessions,    \* registered sessions
    deaf,        \* those among them nobody reads from any more
    broadcasts,  \* goroutines that will announce a job
    messages,    \* jobs on their way to sessions
    heard,       \* session -> headers its connection has been given
    fails,       \* failsCount
    errors,      \* failed requests so far
    finds,       \* fetches by finders so far
    logins,      \* logins so far
    served       \* history: header -> the height it was stored with

vars == <<works, template, fetch, sessions, deaf, broadcasts, messages, heard,
          fails, errors, finds, logins, served>>

nodeVars == <<works>>
sessionVars == <<sessions, deaf, messages, heard, logins>>
templateVars == <<template, broadcasts, served>>

Headers == 1..Len(works)

\* What eth_getWork answers: the newest header, numbered in the order of their birth
Newest == Len(works)

\* What eth_getBlockByNumber("pending") answers, as far as it is used
PendingHeight == works[Newest]

NoTemplate == [header |-> 0, height |-> 0, headers |-> << >>]

Idle == [at |-> "idle", old |-> NoTemplate, height |-> 0, header |-> 0]

isSick == fails >= MaxFails

At(f, step) == fetch[f].at = step

------------------------------------------------------------------------------
(* fetchBlockTemplate *)

\* The current template is read first, for the comparison and the backlog
StartFetch(f) ==
    /\ At(f, "idle")
    /\ f # Timer => finds < MaxFinds /\ template.header # 0
    /\ finds' = IF f = Timer THEN finds ELSE finds + 1
    /\ fetch' = [fetch EXCEPT ![f] = [Idle EXCEPT !.at = "pending", !.old = template]]
    /\ UNCHANGED <<nodeVars, templateVars, sessionVars, fails, errors>>

\* eth_getBlockByNumber("pending"): the height
GetPendingBlock(f) ==
    /\ At(f, "pending")
    /\ fetch' = [fetch EXCEPT ![f].at = "work", ![f].height = PendingHeight]
    /\ UNCHANGED <<nodeVars, templateVars, sessionVars, fails, errors, finds>>

\* eth_getWork: the header, which may belong to a later block by now
GetWork(f) ==
    /\ At(f, "work")
    /\ fetch' = [fetch EXCEPT ![f] =
           IF @.old.header = Newest THEN Idle
           ELSE [@ EXCEPT !.at = "store", !.header = Newest]]
    /\ UNCHANGED <<nodeVars, templateVars, sessionVars, fails, errors, finds>>

\* Mutant: An error leaves the fetch hanging
RequestHangs(f) ==
    /\ At(f, "pending") \/ At(f, "work")
    /\ errors < MaxErrors /\ errors' = errors + 1
    /\ fetch' = [fetch EXCEPT ![f].at = "hung"]
    /\ UNCHANGED <<nodeVars, templateVars, sessionVars, fails, finds>>

\* Either request fails: the fetch is given up
RequestFails(f) ==
    /\ At(f, "pending") \/ At(f, "work")
    /\ errors < MaxErrors /\ errors' = errors + 1
    /\ fetch' = [fetch EXCEPT ![f] = Idle]
    /\ UNCHANGED <<nodeVars, templateVars, sessionVars, fails, finds>>

\* Mutant: The backlog is one height short
BacklogShort(old, height) ==
    {h \in DOMAIN old.headers : old.headers[h] > height + 1 - maxBacklog}

\* Headers of the old template that are recent enough stay known
Backlog(old, height) ==
    {h \in DOMAIN old.headers : old.headers[h] > height - maxBacklog}

\* The new template: the header just fetched, and the backlog of the old one
NextTemplate(c) ==
    LET known == Backlog(c.old, c.height)
    IN  [header |-> c.header, height |-> c.height,
         headers |-> [h \in known \union {c.header} |->
                         IF h \in known THEN c.old.headers[h] ELSE c.height]]

\* The template is swapped in, and a goroutine started to announce it
StoreTemplate(f) ==
    LET next == NextTemplate(fetch[f])
    IN  /\ At(f, "store")
        /\ template' = next
        /\ served' = [h \in DOMAIN served \union {next.header} |->
                         IF h = next.header THEN next.headers[h] ELSE served[h]]
        /\ broadcasts' = broadcasts + 1
        /\ fetch' = [fetch EXCEPT ![f] = Idle]
        /\ UNCHANGED <<nodeVars, sessionVars, fails, errors, finds>>

------------------------------------------------------------------------------
(* Sessions *)

\* eth_submitLogin registers the session
Login(s) ==
    /\ s \notin sessions
    /\ logins < MaxLogins /\ logins' = logins + 1
    /\ sessions' = sessions \union {s}
    /\ UNCHANGED <<nodeVars, templateVars, fetch, deaf, messages, heard, fails, errors, finds>>

\* A session is over, and with it what was on its way to it
removeSession(s) ==
    /\ sessions' = sessions \ {s}
    /\ deaf' = deaf \ {s}
    /\ messages' = {m \in messages : m.to # s}
    /\ heard' = [heard EXCEPT ![s] = {}]

\* The connection ends: closed, timed out, or after a line that is no request
Disconnect(s) ==
    /\ s \in sessions \ deaf
    /\ removeSession(s)
    /\ UNCHANGED <<nodeVars, templateVars, fetch, logins, fails, errors, finds>>

\* A line too long ends the reader without an error: the session stays registered
\* and its connection open, and jobs are still pushed to it.
Flood(s) ==
    /\ s \in sessions \ deaf
    /\ deaf' = deaf \union {s}
    /\ UNCHANGED <<nodeVars, templateVars, fetch, sessions, messages, heard, logins,
                   fails, errors, finds>>

\* A push fails: its deadline has passed, or the peer has gone
PushFails(m) ==
    /\ m.to \in sessions
    /\ removeSession(m.to)
    /\ UNCHANGED <<nodeVars, templateVars, fetch, logins, fails, errors, finds>>

\* eth_getWork of a miner: the answer is on its way when others read the template.
\* "Work not ready" is an error answer, and those end the session.
AskForWork(s) ==
    /\ s \in sessions \ deaf /\ heard[s] = {}
    /\ IF template.header = 0 \/ isSick
       THEN removeSession(s)
       ELSE /\ messages' = messages \union {[to |-> s, header |-> template.header]}
            /\ UNCHANGED <<sessions, deaf, heard>>
    /\ UNCHANGED <<nodeVars, templateVars, fetch, logins, fails, errors, finds>>

\* A message that matters here; hashrates and unknown methods change nothing, and
\* submissions are EthShares'.
handleTCPMessage(s) == Login(s) \/ AskForWork(s)

\* Mutant: The broadcast goes to sessions that have work already
BroadcastToMiners ==
    /\ broadcasts > 0 /\ broadcasts' = broadcasts - 1
    /\ messages' = messages \union
           [to : {s \in sessions : heard[s] # {}}, header : {template.header}]
    /\ UNCHANGED <<nodeVars, template, served, fetch, sessions, deaf, heard, logins,
                   fails, errors, finds>>

\* broadcastNewJobs: one goroutine for every session registered now
BroadcastNewJobs ==
    /\ broadcasts > 0 /\ broadcasts' = broadcasts - 1
    /\ messages' = IF template.header = 0 \/ isSick THEN messages
                   ELSE messages \union [to : sessions, header : {template.header}]
    /\ UNCHANGED <<nodeVars, template, served, fetch, sessions, deaf, heard, logins,
                   fails, errors, finds>>

\* pushNewJob: the goroutines take the session's lock in any order
Deliver(m) ==
    /\ messages' = messages \ {m}
    /\ heard' = [heard EXCEPT ![m.to] = @ \union {m.header}]
    /\ UNCHANGED <<nodeVars, templateVars, fetch, sessions, deaf, logins, fails, errors, finds>>

------------------------------------------------------------------------------
(* The node and the proxy's health *)

\* The node has a new header, for the same height or for the next one
NewWork(height) ==
    /\ Len(works) < MaxWorks
    /\ height \in {PendingHeight, PendingHeight + 1}
    /\ works' = Append(works, height)
    /\ UNCHANGED <<templateVars, fetch, sessionVars, fails, errors, finds>>

\* The timer that writes the node's state to the engine
StateUpdateFails ==
    /\ template.header # 0
    /\ errors < MaxErrors /\ errors' = errors + 1
    /\ fails' = fails + 1
    /\ UNCHANGED <<nodeVars, templateVars, fetch, sessionVars, finds>>

StateUpdateSucceeds ==
    /\ template.header # 0
    /\ fails # 0 /\ fails' = 0
    /\ UNCHANGED <<nodeVars, templateVars, fetch, sessionVars, errors, finds>>

------------------------------------------------------------------------------

Init ==
    /\ works = <<StartHeight>>
    /\ template = NoTemplate
    /\ fetch = [f \in Fetchers |-> Idle]
    /\ sessions = {} /\ deaf = {} /\ broadcasts = 0 /\ messages = {}
    /\ heard = [s \in Sessions |-> {}]
    /\ fails = 0 /\ errors = 0 /\ finds = 0 /\ logins = 0
    /\ served = << >>

Fetch(f) ==
    \/ StartFetch(f)
    \/ GetPendingBlock(f)
    \/ GetWork(f)
    \/ StoreTemplate(f)

Next ==
    \/ \E f \in Fetchers : Fetch(f) \/ RequestFails(f)
    \/ \E s \in Sessions : handleTCPMessage(s) \/ Disconnect(s) \/ Flood(s)
    \/ \E m \in messages : Deliver(m) \/ PushFails(m)
    \/ BroadcastNewJobs
    \/ \E height \in {PendingHeight, PendingHeight + 1} : NewWork(height)
    \/ StateUpdateFails
    \/ StateUpdateSucceeds

Spec == Init /\ [][Next]_vars

\* Upstream requests have a timeout, the refresh timer is always set again,
\* goroutines run, and a miner that logged in asks for work.
Fairness ==
    /\ \A f \in Fetchers : WF_vars(Fetch(f))
    /\ WF_vars(BroadcastNewJobs)
    /\ \A s \in Sessions :
          WF_vars(AskForWork(s)) /\ WF_vars(\E m \in messages : m.to = s /\ Deliver(m))

FairSpec == Spec /\ Fairness

------------------------------------------------------------------------------
(* Properties *)

Messages == [to : Sessions, header : 1..MaxWorks]

IsTemplate(t) ==
    /\ t.header \in 0..MaxWorks /\ t.height \in Nat
    /\ DOMAIN t.headers \subseteq Headers
    /\ \A h \in DOMAIN t.headers : t.headers[h] \in Nat

\* The variables of proxy and sessions hold what the code may put there.
TypeOK ==
    /\ works \in Seq(Nat) /\ Len(works) \in 1..MaxWorks
    /\ IsTemplate(template)
    /\ DOMAIN fetch = Fetchers
    /\ \A f \in Fetchers :
          /\ fetch[f].at \in {"idle", "pending", "work", "store"}
          /\ IsTemplate(fetch[f].old)
          /\ fetch[f].height \in Nat /\ fetch[f].header \in 0..MaxWorks
    /\ deaf \subseteq sessions /\ sessions \subseteq Sessions
    /\ broadcasts \in Nat
    /\ messages \subseteq Messages
    /\ heard \in [Sessions -> SUBSET (1..MaxWorks)]
    /\ fails \in 0..MaxErrors /\ errors \in 0..MaxErrors
    /\ finds \in 0..MaxFinds /\ logins \in 0..MaxLogins
    /\ DOMAIN served \subseteq Headers

\* Until a finder fetches as well, a share is stale only when its header is
\* maxBacklog heights old: every header ever handed out keeps its place, and its
\* height, until then.  (A finder's fetch may overwrite a template it has not seen.)
BacklogKept ==
    finds = 0 =>
        \A h \in DOMAIN served :
            served[h] > template.height - maxBacklog =>
                h \in DOMAIN template.headers /\ template.headers[h] = served[h]

\* The proxy gets to the node's newest header and stays there, although fetches
\* fail, and a slow one can put an older template over a newer one.
TemplateCatchesUp == <>[](template.header = Newest)

\* A session that stays connected and is read from is given the newest header,
\* whether it logs in before or after the template, by a broadcast or because it
\* asks.  (Not necessarily last; and if the proxy is ever sick, broadcasts are
\* dropped and not made up for.)
SessionsFollow ==
    []~isSick => <>[](\A s \in sessions \ deaf : Newest \in heard[s])
==============================================================================
