----------------------------- MODULE EthUpstreams -----------------------------
(***************************************************************************)
(* The Ethereum proxy's nodes: how one is taken to be sick or well again,  *)
(* and how the round of checks picks the one to use, while requests to the *)
(* current one fail in between.                                            *)
(***************************************************************************)
EXTENDS Naturals, FiniteSets, FiniteSetsExt

CONSTANTS
    Upstreams,   \* positions in the configuration, the preferred one first
    Threshold,   \* failures that make a client sick, checks that heal it: 5
    MaxChanges   \* bound: how often nodes go down or come back

ASSUME EthUpstreamsAssumption ==
    /\ IsFiniteSet(Upstreams) /\ Upstreams # {}
    /\ Upstreams = 1..Cardinality(Upstreams)
    /\ Threshold \in Nat \ {0} /\ MaxChanges \in Nat

VARIABLES
    up,          \* the nodes that answer
    sick,        \* RPCClient.sick
    sickRate,    \* RPCClient.sickRate, up to Threshold: more makes no difference
    successRate, \* RPCClient.successRate
    upstream,    \* the client in use
    check,       \* the round of checks: the next to ask (0: none), candidate, backup
    streak,      \* history: good checks since the last failure, up to Threshold
    changes      \* changes of up so far

clientVars == <<sick, sickRate, successRate, streak>>
upstreamVars == <<up, clientVars, upstream, check, changes>>

NoCheck == [next |-> 0, candidate |-> 1, backup |-> FALSE]

------------------------------------------------------------------------------
(* RPCClient *)

\* Mutant: A failure does not interrupt the count of good checks
markSickKeepsCount(i) ==
    LET rate == Min({sickRate[i] + 1, Threshold})
    IN  /\ sickRate' = [sickRate EXCEPT ![i] = rate]
        /\ sick' = [sick EXCEPT ![i] = @ \/ rate >= Threshold]
        /\ streak' = [streak EXCEPT ![i] = 0]
        /\ UNCHANGED successRate

markSick(i) ==
    LET rate == Min({sickRate[i] + 1, Threshold})
    IN  /\ sickRate' = [sickRate EXCEPT ![i] = rate]
        /\ successRate' = [successRate EXCEPT ![i] = 0]
        /\ sick' = [sick EXCEPT ![i] = @ \/ rate >= Threshold]
        /\ streak' = [streak EXCEPT ![i] = 0]

markAlive(i) ==
    LET healed == successRate[i] + 1 >= Threshold
    IN  /\ successRate' = [successRate EXCEPT ![i] = IF healed THEN 0 ELSE @ + 1]
        /\ sickRate' = [sickRate EXCEPT ![i] = IF healed THEN 0 ELSE @]
        /\ sick' = [sick EXCEPT ![i] = @ /\ ~healed]
        /\ streak' = [streak EXCEPT ![i] = Min({@ + 1, Threshold})]

------------------------------------------------------------------------------
(* Actions *)

\* A request of a fetch or of a block's submission fails at the current node.
\* One that succeeds changes nothing: only checks heal.
CallFails ==
    /\ upstream \notin up
    /\ markSick(upstream)
    /\ UNCHANGED <<up, upstream, check, changes>>

StartCheck ==
    /\ check.next = 0
    /\ check' = [NoCheck EXCEPT !.next = 1]
    /\ UNCHANGED <<up, clientVars, upstream, changes>>

\* Mutant: the last client that answers is the candidate
CheckLastWins ==
    LET i == check.next
    IN  /\ i \in Upstreams
        /\ IF i \in up THEN markAlive(i) ELSE markSick(i)
        /\ check' = [next |-> i + 1,
                     candidate |-> IF i \in up /\ ~sick'[i] THEN i ELSE check.candidate,
                     backup |-> check.backup \/ (i \in up /\ ~sick'[i])]
        /\ UNCHANGED <<up, upstream, changes>>

\* checkUpstreams asks every client, also when it has found one: the first that
\* answers and is not sick afterwards is the candidate
Check ==
    LET i == check.next
    IN  /\ i \in Upstreams
        /\ IF i \in up THEN markAlive(i) ELSE markSick(i)
        /\ check' = [next |-> i + 1,
                     candidate |-> IF i \in up /\ ~sick'[i] /\ ~check.backup
                                   THEN i ELSE check.candidate,
                     backup |-> check.backup \/ (i \in up /\ ~sick'[i])]
        /\ UNCHANGED <<up, upstream, changes>>

\* The candidate is used from now on: the first client if there is no better one
Switch ==
    /\ check.next = Cardinality(Upstreams) + 1
    /\ upstream' = check.candidate
    /\ check' = NoCheck
    /\ UNCHANGED <<up, clientVars, changes>>

NodeChanges(i) ==
    /\ changes < MaxChanges /\ changes' = changes + 1
    /\ up' = IF i \in up THEN up \ {i} ELSE up \union {i}
    /\ UNCHANGED <<clientVars, upstream, check>>

UpstreamsInit ==
    /\ up = Upstreams
    /\ sick = [i \in Upstreams |-> FALSE]
    /\ sickRate = [i \in Upstreams |-> 0]
    /\ successRate = [i \in Upstreams |-> 0]
    /\ streak = [i \in Upstreams |-> 0]
    /\ upstream = 1
    /\ check = NoCheck
    /\ changes = 0

CheckRound == StartCheck \/ Check \/ Switch

UpstreamsNext == CallFails \/ CheckRound \/ \E i \in Upstreams : NodeChanges(i)

\* The check timer is always set again, and its requests have a timeout.
UpstreamsSpec == UpstreamsInit /\ [][UpstreamsNext]_upstreamVars /\ WF_upstreamVars(CheckRound)

------------------------------------------------------------------------------
(* Properties *)

\* Every variable keeps its type, and sickness agrees with the failures counted:
\* sick and sickRate change in one step.
UpstreamsTypeOK ==
    /\ up \subseteq Upstreams
    /\ sick \in [Upstreams -> BOOLEAN]
    /\ sickRate \in [Upstreams -> 0..Threshold]
    /\ successRate \in [Upstreams -> 0..(Threshold - 1)]
    /\ streak \in [Upstreams -> 0..Threshold]
    /\ upstream \in Upstreams
    /\ check \in [next : 0..(Cardinality(Upstreams) + 1), candidate : Upstreams,
                  backup : BOOLEAN]
    /\ \A i \in Upstreams : sick[i] <=> sickRate[i] = Threshold

\* A sick client is well again only after Threshold good checks without a failure
\* of any request in between, one of a fetch included.
RecoveryNeedsStreak ==
    [][\A i \in Upstreams : sick[i] /\ ~sick'[i] => streak'[i] >= Threshold]_upstreamVars

Preferred == IF up = {} THEN 1 ELSE Min(up)

\* When nodes stop changing, the proxy gets to the first that answers and stays
\* there: a sick one is not avoided for ever, and a dead one not kept.
SettlesOnPreferred == <>[](upstream = Preferred)

==============================================================================
