---------------------------- MODULE EthProxyProofs ----------------------------
(***************************************************************************)
(* Proofs about the work of the Ethereum proxy (EthTemplates), for every   *)
(* number of fetchers and sessions and every backlog, and about its nodes  *)
(* (EthUpstreams), for every number of nodes and every threshold.          *)
(***************************************************************************)
EXTENDS EthTemplates, EthUpstreams, FiniteSetTheorems, SequenceTheorems, TLAPS

------------------------------------------------------------------------------
(* The invariant *)

WorksOK == works \in Seq(Nat) /\ Len(works) \in 1..MaxWorks

\* What a fetch has in its variables: a header it stores the node has offered, and
\* no height it was answered is above the node's.
FetchOK(c) ==
    /\ DOMAIN c = {"at", "old", "height", "header"}
    /\ c.at \in {"idle", "pending", "work", "store"}
    /\ IsTemplate(c.old)
    /\ c.height \in Nat /\ c.header \in 0..MaxWorks
    /\ c.at = "store" => c.header \in Headers
    /\ c.at \in {"work", "store"} => c.height <= PendingHeight

FetchesOK ==
    /\ DOMAIN fetch = Fetchers
    /\ \A f \in Fetchers : FetchOK(fetch[f])

TemplateOK ==
    /\ IsTemplate(template)
    /\ template.height <= PendingHeight
    /\ DOMAIN served \subseteq Headers
    /\ \A h \in DOMAIN served : served[h] \in Nat

SessionsOK ==
    /\ deaf \subseteq sessions /\ sessions \subseteq Sessions
    /\ broadcasts \in Nat
    /\ messages \subseteq Messages
    /\ heard \in [Sessions -> SUBSET (1..MaxWorks)]
    /\ logins \in 0..MaxLogins

CountsOK ==
    /\ fails \in Nat /\ errors \in 0..MaxErrors /\ fails <= errors
    /\ finds \in 0..MaxFinds

\* The types, with what is known of heights and headers
TypeInv == WorksOK /\ FetchesOK /\ TemplateOK /\ SessionsOK /\ CountsOK

\* As long as only the timer fetches, it swaps exactly the template it has read,
\* for one that is not of a lower height.
TimerAlone ==
    /\ \A f \in Fetchers \ {Timer} : At(f, "idle")
    /\ ~At(Timer, "idle") => fetch[Timer].old = template
    /\ At(Timer, "work") \/ At(Timer, "store") => template.height <= fetch[Timer].height

\* What is proved, and why it is so
BacklogInv == BacklogKept /\ (finds = 0 => TimerAlone)

------------------------------------------------------------------------------
(* Types *)

\* The constants, one by one
LEMMA Bounds ==
    /\ Timer \in Fetchers /\ maxBacklog \in Nat /\ MaxFails \in Nat /\ StartHeight \in Nat
    /\ MaxWorks \in Nat \ {0} /\ MaxErrors \in Nat /\ MaxFinds \in Nat /\ MaxLogins \in Nat
BY EthTemplatesAssumption

\* The type invariant is weaker than its parts.
LEMMA TypeParts == TypeInv => TypeOK
<1>. SUFFICES ASSUME TypeInv PROVE TypeOK
  OBVIOUS
<1>1. fails \in 0..MaxErrors
  BY Bounds DEF TypeInv, CountsOK
<1>. QED  BY <1>1 DEF TypeInv, TypeOK, WorksOK, FetchesOK, FetchOK, TemplateOK, SessionsOK, CountsOK

\* What the node offers is a header and its height.
LEMMA NodeAnswers ==
    ASSUME WorksOK
    PROVE  /\ Newest \in Nat /\ Newest \in Headers /\ Newest \in 0..MaxWorks
           /\ PendingHeight \in Nat
           /\ Headers \subseteq 1..MaxWorks
<1>1. works \in Seq(Nat) /\ Len(works) \in 1..Len(works) /\ Len(works) \in Nat
  BY Bounds DEF WorksOK
<1>2. works[Len(works)] \in Nat
  BY <1>1
<1>. QED  BY <1>1, <1>2, Bounds DEF WorksOK, Newest, Headers, PendingHeight

\* One fetch moves, the others are where they were.
Moves(f, c) ==
    /\ DOMAIN fetch' = Fetchers
    /\ \A g \in Fetchers : fetch'[g] = IF g = f THEN c ELSE fetch[g]

\* A fetch that moves leaves the others alone.
LEMMA FetchMoves ==
    ASSUME FetchesOK, NEW f \in Fetchers, NEW c, fetch' = [fetch EXCEPT ![f] = c]
    PROVE  Moves(f, c)
BY DEF FetchesOK, Moves

\* An idle fetch and a missing template are what they should be.
LEMMA IdleOK == ASSUME WorksOK PROVE FetchOK(Idle) /\ IsTemplate(NoTemplate)
<1>1. IsTemplate(NoTemplate)
  BY Bounds DEF IsTemplate, NoTemplate, Headers
<1>. QED  BY <1>1, Bounds DEF FetchOK, Idle

\* A fetch asks, is answered or gives up: where it is then.
LEMMA FetchSteps ==
    ASSUME TypeInv, NEW f \in Fetchers,
           StartFetch(f) \/ GetPendingBlock(f) \/ GetWork(f) \/ RequestFails(f)
    PROVE  /\ UNCHANGED <<nodeVars, templateVars, sessionVars, fails>>
           /\ CountsOK'
           /\ \E c : /\ Moves(f, c) /\ FetchOK(c)
                     /\ \/ c = Idle /\ finds' = finds
                        \/ /\ StartFetch(f) /\ c.at = "pending" /\ c.old = template
                        \/ /\ ~At(f, "idle") /\ c.at \in {"work", "store"} /\ finds' = finds
                           /\ c.old = fetch[f].old
                           /\ \/ At(f, "pending") /\ c.height = PendingHeight
                              \/ At(f, "work") /\ c.height = fetch[f].height
<1>0. /\ WorksOK /\ FetchesOK /\ FetchOK(fetch[f]) /\ CountsOK /\ IsTemplate(template)
      /\ FetchOK(Idle)
  BY IdleOK DEF TypeInv, FetchesOK, TemplateOK
<1>1. CASE StartFetch(f)
  <2>1. PICK c : c = [Idle EXCEPT !.at = "pending", !.old = template]
    OBVIOUS
  <2>2. FetchOK(c) /\ c.at = "pending" /\ c.old = template
    BY <1>0, <2>1, Bounds DEF FetchOK, Idle
  <2>3. Moves(f, c)
    BY <1>0, <1>1, <2>1, FetchMoves DEF StartFetch
  <2>4. CountsOK'
    BY <1>0, <1>1, Bounds DEF StartFetch, CountsOK
  <2>. QED  BY <1>1, <2>2, <2>3, <2>4 DEF StartFetch
<1>2. CASE GetPendingBlock(f)
  <2>1. PICK c : c = [fetch[f] EXCEPT !.at = "work", !.height = PendingHeight]
    OBVIOUS
  <2>2. PendingHeight \in Nat /\ PendingHeight <= PendingHeight
    BY <1>0, NodeAnswers
  <2>3. /\ FetchOK(c) /\ c.at = "work" /\ c.height = PendingHeight /\ c.old = fetch[f].old
    BY <1>0, <2>1, <2>2 DEF FetchOK
  <2>4. fetch' = [fetch EXCEPT ![f] = c]
    BY <1>2, <2>1 DEF GetPendingBlock
  <2>5. Moves(f, c)
    BY <1>0, <2>4, FetchMoves
  <2>. QED  BY <1>0, <1>2, <2>3, <2>5 DEF GetPendingBlock, CountsOK, At
<1>3. CASE GetWork(f)
  <2>1. PICK c : c = IF fetch[f].old.header = Newest THEN Idle
                     ELSE [fetch[f] EXCEPT !.at = "store", !.header = Newest]
    OBVIOUS
  <2>2. fetch' = [fetch EXCEPT ![f] = c]
    BY <1>3, <2>1 DEF GetWork
  <2>3. Moves(f, c)
    BY <1>0, <2>2, FetchMoves
  <2>4. CASE fetch[f].old.header = Newest
    BY <1>0, <1>3, <2>1, <2>3, <2>4 DEF GetWork, CountsOK
  <2>5. CASE fetch[f].old.header # Newest
    <3>1. FetchOK(c) /\ c.at = "store" /\ c.height = fetch[f].height /\ c.old = fetch[f].old
      BY <1>0, <1>3, <2>1, <2>5, NodeAnswers DEF FetchOK, GetWork, At
    <3>. QED  BY <1>0, <1>3, <2>3, <3>1 DEF GetWork, CountsOK, At
  <2>. QED  BY <2>4, <2>5
<1>4. CASE RequestFails(f)
  <2>1. Moves(f, Idle)
    BY <1>0, <1>4, FetchMoves DEF RequestFails
  <2>2. CountsOK'
    BY <1>0, <1>4, Bounds DEF RequestFails, CountsOK
  <2>. QED  BY <1>0, <1>4, <2>1, <2>2 DEF RequestFails
<1>. QED  BY <1>1, <1>2, <1>3, <1>4

\* The new template names headers the node has offered, with their heights, at the
\* height the fetch was answered.
LEMMA NextTemplateOK ==
    ASSUME WorksOK, NEW c, FetchOK(c), c.at = "store"
    PROVE  LET next == NextTemplate(c)
           IN  /\ IsTemplate(next) /\ next.height = c.height /\ next.header = c.header
               /\ c.header \in DOMAIN next.headers
               /\ \A h \in DOMAIN c.old.headers :
                      c.old.headers[h] > c.height - maxBacklog =>
                          h \in DOMAIN next.headers /\ next.headers[h] = c.old.headers[h]
<1>. DEFINE next == NextTemplate(c)
<1>1. PICK known : known = Backlog(c.old, c.height)
  OBVIOUS
<1>2. /\ known \subseteq DOMAIN c.old.headers
      /\ \A h \in DOMAIN c.old.headers : c.old.headers[h] > c.height - maxBacklog => h \in known
  BY <1>1 DEF Backlog
<1>3. next = [header |-> c.header, height |-> c.height,
              headers |-> [h \in known \union {c.header} |->
                              IF h \in known THEN c.old.headers[h] ELSE c.height]]
  BY <1>1 DEF NextTemplate
<1>4. /\ c.header \in Headers /\ c.header \in 0..MaxWorks /\ c.height \in Nat
      /\ DOMAIN c.old.headers \subseteq Headers
      /\ \A h \in DOMAIN c.old.headers : c.old.headers[h] \in Nat
  BY DEF FetchOK, IsTemplate
<1>5. /\ next.header = c.header /\ next.height = c.height
      /\ DOMAIN next.headers = known \union {c.header}
      /\ \A h \in known \union {c.header} :
             next.headers[h] = IF h \in known THEN c.old.headers[h] ELSE c.height
  BY <1>3
<1>. HIDE DEF next
<1>6. IsTemplate(next)
  BY <1>2, <1>4, <1>5 DEF IsTemplate
<1>. QED  BY <1>2, <1>5, <1>6 DEF next

------------------------------------------------------------------------------
(* Steps *)

\* While only works of before are known, templates and fetches stay what they are.
LEMMA FetchStep ==
    ASSUME TypeInv, BacklogInv, NEW f \in Fetchers,
           StartFetch(f) \/ GetPendingBlock(f) \/ GetWork(f) \/ RequestFails(f)
    PROVE  TypeInv' /\ BacklogInv'
<1>0. /\ UNCHANGED <<works, template, served, broadcasts>> /\ UNCHANGED sessionVars
      /\ CountsOK'
  BY FetchSteps DEF nodeVars, templateVars
<1>1. PICK c : /\ Moves(f, c) /\ FetchOK(c)
               /\ \/ c = Idle /\ finds' = finds
                  \/ /\ StartFetch(f) /\ c.at = "pending" /\ c.old = template
                  \/ /\ ~At(f, "idle") /\ c.at \in {"work", "store"} /\ finds' = finds
                     /\ c.old = fetch[f].old
                     /\ \/ At(f, "pending") /\ c.height = PendingHeight
                        \/ At(f, "work") /\ c.height = fetch[f].height
  BY FetchSteps
<1>2. FetchesOK'
  <2>1. ASSUME NEW g \in Fetchers PROVE FetchOK(fetch'[g])
    BY <1>1 DEF Moves, TypeInv, FetchesOK
  <2>2. Headers' = Headers /\ PendingHeight' = PendingHeight
    BY <1>0 DEF Headers, PendingHeight, Newest
  <2>. QED  BY <1>1, <2>1, <2>2 DEF FetchesOK, Moves, FetchOK, IsTemplate
<1>3. WorksOK' /\ TemplateOK' /\ SessionsOK'
  BY <1>0 DEF TypeInv, WorksOK, TemplateOK, SessionsOK, sessionVars, IsTemplate, Headers,
              PendingHeight, Newest
<1>4. finds' = 0 => finds = 0
  BY <1>1, Bounds DEF StartFetch, TypeInv, CountsOK
<1>5. BacklogKept'
  BY <1>0, <1>4 DEF BacklogInv, BacklogKept
<1>6. ASSUME finds' = 0 PROVE TimerAlone'
  <2>1. TimerAlone
    BY <1>4, <1>6 DEF BacklogInv
  <2>2. CASE f # Timer
    <3>1. At(f, "idle")
      BY <2>1, <2>2 DEF TimerAlone
    <3>2. ~StartFetch(f)
      <4>1. finds \in Nat
        BY Bounds DEF TypeInv, CountsOK
      <4>. QED  BY <1>6, <2>2, <4>1 DEF StartFetch
    <3>3. c = Idle
      BY <1>1, <3>1, <3>2
    <3>. QED  BY <1>0, <1>1, <2>1, <2>2, <3>3, Bounds DEF TimerAlone, Moves, At, Idle
  <2>3. CASE f = Timer
    <3>1. fetch'[Timer] = c /\ \A g \in Fetchers \ {Timer} : fetch'[g] = fetch[g]
      BY <1>1, <2>3, Bounds DEF Moves
    <3>2. \A g \in Fetchers \ {Timer} : At(g, "idle")'
      BY <2>1, <3>1 DEF TimerAlone, At
    <3>3. c.at # "idle" => c.old = template
      BY <1>1, <2>1, <2>3 DEF TimerAlone, Idle, At
    <3>4. c.at \in {"work", "store"} => template.height <= c.height
      BY <1>1, <2>1, <2>3 DEF TimerAlone, Idle, At, TypeInv, TemplateOK
    <3>. QED  BY <1>0, <3>1, <3>2, <3>3, <3>4 DEF TimerAlone, At
  <2>. QED  BY <2>2, <2>3
<1>. QED  BY <1>0, <1>2, <1>3, <1>5, <1>6 DEF TypeInv, BacklogInv

\* The template is swapped.  If it is the one the timer has read, and not for one of
\* a lower height, then what is still recent was recent before, and is kept.
LEMMA StoreStep ==
    ASSUME TypeInv, BacklogInv, NEW f \in Fetchers, StoreTemplate(f)
    PROVE  TypeInv' /\ BacklogInv'
<1>0. /\ UNCHANGED <<works, fails, errors, finds>> /\ UNCHANGED sessionVars
      /\ At(f, "store") /\ broadcasts' = broadcasts + 1
      /\ fetch' = [fetch EXCEPT ![f] = Idle]
  BY DEF StoreTemplate, nodeVars
<1>1. PICK c, next : c = fetch[f] /\ next = NextTemplate(c)
  OBVIOUS
<1>2. /\ template' = next
      /\ served' = [h \in DOMAIN served \union {next.header} |->
                        IF h = next.header THEN next.headers[h] ELSE served[h]]
  BY <1>1 DEF StoreTemplate
<1>3. FetchOK(c) /\ c.at = "store"
  BY <1>0, <1>1 DEF TypeInv, FetchesOK, At
<1>4. /\ IsTemplate(next) /\ next.height = c.height /\ next.header = c.header
      /\ c.header \in DOMAIN next.headers
      /\ \A h \in DOMAIN c.old.headers :
             c.old.headers[h] > c.height - maxBacklog =>
                 h \in DOMAIN next.headers /\ next.headers[h] = c.old.headers[h]
  BY <1>1, <1>3, NextTemplateOK DEF TypeInv
<1>5. c.header \in Headers /\ c.height \in Nat /\ c.height <= PendingHeight
  BY <1>3 DEF FetchOK
<1>6. /\ DOMAIN served' = DOMAIN served \union {c.header}
      /\ served'[c.header] = next.headers[c.header]
      /\ \A h \in DOMAIN served : h # c.header => served'[h] = served[h]
  BY <1>2, <1>4
<1>7. Headers' = Headers /\ PendingHeight' = PendingHeight
      /\ \A t : IsTemplate(t)' <=> IsTemplate(t)
  BY <1>0 DEF Headers, PendingHeight, Newest, IsTemplate
<1>8. TemplateOK'
  <2>1. \A h \in DOMAIN served' : served'[h] \in Nat /\ h \in Headers
    BY <1>4, <1>5, <1>6 DEF TypeInv, TemplateOK, IsTemplate
  <2>2. IsTemplate(next)' /\ next.height <= PendingHeight'
    BY <1>4, <1>5, <1>7
  <2>. QED  BY <1>2, <1>7, <2>1, <2>2 DEF TemplateOK, IsTemplate
<1>9. Moves(f, Idle)
  BY <1>0, FetchMoves DEF TypeInv
<1>10. FetchesOK'
  <2>1. ASSUME NEW g \in Fetchers PROVE FetchOK(fetch'[g])
    BY <1>9, IdleOK DEF Moves, TypeInv, FetchesOK
  <2>. QED  BY <1>7, <1>9, <2>1 DEF FetchesOK, Moves, FetchOK, IsTemplate
<1>11. WorksOK' /\ SessionsOK' /\ CountsOK'
  BY <1>0 DEF TypeInv, WorksOK, SessionsOK, CountsOK, sessionVars
<1>12. ASSUME finds' = 0 PROVE TimerAlone' /\ BacklogKept'
  <2>1. TimerAlone /\ BacklogKept /\ finds = 0
    BY <1>0, <1>12 DEF BacklogInv
  <2>2. f = Timer /\ c.old = template /\ template.height <= c.height
    BY <1>0, <1>1, <2>1 DEF TimerAlone, At
  <2>3. TimerAlone'
    BY <1>9, <2>1, <2>2, Bounds DEF TimerAlone, Moves, At, Idle
  <2>4. ASSUME NEW h \in DOMAIN served', served'[h] > c.height - maxBacklog
        PROVE  h \in DOMAIN next.headers /\ next.headers[h] = served'[h]
    <3>1. CASE h = c.header
      BY <1>4, <1>6, <3>1
    <3>2. CASE h # c.header
      <4>1. h \in DOMAIN served /\ served'[h] = served[h] /\ served[h] \in Nat
        BY <1>6, <3>2 DEF TypeInv, TemplateOK
      <4>2. served[h] > template.height - maxBacklog
        <5>1. template.height \in Nat /\ maxBacklog \in Nat
          BY Bounds DEF TypeInv, TemplateOK, IsTemplate
        <5>. QED  BY <1>5, <2>2, <2>4, <4>1, <5>1
      <4>3. h \in DOMAIN template.headers /\ template.headers[h] = served[h]
        BY <2>1, <4>1, <4>2 DEF BacklogKept
      <4>. QED  BY <1>4, <2>2, <2>4, <4>1, <4>3
    <3>. QED  BY <3>1, <3>2
  <2>5. BacklogKept'
    BY <1>2, <1>4, <2>4 DEF BacklogKept
  <2>. QED  BY <2>3, <2>5
<1>. QED  BY <1>8, <1>10, <1>11, <1>12 DEF TypeInv, BacklogInv, BacklogKept

\* The node has a new header: heights that were answered are still not above its own.
LEMMA WorkStep ==
    ASSUME TypeInv, BacklogInv, NEW height \in {PendingHeight, PendingHeight + 1}, NewWork(height)
    PROVE  TypeInv' /\ BacklogInv'
<1>0. /\ UNCHANGED <<template, served, broadcasts, fetch, fails, errors, finds>>
      /\ UNCHANGED sessionVars
      /\ works' = Append(works, height) /\ Len(works) < MaxWorks
  BY DEF NewWork, templateVars
<1>1. /\ works \in Seq(Nat) /\ Len(works) \in Nat /\ PendingHeight \in Nat /\ height \in Nat
      /\ height >= PendingHeight /\ MaxWorks \in Nat
  BY NodeAnswers, Bounds DEF TypeInv, WorksOK
<1>2. PICK n : n = Len(works) + 1
  OBVIOUS
<1>3. /\ works' \in Seq(Nat) /\ Len(works') = n /\ works'[n] = height
  BY <1>0, <1>1, <1>2, AppendProperties
<1>4. WorksOK' /\ PendingHeight' = height /\ Headers' = 1..n /\ Headers = 1..Len(works)
  BY <1>0, <1>1, <1>2, <1>3 DEF WorksOK, PendingHeight, Newest, Headers
<1>5. Headers \subseteq Headers' /\ PendingHeight <= PendingHeight'
  BY <1>1, <1>2, <1>4
<1>6. \A t : IsTemplate(t) => IsTemplate(t)'
  BY <1>5 DEF IsTemplate
<1>7. \A c : FetchOK(c) => FetchOK(c)'
  <2>1. ASSUME NEW c, FetchOK(c) PROVE FetchOK(c)'
    <3>1. c.at \in {"work", "store"} => c.height <= PendingHeight'
      BY <1>1, <1>4, <1>5, <2>1 DEF FetchOK
    <3>. QED  BY <1>5, <1>6, <2>1, <3>1 DEF FetchOK
  <2>. QED  BY <2>1
<1>8. FetchesOK'
  BY <1>0, <1>7 DEF TypeInv, FetchesOK
<1>9. TemplateOK'
  <2>1. template.height <= PendingHeight'
    BY <1>1, <1>4, <1>5 DEF TypeInv, TemplateOK, IsTemplate
  <2>. QED  BY <1>0, <1>5, <1>6, <2>1 DEF TypeInv, TemplateOK
<1>10. SessionsOK' /\ CountsOK'
  BY <1>0 DEF TypeInv, SessionsOK, CountsOK, sessionVars
<1>11. BacklogInv'
  BY <1>0 DEF BacklogInv, BacklogKept, TimerAlone, At
<1>. QED  BY <1>4, <1>8, <1>9, <1>10, <1>11 DEF TypeInv

\* Sessions and their messages: nothing else is touched.
SessionAction ==
    \/ \E s \in Sessions : handleTCPMessage(s) \/ Disconnect(s) \/ Flood(s)
    \/ \E m \in messages : Deliver(m) \/ PushFails(m)
    \/ BroadcastNewJobs

\* Sessions and messages name sessions and headers that exist.
LEMMA SessionTypes ==
    ASSUME TypeInv, SessionAction
    PROVE  SessionsOK'
<1>0. /\ SessionsOK /\ MaxLogins \in Nat
      /\ template.header # 0 => template.header \in 1..MaxWorks
  BY Bounds DEF TypeInv, TemplateOK, IsTemplate
<1>1. ASSUME NEW s, removeSession(s), UNCHANGED <<broadcasts, logins>> PROVE SessionsOK'
  <2>1. /\ sessions' = sessions \ {s} /\ deaf' = deaf \ {s}
        /\ messages' \subseteq messages /\ heard' = [heard EXCEPT ![s] = {}]
    BY <1>1 DEF removeSession
  <2>2. heard' \in [Sessions -> SUBSET (1..MaxWorks)]
    BY <1>0, <2>1 DEF SessionsOK
  <2>. QED  BY <1>0, <1>1, <2>1, <2>2 DEF SessionsOK
<1>2. ASSUME NEW s \in Sessions, Login(s) PROVE SessionsOK'
  BY <1>0, <1>2 DEF Login, SessionsOK, templateVars
<1>3. ASSUME NEW s \in Sessions, AskForWork(s) PROVE SessionsOK'
  <2>1. CASE template.header = 0 \/ isSick
    BY <1>1, <1>3, <2>1 DEF AskForWork, templateVars
  <2>2. CASE ~(template.header = 0 \/ isSick)
    <3>1. [to |-> s, header |-> template.header] \in Messages
      BY <1>0, <2>2 DEF Messages
    <3>. QED  BY <1>0, <1>3, <2>2, <3>1 DEF AskForWork, SessionsOK, templateVars
  <2>. QED  BY <2>1, <2>2
<1>4. ASSUME NEW s \in Sessions, Disconnect(s) PROVE SessionsOK'
  BY <1>1, <1>4 DEF Disconnect, templateVars
<1>5. ASSUME NEW s \in Sessions, Flood(s) PROVE SessionsOK'
  BY <1>0, <1>5 DEF Flood, SessionsOK, templateVars
<1>6. ASSUME NEW m \in messages, Deliver(m) PROVE SessionsOK'
  <2>1. m.to \in Sessions /\ m.header \in 1..MaxWorks
    BY <1>0 DEF SessionsOK, Messages
  <2>2. heard' \in [Sessions -> SUBSET (1..MaxWorks)]
    BY <1>0, <1>6, <2>1 DEF Deliver, SessionsOK
  <2>. QED  BY <1>0, <1>6, <2>2 DEF Deliver, SessionsOK, templateVars
<1>7. ASSUME NEW m \in messages, PushFails(m) PROVE SessionsOK'
  BY <1>1, <1>7 DEF PushFails, templateVars
<1>8. CASE BroadcastNewJobs
  <2>1. messages' \subseteq Messages
    <3>1. CASE template.header = 0 \/ isSick
      BY <1>0, <1>8, <3>1 DEF BroadcastNewJobs, SessionsOK
    <3>2. CASE ~(template.header = 0 \/ isSick)
      <4>1. [to : sessions, header : {template.header}] \subseteq Messages
        BY <1>0, <3>2 DEF SessionsOK, Messages
      <4>. QED  BY <1>0, <1>8, <3>2, <4>1 DEF BroadcastNewJobs, SessionsOK
    <3>. QED  BY <3>1, <3>2
  <2>. QED  BY <1>0, <1>8, <2>1 DEF BroadcastNewJobs, SessionsOK
<1>. QED  BY <1>2, <1>3, <1>4, <1>5, <1>6, <1>7, <1>8 DEF SessionAction, handleTCPMessage

\* What sessions do leaves templates and fetches alone.
LEMMA SessionStep ==
    ASSUME TypeInv, BacklogInv, SessionAction
    PROVE  TypeInv' /\ BacklogInv'
<1>1. UNCHANGED <<works, template, served, fetch, fails, errors, finds>>
  BY DEF SessionAction, handleTCPMessage, Login, AskForWork, Disconnect, Flood, Deliver,
         PushFails, BroadcastNewJobs, nodeVars, templateVars
<1>2. WorksOK' /\ FetchesOK' /\ TemplateOK' /\ CountsOK'
  BY <1>1 DEF TypeInv, WorksOK, FetchesOK, FetchOK, TemplateOK, CountsOK, IsTemplate, Headers,
              PendingHeight, Newest
<1>3. BacklogInv'
  BY <1>1 DEF BacklogInv, BacklogKept, TimerAlone, At
<1>. QED  BY <1>2, <1>3, SessionTypes DEF TypeInv

\* The state update fails or succeeds, or nothing happens.
LEMMA CountStep ==
    ASSUME TypeInv, BacklogInv, StateUpdateFails \/ StateUpdateSucceeds \/ UNCHANGED vars
    PROVE  TypeInv' /\ BacklogInv'
<1>1. UNCHANGED <<works, template, served, broadcasts, fetch, finds>> /\ UNCHANGED sessionVars
  BY DEF StateUpdateFails, StateUpdateSucceeds, vars, nodeVars, templateVars, sessionVars
<1>2. CountsOK'
  BY Bounds DEF TypeInv, CountsOK, StateUpdateFails, StateUpdateSucceeds, vars
<1>3. WorksOK' /\ FetchesOK' /\ TemplateOK' /\ SessionsOK'
  BY <1>1 DEF TypeInv, WorksOK, FetchesOK, FetchOK, TemplateOK, SessionsOK, IsTemplate, Headers,
              PendingHeight, Newest, sessionVars
<1>4. BacklogInv'
  BY <1>1 DEF BacklogInv, BacklogKept, TimerAlone, At
<1>. QED  BY <1>2, <1>3, <1>4 DEF TypeInv

\* Every step keeps the invariant.
LEMMA NextIInv == TypeInv /\ BacklogInv /\ [Next]_vars => TypeInv' /\ BacklogInv'
BY FetchStep, StoreStep, WorkStep, SessionStep, CountStep DEF Next, Fetch, SessionAction

\* It holds at the start: nothing was served.
LEMMA InitIInv == Init => TypeInv /\ BacklogInv
<1>. SUFFICES ASSUME Init PROVE TypeInv /\ BacklogInv
  OBVIOUS
<1>1. WorksOK
  <2>1. works = <<StartHeight>> /\ 1 \in 1..MaxWorks
    BY Bounds DEF Init
  <2>. QED  BY <2>1, Bounds DEF WorksOK
<1>2. FetchesOK
  BY <1>1, IdleOK DEF Init, FetchesOK
<1>3. TemplateOK
  BY <1>1, IdleOK, NodeAnswers DEF Init, TemplateOK, NoTemplate
<1>4. SessionsOK
  BY Bounds DEF Init, SessionsOK
<1>5. CountsOK
  BY Bounds DEF Init, CountsOK
<1>6. BacklogInv
  BY Bounds DEF Init, BacklogInv, BacklogKept, TimerAlone, At, Idle
<1>. QED  BY <1>1, <1>2, <1>3, <1>4, <1>5, <1>6 DEF TypeInv

\* Templates, fetches and sessions hold what the code may put there.
THEOREM TypeCorrect == Spec => []TypeOK
BY InitIInv, NextIInv, TypeParts, PTL DEF Spec

\* As long as the timer's goroutine is the only one that fetches, a header handed out
\* keeps its place and its height until it is maxBacklog heights old
\* (fetchBlockTemplate, blocks.go), although the node may move on between the two
\* requests of a fetch, and any of them may fail.
THEOREM HeadersStay == Spec => []BacklogKept
<1>1. BacklogInv => BacklogKept
  BY DEF BacklogInv
<1>. QED  BY InitIInv, NextIInv, <1>1, PTL DEF Spec

------------------------------------------------------------------------------
(* The nodes of EthUpstreams *)

\* The count of good checks never runs ahead of those made since the last failure
StreakInv == \A i \in Upstreams : successRate[i] <= streak[i]

\* The inductive invariant
UpstreamsInv == UpstreamsTypeOK /\ StreakInv

\* The positions of the configuration begin at 1.
LEMMA Positions == Cardinality(Upstreams) \in Nat \ {0} /\ 1 \in Upstreams
<1>1. Cardinality(Upstreams) \in Nat /\ Cardinality(Upstreams) # 0
  BY EthUpstreamsAssumption, FS_CardinalityType, FS_EmptySet
<1>. QED  BY <1>1, EthUpstreamsAssumption

\* A rate that is counted up to the threshold stays in its range.
LEMMA CountedUp ==
    ASSUME NEW k \in 0..Threshold
    PROVE  /\ Min({k + 1, Threshold}) \in 0..Threshold
           /\ k < Threshold => Min({k + 1, Threshold}) = k + 1
           /\ k = Threshold => Min({k + 1, Threshold}) = Threshold
<1>. Threshold \in Nat \ {0}
  BY EthUpstreamsAssumption
<1>1. CASE k < Threshold
  <2>1. k + 1 \in {k + 1, Threshold} /\ \A y \in {k + 1, Threshold} : k + 1 =< y
    BY <1>1
  <2>2. \A x \in {k + 1, Threshold} :
            (\A y \in {k + 1, Threshold} : x =< y) => x = k + 1
    BY <1>1
  <2>3. Min({k + 1, Threshold}) = k + 1
    BY <2>1, <2>2 DEF Min
  <2>. QED  BY <1>1, <2>3
<1>2. CASE k = Threshold
  <2>1. Threshold \in {k + 1, Threshold} /\ \A y \in {k + 1, Threshold} : Threshold =< y
    BY <1>2
  <2>2. \A x \in {k + 1, Threshold} :
            (\A y \in {k + 1, Threshold} : x =< y) => x = Threshold
    BY <1>2
  <2>3. Min({k + 1, Threshold}) = Threshold
    BY <2>1, <2>2 DEF Min
  <2>. QED  BY <1>2, <2>3
<1>. QED  BY <1>1, <1>2

\* What it says of the nodes: sick means that the rate has reached the threshold.
RatesOK ==
    /\ sick \in [Upstreams -> BOOLEAN]
    /\ sickRate \in [Upstreams -> 0..Threshold]
    /\ successRate \in [Upstreams -> 0..(Threshold - 1)]
    /\ streak \in [Upstreams -> 0..Threshold]
    /\ \A i \in Upstreams : sick[i] <=> sickRate[i] = Threshold
    /\ StreakInv

\* A failure keeps the rates in order, and heals nobody.
LEMMA MarkSickRates ==
    ASSUME RatesOK, NEW i \in Upstreams, markSick(i)
    PROVE  RatesOK' /\ \A j \in Upstreams : sick[j] => sick'[j]
<1>. Threshold \in Nat \ {0}
  BY EthUpstreamsAssumption
<1>. DEFINE rate == Min({sickRate[i] + 1, Threshold})
<1>1. /\ rate \in 0..Threshold
      /\ sickRate[i] = Threshold => rate = Threshold
  BY CountedUp DEF RatesOK
<1>2. /\ sickRate' = [sickRate EXCEPT ![i] = rate]
      /\ successRate' = [successRate EXCEPT ![i] = 0]
      /\ sick' = [sick EXCEPT ![i] = @ \/ rate >= Threshold]
      /\ streak' = [streak EXCEPT ![i] = 0]
  BY DEF markSick
<1>. HIDE DEF rate
<1>3. sick' \in [Upstreams -> BOOLEAN] /\ \A j \in Upstreams : sick[j] => sick'[j]
  BY <1>2 DEF RatesOK
<1>4. /\ sickRate' \in [Upstreams -> 0..Threshold]
      /\ successRate' \in [Upstreams -> 0..(Threshold - 1)]
      /\ streak' \in [Upstreams -> 0..Threshold]
      /\ StreakInv'
  BY <1>1, <1>2 DEF RatesOK, StreakInv
<1>5. ASSUME NEW j \in Upstreams PROVE sick'[j] <=> sickRate'[j] = Threshold
  <2>1. CASE j = i
    <3>1. sick'[i] <=> sick[i] \/ rate >= Threshold
      BY <1>2 DEF RatesOK
    <3>2. sickRate'[i] = rate /\ (sick[i] <=> sickRate[i] = Threshold)
      BY <1>2 DEF RatesOK
    <3>. QED  BY <1>1, <2>1, <3>1, <3>2
  <2>2. CASE j # i
    BY <1>2, <2>2 DEF RatesOK
  <2>. QED  BY <2>1, <2>2
<1>. QED  BY <1>3, <1>4, <1>5 DEF RatesOK

\* A good check keeps the rates in order, and heals only after a full streak.
LEMMA MarkAliveRates ==
    ASSUME RatesOK, NEW i \in Upstreams, markAlive(i)
    PROVE  /\ RatesOK'
           /\ \A j \in Upstreams : sick[j] /\ ~sick'[j] => streak'[j] >= Threshold
<1>. Threshold \in Nat \ {0}
  BY EthUpstreamsAssumption
<1>. DEFINE healed == successRate[i] + 1 >= Threshold
            longer == Min({streak[i] + 1, Threshold})
<1>1. /\ longer \in 0..Threshold
      /\ streak[i] < Threshold => longer = streak[i] + 1
      /\ streak[i] = Threshold => longer = Threshold
  BY CountedUp DEF RatesOK
<1>2. /\ successRate' = [successRate EXCEPT ![i] = IF healed THEN 0 ELSE @ + 1]
      /\ sickRate' = [sickRate EXCEPT ![i] = IF healed THEN 0 ELSE @]
      /\ sick' = [sick EXCEPT ![i] = @ /\ ~healed]
      /\ streak' = [streak EXCEPT ![i] = longer]
  BY DEF markAlive
<1>. HIDE DEF longer
<1>3. /\ successRate[i] \in 0..(Threshold - 1) /\ streak[i] \in 0..Threshold
      /\ successRate[i] <= streak[i]
  BY DEF RatesOK, StreakInv
<1>4. healed => longer = Threshold
  BY <1>1, <1>3
<1>5. ~healed => successRate[i] + 1 \in 0..(Threshold - 1) /\ successRate[i] + 1 <= longer
  BY <1>1, <1>3
<1>. HIDE DEF healed
<1>6. /\ sickRate' \in [Upstreams -> 0..Threshold]
      /\ successRate' \in [Upstreams -> 0..(Threshold - 1)]
      /\ streak' \in [Upstreams -> 0..Threshold]
  BY <1>1, <1>2, <1>5 DEF RatesOK
<1>7. StreakInv'
  BY <1>1, <1>2, <1>5 DEF RatesOK, StreakInv
<1>8. sick' \in [Upstreams -> BOOLEAN]
      /\ \A j \in Upstreams : sick'[j] <=> sickRate'[j] = Threshold
  BY <1>2 DEF RatesOK
<1>9. \A j \in Upstreams : sick[j] /\ ~sick'[j] => j = i /\ healed
  BY <1>2 DEF RatesOK
<1>10. \A j \in Upstreams : sick[j] /\ ~sick'[j] => streak'[j] >= Threshold
  BY <1>2, <1>4, <1>9 DEF RatesOK
<1>. QED  BY <1>6, <1>7, <1>8, <1>10 DEF RatesOK

\* The step of RecoveryNeedsStreak
Recovers == \A i \in Upstreams : sick[i] /\ ~sick'[i] => streak'[i] >= Threshold

\* The invariant holds at the start: all rates are 0.
LEMMA InitUpstreamsInv == UpstreamsInit => UpstreamsInv
<1>. SUFFICES ASSUME UpstreamsInit PROVE UpstreamsInv
  OBVIOUS
<1>1. UpstreamsTypeOK
  BY Positions, EthUpstreamsAssumption DEF UpstreamsInit, UpstreamsTypeOK, NoCheck
<1>2. StreakInv
  BY EthUpstreamsAssumption DEF UpstreamsInit, StreakInv
<1>. QED  BY <1>1, <1>2 DEF UpstreamsInv

\* Every step keeps it, and heals only what has its streak.
LEMMA NextUpstreamsInv ==
    UpstreamsInv /\ [UpstreamsNext]_upstreamVars =>
        UpstreamsInv' /\ (Recovers \/ UNCHANGED upstreamVars)
<1>. SUFFICES ASSUME UpstreamsInv, [UpstreamsNext]_upstreamVars
              PROVE  UpstreamsInv' /\ (Recovers \/ UNCHANGED upstreamVars)
  OBVIOUS
<1>0. RatesOK
  BY DEF UpstreamsInv, UpstreamsTypeOK, RatesOK
<1>. USE DEF UpstreamsInv
<1>1. CASE CallFails
  <2>1. upstream \in Upstreams /\ markSick(upstream)
    BY <1>1 DEF CallFails, UpstreamsTypeOK
  <2>2. RatesOK' /\ \A j \in Upstreams : sick[j] => sick'[j]
    BY <1>0, <2>1, MarkSickRates
  <2>. QED  BY <1>1, <2>2 DEF CallFails, UpstreamsTypeOK, RatesOK, Recovers
<1>2. CASE StartCheck
  <2>1. check' \in [next : 0..(Cardinality(Upstreams) + 1), candidate : Upstreams,
                    backup : BOOLEAN]
    <3>1. 1 \in 0..(Cardinality(Upstreams) + 1)
      BY Positions
    <3>2. check' = [next |-> 1, candidate |-> 1, backup |-> FALSE]
      BY <1>2 DEF StartCheck, NoCheck
    <3>. QED  BY <3>1, <3>2, Positions
  <2>. QED  BY <1>2, <2>1 DEF StartCheck, UpstreamsTypeOK, StreakInv, Recovers, clientVars
<1>3. CASE Check
  <2>. DEFINE i == check.next
  <2>1. i \in Upstreams /\ (markAlive(i) \/ markSick(i))
    BY <1>3 DEF Check
  <2>2. RatesOK' /\ Recovers
    BY <1>0, <2>1, MarkSickRates, MarkAliveRates DEF Recovers
  <2>3. i + 1 \in 0..(Cardinality(Upstreams) + 1)
    BY <2>1, Positions, EthUpstreamsAssumption
  <2>4. check' \in [next : 0..(Cardinality(Upstreams) + 1), candidate : Upstreams,
                    backup : BOOLEAN]
    BY <1>3, <2>1, <2>3 DEF Check, UpstreamsTypeOK
  <2>. QED  BY <1>3, <2>2, <2>4 DEF Check, UpstreamsTypeOK, RatesOK
<1>4. CASE Switch
  <2>1. check' \in [next : 0..(Cardinality(Upstreams) + 1), candidate : Upstreams,
                    backup : BOOLEAN]
    BY <1>4, Positions DEF Switch, NoCheck
  <2>2. upstream' \in Upstreams
    BY <1>4 DEF Switch, UpstreamsTypeOK
  <2>. QED  BY <1>4, <2>1, <2>2 DEF Switch, UpstreamsTypeOK, StreakInv, Recovers, clientVars
<1>5. ASSUME NEW i \in Upstreams, NodeChanges(i) PROVE UpstreamsInv' /\ Recovers
  BY <1>5 DEF NodeChanges, UpstreamsTypeOK, StreakInv, Recovers, clientVars
<1>6. CASE UNCHANGED upstreamVars
  BY <1>6 DEF upstreamVars, clientVars, UpstreamsTypeOK, StreakInv
<1>. QED  BY <1>1, <1>2, <1>3, <1>4, <1>5, <1>6 DEF UpstreamsNext, CheckRound

\* The rates stay in their ranges and the indexes name nodes that exist.
THEOREM UpstreamsTypeCorrect == UpstreamsSpec => []UpstreamsTypeOK
<1>1. UpstreamsInv => UpstreamsTypeOK
  BY DEF UpstreamsInv
<1>. QED  BY InitUpstreamsInv, NextUpstreamsInv, <1>1, PTL DEF UpstreamsSpec

\* A node is healed only by Threshold good checks in a row: a request that fails
\* between two checks starts the count again (markSick and markAlive, rpc.go).
THEOREM NoEarlyRecovery == UpstreamsSpec => RecoveryNeedsStreak
<1>1. UpstreamsInv /\ [UpstreamsNext]_upstreamVars => [Recovers]_upstreamVars
  BY NextUpstreamsInv
<1>2. RecoveryNeedsStreak <=> [][Recovers]_upstreamVars
  BY DEF RecoveryNeedsStreak, Recovers
<1>. QED  BY InitUpstreamsInv, NextUpstreamsInv, <1>1, <1>2, PTL DEF UpstreamsSpec
==============================================================================
