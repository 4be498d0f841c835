-------------------------------- MODULE UserProofs -----------------------------
(***************************************************************************)
(* What users see of the pool: the alarm's notices, for any number of      *)
(* workers, addresses and requests of the api, and the frontend, for any   *)
(* accounts, events and fetches in flight.                                 *)
(*                                                                         *)
(* That a notice is sent once does not follow from the marks alone: a pass *)
(* works on rows it selected earlier, with a clock it read still earlier,  *)
(* while shares go on changing the workers.  NoticeInv says for every      *)
(* outage, and every session, which notices can still come.  TabInv below  *)
(* does the same for a tab: what its queue holds and what is in flight.    *)
(***************************************************************************)
EXTENDS Notifications, Frontend, TLAPS

RowOf(w, t) == [worker |-> w, about |-> t]

RowsLeft(kind) == IF kind = "down" THEN downRows ELSE upRows

\* The notice about t was sent and is not marked yet.
Sending(kind, w, t) == current = <<kind, RowOf(w, t)>>

\* The pass has still to send it.
Waiting(kind, w, t) == RowOf(w, t) \in RowsLeft(kind) /\ ~Sending(kind, w, t)

Count(kind, w, t) == sent[kind][w][t]

WorkerRows == [last : Nat, session : Nat, down : Nat, up : Nat]

\* What the variables of alarm and engine hold.
AlarmTypeOK ==
    /\ clock \in 1..MaxClock /\ shares \in Nat /\ alarmDeaths \in Nat
    /\ now \in Nat /\ now <= clock
    /\ at \in {"clock", "selectDown", "selectUp", "notify", "mark"}
    /\ downRows \subseteq Rows /\ upRows \subseteq Rows
    /\ current \in {Nothing} \cup (Kinds \X Rows)
    /\ sent \in [Kinds -> [Workers -> [1..MaxClock -> Nat]]]
    /\ workers \in [Workers -> WorkerRows]

\* A notice is on its way exactly while the pass is about to mark it; there are rows
\* only in the second half of a pass.
PassInv ==
    /\ at # "mark" => current = Nothing
    /\ at = "mark" => current # Nothing /\ current[2] \in RowsLeft(current[1])
    /\ at \in {"clock", "selectDown"} => downRows = {}
    /\ at \in {"clock", "selectDown", "selectUp"} => upRows = {}

\* Times of a worker: none is in the future, no mark is later than the clock of the
\* latest pass, and a worker with a row has a session.
TimesOK(w) ==
    /\ workers[w].last > 0 => workers[w].session > 0
    /\ workers[w].last <= clock
    /\ workers[w].session <= clock
    /\ workers[w].down <= now
    /\ workers[w].up <= now

\* What was selected is about the worker's present, or about an earlier time; and an
\* outage is older than the clock of the pass.
RowsOK ==
    /\ \A row \in downRows : row.about <= workers[row.worker].last /\ row.about < now
    /\ \A row \in upRows : row.about <= workers[row.worker].session

\* Notices about the outage since t: one at most for each death, as long as the next
\* one can still come; and one more.
OutageInv(w, t) ==
    /\ Count("down", w, t) <= 1 + alarmDeaths
    /\ Waiting("down", w, t) => Count("down", w, t) <= alarmDeaths
    /\ (/\ ~Sending("down", w, t)
        /\ workers[w].last <= t
        /\ workers[w].last = t => workers[w].down < t)
          => Count("down", w, t) <= alarmDeaths

\* Notices about the session since t.  The first pass may have read its clock before
\* t, so that its mark does not cover the session; no later pass has.
ReturnInv(w, t) ==
    /\ Count("up", w, t) <= 2 + alarmDeaths
    /\ Waiting("up", w, t) => Count("up", w, t) <= 1 + alarmDeaths
    /\ Waiting("up", w, t) /\ now < t => Count("up", w, t) <= alarmDeaths
    /\ Sending("up", w, t) /\ now < t => Count("up", w, t) <= 1 + alarmDeaths
    /\ workers[w].session < t => Count("up", w, t) <= alarmDeaths
    /\ (/\ ~Sending("up", w, t)
        /\ workers[w].session = t
        /\ workers[w].up < t)
          => Count("up", w, t) <= 1 + alarmDeaths
    /\ (/\ at \in {"selectDown", "selectUp"}
        /\ workers[w].session <= t
        /\ now < t)
          => Count("up", w, t) <= alarmDeaths

NoticeInv ==
    /\ AlarmTypeOK
    /\ PassInv
    /\ \A w \in Workers : TimesOK(w)
    /\ RowsOK
    /\ \A w \in Workers : \A t \in 1..MaxClock : OutageInv(w, t) /\ ReturnInv(w, t)

------------------------------------------------------------------------------

\* Nobody was notified of anything at the start.
LEMMA NoticesInit == NotificationsInit => NoticeInv
<1> SUFFICES ASSUME NotificationsInit PROVE NoticeInv
  OBVIOUS
<1> USE AlarmAssumption DEF NotificationsInit, AlarmInit, Null, Nothing
<1>1. PICK W \in SUBSET Workers : workers = [w \in Workers |->
               LET t == IF w \in W THEN 1 ELSE Null IN
               [last |-> t, session |-> t, down |-> Null, up |-> Null]]
  BY DEF TablesInit
<1>2. \A w \in Workers : /\ workers[w] \in WorkerRows
                         /\ workers[w].last <= 1 /\ workers[w].session <= 1
                         /\ workers[w].down = 0 /\ workers[w].up = 0
                         /\ workers[w].session = workers[w].last
  BY <1>1 DEF WorkerRows
<1>3. AlarmTypeOK
  <2>1. workers \in [Workers -> WorkerRows]
    BY <1>1, <1>2
  <2> QED
    BY <2>1 DEF AlarmTypeOK
<1>4. PassInv
  BY DEF PassInv
<1>5. \A w \in Workers : TimesOK(w)
  BY <1>2 DEF TimesOK
<1>6. RowsOK
  BY DEF RowsOK
<1>7. \A kind \in Kinds, w \in Workers, t \in 1..MaxClock : Count(kind, w, t) = 0
  BY DEF Count
<1>8. \A w \in Workers : \A t \in 1..MaxClock : OutageInv(w, t) /\ ReturnInv(w, t)
  BY <1>7 DEF OutageInv, ReturnInv, Kinds
<1> QED
  BY <1>3, <1>4, <1>5, <1>6, <1>8 DEF NoticeInv

\* Steps that leave the engine's rows and the pass alone
LEMMA OthersKeepNotices ==
    NoticeInv /\ UNCHANGED <<workers, alarmVars>> => NoticeInv'
BY DEF NoticeInv, AlarmTypeOK, PassInv, TimesOK, RowsOK, OutageInv, ReturnInv, Count, Waiting,
       Sending, RowsLeft, alarmVars, WorkerRows, Rows

\* The clock moves on.
LEMMA TickKeepsNotices == NoticeInv /\ Tick => NoticeInv'
<1> SUFFICES ASSUME NoticeInv, Tick PROVE NoticeInv'
  OBVIOUS
<1> USE AlarmAssumption DEF NoticeInv, Tick, tableVars, passVars
<1>1. AlarmTypeOK'
  BY DEF AlarmTypeOK
<1>2. PassInv' /\ RowsOK'
  BY DEF PassInv, RowsOK, RowsLeft
<1>3. \A w \in Workers : TimesOK(w)'
  BY DEF TimesOK, AlarmTypeOK, WorkerRows
<1>4. \A w \in Workers : \A t \in 1..MaxClock : OutageInv(w, t)' /\ ReturnInv(w, t)'
  BY DEF OutageInv, ReturnInv, Count, Waiting, Sending, RowsLeft
<1> QED
  BY <1>1, <1>2, <1>3, <1>4

\* What a share does to its worker: the last one is now, and so is the first of the
\* session if it begins one.
LEMMA ShareTouches ==
    ASSUME NoticeInv, NEW w \in Workers, NEW e, Share(w, e)
    PROVE  /\ workers' \in [Workers -> WorkerRows]
           /\ \A v \in Workers \ {w} : workers'[v] = workers[v]
           /\ workers'[w].last = clock
           /\ workers'[w].session \in {workers[w].session, clock} \ {0}
           /\ workers'[w].down = workers[w].down /\ workers'[w].up = workers[w].up
<1> USE DEF NoticeInv, AlarmTypeOK
<1>1. workers[w] \in WorkerRows
  OBVIOUS
<1> DEFINE s == IF HasRow(w) THEN SessionStart(workers[w]) ELSE clock
<1>2. /\ workers' = [workers EXCEPT ![w].last = clock, ![w].session = s]
      /\ s \in {workers[w].session, clock} \ {0}
  <2>1. clock # 0
    BY AlarmAssumption
  <2>2. CASE HasRow(w)
    <3>1. s = SessionStart(workers[w])
      BY <2>2
    <3>2. workers' = [workers EXCEPT ![w].last = clock, ![w].session = SessionStart(workers[w])]
      BY <2>2 DEF Share
    <3> QED
      BY <2>1, <3>1, <3>2 DEF SessionStart, Null
  <2>3. CASE ~HasRow(w)
    <3>1. s = clock
      BY <2>3
    <3>2. workers' = [workers EXCEPT ![w].last = clock, ![w].session = clock]
      BY <2>3 DEF Share
    <3> QED
      BY <2>1, <3>1, <3>2
  <2> QED
    BY <2>2, <2>3
<1> HIDE DEF s
<1>3. s \in Nat /\ clock \in Nat
  BY <1>1, <1>2, AlarmAssumption DEF WorkerRows
<1>4. workers'[w] = [workers[w] EXCEPT !.last = clock, !.session = s]
  BY <1>2
<1>5. workers'[w] \in WorkerRows
  BY <1>1, <1>3, <1>4 DEF WorkerRows
<1>6. \A v \in Workers \ {w} : workers'[v] = workers[v]
  BY <1>2
<1> QED
  BY <1>1, <1>2, <1>4, <1>5, <1>6 DEF WorkerRows

\* A share makes an outage a thing of the past; the next one begins unreported.
LEMMA ShareKeepsNotices ==
    ASSUME NoticeInv, NEW w \in Workers, NEW e, Share(w, e)
    PROVE  NoticeInv'
<1> USE AlarmAssumption DEF NoticeInv
<1>1. /\ workers' \in [Workers -> WorkerRows]
      /\ \A v \in Workers \ {w} : workers'[v] = workers[v]
      /\ workers'[w].last = clock
      /\ workers'[w].session \in {workers[w].session, clock} \ {0}
      /\ workers'[w].down = workers[w].down /\ workers'[w].up = workers[w].up
  BY ShareTouches
<1>2. UNCHANGED <<clock, passVars, sent, alarmDeaths>> /\ shares' = shares + 1
  BY DEF Share
<1>3. \A v \in Workers : /\ workers[v] \in WorkerRows /\ workers'[v] \in WorkerRows
                         /\ workers[v].last <= workers'[v].last
                         /\ workers[v].session <= workers'[v].session
                         /\ workers'[v].last \in {workers[v].last, clock}
                         /\ workers'[v].session \in {workers[v].session, clock}
                         /\ workers'[v].last > 0 => workers'[v].session > 0
                         /\ workers'[v].down = workers[v].down
                         /\ workers'[v].up = workers[v].up
  <2> TAKE v \in Workers
  <2>1. workers[v] \in WorkerRows /\ workers'[v] \in WorkerRows /\ clock \in Nat
    BY <1>1 DEF AlarmTypeOK
  <2>2. /\ workers[v].last <= clock /\ workers[v].session <= clock
        /\ workers[v].last > 0 => workers[v].session > 0
    BY DEF TimesOK
  <2>3. CASE v = w
    BY <1>1, <2>1, <2>2, <2>3 DEF WorkerRows
  <2>4. CASE v # w
    BY <1>1, <2>1, <2>2, <2>4 DEF WorkerRows
  <2> QED
    BY <2>3, <2>4
<1> HIDE DEF NoticeInv
<1>4. AlarmTypeOK'
  BY <1>1, <1>2 DEF NoticeInv, AlarmTypeOK, passVars
<1>5. PassInv'
  BY <1>2 DEF NoticeInv, PassInv, passVars, RowsLeft
<1>6. \A v \in Workers : TimesOK(v)'
  <2> TAKE v \in Workers
  <2>1. TimesOK(v) /\ clock \in Nat
    BY DEF NoticeInv, AlarmTypeOK
  <2> QED
    BY <1>2, <1>3, <2>1 DEF TimesOK, passVars, WorkerRows
<1>7. RowsOK'
  BY <1>2, <1>3 DEF NoticeInv, RowsOK, passVars, WorkerRows, AlarmTypeOK, Rows
<1>8. ASSUME NEW v \in Workers, NEW t \in 1..MaxClock
      PROVE  OutageInv(v, t)'
  <2>1. OutageInv(v, t) /\ Count("down", v, t)' = Count("down", v, t)
    BY <1>2 DEF NoticeInv, Count
  <2>2. /\ Waiting("down", v, t)' <=> Waiting("down", v, t)
        /\ Sending("down", v, t)' <=> Sending("down", v, t)
    BY <1>2 DEF Waiting, Sending, RowsLeft, passVars
  <2> QED
    BY <1>2, <1>3, <2>1, <2>2 DEF OutageInv, WorkerRows
<1>9. ASSUME NEW v \in Workers, NEW t \in 1..MaxClock
      PROVE  ReturnInv(v, t)'
  <2>1. ReturnInv(v, t) /\ Count("up", v, t)' = Count("up", v, t)
    BY <1>2 DEF NoticeInv, Count
  <2>2. /\ Waiting("up", v, t)' <=> Waiting("up", v, t)
        /\ Sending("up", v, t)' <=> Sending("up", v, t)
    BY <1>2 DEF Waiting, Sending, RowsLeft, passVars
  <2>3. Count("up", v, t) \in Nat /\ alarmDeaths \in Nat /\ now \in Nat
    BY DEF NoticeInv, AlarmTypeOK, Count, Kinds
  <2> QED
    BY <1>2, <1>3, <2>1, <2>2, <2>3 DEF ReturnInv, WorkerRows, passVars
<1> QED
  BY <1>4, <1>5, <1>6, <1>7, <1>8, <1>9 DEF NoticeInv

\* The alarm reads its clock: sessions begun since are covered by the next pass at
\* the latest.
LEMMA ReadClockKeepsNotices == NoticeInv /\ ReadClock => NoticeInv'
<1> SUFFICES ASSUME NoticeInv, ReadClock PROVE NoticeInv'
  OBVIOUS
<1> USE AlarmAssumption
<1>1. UNCHANGED <<workers, clock, shares, downRows, upRows, current, sent, alarmDeaths>>
  BY DEF ReadClock, tableVars
<1>2. at = "clock" /\ now' = clock /\ at' = "selectDown"
  BY DEF ReadClock
<1>3. AlarmTypeOK'
  BY <1>1, <1>2 DEF NoticeInv, AlarmTypeOK
<1>4. PassInv' /\ downRows = {} /\ upRows = {} /\ current = Nothing
  BY <1>1, <1>2 DEF NoticeInv, PassInv
<1>5. \A w \in Workers : TimesOK(w)'
  BY <1>1, <1>2 DEF NoticeInv, AlarmTypeOK, TimesOK, WorkerRows
<1>6. RowsOK'
  BY <1>1, <1>4 DEF RowsOK
<1>7. ASSUME NEW w \in Workers, NEW t \in 1..MaxClock
      PROVE  OutageInv(w, t)' /\ ReturnInv(w, t)'
  <2>1. /\ OutageInv(w, t) /\ ReturnInv(w, t)
        /\ workers[w] \in WorkerRows /\ workers[w].session <= clock
        /\ clock \in Nat /\ alarmDeaths \in Nat
    BY DEF NoticeInv, AlarmTypeOK, TimesOK
  <2>2. \A kind \in Kinds : ~Waiting(kind, w, t) /\ ~Waiting(kind, w, t)'
                            /\ ~Sending(kind, w, t) /\ ~Sending(kind, w, t)'
    BY <1>1, <1>4 DEF Waiting, Sending, RowsLeft, Nothing
  <2>3. \A kind \in Kinds : Count(kind, w, t)' = Count(kind, w, t)
    BY <1>1 DEF Count
  <2>4. OutageInv(w, t)'
    BY <1>1, <2>1, <2>2, <2>3 DEF OutageInv, Kinds
  <2>5. ReturnInv(w, t)'
    BY <1>1, <1>2, <2>1, <2>2, <2>3 DEF ReturnInv, Kinds, WorkerRows
  <2> QED
    BY <2>4, <2>5
<1> QED
  BY <1>3, <1>4, <1>5, <1>6, <1>7 DEF NoticeInv

\* Outages selected are those of which nobody was notified since.
LEMMA SelectDownKeepsNotices == NoticeInv /\ SelectDown => NoticeInv'
<1> SUFFICES ASSUME NoticeInv, SelectDown PROVE NoticeInv'
  OBVIOUS
<1> USE AlarmAssumption
<1>1. UNCHANGED <<workers, clock, shares, now, upRows, current, sent, alarmDeaths>>
  BY DEF SelectDown, tableVars
<1>2. /\ at = "selectDown" /\ at' = "selectUp"
      /\ downRows' = {RowOf(w, workers[w].last) : w \in Silent(now)}
  BY DEF SelectDown, RowOf
<1>3. ASSUME NEW w \in Silent(now)
      PROVE  /\ w \in Workers /\ workers[w] \in WorkerRows
             /\ workers[w].last \in 1..MaxClock
             /\ workers[w].last < now
             /\ workers[w].down < workers[w].last
  <2>1. w \in Workers /\ workers[w] \in WorkerRows /\ TimesOK(w) /\ clock \in 1..MaxClock
        /\ now \in Nat
    BY DEF Silent, NoticeInv, AlarmTypeOK
  <2> QED
    BY <2>1 DEF Silent, TimesOK, HasRow, Null, WorkerRows
<1>4. AlarmTypeOK'
  <2>1. downRows' \subseteq Rows
    BY <1>2, <1>3 DEF RowOf, Rows
  <2> QED
    BY <1>1, <1>2, <2>1 DEF NoticeInv, AlarmTypeOK
<1>5. PassInv' /\ upRows = {} /\ current = Nothing
  BY <1>1, <1>2 DEF NoticeInv, PassInv
<1>6. \A w \in Workers : TimesOK(w)'
  BY <1>1 DEF NoticeInv, TimesOK
<1>7. RowsOK'
  <2>1. ASSUME NEW row \in downRows'
        PROVE  row.about <= workers[row.worker].last /\ row.about < now
    <3>1. PICK w \in Silent(now) : row = RowOf(w, workers[w].last)
      BY <1>2
    <3>2. row.worker = w /\ row.about = workers[w].last
      BY <3>1 DEF RowOf
    <3> QED
      BY <1>3, <3>2 DEF WorkerRows
  <2> QED
    BY <1>1, <1>5, <2>1 DEF RowsOK
<1>8. ASSUME NEW w \in Workers, NEW t \in 1..MaxClock
      PROVE  OutageInv(w, t)' /\ ReturnInv(w, t)'
  <2>1. OutageInv(w, t) /\ ReturnInv(w, t)
    BY DEF NoticeInv
  <2>2. \A kind \in Kinds : /\ ~Sending(kind, w, t) /\ ~Sending(kind, w, t)'
                            /\ Count(kind, w, t)' = Count(kind, w, t)
    BY <1>1, <1>5 DEF Sending, Nothing, Count
  <2>3. ~Waiting("up", w, t) /\ ~Waiting("up", w, t)'
    BY <1>1, <1>5 DEF Waiting, RowsLeft
  <2>4. Waiting("down", w, t)' => workers[w].last = t /\ workers[w].down < t
    <3> SUFFICES ASSUME Waiting("down", w, t)'
                 PROVE  workers[w].last = t /\ workers[w].down < t
      OBVIOUS
    <3>1. PICK v \in Silent(now) : RowOf(w, t) = RowOf(v, workers[v].last)
      BY <1>2 DEF Waiting, RowsLeft
    <3>2. v = w /\ t = workers[v].last
      BY <3>1 DEF RowOf
    <3> QED
      BY <1>3, <3>2
  <2>5. OutageInv(w, t)'
    <3>1. workers[w].last \in Nat
      BY DEF NoticeInv, AlarmTypeOK, WorkerRows
    <3> QED
      BY <1>1, <2>1, <2>2, <2>4, <3>1 DEF OutageInv, Kinds
  <2>6. ReturnInv(w, t)'
    BY <1>1, <1>2, <2>1, <2>2, <2>3 DEF ReturnInv, Kinds
  <2> QED
    BY <2>5, <2>6
<1> QED
  BY <1>4, <1>5, <1>6, <1>7, <1>8 DEF NoticeInv

\* Sessions selected are those no mark covers; one that began after the pass read its
\* clock was not notified of before.
LEMMA SelectUpKeepsNotices == NoticeInv /\ SelectUp => NoticeInv'
<1> SUFFICES ASSUME NoticeInv, SelectUp PROVE NoticeInv'
  OBVIOUS
<1> USE AlarmAssumption
<1>1. UNCHANGED <<workers, clock, shares, now, downRows, current, sent, alarmDeaths>>
  BY DEF SelectUp, tableVars
<1>2. /\ at = "selectUp" /\ at' = "notify"
      /\ upRows' = {RowOf(w, workers[w].session) : w \in Returned(now)}
  BY DEF SelectUp, RowOf
<1>3. ASSUME NEW w \in Returned(now)
      PROVE  /\ w \in Workers /\ workers[w] \in WorkerRows
             /\ workers[w].session \in 1..MaxClock
             /\ workers[w].up < workers[w].session
  <2>1. w \in Workers /\ workers[w] \in WorkerRows /\ TimesOK(w) /\ clock \in 1..MaxClock
    BY DEF Returned, NoticeInv, AlarmTypeOK
  <2> QED
    BY <2>1 DEF Returned, TimesOK, HasRow, Null, WorkerRows
<1>4. AlarmTypeOK'
  <2>1. upRows' \subseteq Rows
    BY <1>2, <1>3 DEF RowOf, Rows
  <2> QED
    BY <1>1, <1>2, <2>1 DEF NoticeInv, AlarmTypeOK
<1>5. PassInv' /\ upRows = {} /\ current = Nothing
  BY <1>1, <1>2 DEF NoticeInv, PassInv
<1>6. \A w \in Workers : TimesOK(w)'
  BY <1>1 DEF NoticeInv, TimesOK
<1>7. RowsOK'
  <2>1. ASSUME NEW row \in upRows'
        PROVE  row.about <= workers[row.worker].session
    <3>1. PICK w \in Returned(now) : row = RowOf(w, workers[w].session)
      BY <1>2
    <3>2. row.worker = w /\ row.about = workers[w].session
      BY <3>1 DEF RowOf
    <3> QED
      BY <1>3, <3>2 DEF WorkerRows
  <2> QED
    BY <1>1, <2>1 DEF RowsOK, NoticeInv
<1>8. ASSUME NEW w \in Workers, NEW t \in 1..MaxClock
      PROVE  OutageInv(w, t)' /\ ReturnInv(w, t)'
  <2>1. OutageInv(w, t) /\ ReturnInv(w, t)
    BY DEF NoticeInv
  <2>2. \A kind \in Kinds : /\ ~Sending(kind, w, t) /\ ~Sending(kind, w, t)'
                            /\ Count(kind, w, t)' = Count(kind, w, t)
    BY <1>1, <1>5 DEF Sending, Nothing, Count
  <2>3. Waiting("down", w, t)' <=> Waiting("down", w, t)
    BY <1>1 DEF Waiting, RowsLeft, Sending
  <2>4. Waiting("up", w, t)' => workers[w].session = t /\ workers[w].up < t
    <3> SUFFICES ASSUME Waiting("up", w, t)'
                 PROVE  workers[w].session = t /\ workers[w].up < t
      OBVIOUS
    <3>1. PICK v \in Returned(now) : RowOf(w, t) = RowOf(v, workers[v].session)
      BY <1>2 DEF Waiting, RowsLeft
    <3>2. v = w /\ t = workers[v].session
      BY <3>1 DEF RowOf
    <3> QED
      BY <1>3, <3>2
  <2>5. OutageInv(w, t)'
    BY <1>1, <2>1, <2>2, <2>3 DEF OutageInv, Kinds
  <2>6. ReturnInv(w, t)'
    <3>1. workers[w].session \in Nat /\ now \in Nat
      BY DEF NoticeInv, AlarmTypeOK, WorkerRows
    <3> QED
      BY <1>1, <1>2, <2>1, <2>2, <2>4, <3>1 DEF ReturnInv, Kinds
  <2> QED
    BY <2>5, <2>6
<1> QED
  BY <1>4, <1>5, <1>6, <1>7, <1>8 DEF NoticeInv

\* The pass ends, whatever it has still to do: what it has sent and not marked is
\* sent once more, which only a death of the alarm can bring about.
LEMMA EndPassKeepsNotices ==
    ASSUME NoticeInv, EndPass, UNCHANGED <<workers, clock, shares, now, sent>>,
           \/ current = Nothing /\ alarmDeaths' = alarmDeaths
           \/ alarmDeaths' = alarmDeaths + 1
    PROVE  NoticeInv'
<1> USE AlarmAssumption
<1>1. at' = "clock" /\ downRows' = {} /\ upRows' = {} /\ current' = Nothing
  BY DEF EndPass
<1>2. AlarmTypeOK'
  BY <1>1 DEF NoticeInv, AlarmTypeOK
<1>3. PassInv' /\ RowsOK'
  BY <1>1 DEF PassInv, RowsOK
<1>4. \A w \in Workers : TimesOK(w)'
  BY DEF NoticeInv, TimesOK
<1>5. ASSUME NEW w \in Workers, NEW t \in 1..MaxClock
      PROVE  OutageInv(w, t)' /\ ReturnInv(w, t)'
  <2>1. OutageInv(w, t) /\ ReturnInv(w, t)
    BY DEF NoticeInv
  <2>2. \A kind \in Kinds : /\ ~Sending(kind, w, t)' /\ ~Waiting(kind, w, t)'
                            /\ Count(kind, w, t)' = Count(kind, w, t)
                            /\ Count(kind, w, t) \in Nat
    BY <1>1 DEF Sending, Waiting, RowsLeft, Nothing, Count, NoticeInv, AlarmTypeOK
  <2>3. alarmDeaths \in Nat
    BY DEF NoticeInv, AlarmTypeOK
  <2>4. CASE current = Nothing /\ alarmDeaths' = alarmDeaths
    <3>1. \A kind \in Kinds : ~Sending(kind, w, t)
      BY <2>4 DEF Sending, Nothing
    <3> QED
      BY <1>1, <2>1, <2>2, <2>4, <3>1 DEF OutageInv, ReturnInv, Kinds
  <2>5. CASE alarmDeaths' = alarmDeaths + 1
    BY <1>1, <2>1, <2>2, <2>3, <2>5 DEF OutageInv, ReturnInv, Kinds
  <2> QED
    BY <2>4, <2>5
<1> QED
  BY <1>2, <1>3, <1>4, <1>5 DEF NoticeInv

\* A notice is sent only for a row the pass has still to handle.
LEMMA NotifyKeepsNotices ==
    ASSUME NoticeInv, NEW kind \in Kinds, NEW row \in Pending(kind), Notify(kind, row)
    PROVE  NoticeInv'
<1> USE AlarmAssumption
<1>1. UNCHANGED <<workers, clock, shares, now, downRows, upRows, alarmDeaths>>
  BY DEF Notify, tableVars
<1>2. /\ at = "notify" /\ at' = "mark"
      /\ current' = <<kind, row>> /\ current = Nothing
      /\ row \in RowsLeft(kind) /\ row \in Rows
  BY DEF Notify, NoticeInv, PassInv, Pending, RowsLeft, AlarmTypeOK, Kinds
<1>3. PICK w \in Workers, t \in 1..MaxClock : row = RowOf(w, t)
  BY <1>2 DEF Rows, RowOf
<1>4. row.worker = w /\ row.about = t
  BY <1>3 DEF RowOf
<1> DEFINE This(k, v, u) == k = kind /\ v = w /\ u = t
<1>5. /\ sent' \in [Kinds -> [Workers -> [1..MaxClock -> Nat]]]
      /\ Count(kind, w, t)' <= Count(kind, w, t) + 1
      /\ \A k \in Kinds, v \in Workers, u \in 1..MaxClock :
             ~This(k, v, u) => Count(k, v, u)' = Count(k, v, u)
  <2>1. sent \in [Kinds -> [Workers -> [1..MaxClock -> Nat]]]
    BY DEF NoticeInv, AlarmTypeOK
  <2>2. CASE sent' = sent
    BY <2>1, <2>2 DEF Count
  <2>3. CASE sent' = [sent EXCEPT ![kind][w][t] = @ + 1]
    BY <2>1, <2>3 DEF Count
  <2> QED
    BY <1>4, <2>2, <2>3 DEF Notify
<1>6. AlarmTypeOK'
  BY <1>1, <1>2, <1>5 DEF NoticeInv, AlarmTypeOK
<1>7. PassInv'
  BY <1>1, <1>2 DEF NoticeInv, PassInv, RowsLeft, Nothing
<1>8. (\A v \in Workers : TimesOK(v)') /\ RowsOK'
  BY <1>1 DEF NoticeInv, TimesOK, RowsOK
<1>9. ASSUME NEW v \in Workers, NEW u \in 1..MaxClock
      PROVE  OutageInv(v, u)' /\ ReturnInv(v, u)'
  <2>1. /\ OutageInv(v, u) /\ ReturnInv(v, u)
        /\ now \in Nat /\ alarmDeaths \in Nat
    BY DEF NoticeInv, AlarmTypeOK
  <2>counts. \A k \in Kinds : Count(k, v, u) \in Nat /\ Count(k, v, u)' \in Nat
    BY <1>5 DEF NoticeInv, AlarmTypeOK, Count
  <2>2. \A k \in Kinds : /\ ~Sending(k, v, u)
                         /\ Sending(k, v, u)' <=> This(k, v, u)
                         /\ Waiting(k, v, u)' => Waiting(k, v, u)
    BY <1>1, <1>2, <1>3 DEF Sending, Waiting, RowsLeft, RowOf, Nothing
  <2>3. \A k \in Kinds : ~This(k, v, u) => Count(k, v, u)' = Count(k, v, u)
    BY <1>5
  <2>4. v = w /\ u = t
           => Waiting(kind, v, u) /\ Count(kind, v, u)' <= Count(kind, v, u) + 1
    BY <1>2, <1>3, <1>5, <2>2 DEF Waiting
  <2>5. OutageInv(v, u)'
    <3>1. CASE This("down", v, u)
      <4>1. /\ Waiting("down", v, u) /\ Sending("down", v, u)' /\ ~Waiting("down", v, u)'
            /\ Count("down", v, u)' <= Count("down", v, u) + 1
        BY <2>2, <2>4, <3>1 DEF Kinds, Waiting
      <4> QED
        BY <1>1, <2>1, <2>counts, <4>1 DEF OutageInv, Kinds
    <3>2. CASE ~This("down", v, u)
      <4>1. /\ ~Sending("down", v, u)' /\ ~Sending("down", v, u)
            /\ Waiting("down", v, u)' => Waiting("down", v, u)
            /\ Count("down", v, u)' = Count("down", v, u)
        BY <2>2, <2>3, <3>2 DEF Kinds
      <4> QED
        BY <1>1, <2>1, <4>1 DEF OutageInv
    <3> QED
      BY <3>1, <3>2
  <2>6. ReturnInv(v, u)'
    <3>1. CASE This("up", v, u)
      <4>1. u <= workers[v].session
        BY <1>2, <1>3, <1>4, <3>1 DEF NoticeInv, RowsOK, RowsLeft
      <4>2. workers[v].session \in Nat
        BY DEF NoticeInv, AlarmTypeOK, WorkerRows
      <4>3. /\ Waiting("up", v, u) /\ Sending("up", v, u)' /\ ~Waiting("up", v, u)'
            /\ Count("up", v, u)' <= Count("up", v, u) + 1
        BY <2>2, <2>4, <3>1 DEF Kinds, Waiting
      <4> QED
        BY <1>1, <1>2, <2>1, <2>counts, <4>1, <4>2, <4>3 DEF ReturnInv, Kinds
    <3>2. CASE ~This("up", v, u)
      <4>1. /\ ~Sending("up", v, u)' /\ ~Sending("up", v, u)
            /\ Waiting("up", v, u)' => Waiting("up", v, u)
            /\ Count("up", v, u)' = Count("up", v, u)
        BY <2>2, <2>3, <3>2 DEF Kinds
      <4> QED
        BY <1>1, <1>2, <2>1, <4>1 DEF ReturnInv
    <3> QED
      BY <3>1, <3>2
  <2> QED
    BY <2>5, <2>6
<1> QED
  BY <1>6, <1>7, <1>8, <1>9 DEF NoticeInv

\* What a mark does: the worker's time of that kind is the clock of the pass.
LEMMA MarkWrites ==
    ASSUME NoticeInv, Mark,
           NEW kind \in Kinds, NEW w \in Workers, NEW t \in 1..MaxClock, Sending(kind, w, t)
    PROVE  /\ workers' \in [Workers -> WorkerRows]
           /\ \A v \in Workers : /\ workers'[v].last = workers[v].last
                                /\ workers'[v].session = workers[v].session
           /\ \A v \in Workers : workers'[v].down =
                  IF kind = "down" /\ v = w THEN now ELSE workers[v].down
           /\ \A v \in Workers : workers'[v].up =
                  IF kind = "up" /\ v = w THEN now ELSE workers[v].up
<1>1. workers' = [workers EXCEPT ![w][kind] = now]
  BY DEF Mark, Sending, RowOf
<1>2. workers \in [Workers -> WorkerRows] /\ now \in Nat
  BY DEF NoticeInv, AlarmTypeOK
<1>3. CASE kind = "down"
  <2>1. workers' = [workers EXCEPT ![w].down = now]
    BY <1>1, <1>3
  <2> QED
    BY <1>2, <1>3, <2>1 DEF WorkerRows
<1>4. CASE kind = "up"
  <2>1. workers' = [workers EXCEPT ![w].up = now]
    BY <1>1, <1>4
  <2> QED
    BY <1>2, <1>4, <2>1 DEF WorkerRows
<1> QED
  BY <1>3, <1>4 DEF Kinds

\* The mark covers the outage the pass has just reported: it was selected because it
\* is older than the clock of the pass.  A session it reported may be younger.
LEMMA MarkKeepsNotices == NoticeInv /\ Mark => NoticeInv'
<1> SUFFICES ASSUME NoticeInv, Mark PROVE NoticeInv'
  OBVIOUS
<1> USE AlarmAssumption
<1>1. UNCHANGED <<clock, shares, now, sent, alarmDeaths>>
  BY DEF Mark
<1>2. at = "mark" /\ at' = "notify" /\ current' = Nothing
  BY DEF Mark, Handled
<1>3. PICK kind \in Kinds, w \in Workers, t \in 1..MaxClock : Sending(kind, w, t)
  <2>1. PICK kind \in Kinds, row \in Rows : current = <<kind, row>>
    BY <1>2 DEF NoticeInv, AlarmTypeOK, PassInv
  <2>2. PICK w \in Workers, t \in 1..MaxClock : row = RowOf(w, t)
    BY <2>1 DEF Rows, RowOf
  <2> QED
    BY <2>1, <2>2 DEF Sending
<1>4. /\ RowOf(w, t) \in RowsLeft(kind)
      /\ current[1] = kind /\ current[2] = RowOf(w, t)
  BY <1>2, <1>3 DEF Sending, NoticeInv, PassInv
<1>5. /\ downRows' = IF kind = "down" THEN downRows \ {RowOf(w, t)} ELSE downRows
      /\ upRows' = IF kind = "up" THEN upRows \ {RowOf(w, t)} ELSE upRows
  BY <1>4 DEF Mark, Handled, Kinds
<1>6. /\ workers' \in [Workers -> WorkerRows]
      /\ \A v \in Workers : /\ workers'[v].last = workers[v].last
                           /\ workers'[v].session = workers[v].session
      /\ \A v \in Workers : workers'[v].down =
             IF kind = "down" /\ v = w THEN now ELSE workers[v].down
      /\ \A v \in Workers : workers'[v].up =
             IF kind = "up" /\ v = w THEN now ELSE workers[v].up
  BY <1>3, MarkWrites
<1>7. AlarmTypeOK'
  BY <1>1, <1>2, <1>5, <1>6 DEF NoticeInv, AlarmTypeOK
<1>8. PassInv'
  BY <1>2 DEF PassInv
<1>9. \A v \in Workers : TimesOK(v)'
  <2> TAKE v \in Workers
  <2>1. TimesOK(v) /\ now \in Nat
    BY DEF NoticeInv, AlarmTypeOK
  <2> QED
    BY <1>1, <1>6, <2>1 DEF TimesOK
<1>10. RowsOK'
  <2>1. RowsOK /\ downRows \subseteq Rows /\ upRows \subseteq Rows
    BY DEF NoticeInv, AlarmTypeOK
  <2>2. downRows' \subseteq downRows /\ upRows' \subseteq upRows
    BY <1>5
  <2>3. \A row \in Rows : row.worker \in Workers
    BY DEF Rows
  <2> QED
    BY <1>1, <1>6, <2>1, <2>2, <2>3 DEF RowsOK
<1>11. ASSUME NEW v \in Workers, NEW u \in 1..MaxClock
       PROVE  OutageInv(v, u)' /\ ReturnInv(v, u)'
  <2> DEFINE This(k) == k = kind /\ v = w /\ u = t
  <2>1. /\ OutageInv(v, u) /\ ReturnInv(v, u) /\ TimesOK(v)
        /\ now \in Nat /\ alarmDeaths \in Nat
        /\ workers[v] \in WorkerRows
    BY DEF NoticeInv, AlarmTypeOK
  <2>2. \A k \in Kinds : Count(k, v, u)' = Count(k, v, u) /\ Count(k, v, u) \in Nat
    BY <1>1 DEF NoticeInv, AlarmTypeOK, Count
  <2>3. \A k \in Kinds : /\ Sending(k, v, u) <=> This(k)
                         /\ ~Sending(k, v, u)'
                         /\ Waiting(k, v, u)' => Waiting(k, v, u)
    <3>1. \A k \in Kinds : Sending(k, v, u) <=> This(k)
      BY <1>3 DEF Sending, RowOf
    <3>2. \A k \in Kinds : ~Sending(k, v, u)'
      BY <1>2 DEF Sending, Nothing
    <3>3. \A k \in Kinds : Waiting(k, v, u)' => Waiting(k, v, u)
      BY <1>5, <3>1 DEF Waiting, RowsLeft, Kinds
    <3> QED
      BY <3>1, <3>2, <3>3
  <2>4. OutageInv(v, u)'
    <3>1. CASE This("down")
      <4>1. t < now /\ t <= workers[w].last
        BY <1>4, <3>1 DEF NoticeInv, RowsOK, RowsLeft, RowOf
      <4>2. ~Waiting("down", v, u)'
        BY <1>5, <3>1 DEF Waiting, RowsLeft
      <4>3. workers'[v].down = now /\ workers'[v].last = workers[v].last
        BY <1>6, <3>1
      <4> QED
        BY <1>1, <2>1, <2>2, <2>3, <3>1, <4>1, <4>2, <4>3 DEF OutageInv, Kinds, WorkerRows
    <3>2. CASE ~This("down")
      <4>1. /\ ~Sending("down", v, u) /\ ~Sending("down", v, u)'
            /\ Waiting("down", v, u)' => Waiting("down", v, u)
            /\ Count("down", v, u)' = Count("down", v, u)
        BY <2>2, <2>3, <3>2 DEF Kinds
      <4>2. workers'[v].last = workers[v].last /\ workers'[v].down \in {workers[v].down, now}
        BY <1>6
      <4>3. workers[v].down <= now
        BY <2>1 DEF TimesOK
      <4> QED
        BY <1>1, <2>1, <4>1, <4>2, <4>3 DEF OutageInv, WorkerRows
    <3> QED
      BY <3>1, <3>2
  <2>5. ReturnInv(v, u)'
    <3>1. CASE This("up")
      <4>1. workers'[v].up = now /\ workers'[v].session = workers[v].session
        BY <1>6, <3>1
      <4>2. Sending("up", v, u) /\ ~Sending("up", v, u)' /\ ~Waiting("up", v, u)'
        BY <1>5, <2>3, <3>1 DEF Waiting, RowsLeft, Kinds
      <4> QED
        BY <1>1, <1>2, <2>1, <2>2, <4>1, <4>2 DEF ReturnInv, Kinds, WorkerRows
    <3>2. CASE ~This("up")
      <4>1. /\ ~Sending("up", v, u) /\ ~Sending("up", v, u)'
            /\ Waiting("up", v, u)' => Waiting("up", v, u)
            /\ Count("up", v, u)' = Count("up", v, u)
        BY <2>2, <2>3, <3>2 DEF Kinds
      <4>2. workers'[v].session = workers[v].session /\ workers'[v].up \in {workers[v].up, now}
        BY <1>6
      <4>3. workers[v].up <= now
        BY <2>1 DEF TimesOK
      <4> QED
        BY <1>1, <1>2, <2>1, <4>1, <4>2, <4>3 DEF ReturnInv, WorkerRows
    <3> QED
      BY <3>1, <3>2
  <2> QED
    BY <2>4, <2>5
<1> QED
  BY <1>7, <1>8, <1>9, <1>10, <1>11 DEF NoticeInv

LEMMA NoticesStep == NoticeInv /\ [NotificationsNext]_notificationVars => NoticeInv'
<1> SUFFICES ASSUME NoticeInv, [NotificationsNext]_notificationVars PROVE NoticeInv'
  OBVIOUS
<1>1. CASE AccountsNext /\ UNCHANGED alarmVars
  <2>1. UNCHANGED workers
    BY <1>1 DEF AccountsNext, Register, DeleteUser, InsertUser, Activate, ActivateUser,
                ApiRequestFails, tableVars
  <2> QED
    BY <1>1, <2>1, OthersKeepNotices
<1>2. CASE Tick
  BY <1>2, TickKeepsNotices
<1>3. ASSUME NEW w \in Workers, NEW e \in Emails \cup {NoEmail}, Share(w, e) PROVE NoticeInv'
  BY <1>3, ShareKeepsNotices
<1>4. CASE ReadClock
  BY <1>4, ReadClockKeepsNotices
<1>5. CASE SelectDown
  BY <1>5, SelectDownKeepsNotices
<1>6. CASE SelectUp
  BY <1>6, SelectUpKeepsNotices
<1>7. ASSUME NEW kind \in Kinds, NEW row \in Pending(kind), Notify(kind, row) PROVE NoticeInv'
  BY <1>7, NotifyKeepsNotices
<1>8. ASSUME NEW kind \in Kinds, NEW row \in Pending(kind), NoContacts(kind, row)
      PROVE  NoticeInv'
  <2>1. EndPass /\ UNCHANGED <<workers, clock, shares, now, sent, alarmDeaths>> /\ at = "notify"
    BY <1>8 DEF NoContacts, tableVars
  <2>2. current = Nothing
    BY <2>1 DEF NoticeInv, PassInv
  <2> QED
    BY <2>1, <2>2, EndPassKeepsNotices
<1>9. CASE Mark
  BY <1>9, MarkKeepsNotices
<1>10. CASE PassOver
  <2>1. EndPass /\ UNCHANGED <<workers, clock, shares, now, sent, alarmDeaths>> /\ at = "notify"
    BY <1>10 DEF PassOver, tableVars
  <2>2. current = Nothing
    BY <2>1 DEF NoticeInv, PassInv
  <2> QED
    BY <2>1, <2>2, EndPassKeepsNotices
<1>11. CASE AlarmDies
  <2>1. EndPass /\ UNCHANGED <<workers, clock, shares, now, sent>> /\ alarmDeaths' = alarmDeaths + 1
    BY <1>11 DEF AlarmDies, tableVars
  <2> QED
    BY <2>1, EndPassKeepsNotices
<1>12. CASE UNCHANGED notificationVars
  BY <1>12, OthersKeepNotices DEF notificationVars, tableVars
<1> QED
  BY <1>1, <1>2, <1>3, <1>4, <1>5, <1>6, <1>7, <1>8, <1>9, <1>10, <1>11, <1>12
     DEF NotificationsNext, AlarmNext, AlarmStep

\* An outage is reported once and a return from it twice at most, and once more for
\* every death of the alarm, whatever shares and api requests come in between.
THEOREM OneNoticePerOutage == NotificationsSpec => []NoticesPerOutage
<1>1. NoticeInv => NoticesPerOutage
  BY DEF NoticeInv, OutageInv, ReturnInv, Count, NoticesPerOutage
<1> QED
  BY <1>1, NoticesInit, NoticesStep, PTL DEF NotificationsSpec

------------------------------------------------------------------------------
(***************************************************************************)
(* The frontend.                                                           *)
(*                                                                         *)
(* Answers and intervals come in any order between what the user does, so  *)
(* none of the properties can be seen from one handler.  QueueInv says what*)
(* one event puts on the queue, and what of the model holds until it is    *)
(* taken; the rest says who the fetches in flight are for, compared with   *)
(* who is logged in and what is on the page.                               *)
(***************************************************************************)

\* What the form of the settings can hold
Values == [of : Credentials, how : {"saved", "typed"}]

\* A fetch in flight, served or not
Fetches == [kind : {"login", "check", "info", "save"}, as : Credentials \cup {"wallet"},
            value : Values \cup {NoValue}, answer : Values \cup {NoValue, Refusal}]

\* What the page is drawn from
Models == [isAuthenticated : BOOLEAN, authenticationInfo : Credentials,
           currentMinerInfo : Credentials \cup {"wallet", "null", "refused"},
           showMinerSettings : BOOLEAN, minerSettings : Values, minerSettingsOld : Values]

\* What the variables of the tab hold.
TabTypeOK ==
    /\ model \in Models
    /\ page \in Pages /\ poll \in MinerPages \cup {"none"}
    /\ loginPoll \in BOOLEAN /\ leaked \in BOOLEAN /\ cookie \in Credentials
    /\ alive \in BOOLEAN /\ fresh \in BOOLEAN
    /\ server \in [Accounts -> Values]
    /\ IsABag(requests) /\ BagToSet(requests) \subseteq Fetches

\* The api refuses those without an account, and only those; what is saved are settings.
AnswersOK ==
    \A r \in BagToSet(requests) :
        /\ r.kind = "check" => r.answer = NoValue \/ (r.answer = Refusal <=> r.as \notin Accounts)
        /\ r.kind = "save" => r.value \in Values

\* What is on the queue: what one event has put there, or the rest of it.  The model
\* is still as the user saw it.
QueueInv ==
    \/ queue = <<>>
    \/ /\ queue = <<Action("Init"), ChangePage(page)>>
       /\ model = Blank /\ requests = EmptyBag /\ ~fresh
       /\ poll = "none" /\ ~loginPoll /\ ~leaked
    \/ queue = <<ChangePage(page)>>
    \/ /\ ~model.isAuthenticated
       /\ \E c \in Credentials : \/ queue = <<UpdateAuthenticationInfo(c)>>
                                 \/ queue = <<UpdateAuthenticationInfo(c), Action("Login")>>
    \/ queue = <<Action("Login")>> /\ ~model.isAuthenticated
    \/ queue = <<Action("ShowMinerSettings")>> /\ model.isAuthenticated
    \/ /\ model.showMinerSettings
       /\ \E type \in {"HideMinerSettings", "UpdateMinerSettings", "SaveMinerSettings"} :
             queue = <<Action(type)>>
    \/ \E type \in {"LoginError", "SaveError", "SaveSuccess", "LoginSuccess"} :
          queue = <<Action(type)>>
    \/ \E by \in {"user", "poll"} : queue = <<[type |-> "Logout", by |-> by]>>
    \/ \E settings \in Values, who \in Accounts :
          queue = <<[type |-> "PollLoginSuccess", settings |-> settings, as |-> who]>>
    \/ \E info \in Credentials \cup {"wallet", "refused"} :
          queue = <<[type |-> "UpdateMinerInfo", info |-> info]>>

\* The action the loop takes next
ToCome == IF queue = <<>> THEN "none" ELSE Head(queue).type

\* Who is logged in has an account; only then are there polls of the login, and only
\* before it is there a fetch of a login, with the credentials the form shows.
SessionInv ==
    \/ Excused({"edited", "doubled"})
    \/ /\ model.isAuthenticated => User \in Accounts
       /\ loginPoll => model.isAuthenticated
       /\ ~leaked
       /\ cookie \in Accounts \cup {"none"}
       /\ \A r \in BagToSet(requests) :
             /\ r.kind = "check" => r.as \in Accounts
             /\ r.kind = "login" => /\ r = Request("login", User, NoValue)
                                    /\ requests[r] = 1
                                    /\ ~model.isAuthenticated
       /\ ToCome = "LoginSuccess" =>
             User \in Accounts /\ ~model.isAuthenticated /\ InFlight("login") = {}
       /\ ToCome = "Logout" => Head(queue).by = "user" /\ model.isAuthenticated

\* The interval of the page is that of the page the address bar shows, once the loop
\* has taken the change of the page.
PollInv ==
    \/ ToCome = "Init" \/ ToCome = "ChangePage"
    \/ poll = IF page \in MinerPages THEN page ELSE "none"

\* Nobody asks for the miner of a user who is not logged in.
DrawInv ==
    \/ Excused({"strayed", "edited", "doubled"})
    \/ /\ alive
       /\ model.currentMinerInfo # "refused"
       /\ ToCome = "UpdateMinerInfo" => Head(queue).info # "refused"
       /\ \A r \in BagToSet(requests) : r.kind = "info" => r.as \notin {"none", "wrong"}
       /\ poll = "/account" => model.isAuthenticated \/ ToCome = "ChangePage"

\* Settings are of the account they are fetched, shown or saved for; the form is open
\* only for who is logged in, and then it has that user's.
OwnInv ==
    \/ Excused({"hasty", "overtaken", "leftOpen"})
    \/ /\ \A a \in Accounts : server[a].of = a
       /\ \A r \in BagToSet(requests) :
             /\ r.kind = "save" => r.value.of = r.as
             /\ r.kind = "check" /\ r.answer \in Values => r.answer.of = r.as
       /\ ToCome = "PollLoginSuccess" => Head(queue).settings.of = Head(queue).as
       /\ model.showMinerSettings => model.isAuthenticated
       /\ model.showMinerSettings \/ (fresh /\ model.isAuthenticated) =>
             model.minerSettings.of = User /\ model.minerSettingsOld.of = User

TabInv ==
    /\ TabTypeOK /\ AnswersOK /\ QueueInv
    /\ SessionInv /\ PollInv /\ DrawInv /\ OwnInv

------------------------------------------------------------------------------

\* A bag with one more of x
LEMMA OneMore ==
    ASSUME NEW B, IsABag(B), NEW x
    PROVE  LET C == B (+) SetToBag({x}) IN
           /\ IsABag(C)
           /\ BagToSet(C) = BagToSet(B) \cup {x}
           /\ \A y \in BagToSet(B) : y # x => C[y] = B[y]
           /\ x \notin BagToSet(B) => C[x] = 1
<1> DEFINE C == B (+) SetToBag({x})
<1>1. B \in [BagToSet(B) -> {n \in Nat : n > 0}]
  BY DEF IsABag, BagToSet
<1>2. C = [y \in BagToSet(B) \cup {x} |->
              (IF y \in BagToSet(B) THEN B[y] ELSE 0) + (IF y \in {x} THEN 1 ELSE 0)]
  BY DEF SetToBag, (+), BagToSet
<1> HIDE DEF C
<1>3. \A y \in BagToSet(B) \cup {x} : C[y] \in {n \in Nat : n > 0}
  BY <1>1, <1>2
<1>4. BagToSet(C) = BagToSet(B) \cup {x}
  BY <1>2 DEF BagToSet
<1>5. IsABag(C)
  BY <1>2, <1>3 DEF IsABag
<1>6. \A y \in BagToSet(B) : y # x => C[y] = B[y]
  BY <1>1, <1>2
<1>7. x \notin BagToSet(B) => C[x] = 1
  BY <1>2
<1> QED
  BY <1>4, <1>5, <1>6, <1>7 DEF C

\* A bag with one less of x
LEMMA OneLess ==
    ASSUME NEW B, IsABag(B), NEW x \in BagToSet(B)
    PROVE  LET C == B (-) SetToBag({x}) IN
           /\ IsABag(C)
           /\ BagToSet(C) \subseteq BagToSet(B)
           /\ \A y \in BagToSet(C) : y # x => C[y] = B[y]
           /\ B[x] = 1 => x \notin BagToSet(C)
<1> DEFINE C == B (-) SetToBag({x})
           S == BagToSet(B)
           M(y) == B[y] - (IF y \in {x} THEN 1 ELSE 0)
<1>1. B \in [S -> {n \in Nat : n > 0}]
  BY DEF IsABag, BagToSet
<1>2. C = [y \in {z \in S : M(z) > 0} |-> M(y)]
  BY <1>1 DEF SetToBag, (-), BagToSet
<1>3. \A y \in S : B[y] \in Nat /\ B[y] > 0 /\ M(y) = IF y = x THEN B[y] - 1 ELSE B[y]
  BY <1>1
<1> HIDE DEF C, M
<1>4. BagToSet(C) = {y \in S : M(y) > 0}
  BY <1>2 DEF BagToSet
<1>5. \A y \in BagToSet(C) : C[y] = M(y) /\ M(y) \in Nat /\ M(y) > 0
  BY <1>2, <1>3, <1>4
<1>6. IsABag(C)
  BY <1>2, <1>4, <1>5 DEF IsABag, BagToSet
<1>7. /\ BagToSet(C) \subseteq S
      /\ \A y \in BagToSet(C) : y # x => C[y] = B[y]
      /\ B[x] = 1 => x \notin BagToSet(C)
  BY <1>3, <1>4, <1>5
<1> QED
  BY <1>6, <1>7 DEF C

\* What the next action says of the queue and the model
LEMMA HeadSays ==
    ASSUME QueueInv, queue # <<>>
    PROVE  /\ ToCome = Head(queue).type
           /\ ToCome = "Init" =>
                 /\ Tail(queue) = <<ChangePage(page)>>
                 /\ model = Blank /\ requests = EmptyBag /\ ~fresh
                 /\ poll = "none" /\ ~loginPoll /\ ~leaked
           /\ ToCome = "ChangePage" => Head(queue).pathname = page
           /\ ToCome = "UpdateAuthenticationInfo" =>
                 /\ Tail(queue) \in {<<>>, <<Action("Login")>>}
                 /\ ~model.isAuthenticated /\ Head(queue).as \in Credentials
           /\ ToCome \notin {"Init", "UpdateAuthenticationInfo"} => Tail(queue) = <<>>
           /\ ToCome = "Login" => ~model.isAuthenticated
           /\ ToCome = "ShowMinerSettings" => model.isAuthenticated
           /\ ToCome \in {"HideMinerSettings", "UpdateMinerSettings", "SaveMinerSettings"}
                 => model.showMinerSettings
           /\ ToCome = "PollLoginSuccess" =>
                 Head(queue).settings \in Values /\ Head(queue).as \in Accounts
           /\ ToCome = "UpdateMinerInfo" =>
                 Head(queue).info \in Credentials \cup {"wallet", "refused"}
<1>1. ToCome = Head(queue).type
  BY DEF ToCome
<1>2. CASE queue = <<Action("Init"), ChangePage(page)>>
           /\ model = Blank /\ requests = EmptyBag /\ ~fresh
           /\ poll = "none" /\ ~loginPoll /\ ~leaked
  BY <1>1, <1>2 DEF Action
<1>3. CASE queue = <<ChangePage(page)>>
  BY <1>1, <1>3 DEF ChangePage
<1>4. ASSUME ~model.isAuthenticated, NEW c \in Credentials,
             \/ queue = <<UpdateAuthenticationInfo(c)>>
             \/ queue = <<UpdateAuthenticationInfo(c), Action("Login")>>
      PROVE  /\ ToCome = "UpdateAuthenticationInfo"
             /\ Tail(queue) \in {<<>>, <<Action("Login")>>} /\ Head(queue).as \in Credentials
  <2> DEFINE x == UpdateAuthenticationInfo(c)
  <2>1. x.type = "UpdateAuthenticationInfo" /\ x.as = c
    BY DEF UpdateAuthenticationInfo
  <2> HIDE DEF x
  <2>2. CASE queue = <<x>>
    BY <1>1, <1>4, <2>1, <2>2
  <2>3. CASE queue = <<x, Action("Login")>>
    BY <1>1, <1>4, <2>1, <2>3
  <2> QED
    BY <1>4, <2>2, <2>3 DEF x
<1>5. ASSUME NEW type, queue = <<Action(type)>>
      PROVE  ToCome = type /\ Tail(queue) = <<>>
  BY <1>1, <1>5 DEF Action
<1>6. ASSUME NEW by, queue = <<[type |-> "Logout", by |-> by]>>
      PROVE  ToCome = "Logout" /\ Tail(queue) = <<>>
  BY <1>1, <1>6
<1>7. ASSUME NEW settings \in Values, NEW who \in Accounts,
             queue = <<[type |-> "PollLoginSuccess", settings |-> settings, as |-> who]>>
      PROVE  /\ ToCome = "PollLoginSuccess" /\ Tail(queue) = <<>>
             /\ Head(queue).settings = settings /\ Head(queue).as = who
  <2> DEFINE x == [type |-> "PollLoginSuccess", settings |-> settings, as |-> who]
  <2>1. x.type = "PollLoginSuccess" /\ x.settings = settings /\ x.as = who
    OBVIOUS
  <2> HIDE DEF x
  <2>2. queue = <<x>>
    BY <1>7 DEF x
  <2>3. Head(queue) = x /\ Tail(queue) = <<>>
    BY <2>2
  <2> QED
    BY <1>1, <2>1, <2>3
<1>8. ASSUME NEW info \in Credentials \cup {"wallet", "refused"},
             queue = <<[type |-> "UpdateMinerInfo", info |-> info]>>
      PROVE  ToCome = "UpdateMinerInfo" /\ Tail(queue) = <<>> /\ Head(queue).info = info
  BY <1>1, <1>8
<1> QED
  BY <1>1, <1>2, <1>3, <1>4, <1>5, <1>6, <1>7, <1>8 DEF QueueInv

\* The names used for what is no account
LEMMA NoAccounts ==
    /\ "none" \in Credentials \ Accounts /\ "wrong" \in Credentials \ Accounts
    /\ {"wallet", "refused", "null"} \cap Credentials = {}
    /\ Accounts \subseteq Credentials
BY FrontendAssumption DEF Credentials

\* A value of the settings is known from what stands for none.
LEMMA SettingsDiffer ==
    /\ \A who \in Credentials : \A how \in {"saved", "typed"} : Setting(who, how) \in Values
    /\ NoValue \notin Values /\ Refusal \notin Values /\ NoValue # Refusal
BY DEF Setting, Values, NoValue, Refusal

\* What a new fetch looks like
LEMMA NewFetch ==
    ASSUME NEW kind \in {"login", "check", "info", "save"},
           NEW who \in Credentials \cup {"wallet"}, NEW value \in Values \cup {NoValue}
    PROVE  LET r == Request(kind, who, value) IN
           /\ r \in Fetches
           /\ r.kind = kind /\ r.as = who /\ r.value = value /\ r.answer = NoValue
BY DEF Request, Fetches

\* A tab that has just been opened
LEMMA TabStart == Init => TabInv
<1> SUFFICES ASSUME Init PROVE TabInv
  OBVIOUS
<1> USE DEF Init
<1>1. BagToSet(requests) = {} /\ IsABag(requests)
  BY DEF EmptyBag, SetToBag, BagToSet, IsABag
<1>2. /\ model.isAuthenticated = FALSE /\ model.authenticationInfo = "none"
      /\ model.currentMinerInfo = "null" /\ model.showMinerSettings = FALSE
      /\ model \in Models
  BY NoAccounts, SettingsDiffer DEF Blank, Models
<1>3. TabTypeOK
  <2>1. page \in Pages /\ cookie \in Credentials
    BY FrontendAssumption, NoAccounts DEF Pages, MinerPages
  <2>2. server \in [Accounts -> Values]
    BY SettingsDiffer, NoAccounts
  <2> QED
    BY <1>1, <1>2, <2>1, <2>2 DEF TabTypeOK
<1>4. ToCome = "Init"
  BY DEF ToCome, Action
<1>5. AnswersOK /\ QueueInv /\ PollInv
  BY <1>1, <1>4 DEF AnswersOK, QueueInv, PollInv
<1>6. SessionInv
  BY <1>1, <1>2, <1>4, FrontendAssumption DEF SessionInv
<1>7. DrawInv
  BY <1>1, <1>2, <1>4 DEF DrawInv
<1>8. OwnInv
  BY <1>1, <1>2, <1>4 DEF OwnInv, Setting
<1> QED
  BY <1>3, <1>5, <1>6, <1>7, <1>8 DEF TabInv

\* An excuse is never taken back.
LEMMA StillExcused ==
    ASSUME NEW names, excuses \subseteq excuses', Excused(names)
    PROVE  Excused(names)'
BY DEF Excused

\* The loop takes an action that leaves the user, the page and the fetches alone: all
\* that may change is what the form of the settings has.
LEMMA ModelStep ==
    ASSUME TabInv, NEW type, type \notin {"Init", "ChangePage", "UpdateAuthenticationInfo"},
           Takes(type), Done, Draws, UNCHANGED <<tabVars, requests>>,
           model' \in Models, fresh' \in BOOLEAN, excuses \subseteq excuses',
           model'.isAuthenticated = model.isAuthenticated,
           model'.authenticationInfo = model.authenticationInfo,
           \/ model'.currentMinerInfo = model.currentMinerInfo
           \/ type = "UpdateMinerInfo" /\ model'.currentMinerInfo = Head(queue).info
    PROVE  /\ TabTypeOK' /\ AnswersOK' /\ QueueInv' /\ SessionInv' /\ PollInv' /\ DrawInv'
           /\ queue' = <<>>
<1>1. /\ ToCome = type /\ queue' = <<>>
      /\ alive /\ UNCHANGED <<page, server, poll, loginPoll, leaked, cookie, requests>>
  BY HeadSays DEF TabInv, Takes, Done, tabVars
<1>2. ToCome' = "none"
  BY <1>1 DEF ToCome
<1>3. TabTypeOK'
  <2>1. TabTypeOK
    BY DEF TabInv
  <2>2. alive' \in BOOLEAN
    BY DEF Draws
  <2> QED
    BY <1>1, <2>1, <2>2 DEF TabTypeOK
<1>4. AnswersOK'
  BY <1>1 DEF TabInv, AnswersOK
<1>5. QueueInv'
  BY <1>1 DEF QueueInv
<1>6. SessionInv'
  <2>1. CASE Excused({"edited", "doubled"})
    BY <2>1, StillExcused DEF SessionInv
  <2>2. CASE ~Excused({"edited", "doubled"})
    BY <1>1, <1>2, <2>2 DEF TabInv, SessionInv, User, InFlight, Request, NoValue
  <2> QED
    BY <2>1, <2>2
<1>7. PollInv'
  BY <1>1 DEF TabInv, PollInv
<1>8. DrawInv'
  <2>1. CASE Excused({"strayed", "edited", "doubled"})
    BY <2>1, StillExcused DEF DrawInv
  <2>2. CASE ~Excused({"strayed", "edited", "doubled"})
    <3>1. DrawInv
      BY DEF TabInv
    <3>2. model'.currentMinerInfo # "refused"
      BY <1>1, <2>2, <3>1 DEF DrawInv
    <3>3. alive'
      BY <3>2 DEF Draws
    <3> QED
      BY <1>1, <1>2, <2>2, <3>1, <3>2, <3>3 DEF DrawInv
  <2> QED
    BY <2>1, <2>2
<1> QED
  BY <1>1, <1>3, <1>4, <1>5, <1>6, <1>7, <1>8

\* What the form of the settings shows changes, and whether it is open; the settings
\* stay those of the account they are for.
LEMMA FormSteps ==
    ASSUME TabInv,
           \/ DispatchUpdateMinerInfo \/ DispatchShowMinerSettings
           \/ DispatchHideMinerSettings \/ DispatchUpdateMinerSettings
           \/ DispatchSaveSuccess \/ DispatchError \/ DispatchPollLoginSuccess
    PROVE  TabInv'
<1>1. /\ model \in Models /\ User \in Credentials /\ fresh \in BOOLEAN
      /\ OwnInv /\ QueueInv
  BY DEF TabInv, TabTypeOK, Models, User
<1>2. ASSUME NEW type, NEW new, Sets(type, new)
      PROVE  /\ Takes(type) /\ Done /\ Draws /\ UNCHANGED <<tabVars, requests, server>>
             /\ model' = new /\ ToCome = type
             /\ queue # <<>>
  BY <1>1, <1>2, HeadSays DEF Sets, Takes
<1>3. CASE DispatchUpdateMinerInfo
  <2>1. /\ Sets("UpdateMinerInfo", [model EXCEPT !.currentMinerInfo = Head(queue).info])
        /\ UNCHANGED <<fresh, excuses>>
    BY <1>3 DEF DispatchUpdateMinerInfo
  <2>2. /\ Takes("UpdateMinerInfo") /\ Done /\ Draws /\ UNCHANGED <<tabVars, requests, server>>
        /\ model' = [model EXCEPT !.currentMinerInfo = Head(queue).info]
        /\ ToCome = "UpdateMinerInfo" /\ queue # <<>>
    BY <1>2, <2>1
  <2>3. Head(queue).info \in Credentials \cup {"wallet", "refused"}
    BY <1>1, <2>2, HeadSays
  <2>4. /\ model' \in Models /\ model'.currentMinerInfo = Head(queue).info
        /\ \A f \in {"isAuthenticated", "authenticationInfo", "showMinerSettings",
                     "minerSettings", "minerSettingsOld"} : model'[f] = model[f]
    BY <1>1, <2>2, <2>3 DEF Models
  <2>5. /\ TabTypeOK' /\ AnswersOK' /\ QueueInv' /\ SessionInv' /\ PollInv' /\ DrawInv'
        /\ queue' = <<>>
    BY <1>1, <2>1, <2>2, <2>4, ModelStep
  <2>6. OwnInv'
    BY <1>1, <2>1, <2>2, <2>4, <2>5 DEF OwnInv, Excused, ToCome, User
  <2> QED
    BY <2>5, <2>6 DEF TabInv
<1>4. CASE DispatchShowMinerSettings
  <2>1. /\ Sets("ShowMinerSettings", [model EXCEPT !.showMinerSettings = TRUE])
        /\ Excuse("hasty", ~fresh) /\ UNCHANGED fresh
    BY <1>4 DEF DispatchShowMinerSettings
  <2>2. /\ Takes("ShowMinerSettings") /\ Done /\ Draws /\ UNCHANGED <<tabVars, requests, server>>
        /\ model' = [model EXCEPT !.showMinerSettings = TRUE]
        /\ ToCome = "ShowMinerSettings" /\ queue # <<>>
    BY <1>2, <2>1
  <2>3. model.isAuthenticated
    BY <1>1, <2>2, HeadSays
  <2>4. /\ model' \in Models
        /\ \A f \in {"isAuthenticated", "authenticationInfo", "currentMinerInfo",
                     "minerSettings", "minerSettingsOld"} : model'[f] = model[f]
    BY <1>1, <2>2 DEF Models
  <2>5. excuses \subseteq excuses' /\ (~fresh => "hasty" \in excuses')
    BY <2>1 DEF Excuse
  <2>6. /\ TabTypeOK' /\ AnswersOK' /\ QueueInv' /\ SessionInv' /\ PollInv' /\ DrawInv'
        /\ queue' = <<>>
    BY <1>1, <2>1, <2>2, <2>4, <2>5, ModelStep
  <2>7. OwnInv'
    BY <1>1, <2>1, <2>2, <2>3, <2>4, <2>5, <2>6 DEF OwnInv, Excused, ToCome, User
  <2> QED
    BY <2>6, <2>7 DEF TabInv
<1>5. CASE DispatchHideMinerSettings
  <2> DEFINE new == [model EXCEPT !.showMinerSettings = FALSE,
                                  !.minerSettings = model.minerSettingsOld]
  <2>1. Sets("HideMinerSettings", new) /\ UNCHANGED <<fresh, excuses>>
    BY <1>5 DEF DispatchHideMinerSettings
  <2>2. /\ Takes("HideMinerSettings") /\ Done /\ Draws /\ UNCHANGED <<tabVars, requests, server>>
        /\ model' = new /\ ToCome = "HideMinerSettings" /\ queue # <<>>
    BY <1>2, <2>1
  <2>4. /\ model' \in Models /\ model'.showMinerSettings = FALSE
        /\ model'.minerSettings = model.minerSettingsOld
        /\ \A f \in {"isAuthenticated", "authenticationInfo", "currentMinerInfo",
                     "minerSettingsOld"} : model'[f] = model[f]
    BY <1>1, <2>2 DEF Models
  <2>6. /\ TabTypeOK' /\ AnswersOK' /\ QueueInv' /\ SessionInv' /\ PollInv' /\ DrawInv'
        /\ queue' = <<>>
    BY <1>1, <2>1, <2>2, <2>4, ModelStep
  <2>7. OwnInv'
    BY <1>1, <2>1, <2>2, <2>4, <2>6 DEF OwnInv, Excused, ToCome, User
  <2> QED
    BY <2>6, <2>7 DEF TabInv
<1>6. CASE DispatchUpdateMinerSettings
  <2> DEFINE new == [model EXCEPT !.minerSettings = Setting(User, "typed")]
  <2>1. Sets("UpdateMinerSettings", new) /\ UNCHANGED <<fresh, excuses>>
    BY <1>6 DEF DispatchUpdateMinerSettings
  <2>2. /\ Takes("UpdateMinerSettings") /\ Done /\ Draws
        /\ UNCHANGED <<tabVars, requests, server>>
        /\ model' = new /\ ToCome = "UpdateMinerSettings" /\ queue # <<>>
    BY <1>2, <2>1
  <2>3. Setting(User, "typed") \in Values /\ Setting(User, "typed").of = User
    BY <1>1, SettingsDiffer DEF Setting
  <2>4. /\ model' \in Models /\ model'.minerSettings.of = User
        /\ \A f \in {"isAuthenticated", "authenticationInfo", "currentMinerInfo",
                     "showMinerSettings", "minerSettingsOld"} : model'[f] = model[f]
    BY <1>1, <2>2, <2>3 DEF Models
  <2>6. /\ TabTypeOK' /\ AnswersOK' /\ QueueInv' /\ SessionInv' /\ PollInv' /\ DrawInv'
        /\ queue' = <<>>
    BY <1>1, <2>1, <2>2, <2>4, ModelStep
  <2>7. OwnInv'
    BY <1>1, <2>1, <2>2, <2>4, <2>6 DEF OwnInv, Excused, ToCome, User
  <2> QED
    BY <2>6, <2>7 DEF TabInv
<1>7. CASE DispatchSaveSuccess
  <2> DEFINE new == [model EXCEPT !.showMinerSettings = FALSE,
                                  !.minerSettingsOld = model.minerSettings]
  <2>1. Sets("SaveSuccess", new) /\ UNCHANGED <<fresh, excuses>>
    BY <1>7 DEF DispatchSaveSuccess
  <2>2. /\ Takes("SaveSuccess") /\ Done /\ Draws /\ UNCHANGED <<tabVars, requests, server>>
        /\ model' = new /\ ToCome = "SaveSuccess" /\ queue # <<>>
    BY <1>2, <2>1
  <2>4. /\ model' \in Models /\ model'.showMinerSettings = FALSE
        /\ model'.minerSettingsOld = model.minerSettings
        /\ \A f \in {"isAuthenticated", "authenticationInfo", "currentMinerInfo",
                     "minerSettings"} : model'[f] = model[f]
    BY <1>1, <2>2 DEF Models
  <2>6. /\ TabTypeOK' /\ AnswersOK' /\ QueueInv' /\ SessionInv' /\ PollInv' /\ DrawInv'
        /\ queue' = <<>>
    BY <1>1, <2>1, <2>2, <2>4, ModelStep
  <2>7. OwnInv'
    BY <1>1, <2>1, <2>2, <2>4, <2>6 DEF OwnInv, Excused, ToCome, User
  <2> QED
    BY <2>6, <2>7 DEF TabInv
<1>8. CASE DispatchError
  <2>1. PICK type \in {"LoginError", "SaveError"} : Sets(type, model)
    BY <1>8 DEF DispatchError
  <2>2. /\ Takes(type) /\ Done /\ Draws /\ UNCHANGED <<tabVars, requests, server>>
        /\ model' = model /\ ToCome = type /\ queue # <<>>
    BY <1>2, <2>1
  <2>3. UNCHANGED <<fresh, excuses>>
    BY <1>8 DEF DispatchError
  <2>6. /\ TabTypeOK' /\ AnswersOK' /\ QueueInv' /\ SessionInv' /\ PollInv' /\ DrawInv'
        /\ queue' = <<>>
    BY <1>1, <2>1, <2>2, <2>3, ModelStep
  <2>7. OwnInv'
    BY <1>1, <2>2, <2>3, <2>6 DEF OwnInv, Excused, ToCome, User
  <2> QED
    BY <2>6, <2>7 DEF TabInv
<1>9. CASE DispatchPollLoginSuccess
  <2> DEFINE settings == Head(queue).settings
             new == [model EXCEPT !.minerSettingsOld = settings,
                                  !.minerSettings = IF model.showMinerSettings THEN @
                                                    ELSE settings]
  <2>1. /\ Sets("PollLoginSuccess", new) /\ fresh' = TRUE
        /\ Excuse("overtaken", model.isAuthenticated /\ Head(queue).as # User)
    BY <1>9 DEF DispatchPollLoginSuccess
  <2>2. /\ Takes("PollLoginSuccess") /\ Done /\ Draws /\ UNCHANGED <<tabVars, requests, server>>
        /\ model' = new /\ ToCome = "PollLoginSuccess" /\ queue # <<>>
    BY <1>2, <2>1
  <2>3. settings \in Values
    BY <1>1, <2>2, HeadSays
  <2>4. /\ model' \in Models /\ model'.minerSettingsOld = settings
        /\ model'.minerSettings =
               IF model.showMinerSettings THEN model.minerSettings ELSE settings
        /\ \A f \in {"isAuthenticated", "authenticationInfo", "currentMinerInfo",
                     "showMinerSettings"} : model'[f] = model[f]
    BY <1>1, <2>2, <2>3 DEF Models
  <2>5. /\ excuses \subseteq excuses'
        /\ model.isAuthenticated /\ Head(queue).as # User => "overtaken" \in excuses'
    BY <2>1 DEF Excuse
  <2>6. /\ TabTypeOK' /\ AnswersOK' /\ QueueInv' /\ SessionInv' /\ PollInv' /\ DrawInv'
        /\ queue' = <<>>
    BY <1>1, <2>1, <2>2, <2>4, <2>5, ModelStep
  <2>7. OwnInv'
    BY <1>1, <2>1, <2>2, <2>4, <2>5, <2>6 DEF OwnInv, Excused, ToCome, User
  <2> QED
    BY <2>6, <2>7 DEF TabInv
<1> QED
  BY <1>3, <1>4, <1>5, <1>6, <1>7, <1>8, <1>9

\* A fetch is sent.
LEMMA Sent ==
    ASSUME TabTypeOK, NEW r \in Fetches, Send(r)
    PROVE  /\ IsABag(requests') /\ BagToSet(requests') = BagToSet(requests) \cup {r}
           /\ \A q \in BagToSet(requests) : q # r => requests'[q] = requests[q]
           /\ r \notin BagToSet(requests) => requests'[r] = 1
           /\ BagToSet(requests') \subseteq Fetches
<1>1. IsABag(requests) /\ BagToSet(requests) \subseteq Fetches
  BY DEF TabTypeOK
<1> DEFINE C == requests (+) SetToBag({r})
<1>2. /\ IsABag(C) /\ BagToSet(C) = BagToSet(requests) \cup {r}
      /\ \A q \in BagToSet(requests) : q # r => C[q] = requests[q]
      /\ r \notin BagToSet(requests) => C[r] = 1
  BY <1>1, OneMore
<1>3. requests' = C
  BY DEF Send
<1> HIDE DEF C
<1> QED
  BY <1>1, <1>2, <1>3

\* A fetch that is new cannot have been refused.
LEMMA SentAnswers ==
    ASSUME AnswersOK, NEW r, r.answer = NoValue, r.kind = "save" => r.value \in Values,
           BagToSet(requests') = BagToSet(requests) \cup {r}
    PROVE  AnswersOK'
BY DEF AnswersOK

\* The tab is opened: who is in the cookie is logged in.
LEMMA InitStep == TabInv /\ DispatchInit => TabInv'
<1> SUFFICES ASSUME TabInv, DispatchInit PROVE TabInv'
  OBVIOUS
<1>1. /\ ToCome = "Init" /\ queue' = <<ChangePage(page)>> /\ queue # <<>>
      /\ model = Blank /\ requests = EmptyBag /\ ~fresh
      /\ poll = "none" /\ ~loginPoll /\ ~leaked
      /\ UNCHANGED <<page, server, poll, leaked, cookie, fresh, excuses>>
      /\ alive
  BY HeadSays DEF TabInv, DispatchInit, Takes, Done
<1>2. /\ ToCome' = "ChangePage" /\ BagToSet(requests) = {}
  BY <1>1 DEF ToCome, ChangePage, EmptyBag, SetToBag, BagToSet
<1>3. /\ model.isAuthenticated = FALSE /\ model.authenticationInfo = "none"
      /\ model.currentMinerInfo = "null" /\ model.showMinerSettings = FALSE
      /\ model \in Models /\ TabTypeOK
  BY <1>1 DEF TabInv, TabTypeOK, Blank
<1>4. cookie \in Credentials
  BY <1>3 DEF TabTypeOK
<1>5. /\ model' \in Models
      /\ model'.currentMinerInfo = "null" /\ model'.showMinerSettings = FALSE
      /\ \/ cookie = "none" /\ model' = model /\ requests' = requests /\ loginPoll' = loginPoll
         \/ /\ cookie # "none" /\ loginPoll' = TRUE
            /\ model'.isAuthenticated = TRUE /\ model'.authenticationInfo = cookie
            /\ Send(Request("check", cookie, NoValue))
  <2>1. CASE cookie = "none"
    BY <1>3, <2>1 DEF DispatchInit
  <2>2. CASE cookie # "none"
    <3>1. /\ model' = [model EXCEPT !.authenticationInfo = cookie, !.isAuthenticated = TRUE]
          /\ Send(Request("check", cookie, NoValue)) /\ loginPoll' = TRUE
      BY <2>2 DEF DispatchInit
    <3> QED
      BY <1>3, <1>4, <2>2, <3>1 DEF Models
  <2> QED
    BY <2>1, <2>2
<1>6. /\ IsABag(requests') /\ BagToSet(requests') \subseteq Fetches
      /\ \A r \in BagToSet(requests') : /\ r.kind = "check" /\ r.as = cookie
                                        /\ r.answer = NoValue /\ cookie # "none"
  <2>1. CASE requests' = requests
    BY <1>2, <1>3, <2>1 DEF TabTypeOK
  <2>2. CASE cookie # "none" /\ Send(Request("check", cookie, NoValue))
    BY <1>2, <1>3, <1>4, <2>2, NewFetch, Sent
  <2> QED
    BY <1>5, <2>1, <2>2
<1>7. alive'
  BY <1>5 DEF DispatchInit, Draws
<1>8. TabTypeOK'
  BY <1>1, <1>3, <1>5, <1>6, <1>7 DEF TabTypeOK
<1>9. AnswersOK' /\ QueueInv' /\ PollInv'
  BY <1>1, <1>2, <1>6 DEF AnswersOK, QueueInv, PollInv
<1>10. SessionInv'
  <2>1. CASE Excused({"edited", "doubled"})
    BY <1>1, <2>1 DEF SessionInv, Excused
  <2>2. CASE ~Excused({"edited", "doubled"})
    <3>1. cookie \in Accounts \cup {"none"}
      BY <2>2 DEF TabInv, SessionInv
    <3>2. model'.isAuthenticated => model'.authenticationInfo \in Accounts
      BY <1>3, <1>5, <3>1
    <3>3. loginPoll' => model'.isAuthenticated
      BY <1>1, <1>5
    <3> QED
      BY <1>1, <1>2, <1>6, <3>1, <3>2, <3>3 DEF SessionInv, User
  <2> QED
    BY <2>1, <2>2
<1>11. DrawInv'
  BY <1>1, <1>2, <1>5, <1>6, <1>7 DEF DrawInv
<1>12. OwnInv'
  <2>1. CASE Excused({"hasty", "overtaken", "leftOpen"})
    BY <1>1, <2>1 DEF OwnInv, Excused
  <2>2. CASE ~Excused({"hasty", "overtaken", "leftOpen"})
    BY <1>1, <1>2, <1>5, <1>6, <2>2, SettingsDiffer DEF TabInv, OwnInv
  <2> QED
    BY <2>1, <2>2
<1> QED
  BY <1>8, <1>9, <1>10, <1>11, <1>12 DEF TabInv

\* A page of a miner is opened: the fetch is for who is logged in, if it is the
\* account's.
LEMMA ChangePageStep == TabInv /\ DispatchChangePage => TabInv'
<1> SUFFICES ASSUME TabInv, DispatchChangePage PROVE TabInv'
  OBVIOUS
<1> DEFINE target == IF page = "/account" THEN User ELSE "wallet"
<1>1. /\ ToCome = "ChangePage" /\ queue' = <<>> /\ queue # <<>>
      /\ Head(queue).pathname = page
      /\ UNCHANGED <<page, server, leaked, loginPoll, cookie, fresh>>
      /\ alive
  BY HeadSays DEF TabInv, DispatchChangePage, Takes, Done
<1>2. ToCome' = "none"
  BY <1>1 DEF ToCome
<1>3. TabTypeOK /\ model \in Models /\ User \in Credentials
  BY DEF TabInv, TabTypeOK, Models, User
<1>4. /\ poll' = IF page \in MinerPages THEN page ELSE "none"
      /\ \/ /\ page \in MinerPages
            /\ model' = [model EXCEPT !.currentMinerInfo = "null"]
            /\ Send(Request("info", target, NoValue))
         \/ UNCHANGED <<model, requests>>
      /\ excuses \subseteq excuses'
      /\ page = "/account" /\ ~model.isAuthenticated => "strayed" \in excuses'
  BY <1>1 DEF DispatchChangePage, Excuse, Info
<1>5. /\ model' \in Models
      /\ model'.currentMinerInfo \in {model.currentMinerInfo, "null"}
      /\ \A f \in {"isAuthenticated", "authenticationInfo", "showMinerSettings",
                   "minerSettings", "minerSettingsOld"} : model'[f] = model[f]
  <2>1. CASE model' = model
    BY <1>3, <2>1
  <2>2. CASE model' = [model EXCEPT !.currentMinerInfo = "null"]
    BY <1>3, <2>2 DEF Models
  <2> QED
    BY <1>4, <2>1, <2>2
<1>6. /\ IsABag(requests') /\ BagToSet(requests') \subseteq Fetches
      /\ \A r \in BagToSet(requests') :
            \/ r \in BagToSet(requests) /\ requests'[r] = requests[r]
            \/ /\ r.kind = "info" /\ r.as = target /\ r.answer = NoValue
               /\ page \in MinerPages
  <2>1. CASE requests' = requests
    BY <1>3, <2>1 DEF TabTypeOK
  <2>2. CASE page \in MinerPages /\ Send(Request("info", target, NoValue))
    BY <1>3, <2>2, NewFetch, Sent
  <2> QED
    BY <1>4, <2>1, <2>2
<1>7. TabTypeOK'
  <2>1. poll' \in MinerPages \cup {"none"} /\ alive' \in BOOLEAN
    BY <1>4 DEF DispatchChangePage, Draws
  <2> QED
    BY <1>1, <1>3, <1>5, <1>6, <2>1 DEF TabTypeOK
<1>8. AnswersOK' /\ QueueInv' /\ PollInv'
  BY <1>1, <1>4, <1>6 DEF TabInv, AnswersOK, QueueInv, PollInv
<1>9. SessionInv'
  <2>1. CASE Excused({"edited", "doubled"})
    BY <1>4, <2>1, StillExcused DEF SessionInv
  <2>2. CASE ~Excused({"edited", "doubled"})
    <3>1. SessionInv
      BY DEF TabInv
    <3> QED
      BY <1>1, <1>2, <1>5, <1>6, <2>2, <3>1 DEF SessionInv, User, Request
  <2> QED
    BY <2>1, <2>2
<1>10. DrawInv'
  <2>1. CASE Excused({"strayed", "edited", "doubled"})'
    BY <2>1 DEF DrawInv
  <2>2. CASE ~Excused({"strayed", "edited", "doubled"})'
    <3>1. ~Excused({"strayed", "edited", "doubled"}) /\ ~Excused({"edited", "doubled"})
      BY <1>4, <2>2 DEF Excused
    <3>2. page = "/account" => model.isAuthenticated /\ User \in Accounts
      BY <1>4, <2>2, <3>1 DEF Excused, TabInv, SessionInv
    <3>3. \A r \in BagToSet(requests') : r.kind = "info" => r.as \notin {"none", "wrong"}
      BY <1>6, <3>1, <3>2, NoAccounts DEF TabInv, DrawInv
    <3>4. model'.currentMinerInfo # "refused"
      BY <1>5, <3>1 DEF TabInv, DrawInv
    <3>5. alive'
      BY <3>4 DEF DispatchChangePage, Draws
    <3>6. poll' = "/account" => model'.isAuthenticated
      BY <1>4, <1>5, <3>2
    <3> QED
      BY <1>2, <3>3, <3>4, <3>5, <3>6 DEF DrawInv
  <2> QED
    BY <2>1, <2>2
<1>11. OwnInv'
  <2>1. CASE Excused({"hasty", "overtaken", "leftOpen"})
    BY <1>4, <2>1, StillExcused DEF OwnInv
  <2>2. CASE ~Excused({"hasty", "overtaken", "leftOpen"})
    BY <1>1, <1>2, <1>5, <1>6, <2>2 DEF TabInv, OwnInv, User
  <2> QED
    BY <2>1, <2>2
<1> QED
  BY <1>7, <1>8, <1>9, <1>10, <1>11 DEF TabInv

\* The credentials of the form change before a login is answered only with an excuse;
\* nobody is logged in.
LEMMA CredentialsStep == TabInv /\ DispatchUpdateAuthenticationInfo => TabInv'
<1> SUFFICES ASSUME TabInv, DispatchUpdateAuthenticationInfo PROVE TabInv'
  OBVIOUS
<1> DEFINE c == Head(queue).as
<1>1. /\ ToCome = "UpdateAuthenticationInfo" /\ queue' = Tail(queue) /\ queue # <<>>
      /\ queue' \in {<<>>, <<Action("Login")>>}
      /\ UNCHANGED <<page, server, poll, leaked, loginPoll, cookie, requests, fresh>>
      /\ alive /\ ~model.isAuthenticated /\ c \in Credentials
      /\ model' = [model EXCEPT !.authenticationInfo = c]
  BY HeadSays DEF TabInv, DispatchUpdateAuthenticationInfo, Sets, Takes, Done, tabVars
<1>2. ToCome' \in {"none", "Login"}
  <2>1. CASE queue' = <<>>
    BY <2>1 DEF ToCome
  <2>2. CASE queue' = <<Action("Login")>>
    BY <2>2 DEF ToCome, Action
  <2> QED
    BY <1>1, <2>1, <2>2
<1>3. TabTypeOK /\ model \in Models
  BY DEF TabInv, TabTypeOK
<1>4. /\ model' \in Models /\ ~model'.isAuthenticated /\ model'.authenticationInfo = c
      /\ \A f \in {"currentMinerInfo", "showMinerSettings",
                   "minerSettings", "minerSettingsOld"} : model'[f] = model[f]
  BY <1>1, <1>3 DEF Models
<1>5. /\ excuses \subseteq excuses'
      /\ InFlight("login") # {} /\ c # User => "edited" \in excuses'
  BY DEF DispatchUpdateAuthenticationInfo, Excuse
<1>6. TabTypeOK'
  <2>1. alive' \in BOOLEAN
    BY DEF DispatchUpdateAuthenticationInfo, Sets, Draws
  <2> QED
    BY <1>1, <1>3, <1>4, <2>1 DEF TabTypeOK
<1>7. AnswersOK' /\ QueueInv' /\ PollInv'
  BY <1>1, <1>4 DEF TabInv, AnswersOK, QueueInv, PollInv
<1>8. SessionInv'
  <2>1. CASE Excused({"edited", "doubled"})'
    BY <2>1 DEF SessionInv
  <2>2. CASE ~Excused({"edited", "doubled"})'
    <3>1. ~Excused({"edited", "doubled"}) /\ SessionInv
      BY <1>5, <2>2 DEF Excused, TabInv
    <3>2. InFlight("login") # {} => c = User
      BY <1>5, <2>2 DEF Excused
    <3>3. \A r \in BagToSet(requests') : r.kind = "login" => c = User
      BY <1>1, <3>2 DEF InFlight
    <3> QED
      BY <1>1, <1>2, <1>4, <3>1, <3>3 DEF SessionInv, User, Request
  <2> QED
    BY <2>1, <2>2
<1>9. DrawInv'
  <2>1. CASE Excused({"strayed", "edited", "doubled"})
    BY <1>5, <2>1, StillExcused DEF DrawInv
  <2>2. CASE ~Excused({"strayed", "edited", "doubled"})
    <3>1. DrawInv
      BY DEF TabInv
    <3>2. model'.currentMinerInfo # "refused"
      BY <1>4, <2>2, <3>1 DEF DrawInv
    <3>3. alive'
      BY <3>2 DEF DispatchUpdateAuthenticationInfo, Sets, Draws
    <3> QED
      BY <1>1, <1>2, <1>4, <2>2, <3>1, <3>2, <3>3 DEF DrawInv
  <2> QED
    BY <2>1, <2>2
<1>10. OwnInv'
  <2>1. CASE Excused({"hasty", "overtaken", "leftOpen"})
    BY <1>5, <2>1, StillExcused DEF OwnInv
  <2>2. CASE ~Excused({"hasty", "overtaken", "leftOpen"})
    BY <1>1, <1>2, <1>4, <2>2 DEF TabInv, OwnInv, User
  <2> QED
    BY <2>1, <2>2
<1> QED
  BY <1>6, <1>7, <1>8, <1>9, <1>10 DEF TabInv

\* The fetch of a login is the only one, and has the credentials of the form.
LEMMA LoginStep == TabInv /\ DispatchLogin => TabInv'
<1> SUFFICES ASSUME TabInv, DispatchLogin PROVE TabInv'
  OBVIOUS
<1> DEFINE l == Request("login", User, NoValue)
<1>1. /\ ToCome = "Login" /\ queue' = <<>> /\ queue # <<>> /\ ~model.isAuthenticated
      /\ UNCHANGED <<page, server, model, poll, leaked, loginPoll, cookie, fresh>>
      /\ alive /\ Send(l)
  BY HeadSays DEF TabInv, DispatchLogin, Takes, Done, tabVars
<1>2. ToCome' = "none"
  BY <1>1 DEF ToCome
<1>3. TabTypeOK /\ User \in Credentials
  BY DEF TabInv, TabTypeOK, Models, User
<1>4. l \in Fetches /\ l.kind = "login" /\ l.as = User /\ l.answer = NoValue
  BY <1>3, NewFetch
<1>5. /\ IsABag(requests') /\ BagToSet(requests') = BagToSet(requests) \cup {l}
      /\ \A q \in BagToSet(requests) : q # l => requests'[q] = requests[q]
      /\ l \notin BagToSet(requests) => requests'[l] = 1
      /\ BagToSet(requests') \subseteq Fetches
  BY <1>1, <1>3, <1>4, Sent
<1>6. excuses \subseteq excuses' /\ (InFlight("login") # {} => "doubled" \in excuses')
  BY DEF DispatchLogin, Excuse
<1>7. TabTypeOK'
  <2>1. alive' \in BOOLEAN
    BY DEF DispatchLogin, Draws
  <2> QED
    BY <1>1, <1>3, <1>5, <2>1 DEF TabTypeOK
<1>8. AnswersOK'
  BY <1>4, <1>5, SentAnswers DEF TabInv
<1>9. QueueInv' /\ PollInv'
  BY <1>1 DEF TabInv, QueueInv, PollInv
<1>10. SessionInv'
  <2>1. CASE Excused({"edited", "doubled"})'
    BY <2>1 DEF SessionInv
  <2>2. CASE ~Excused({"edited", "doubled"})'
    <3>1. ~Excused({"edited", "doubled"}) /\ SessionInv /\ InFlight("login") = {}
      BY <1>6, <2>2 DEF Excused, TabInv
    <3>2. \A q \in BagToSet(requests) : q.kind # "login"
      BY <3>1 DEF InFlight
    <3>3. requests'[l] = 1
      BY <1>4, <1>5, <3>2
    <3>4. \A r \in BagToSet(requests') :
             /\ r.kind = "check" => r.as \in Accounts
             /\ r.kind = "login" => r = l /\ requests'[r] = 1
      BY <1>4, <1>5, <3>1, <3>2, <3>3 DEF SessionInv
    <3> QED
      BY <1>1, <1>2, <3>1, <3>4 DEF SessionInv, User
  <2> QED
    BY <2>1, <2>2
<1>11. DrawInv'
  <2>1. CASE Excused({"strayed", "edited", "doubled"})
    BY <1>6, <2>1, StillExcused DEF DrawInv
  <2>2. CASE ~Excused({"strayed", "edited", "doubled"})
    <3>1. DrawInv
      BY DEF TabInv
    <3>2. alive'
      BY <1>1, <2>2, <3>1 DEF DispatchLogin, Draws, DrawInv
    <3> QED
      BY <1>1, <1>2, <1>4, <1>5, <2>2, <3>1, <3>2 DEF DrawInv
  <2> QED
    BY <2>1, <2>2
<1>12. OwnInv'
  <2>1. CASE Excused({"hasty", "overtaken", "leftOpen"})
    BY <1>6, <2>1, StillExcused DEF OwnInv
  <2>2. CASE ~Excused({"hasty", "overtaken", "leftOpen"})
    BY <1>1, <1>2, <1>4, <1>5, <2>2 DEF TabInv, OwnInv, User
  <2> QED
    BY <2>1, <2>2
<1> QED
  BY <1>7, <1>8, <1>9, <1>10, <1>11, <1>12 DEF TabInv

\* history.push leaves on the queue that the page changes, or nothing if it does not.
LEMMA Pushed ==
    ASSUME NEW path, Push(path), Tail(queue) = <<>>
    PROVE  /\ page' = path
           /\ \/ page = path /\ queue' = <<>> /\ ToCome' = "none"
              \/ page # path /\ queue' = <<ChangePage(path)>> /\ ToCome' = "ChangePage"
<1>1. CASE page = path
  BY <1>1 DEF Push, ToCome
<1>2. CASE page # path
  <2>1. queue' = <<ChangePage(path)>>
    <3> DEFINE x == ChangePage(path)
    <3>1. queue' = <<>> \o <<x>>
      BY <1>2 DEF Push
    <3> HIDE DEF x
    <3>2. queue' = <<x>>
      BY <3>1
    <3> QED
      BY <3>2 DEF x
  <2>2. ToCome' = "ChangePage"
    BY <2>1 DEF ToCome, ChangePage
  <2> QED
    BY <1>2, <2>1, <2>2 DEF Push
<1> QED
  BY <1>1, <1>2

\* Who is logged in now is who the form shows, and the poll of the login asks for that
\* user.
LEMMA LoginSuccessStep == TabInv /\ DispatchLoginSuccess => TabInv'
<1> SUFFICES ASSUME TabInv, DispatchLoginSuccess PROVE TabInv'
  OBVIOUS
<1> DEFINE c == Request("check", User, NoValue)
<1>1. /\ ToCome = "LoginSuccess" /\ queue # <<>> /\ Tail(queue) = <<>>
      /\ alive /\ Send(c) /\ Push("/account")
      /\ model' = [model EXCEPT !.isAuthenticated = TRUE]
      /\ cookie' = User /\ loginPoll' = TRUE /\ fresh' = FALSE
      /\ UNCHANGED <<server, poll, excuses>>
  <2>1. Takes("LoginSuccess")
    BY DEF DispatchLoginSuccess
  <2>2. ToCome = "LoginSuccess" /\ queue # <<>> /\ Tail(queue) = <<>> /\ alive
    BY <2>1, HeadSays DEF TabInv, Takes
  <2>3. /\ Send(c) /\ Push("/account")
        /\ model' = [model EXCEPT !.isAuthenticated = TRUE]
        /\ cookie' = User /\ loginPoll' = TRUE /\ fresh' = FALSE
        /\ UNCHANGED <<poll, excuses>>
    BY Zenon DEF DispatchLoginSuccess, Check
  <2> QED
    BY <2>1, <2>2, <2>3 DEF Takes
<1>2. leaked' \in BOOLEAN /\ (leaked' => leaked \/ loginPoll)
  <2>1. leaked' = (leaked \/ loginPoll)
    BY Zenon DEF DispatchLoginSuccess
  <2>2. leaked \in BOOLEAN /\ loginPoll \in BOOLEAN
    BY DEF TabInv, TabTypeOK
  <2> QED
    BY <2>1, <2>2
<1>3. /\ page' = "/account"
      /\ \/ page = "/account" /\ queue' = <<>> /\ ToCome' = "none"
         \/ page # "/account" /\ queue' = <<ChangePage("/account")>> /\ ToCome' = "ChangePage"
  BY <1>1, Pushed
<1>4. TabTypeOK /\ model \in Models /\ User \in Credentials
  BY DEF TabInv, TabTypeOK, Models, User
<1>5. /\ model' \in Models /\ model'.isAuthenticated = TRUE
      /\ \A f \in {"currentMinerInfo", "authenticationInfo", "showMinerSettings",
                   "minerSettings", "minerSettingsOld"} : model'[f] = model[f]
  BY <1>1, <1>4 DEF Models
<1>6. c \in Fetches /\ c.kind = "check" /\ c.as = User /\ c.answer = NoValue
  BY <1>4, NewFetch
<1>7. /\ IsABag(requests') /\ BagToSet(requests') = BagToSet(requests) \cup {c}
      /\ BagToSet(requests') \subseteq Fetches
  BY <1>1, <1>4, <1>6, Sent
<1>8. TabTypeOK'
  <2>1. alive' \in BOOLEAN /\ leaked' \in BOOLEAN /\ loginPoll' \in BOOLEAN
    BY <1>1, <1>2 DEF DispatchLoginSuccess, Draws
  <2>2. page' \in Pages
    BY <1>3 DEF Pages, MinerPages
  <2> QED
    BY <1>1, <1>4, <1>5, <1>7, <2>1, <2>2 DEF TabTypeOK
<1>9. AnswersOK'
  BY <1>6, <1>7, SentAnswers DEF TabInv
<1>10. QueueInv' /\ PollInv'
  BY <1>1, <1>3 DEF TabInv, QueueInv, PollInv
<1>11. SessionInv'
  <2>1. CASE Excused({"edited", "doubled"})
    BY <1>1, <2>1 DEF SessionInv, Excused
  <2>2. CASE ~Excused({"edited", "doubled"})
    <3>1. /\ SessionInv /\ User \in Accounts /\ ~model.isAuthenticated
          /\ InFlight("login") = {} /\ ~leaked /\ ~loginPoll
      BY <1>1, <2>2 DEF TabInv, SessionInv
    <3>2. \A r \in BagToSet(requests') :
             r.kind # "login" /\ (r.kind = "check" => r.as \in Accounts)
      BY <1>6, <1>7, <2>2, <3>1 DEF SessionInv, InFlight
    <3> QED
      BY <1>1, <1>3, <1>5, <1>2, <3>1, <3>2 DEF SessionInv, User
  <2> QED
    BY <2>1, <2>2
<1>12. DrawInv'
  <2>1. CASE Excused({"strayed", "edited", "doubled"})
    BY <1>1, <2>1 DEF DrawInv, Excused
  <2>2. CASE ~Excused({"strayed", "edited", "doubled"})
    <3>1. DrawInv /\ model'.currentMinerInfo # "refused"
      BY <1>5, <2>2 DEF TabInv, DrawInv
    <3>2. alive'
      BY <3>1 DEF DispatchLoginSuccess, Draws
    <3> QED
      BY <1>1, <1>3, <1>5, <1>6, <1>7, <2>2, <3>1, <3>2 DEF DrawInv
  <2> QED
    BY <2>1, <2>2
<1>13. OwnInv'
  <2>1. CASE Excused({"hasty", "overtaken", "leftOpen"})
    BY <1>1, <2>1 DEF OwnInv, Excused
  <2>2. CASE ~Excused({"hasty", "overtaken", "leftOpen"})
    BY <1>1, <1>3, <1>5, <1>6, <1>7, <2>2, SettingsDiffer DEF TabInv, OwnInv, User
  <2> QED
    BY <2>1, <2>2
<1> QED
  BY <1>8, <1>9, <1>10, <1>11, <1>12, <1>13 DEF TabInv

\* A logout leaves the account's page, and no fetch of a login is on its way.
LEMMA LogoutStep == TabInv /\ DispatchLogout => TabInv'
<1> SUFFICES ASSUME TabInv, DispatchLogout PROVE TabInv'
  OBVIOUS
<1>1. /\ ToCome = "Logout" /\ queue # <<>> /\ Tail(queue) = <<>>
      /\ alive /\ Push("/") /\ model' = LoggedOut
      /\ cookie' = "none" /\ loginPoll' = FALSE /\ fresh' = FALSE
      /\ UNCHANGED <<server, poll, leaked, requests>>
  BY HeadSays DEF TabInv, DispatchLogout, Takes
<1>2. /\ page' = "/"
      /\ \/ page = "/" /\ queue' = <<>> /\ ToCome' = "none"
         \/ page # "/" /\ queue' = <<ChangePage("/")>> /\ ToCome' = "ChangePage"
  BY <1>1, Pushed
<1>3. TabTypeOK /\ model \in Models
  BY DEF TabInv, TabTypeOK
<1>4. /\ model' \in Models /\ model'.isAuthenticated = FALSE
      /\ model'.authenticationInfo = "none"
      /\ \A f \in {"currentMinerInfo", "showMinerSettings",
                   "minerSettings", "minerSettingsOld"} : model'[f] = model[f]
  BY <1>1, <1>3, NoAccounts DEF Models, LoggedOut
<1>5. excuses \subseteq excuses' /\ (model.showMinerSettings => "leftOpen" \in excuses')
  BY DEF DispatchLogout, Excuse
<1>6. alive'
  BY <1>2 DEF DispatchLogout, Draws, MinerPages
<1>7. TabTypeOK'
  BY <1>1, <1>2, <1>3, <1>4, <1>6, NoAccounts DEF TabTypeOK, Pages
<1>8. AnswersOK' /\ QueueInv' /\ PollInv'
  BY <1>1, <1>2 DEF TabInv, AnswersOK, QueueInv, PollInv, MinerPages
<1>9. SessionInv'
  <2>1. CASE Excused({"edited", "doubled"})
    BY <1>5, <2>1, StillExcused DEF SessionInv
  <2>2. CASE ~Excused({"edited", "doubled"})
    <3>1. SessionInv /\ model.isAuthenticated /\ ~leaked
      BY <1>1, <2>2 DEF TabInv, SessionInv
    <3>2. \A r \in BagToSet(requests') :
             r.kind # "login" /\ (r.kind = "check" => r.as \in Accounts)
      BY <1>1, <2>2, <3>1 DEF SessionInv
    <3> QED
      BY <1>1, <1>2, <1>4, <3>1, <3>2 DEF SessionInv, User
  <2> QED
    BY <2>1, <2>2
<1>10. DrawInv'
  <2>1. CASE Excused({"strayed", "edited", "doubled"})
    BY <1>5, <2>1, StillExcused DEF DrawInv
  <2>2. CASE ~Excused({"strayed", "edited", "doubled"})
    <3>1. poll = "/account" => page # "/"
      BY <1>1 DEF TabInv, PollInv, MinerPages
    <3>2. DrawInv
      BY DEF TabInv
    <3> QED
      BY <1>1, <1>2, <1>4, <1>6, <2>2, <3>1, <3>2 DEF DrawInv
  <2> QED
    BY <2>1, <2>2
<1>11. OwnInv'
  <2>1. CASE Excused({"hasty", "overtaken", "leftOpen"})'
    BY <2>1 DEF OwnInv
  <2>2. CASE ~Excused({"hasty", "overtaken", "leftOpen"})'
    <3>1. /\ ~Excused({"hasty", "overtaken", "leftOpen"}) /\ OwnInv
          /\ ~model.showMinerSettings
      BY <1>5, <2>2 DEF Excused, TabInv
    <3> QED
      BY <1>1, <1>2, <1>4, <3>1 DEF OwnInv, User
  <2> QED
    BY <2>1, <2>2
<1> QED
  BY <1>7, <1>8, <1>9, <1>10, <1>11 DEF TabInv

\* What is saved is what the form has, for who is logged in.
LEMMA SaveStep == TabInv /\ DispatchSaveMinerSettings => TabInv'
<1> SUFFICES ASSUME TabInv, DispatchSaveMinerSettings PROVE TabInv'
  OBVIOUS
<1> DEFINE s == Request("save", User, model.minerSettings)
<1>1. /\ ToCome = "SaveMinerSettings" /\ queue' = <<>> /\ queue # <<>>
      /\ model.showMinerSettings /\ alive /\ Send(s)
      /\ UNCHANGED <<page, server, model, poll, leaked, loginPoll, cookie, fresh, excuses>>
  BY HeadSays DEF TabInv, DispatchSaveMinerSettings, Takes, Done, tabVars
<1>2. ToCome' = "none"
  BY <1>1 DEF ToCome
<1>3. TabTypeOK /\ User \in Credentials /\ model.minerSettings \in Values
  BY DEF TabInv, TabTypeOK, Models, User
<1>4. /\ s \in Fetches /\ s.kind = "save" /\ s.as = User
      /\ s.value = model.minerSettings /\ s.answer = NoValue
  BY <1>3, NewFetch
<1>5. /\ IsABag(requests') /\ BagToSet(requests') = BagToSet(requests) \cup {s}
      /\ \A q \in BagToSet(requests) : q # s => requests'[q] = requests[q]
      /\ BagToSet(requests') \subseteq Fetches
  BY <1>1, <1>3, <1>4, Sent
<1>6. TabTypeOK'
  <2>1. alive' \in BOOLEAN
    BY DEF DispatchSaveMinerSettings, Draws
  <2> QED
    BY <1>1, <1>3, <1>5, <2>1 DEF TabTypeOK
<1>7. AnswersOK'
  BY <1>3, <1>4, <1>5, SentAnswers DEF TabInv
<1>8. QueueInv' /\ PollInv'
  BY <1>1 DEF TabInv, QueueInv, PollInv
<1>9. SessionInv'
  <2>1. CASE Excused({"edited", "doubled"})
    BY <1>1, <2>1 DEF SessionInv, Excused
  <2>2. CASE ~Excused({"edited", "doubled"})
    <3>1. SessionInv
      BY DEF TabInv
    <3>2. \A r \in BagToSet(requests') :
             /\ r.kind = "check" => r.as \in Accounts
             /\ r.kind = "login" => /\ r = Request("login", User, NoValue)
                                    /\ requests'[r] = 1 /\ ~model.isAuthenticated
      BY <1>4, <1>5, <2>2, <3>1 DEF SessionInv
    <3> QED
      BY <1>1, <1>2, <2>2, <3>1, <3>2 DEF SessionInv, User
  <2> QED
    BY <2>1, <2>2
<1>10. DrawInv'
  <2>1. CASE Excused({"strayed", "edited", "doubled"})
    BY <1>1, <2>1 DEF DrawInv, Excused
  <2>2. CASE ~Excused({"strayed", "edited", "doubled"})
    <3>1. DrawInv
      BY DEF TabInv
    <3>2. alive'
      BY <1>1, <2>2, <3>1 DEF DispatchSaveMinerSettings, Draws, DrawInv
    <3> QED
      BY <1>1, <1>2, <1>4, <1>5, <2>2, <3>1, <3>2 DEF DrawInv
  <2> QED
    BY <2>1, <2>2
<1>11. OwnInv'
  <2>1. CASE Excused({"hasty", "overtaken", "leftOpen"})
    BY <1>1, <2>1 DEF OwnInv, Excused
  <2>2. CASE ~Excused({"hasty", "overtaken", "leftOpen"})
    BY <1>1, <1>2, <1>4, <1>5, <2>2 DEF TabInv, OwnInv, User
  <2> QED
    BY <2>1, <2>2
<1> QED
  BY <1>6, <1>7, <1>8, <1>9, <1>10, <1>11 DEF TabInv

\* A fetch ends.
LEMMA Ended ==
    ASSUME TabTypeOK, NEW r \in BagToSet(requests)
    PROVE  /\ IsABag(Without(r)) /\ BagToSet(Without(r)) \subseteq BagToSet(requests)
           /\ \A q \in BagToSet(Without(r)) : q # r => Without(r)[q] = requests[q]
           /\ requests[r] = 1 => r \notin BagToSet(Without(r))
           /\ r \in Fetches
<1>1. IsABag(requests) /\ BagToSet(requests) \subseteq Fetches
  BY DEF TabTypeOK
<1> DEFINE C == requests (-) SetToBag({r})
<1>2. /\ IsABag(C) /\ BagToSet(C) \subseteq BagToSet(requests)
      /\ \A q \in BagToSet(C) : q # r => C[q] = requests[q]
      /\ requests[r] = 1 => r \notin BagToSet(C)
  BY <1>1, OneLess
<1>3. Without(r) = C
  BY DEF Without
<1> HIDE DEF C
<1> QED
  BY <1>1, <1>2, <1>3

\* The api reads the settings of an account, or writes there what was saved for it.
LEMMA ServedStep ==
    ASSUME TabInv, NEW r \in BagToSet(requests), Served(r)
    PROVE  TabInv'
<1> DEFINE reply == IF r.as \in Accounts THEN server'[r.as] ELSE Refusal
           q == [r EXCEPT !.answer = reply]
<1>1. /\ r.kind \in {"check", "save"} /\ r.answer = NoValue
      /\ server' = IF r.kind = "save" /\ r.as \in Accounts
                   THEN [server EXCEPT ![r.as] = r.value] ELSE server
      /\ requests' = Without(r) (+) SetToBag({q})
      /\ UNCHANGED <<model, queue, page, poll, loginPoll, leaked, cookie, alive, fresh, excuses>>
  BY DEF Served, tabVars
<1>2. TabTypeOK /\ r \in Fetches /\ (r.kind = "save" => r.value \in Values)
  BY DEF TabInv, TabTypeOK, AnswersOK
<1>3. /\ server' \in [Accounts -> Values]
      /\ \A a \in Accounts : \/ server'[a] = server[a]
                             \/ r.kind = "save" /\ r.as = a /\ server'[a] = r.value
  BY <1>1, <1>2 DEF TabTypeOK
<1>4. reply \in Values \cup {Refusal} /\ (reply = Refusal <=> r.as \notin Accounts)
      /\ reply # NoValue
  BY <1>3, SettingsDiffer
<1>5. /\ q \in Fetches /\ q.kind = r.kind /\ q.as = r.as /\ q.value = r.value
      /\ q.answer = reply
  BY <1>2, <1>4 DEF Fetches
<1> HIDE DEF q
<1>6. /\ IsABag(requests') /\ BagToSet(requests') \subseteq BagToSet(requests) \cup {q}
      /\ \A x \in BagToSet(requests') : x.kind = "login" =>
            x \in BagToSet(requests) /\ requests'[x] = requests[x]
  <2> DEFINE B == Without(r)
             C == B (+) SetToBag({q})
  <2>1. /\ IsABag(B) /\ BagToSet(B) \subseteq BagToSet(requests)
        /\ \A x \in BagToSet(B) : x # r => B[x] = requests[x]
    BY <1>2, Ended
  <2> HIDE DEF B
  <2>2. /\ IsABag(C) /\ BagToSet(C) = BagToSet(B) \cup {q}
        /\ \A x \in BagToSet(B) : x # q => C[x] = B[x]
    BY <2>1, OneMore
  <2>3. requests' = C
    BY <1>1 DEF B
  <2> HIDE DEF C
  <2> QED
    BY <1>1, <1>5, <2>1, <2>2, <2>3
<1>7. TabTypeOK'
  BY <1>1, <1>2, <1>3, <1>5, <1>6 DEF TabTypeOK
<1>8. AnswersOK'
  BY <1>2, <1>4, <1>5, <1>6 DEF TabInv, AnswersOK
<1>9. /\ ToCome' = ToCome
      /\ ToCome \in {"LoginSuccess", "Logout", "UpdateMinerInfo", "PollLoginSuccess"}
            => queue # <<>>
  BY <1>1 DEF ToCome
<1>10. QueueInv'
  <2>1. requests # EmptyBag
    BY DEF EmptyBag, SetToBag, BagToSet
  <2> QED
    BY <1>1, <2>1 DEF TabInv, QueueInv
<1>11. PollInv'
  BY <1>1, <1>9 DEF TabInv, PollInv
<1>12. SessionInv'
  <2>1. CASE Excused({"edited", "doubled"})
    BY <1>1, <2>1 DEF SessionInv, Excused
  <2>2. CASE ~Excused({"edited", "doubled"})
    <3>1. SessionInv
      BY DEF TabInv
    <3>2. InFlight("login") = {} => InFlight("login")' = {}
      BY <1>6 DEF InFlight
    <3>3. \A x \in BagToSet(requests') :
             /\ x.kind = "check" => x.as \in Accounts
             /\ x.kind = "login" => /\ x = Request("login", User, NoValue)
                                    /\ requests'[x] = 1 /\ ~model.isAuthenticated
      BY <1>1, <1>5, <1>6, <2>2, <3>1 DEF SessionInv
    <3> QED
      BY <1>1, <1>9, <2>2, <3>1, <3>2, <3>3 DEF SessionInv, User
  <2> QED
    BY <2>1, <2>2
<1>13. DrawInv'
  <2>1. CASE Excused({"strayed", "edited", "doubled"})
    BY <1>1, <2>1 DEF DrawInv, Excused
  <2>2. CASE ~Excused({"strayed", "edited", "doubled"})
    BY <1>1, <1>5, <1>6, <1>9, <2>2 DEF TabInv, DrawInv
  <2> QED
    BY <2>1, <2>2
<1>14. OwnInv'
  <2>1. CASE Excused({"hasty", "overtaken", "leftOpen"})
    BY <1>1, <2>1 DEF OwnInv, Excused
  <2>2. CASE ~Excused({"hasty", "overtaken", "leftOpen"})
    <3>1. OwnInv
      BY DEF TabInv
    <3>2. \A a \in Accounts : server'[a].of = a
      BY <1>3, <2>2, <3>1 DEF OwnInv
    <3>3. q.kind = "check" /\ q.answer \in Values => q.answer.of = q.as
      BY <1>4, <1>5, <3>2, SettingsDiffer
    <3>4. q.kind = "save" => q.value.of = q.as
      BY <1>5, <2>2, <3>1 DEF OwnInv
    <3> QED
      BY <1>1, <1>6, <1>9, <2>2, <3>1, <3>2, <3>3, <3>4 DEF OwnInv, User
  <2> QED
    BY <2>1, <2>2
<1> QED
  BY <1>7, <1>8, <1>10, <1>11, <1>12, <1>13, <1>14 DEF TabInv

\* A fetch ends, and at most a single action comes of it.
LEMMA FetchEnds ==
    ASSUME TabInv, Idle, NEW r \in BagToSet(requests), requests' = Without(r),
           UNCHANGED <<model, page, tabVars, server, alive, fresh, excuses>>,
           QueueInv', ToCome' \notin {"Init", "ChangePage"},
           Excused({"edited", "doubled"})
               \/ /\ ToCome' # "Logout"
                  /\ ToCome' = "LoginSuccess" => r.kind = "login" /\ r.as \in Accounts,
           Excused({"strayed", "edited", "doubled"})
               \/ (ToCome' = "UpdateMinerInfo" => Head(queue').info # "refused"),
           Excused({"hasty", "overtaken", "leftOpen"})
               \/ (ToCome' = "PollLoginSuccess" =>
                      Head(queue').settings.of = Head(queue').as)
    PROVE  TabInv'
<1>1. /\ TabTypeOK /\ alive /\ queue = <<>> /\ ToCome = "none"
      /\ UNCHANGED <<poll, loginPoll, leaked, cookie>>
  BY DEF TabInv, Idle, ToCome, tabVars
<1>2. /\ IsABag(requests') /\ BagToSet(requests') \subseteq BagToSet(requests)
      /\ \A q \in BagToSet(requests') : q # r => requests'[q] = requests[q]
      /\ requests[r] = 1 => r \notin BagToSet(requests')
  BY <1>1, Ended
<1>3. TabTypeOK'
  BY <1>1, <1>2 DEF TabTypeOK
<1>4. AnswersOK' /\ PollInv'
  BY <1>1, <1>2 DEF TabInv, AnswersOK, PollInv
<1>5. SessionInv'
  <2>1. CASE Excused({"edited", "doubled"})
    BY <2>1 DEF SessionInv, Excused
  <2>2. CASE ~Excused({"edited", "doubled"})
    <3>1. SessionInv
      BY DEF TabInv
    <3>2. \A q \in BagToSet(requests') :
             /\ q.kind = "check" => q.as \in Accounts
             /\ q.kind = "login" => /\ q = Request("login", User, NoValue)
                                    /\ requests'[q] = 1 /\ ~model.isAuthenticated
      BY <1>2, <2>2, <3>1 DEF SessionInv
    <3>3. ToCome' = "LoginSuccess" =>
             /\ User \in Accounts /\ ~model.isAuthenticated
             /\ \A q \in BagToSet(requests') : q.kind # "login"
      <4> SUFFICES ASSUME ToCome' = "LoginSuccess"
                   PROVE  /\ User \in Accounts /\ ~model.isAuthenticated
                          /\ \A q \in BagToSet(requests') : q.kind # "login"
        OBVIOUS
      <4>1. r.kind = "login" /\ r.as \in Accounts
        BY <2>2
      <4>2. r = Request("login", User, NoValue) /\ requests[r] = 1 /\ ~model.isAuthenticated
        BY <2>2, <3>1, <4>1 DEF SessionInv
      <4>3. \A q \in BagToSet(requests') : q.kind = "login" => q = r
        BY <3>2, <4>2
      <4>4. User \in Accounts
        BY <4>1, <4>2 DEF Request
      <4> QED
        BY <1>2, <4>2, <4>3, <4>4
    <3>4. InFlight("login")' = {q \in BagToSet(requests') : q.kind = "login"}
      BY DEF InFlight
    <3> QED
      BY <1>1, <2>2, <3>1, <3>2, <3>3, <3>4 DEF SessionInv, User
  <2> QED
    BY <2>1, <2>2
<1>6. DrawInv'
  <2>1. CASE Excused({"strayed", "edited", "doubled"})
    BY <2>1 DEF DrawInv, Excused
  <2>2. CASE ~Excused({"strayed", "edited", "doubled"})
    BY <1>1, <1>2, <2>2 DEF TabInv, DrawInv
  <2> QED
    BY <2>1, <2>2
<1>7. OwnInv'
  <2>1. CASE Excused({"hasty", "overtaken", "leftOpen"})
    BY <2>1 DEF OwnInv, Excused
  <2>2. CASE ~Excused({"hasty", "overtaken", "leftOpen"})
    BY <1>1, <1>2, <2>2 DEF TabInv, OwnInv, User
  <2> QED
    BY <2>1, <2>2
<1> QED
  BY <1>3, <1>4, <1>5, <1>6, <1>7 DEF TabInv

\* A fetch is answered.  Nobody without an account is answered for, as long as nobody
\* edits the form while a login is under way, or sends two.
LEMMA AnsweredStep ==
    ASSUME TabInv, NEW r \in BagToSet(requests), Answered(r)
    PROVE  TabInv'
<1>1. /\ Idle /\ requests' = Without(r) /\ queue' = <<Reaction(r)>>
      /\ UNCHANGED <<model, page, tabVars, server, alive, fresh, excuses>>
      /\ r.kind \in {"check", "save"} => r.answer # NoValue
  BY DEF Answered
<1>2. TabTypeOK /\ r \in Fetches
  BY DEF TabInv, TabTypeOK
<1>3. ToCome' = Reaction(r).type /\ Head(queue') = Reaction(r)
  <2> DEFINE x == Reaction(r)
  <2>1. queue' = <<x>>
    BY <1>1
  <2> HIDE DEF x
  <2>2. queue' # <<>> /\ Head(queue') = x
    BY <2>1
  <2>3. ToCome' = Head(queue').type
    BY <2>2 DEF ToCome
  <2> QED
    BY <2>2, <2>3 DEF x
<1>4. CASE r.kind \in {"login", "save"}
  <2>1. PICK type \in {"LoginError", "SaveError", "SaveSuccess", "LoginSuccess"} :
           /\ Reaction(r) = Action(type)
           /\ type = "LoginSuccess" => r.kind = "login" /\ r.as \in Accounts
    BY <1>4 DEF Reaction, Outcome
  <2>2. ToCome' = type
    BY <1>3, <2>1 DEF Action
  <2>3. QueueInv'
    BY <1>1, <2>1 DEF QueueInv
  <2> QED
    BY <1>1, <2>1, <2>2, <2>3, FetchEnds
<1>5. CASE r.kind = "check"
  <2>1. CASE r.answer = Refusal
    <3>1. Reaction(r) = [type |-> "Logout", by |-> "poll"]
      BY <1>5, <2>1 DEF Reaction
    <3>2. ToCome' = "Logout"
      BY <1>3, <3>1
    <3>3. QueueInv'
      BY <1>1, <3>1 DEF QueueInv
    <3>4. r.as \notin Accounts
      BY <1>1, <1>5, <2>1 DEF TabInv, AnswersOK
    <3>5. Excused({"edited", "doubled"})
      BY <1>5, <3>4 DEF TabInv, SessionInv
    <3>6. Excused({"strayed", "edited", "doubled"})
      BY <3>5 DEF Excused
    <3> QED
      BY <1>1, <3>2, <3>3, <3>5, <3>6, FetchEnds
  <2>2. CASE r.answer # Refusal
    <3>1. Reaction(r) = [type |-> "PollLoginSuccess", settings |-> r.answer, as |-> r.as]
      BY <1>5, <2>2 DEF Reaction
    <3>2. r.answer \in Values /\ r.as \in Accounts
      BY <1>1, <1>2, <1>5, <2>2 DEF TabInv, AnswersOK, Fetches
    <3>3. /\ ToCome' = "PollLoginSuccess"
          /\ Head(queue').settings = r.answer /\ Head(queue').as = r.as
      BY <1>3, <3>1
    <3>4. QueueInv'
      BY <1>1, <3>1, <3>2 DEF QueueInv
    <3>5. Excused({"hasty", "overtaken", "leftOpen"}) \/ r.answer.of = r.as
      BY <1>5, <3>2 DEF TabInv, OwnInv
    <3> QED
      BY <1>1, <3>3, <3>4, <3>5, FetchEnds
  <2> QED
    BY <2>1, <2>2
<1>6. CASE r.kind = "info"
  <2> DEFINE info == IF r.as \in {"none", "wrong"} THEN "refused" ELSE r.as
  <2>1. Reaction(r) = [type |-> "UpdateMinerInfo", info |-> info]
    BY <1>6 DEF Reaction
  <2>2. info \in Credentials \cup {"wallet", "refused"}
    BY <1>2 DEF Fetches
  <2>3. ToCome' = "UpdateMinerInfo" /\ Head(queue').info = info
    BY <1>3, <2>1
  <2>4. QueueInv'
    BY <1>1, <2>1, <2>2 DEF QueueInv
  <2>5. Excused({"strayed", "edited", "doubled"}) \/ info # "refused"
    BY <1>2, <1>6, NoAccounts DEF TabInv, DrawInv, Fetches
  <2> QED
    BY <1>1, <2>3, <2>4, <2>5, FetchEnds
<1> QED
  BY <1>2, <1>4, <1>5, <1>6 DEF Fetches

\* A fetch fails: a login or a save says so.
LEMMA FailsStep ==
    ASSUME TabInv, NEW r \in BagToSet(requests), Fails(r)
    PROVE  TabInv'
<1>1. /\ Idle /\ requests' = Without(r)
      /\ UNCHANGED <<model, page, tabVars, server, alive, fresh, excuses>>
  BY DEF Fails
<1>2. queue' \in {<<>>, <<Action("LoginError")>>, <<Action("SaveError")>>}
  BY DEF Fails
<1>3. ToCome' \in {"none", "LoginError", "SaveError"} /\ QueueInv'
  <2>1. CASE queue' = <<>>
    BY <2>1 DEF ToCome, QueueInv
  <2>2. ASSUME NEW type \in {"LoginError", "SaveError"}, queue' = <<Action(type)>>
        PROVE  ToCome' = type /\ QueueInv'
    BY <2>2 DEF ToCome, QueueInv, Action
  <2> QED
    BY <1>2, <2>1, <2>2
<1> QED
  BY <1>1, <1>3, FetchEnds

\* An interval sends a fetch.
LEMMA IntervalStep == TabInv /\ (PageTick \/ LoginTick) => TabInv'
<1> SUFFICES ASSUME TabInv, PageTick \/ LoginTick PROVE TabInv'
  OBVIOUS
<1>1. /\ TabTypeOK /\ User \in Credentials /\ poll \in MinerPages \cup {"none"}
      /\ Idle /\ queue = <<>> /\ ToCome = "none"
      /\ UNCHANGED <<model, queue, page, poll, loginPoll, leaked, cookie, server, alive,
                     fresh, excuses>>
  BY DEF TabInv, TabTypeOK, Models, User, PageTick, LoginTick, Idle, ToCome, tabVars
<1>2. ToCome' = "none"
  BY <1>1 DEF ToCome
<1>3. PICK r \in Fetches :
         /\ Send(r) /\ r.answer = NoValue /\ r.kind \in {"info", "check"}
         /\ Excused({"edited", "doubled"}) \/ (r.kind = "check" => r.as \in Accounts)
         /\ Excused({"strayed", "edited", "doubled"})
               \/ (r.kind = "info" => r.as \notin {"none", "wrong"})
  <2>1. CASE PageTick
    <3> DEFINE target == IF poll = "/account" THEN User ELSE "wallet"
               r == Request("info", target, NoValue)
    <3>1. Send(r)
      BY <2>1 DEF PageTick, Info
    <3>2. r \in Fetches /\ r.answer = NoValue /\ r.kind = "info" /\ r.as = target
      BY <1>1, NewFetch
    <3>3. Excused({"strayed", "edited", "doubled"}) \/ target \notin {"none", "wrong"}
      <4> SUFFICES ASSUME ~Excused({"strayed", "edited", "doubled"}), poll = "/account"
                   PROVE  User \in Accounts
        BY NoAccounts
      <4>1. model.isAuthenticated /\ ~Excused({"edited", "doubled"})
        BY <1>1 DEF TabInv, DrawInv, Excused
      <4> QED
        BY <4>1 DEF TabInv, SessionInv
    <3> HIDE DEF r
    <3> QED
      BY <3>1, <3>2, <3>3
  <2>2. CASE LoginTick
    <3> DEFINE r == Request("check", User, NoValue)
    <3>1. Send(r) /\ (loginPoll \/ leaked)
      BY <2>2 DEF LoginTick, Check
    <3>2. r \in Fetches /\ r.answer = NoValue /\ r.kind = "check" /\ r.as = User
      BY <1>1, NewFetch
    <3>3. Excused({"edited", "doubled"}) \/ User \in Accounts
      BY <3>1 DEF TabInv, SessionInv
    <3> HIDE DEF r
    <3> QED
      BY <3>1, <3>2, <3>3
  <2> QED
    BY <2>1, <2>2
<1>4. /\ IsABag(requests') /\ BagToSet(requests') = BagToSet(requests) \cup {r}
      /\ \A q \in BagToSet(requests) : q # r => requests'[q] = requests[q]
      /\ BagToSet(requests') \subseteq Fetches
  BY <1>1, <1>3, Sent
<1>5. TabTypeOK'
  BY <1>1, <1>4 DEF TabTypeOK
<1>6. AnswersOK'
  BY <1>3, <1>4, SentAnswers DEF TabInv
<1>7. QueueInv' /\ PollInv'
  BY <1>1, <1>2 DEF TabInv, QueueInv, PollInv
<1>8. SessionInv'
  <2>1. CASE Excused({"edited", "doubled"})
    BY <1>1, <2>1 DEF SessionInv, Excused
  <2>2. CASE ~Excused({"edited", "doubled"})
    <3>1. SessionInv
      BY DEF TabInv
    <3>2. \A q \in BagToSet(requests') :
             /\ q.kind = "check" => q.as \in Accounts
             /\ q.kind = "login" => /\ q = Request("login", User, NoValue)
                                    /\ requests'[q] = 1 /\ ~model.isAuthenticated
      BY <1>3, <1>4, <2>2, <3>1 DEF SessionInv
    <3> QED
      BY <1>1, <1>2, <2>2, <3>1, <3>2 DEF SessionInv, User
  <2> QED
    BY <2>1, <2>2
<1>9. DrawInv'
  <2>1. CASE Excused({"strayed", "edited", "doubled"})
    BY <1>1, <2>1 DEF DrawInv, Excused
  <2>2. CASE ~Excused({"strayed", "edited", "doubled"})
    BY <1>1, <1>2, <1>3, <1>4, <2>2 DEF TabInv, DrawInv
  <2> QED
    BY <2>1, <2>2
<1>10. OwnInv'
  <2>1. CASE Excused({"hasty", "overtaken", "leftOpen"})
    BY <1>1, <2>1 DEF OwnInv, Excused
  <2>2. CASE ~Excused({"hasty", "overtaken", "leftOpen"})
    BY <1>1, <1>2, <1>3, <1>4, <2>2, SettingsDiffer DEF TabInv, OwnInv, User
  <2> QED
    BY <2>1, <2>2
<1> QED
  BY <1>5, <1>6, <1>7, <1>8, <1>9, <1>10 DEF TabInv

\* The user does something: it is on the queue, and nothing has come of it.
LEMMA UserAsks ==
    ASSUME TabInv, NEW actions, Does(actions), QueueInv', page' \in Pages,
           page' = page \/ ToCome' = "ChangePage",
           ToCome' \notin {"Init", "LoginSuccess", "UpdateMinerInfo", "PollLoginSuccess"},
           ToCome' = "Logout" => Head(queue').by = "user" /\ model.isAuthenticated
    PROVE  TabInv'
<1>1. /\ TabTypeOK /\ alive /\ queue = <<>> /\ ToCome = "none"
      /\ UNCHANGED <<model, poll, loginPoll, leaked, cookie, requests, server, alive, fresh,
                     excuses>>
  BY DEF TabInv, Does, Idle, ToCome, tabVars, netVars
<1>2. TabTypeOK'
  BY <1>1 DEF TabTypeOK
<1>3. AnswersOK' /\ PollInv'
  BY <1>1 DEF TabInv, AnswersOK, PollInv
<1>4. SessionInv'
  BY <1>1 DEF TabInv, SessionInv, Excused, User
<1>5. DrawInv'
  BY <1>1 DEF TabInv, DrawInv, Excused
<1>6. OwnInv'
  BY <1>1 DEF TabInv, OwnInv, Excused, User
<1> QED
  BY <1>2, <1>3, <1>4, <1>5, <1>6 DEF TabInv

\* The tab is loaded again: only the cookie and what the api has are left.
LEMMA ReloadStep == TabInv /\ Reload => TabInv'
<1> SUFFICES ASSUME TabInv, Reload PROVE TabInv'
  OBVIOUS
<1>1. /\ model' = Blank /\ queue' = <<Action("Init"), ChangePage(page)>>
      /\ poll' = "none" /\ loginPoll' = FALSE /\ leaked' = FALSE
      /\ requests' = EmptyBag /\ alive' = TRUE /\ fresh' = FALSE
      /\ UNCHANGED <<page, cookie, server, excuses>>
      /\ TabTypeOK
  BY DEF Reload, TabInv
<1>2. BagToSet(requests') = {} /\ IsABag(requests')
  BY <1>1 DEF EmptyBag, SetToBag, BagToSet, IsABag
<1>3. /\ model'.isAuthenticated = FALSE /\ model'.authenticationInfo = "none"
      /\ model'.currentMinerInfo = "null" /\ model'.showMinerSettings = FALSE
      /\ model' \in Models
  BY <1>1, NoAccounts, SettingsDiffer DEF Blank, Models
<1>4. TabTypeOK'
  BY <1>1, <1>2, <1>3 DEF TabTypeOK
<1>5. ToCome' = "Init"
  BY <1>1 DEF ToCome, Action
<1>6. AnswersOK' /\ QueueInv' /\ PollInv'
  BY <1>1, <1>2, <1>5 DEF AnswersOK, QueueInv, PollInv
<1>7. SessionInv'
  BY <1>1, <1>2, <1>3, <1>5 DEF TabInv, SessionInv, Excused
<1>8. DrawInv'
  BY <1>1, <1>2, <1>3, <1>5 DEF DrawInv
<1>9. OwnInv'
  BY <1>1, <1>2, <1>3, <1>5 DEF TabInv, OwnInv, Excused
<1> QED
  BY <1>4, <1>6, <1>7, <1>8, <1>9 DEF TabInv

\* Whatever the user does
LEMMA UserStep == TabInv /\ UserActs => TabInv'
<1> SUFFICES ASSUME TabInv, UserActs PROVE TabInv'
  OBVIOUS
<1>1. page \in Pages
  BY DEF TabInv, TabTypeOK
<1>2. ASSUME NEW path \in Pages, Navigate(path) PROVE TabInv'
  <2>1. page' = path /\ Does(<<ChangePage(path)>>) /\ queue' = <<ChangePage(page')>>
    BY <1>2 DEF Navigate, Does
  <2>2. QueueInv' /\ ToCome' = "ChangePage"
    BY <2>1 DEF QueueInv, ToCome, ChangePage
  <2> QED
    BY <2>1, <2>2, UserAsks
<1>3. ASSUME NEW c \in Credentials, TypesCredentials(c) \/ SubmitsLogin(c) PROVE TabInv'
  <2>1. PICK actions \in {<<UpdateAuthenticationInfo(c)>>,
                          <<UpdateAuthenticationInfo(c), Action("Login")>>} :
           Does(actions) /\ queue' = actions
    BY <1>3 DEF TypesCredentials, SubmitsLogin, Does
  <2>2. ~model.isAuthenticated /\ UNCHANGED <<page, model>>
    BY <1>3, <2>1 DEF TypesCredentials, SubmitsLogin, Does
  <2>3. QueueInv'
    BY <2>1, <2>2 DEF QueueInv
  <2>4. ToCome' = "UpdateAuthenticationInfo"
    <3> DEFINE x == UpdateAuthenticationInfo(c)
    <3>1. x.type = "UpdateAuthenticationInfo"
      BY DEF UpdateAuthenticationInfo
    <3>2. queue' = <<x>> \/ queue' = <<x, Action("Login")>>
      BY <2>1
    <3> HIDE DEF x
    <3> QED
      BY <3>1, <3>2 DEF ToCome
  <2> QED
    BY <1>1, <2>1, <2>2, <2>3, <2>4, UserAsks
<1>4. CASE LogsOut
  <2> DEFINE x == [type |-> "Logout", by |-> "user"]
  <2>1. /\ model.isAuthenticated /\ Does(<<x>>) /\ queue' = <<x>> /\ page' = page
    BY <1>4 DEF LogsOut, Does
  <2>2. QueueInv' /\ ToCome' = "Logout" /\ Head(queue').by = "user"
    BY <2>1 DEF QueueInv, ToCome
  <2> HIDE DEF x
  <2> QED
    BY <1>1, <2>1, <2>2, UserAsks
<1>5. CASE OpensSettings
  <2>1. /\ model.isAuthenticated /\ Does(<<Action("ShowMinerSettings")>>) /\ page' = page
        /\ queue' = <<Action("ShowMinerSettings")>> /\ model' = model
    BY <1>5 DEF OpensSettings, Does
  <2>2. QueueInv' /\ ToCome' = "ShowMinerSettings"
    BY <2>1 DEF QueueInv, ToCome, Action
  <2> QED
    BY <1>1, <2>1, <2>2, UserAsks
<1>6. CASE UsesSettings
  <2>1. PICK type \in {"HideMinerSettings", "UpdateMinerSettings", "SaveMinerSettings"} :
           Does(<<Action(type)>>)
    BY <1>6 DEF UsesSettings
  <2>2. /\ model.showMinerSettings /\ page' = page /\ model' = model
        /\ queue' = <<Action(type)>>
    BY <1>6, <2>1 DEF UsesSettings, Does
  <2>3. QueueInv'
    BY <2>2 DEF QueueInv
  <2>4. ToCome' = type
    BY <2>2 DEF ToCome, Action
  <2> QED
    BY <1>1, <2>1, <2>2, <2>3, <2>4, UserAsks
<1>7. CASE Reload
  BY <1>7, ReloadStep
<1> QED
  BY <1>2, <1>3, <1>4, <1>5, <1>6, <1>7 DEF UserActs

\* Nothing happens in the tab.
LEMMA TabStutters == TabInv /\ UNCHANGED vars => TabInv'
<1> SUFFICES ASSUME TabInv, UNCHANGED vars PROVE TabInv'
  OBVIOUS
<1>1. UNCHANGED <<model, queue, page, poll, loginPoll, leaked, cookie, requests, server,
                  alive, fresh, excuses>>
  BY DEF vars
<1>2. TabTypeOK' /\ AnswersOK' /\ QueueInv' /\ PollInv'
  BY <1>1 DEF TabInv, TabTypeOK, AnswersOK, QueueInv, PollInv, ToCome
<1>3. SessionInv' /\ DrawInv' /\ OwnInv'
  BY <1>1 DEF TabInv, SessionInv, DrawInv, OwnInv, Excused, ToCome, User, InFlight
<1> QED
  BY <1>2, <1>3 DEF TabInv

LEMMA TabStep == TabInv /\ [Next]_vars => TabInv'
<1> SUFFICES ASSUME TabInv, [Next]_vars PROVE TabInv'
  OBVIOUS
<1>1. CASE dispatch
  BY <1>1, InitStep, ChangePageStep, CredentialsStep, LoginStep, LoginSuccessStep, LogoutStep,
     SaveStep, FormSteps DEF dispatch
<1>2. CASE UserActs
  BY <1>2, UserStep
<1>3. CASE Serves
  BY <1>3, ServedStep DEF Serves
<1>4. CASE Answers
  BY <1>4, AnsweredStep DEF Answers
<1>5. CASE PageTick \/ LoginTick
  BY <1>5, IntervalStep
<1>6. ASSUME NEW r \in BagToSet(requests), Fails(r) PROVE TabInv'
  BY <1>6, FailsStep
<1>7. CASE UNCHANGED vars
  BY <1>7, TabStutters
<1> QED
  BY <1>1, <1>2, <1>3, <1>4, <1>5, <1>6, <1>7 DEF Next

LEMMA TabAlways == Spec => []TabInv
BY TabStart, TabStep, PTL DEF Spec

\* No exception ends the loop of the page, for any users, pages and fetches in flight,
\* unless the user went where only a session may go, or the credentials changed or were
\* sent twice while a login was on its way.
THEOREM PageLives == Spec => []PageSurvives
<1>1. TabInv => PageSurvives
  BY DEF TabInv, DrawInv, PageSurvives
<1> QED
  BY <1>1, TabAlways, PTL

\* An account's settings are never overwritten with those of another, unless the form
\* was opened before they came, left open over a logout, or answered by a poll the next
\* login overtook.
THEOREM NobodysSettings == Spec => []SettingsAreOwn
<1>1. TabInv => SettingsAreOwn
  BY DEF TabInv, OwnInv, SettingsAreOwn
<1> QED
  BY <1>1, TabAlways, PTL

\* How many events there were is a number.
LEMMA EventsCounted == Spec => [](events \in Nat)
<1>1. Init => events \in Nat
  BY DEF Init
<1>2. events \in Nat /\ [Next]_vars => (events \in Nat)'
  <2> SUFFICES ASSUME events \in Nat, [Next]_vars PROVE events' \in {events, events + 1}
    OBVIOUS
  <2>1. CASE dispatch
    BY <2>1 DEF dispatch, DispatchInit, DispatchChangePage, DispatchUpdateMinerInfo,
       DispatchUpdateAuthenticationInfo, DispatchLogin, DispatchLoginSuccess, DispatchLogout,
       DispatchShowMinerSettings, DispatchHideMinerSettings, DispatchUpdateMinerSettings,
       DispatchSaveMinerSettings, DispatchSaveSuccess, DispatchError,
       DispatchPollLoginSuccess, Sets, Takes
  <2>2. CASE UserActs
    BY <2>2 DEF UserActs, Navigate, TypesCredentials, SubmitsLogin, LogsOut, OpensSettings,
       UsesSettings, Reload, Does
  <2>3. CASE Serves \/ Answers \/ PageTick \/ LoginTick \/ \E r \in BagToSet(requests) : Fails(r)
    BY <2>3 DEF Serves, Served, Answers, Answered, PageTick, LoginTick, Fails
  <2>4. CASE UNCHANGED vars
    BY <2>4 DEF vars
  <2> QED
    BY <2>1, <2>2, <2>3, <2>4 DEF Next
<1> QED
  BY <1>1, <1>2, PTL DEF Spec

\* Only a logout and a reload end a session.
LEMMA SessionEnds ==
    ASSUME TabInv, Next, model.isAuthenticated, ~model'.isAuthenticated
    PROVE  Reload \/ DispatchLogout
<1>1. model \in Models
  BY DEF TabInv, TabTypeOK
<1>2. CASE dispatch /\ ~DispatchLogout
  <2>1. CASE DispatchInit
    BY <1>1, <2>1 DEF DispatchInit, Models
  <2>2. CASE DispatchChangePage
    BY <1>1, <2>2 DEF DispatchChangePage, Models
  <2>3. CASE DispatchLogin \/ DispatchSaveMinerSettings
    BY <2>3 DEF DispatchLogin, DispatchSaveMinerSettings
  <2>4. CASE DispatchLoginSuccess
    <3>1. model' = [model EXCEPT !.isAuthenticated = TRUE]
      BY <2>4, Zenon DEF DispatchLoginSuccess
    <3> QED
      BY <1>1, <3>1 DEF Models
  <2>5. CASE DispatchUpdateMinerInfo \/ DispatchUpdateAuthenticationInfo
               \/ DispatchShowMinerSettings \/ DispatchHideMinerSettings
    BY <1>1, <2>5 DEF DispatchUpdateMinerInfo, DispatchUpdateAuthenticationInfo,
       DispatchShowMinerSettings, DispatchHideMinerSettings, Sets, Models
  <2>6. CASE DispatchUpdateMinerSettings \/ DispatchSaveSuccess \/ DispatchError
               \/ DispatchPollLoginSuccess
    BY <1>1, <2>6 DEF DispatchUpdateMinerSettings, DispatchSaveSuccess, DispatchError,
       DispatchPollLoginSuccess, Sets, Models
  <2> QED
    BY <1>2, <2>1, <2>2, <2>3, <2>4, <2>5, <2>6 DEF dispatch
<1>3. CASE UserActs /\ ~Reload
  BY <1>3 DEF UserActs, Navigate, TypesCredentials, SubmitsLogin, LogsOut, OpensSettings,
     UsesSettings, Does
<1>4. CASE Serves \/ Answers \/ PageTick \/ LoginTick \/ \E r \in BagToSet(requests) : Fails(r)
  BY <1>4 DEF Serves, Served, Answers, Answered, PageTick, LoginTick, Fails
<1> QED
  BY <1>2, <1>3, <1>4 DEF Next

\* Who is logged in with an account stays so until they log out or load the tab again.
THEOREM UsersEndSessions == Spec => SessionLasts
<1>1. TabInv /\ events \in Nat /\ [Next]_vars =>
         [model.isAuthenticated /\ User \in Accounts /\ ~model'.isAuthenticated
             /\ events' = events
               => Head(queue).by = "user" \/ Excused({"edited", "doubled"})]_vars
  <2> SUFFICES ASSUME TabInv, events \in Nat, Next, model.isAuthenticated,
                      ~model'.isAuthenticated, events' = events
               PROVE  Head(queue).by = "user" \/ Excused({"edited", "doubled"})
    OBVIOUS
  <2>1. ~Reload
    BY DEF Reload
  <2>2. DispatchLogout
    BY <2>1, SessionEnds
  <2>3. ToCome = "Logout"
    BY <2>2, HeadSays DEF DispatchLogout, Takes, TabInv
  <2> QED
    BY <2>3 DEF TabInv, SessionInv
<1> QED
  BY <1>1, TabAlways, EventsCounted, PTL DEF Spec, SessionLasts
==============================================================================
