----------------------------- MODULE WorkerAlarm ------------------------------
(***************************************************************************)
(* Notices about workers that went down or came up: the engine's           *)
(* update_worker (src/pool_engine/main.py), which keeps the times of a     *)
(* worker, and the alarm (src/alarm/main.py), one process that reads them  *)
(* in passes.                                                              *)
(*                                                                         *)
(* The alarm reads the clock, then runs two SELECTs, then handles row by   *)
(* row what they returned: shares arrive between any two of these steps.   *)
(* An exception outside the sending of a message ends the pass, and main() *)
(* is started again; the process may also die.                             *)
(*                                                                         *)
(* Time is a clock of ticks, Limit of them being the fifteen minutes of    *)
(* both programs.  A share commits in the tick of its now, and that is a   *)
(* later one than any pass has read so far: no two times are equal that the*)
(* programs could not tell apart.  Messages to the several contacts of a   *)
(* wallet are one notice.                                                  *)
(***************************************************************************)
EXTENDS UserTables

CONSTANTS
    Limit,      \* fifteen minutes, in ticks
    MaxClock,   \* bound: ticks
    MaxShares,  \* bound: shares
    MaxDeaths   \* bound: deaths of the alarm, or failed UPDATEs

ASSUME AlarmAssumption ==
    /\ {Limit, MaxClock, MaxShares, MaxDeaths} \subseteq Nat
    /\ MaxClock > 0     \* the clock starts at 1

VARIABLES
    clock,      \* the time
    shares,     \* shares so far
    at,         \* what the pass does next
    now,        \* the time it has read
    downRows,   \* rows of the first SELECT it still has to handle
    upRows,     \* rows of the second
    current,    \* the notice that was sent and not marked yet
    sent,       \* how often a notice about an outage or a session was sent
    alarmDeaths \* deaths so far

alarmVars == <<clock, shares, at, now, downRows, upRows, current, sent, alarmDeaths>>
passVars == <<at, now, downRows, upRows, current>>

Kinds == {"down", "up"}

\* A row in a result: about is the last share before the outage, or the first of
\* the session.
Rows == [worker : Workers, about : 1..MaxClock]

Nothing == <<>>

------------------------------------------------------------------------------
(* The engine *)

Tick ==
    /\ clock < MaxClock
    /\ clock' = clock + 1
    /\ UNCHANGED <<tableVars, shares, passVars, sent, alarmDeaths>>

\* A share within the limit continues the session.
SessionStart(row) ==
    IF clock - row.last < Limit /\ row.session # Null THEN row.session ELSE clock

\* update_worker, one transaction.  The e-mail is set by an UPDATE before the
\* INSERT, so the first share of a wallet does not set it.
Share(w, e) ==
    /\ shares < MaxShares
    /\ shares' = shares + 1
    /\ clock > now
    /\ IF HasRow(w)
       THEN /\ workers' = [workers EXCEPT ![w].last = clock, ![w].session = SessionStart(workers[w])]
            /\ email' = IF e = NoEmail THEN email ELSE [email EXCEPT ![w] = e]
       ELSE /\ workers' = [workers EXCEPT ![w].last = clock, ![w].session = clock]
            /\ UNCHANGED email
    /\ UNCHANGED <<users, clock, passVars, sent, alarmDeaths>>

------------------------------------------------------------------------------
(* A pass of the alarm *)

ReadClock ==
    /\ at = "clock"
    /\ now' = clock
    /\ at' = "selectDown"
    /\ UNCHANGED <<tableVars, clock, shares, downRows, upRows, current, sent, alarmDeaths>>

\* Mutant of Silent: workers are listed whether they were notified or not.
SilentAgain(t) ==
    {w \in Workers : HasRow(w) /\ workers[w].last + Limit < t}

\* Workers silent for longer than the limit, not notified since their last share
Silent(t) ==
    {w \in Workers : /\ HasRow(w)
                     /\ workers[w].down = Null \/ workers[w].down < workers[w].last
                     /\ workers[w].last + Limit < t}

SelectDown ==
    /\ at = "selectDown"
    /\ downRows' = {[worker |-> w, about |-> workers[w].last] : w \in Silent(now)}
    /\ at' = "selectUp"
    /\ UNCHANGED <<tableVars, clock, shares, now, upRows, current, sent, alarmDeaths>>

\* Workers heard of within the limit, not notified since their session began
Returned(t) ==
    {w \in Workers : /\ HasRow(w)
                     /\ workers[w].up = Null \/ workers[w].up < workers[w].session
                     /\ workers[w].last + Limit > t}

SelectUp ==
    /\ at = "selectUp"
    /\ upRows' = {[worker |-> w, about |-> workers[w].session] : w \in Returned(now)}
    /\ at' = "notify"
    /\ UNCHANGED <<tableVars, clock, shares, now, downRows, current, sent, alarmDeaths>>

\* Whom to write to is known: no address, or one with a row in users
HasContacts(w) == email[w] # NoEmail => users[email[w]] # "absent"

\* The rows that come next: all that are down, in any order, then all that are up
Pending(kind) == IF kind = "down" THEN downRows ELSE IF downRows = {} THEN upRows ELSE {}

EndPass == at' = "clock" /\ downRows' = {} /\ upRows' = {} /\ current' = Nothing

\* Mutant of NoContacts: the exception ends the process for good.
NoContactsForGood(kind, row) ==
    /\ at = "notify"
    /\ row \in Pending(kind)
    /\ ~HasContacts(row.worker)
    /\ at' = "ended" /\ downRows' = {} /\ upRows' = {} /\ current' = Nothing
    /\ UNCHANGED <<tableVars, clock, shares, now, sent, alarmDeaths>>

\* An address without a row in users: an IndexError ends the pass.
NoContacts(kind, row) ==
    /\ at = "notify"
    /\ row \in Pending(kind)
    /\ ~HasContacts(row.worker)
    /\ EndPass
    /\ UNCHANGED <<tableVars, clock, shares, now, sent, alarmDeaths>>

\* get_contacts, and a message to each of them; a failure to send is logged.
Notify(kind, row) ==
    /\ at = "notify"
    /\ row \in Pending(kind)
    /\ HasContacts(row.worker)
    /\ sent' = IF email[row.worker] = NoEmail THEN sent
               ELSE [sent EXCEPT ![kind][row.worker][row.about] = @ + 1]
    /\ current' = <<kind, row>>
    /\ at' = "mark"
    /\ UNCHANGED <<tableVars, clock, shares, now, downRows, upRows, alarmDeaths>>

\* The pass has done with the row it is at and goes on to the next.
Handled(row) ==
    /\ IF current[1] = "down" THEN downRows' = downRows \ {row} /\ UNCHANGED upRows
                              ELSE upRows' = upRows \ {row} /\ UNCHANGED downRows
    /\ at' = "notify" /\ current' = Nothing

\* UPDATE workers SET notified_down_at, or notified_up_at: the time of the pass
Mark ==
    LET row == current[2] IN
    /\ at = "mark"
    /\ workers' = [workers EXCEPT ![row.worker][current[1]] = now]
    /\ Handled(row)
    /\ UNCHANGED <<users, email, clock, shares, now, sent, alarmDeaths>>

\* Sleep, then the next iteration
PassOver ==
    /\ at = "notify"
    /\ downRows = {} /\ upRows = {}
    /\ EndPass
    /\ UNCHANGED <<tableVars, clock, shares, now, sent, alarmDeaths>>

\* The database or the process goes away; main() starts again.
AlarmDies ==
    /\ at # "clock"
    /\ alarmDeaths < MaxDeaths
    /\ alarmDeaths' = alarmDeaths + 1
    /\ EndPass
    /\ UNCHANGED <<tableVars, clock, shares, now, sent>>

------------------------------------------------------------------------------

AlarmInit ==
    /\ clock = 1 /\ shares = 0
    /\ at = "clock" /\ now = Null
    /\ downRows = {} /\ upRows = {} /\ current = Nothing
    /\ sent = [k \in Kinds |-> [w \in Workers |-> [t \in 1..MaxClock |-> 0]]]
    /\ alarmDeaths = 0

AlarmStep ==
    \/ ReadClock
    \/ SelectDown
    \/ SelectUp
    \/ \E kind \in Kinds : \E row \in Pending(kind) : Notify(kind, row) \/ NoContacts(kind, row)
    \/ Mark
    \/ PassOver

AlarmNext ==
    \/ Tick
    \/ \E w \in Workers : \E e \in Emails \cup {NoEmail} : Share(w, e)
    \/ AlarmStep
    \/ AlarmDies
==============================================================================
