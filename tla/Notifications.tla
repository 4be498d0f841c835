---------------------------- MODULE Notifications -----------------------------
(***************************************************************************)
(* Who is told that a worker went down or came back: the api that keeps    *)
(* the users, the engine that keeps the workers, and the alarm that reads  *)
(* the tables of both while they change.                                   *)
(***************************************************************************)
EXTENDS Accounts, WorkerAlarm

notificationVars == <<tableVars, api, alarmVars>>

NotificationsInit == TablesInit /\ AccountsInit /\ AlarmInit

NotificationsNext ==
    \/ AccountsNext /\ UNCHANGED alarmVars
    \/ AlarmNext /\ UNCHANGED api

NotificationsSpec == NotificationsInit /\ [][NotificationsNext]_notificationVars

\* The alarm goes on after every exception and its container is restarted when
\* it dies.  Its messages have no timeout: that the servers they go to answer in
\* the end is assumed.  Nothing is assumed of the api, the engine or the clock.
NotificationsFairSpec ==
    NotificationsSpec /\ WF_notificationVars(AlarmStep /\ UNCHANGED api)

------------------------------------------------------------------------------
(* Properties *)

\* Worker w has been silent for too long since tick t, and there is an address.
Down(w, t) == workers[w].last = t /\ t + Limit < clock /\ email[w] # NoEmail

\* Some worker the alarm may come across has an address nobody has registered:
\* the e-mail is whatever the miner logged in with.
Unreachable == \E w \in Workers : ~HasContacts(w)

\* Of every outage longer than the limit its owner gets a notice, or the worker is
\* back first, as long as nobody mines under an unregistered address: such a row
\* ends every pass that gets to it.  A pass that is still busy with the outage
\* before does not use up the notice.
DownNoticed ==
    \A w \in Workers : \A t \in 1..(MaxClock - Limit - 1) :
        (Down(w, t) /\ ~Unreachable) ~>
            (sent["down"][w][t] > 0 \/ workers[w].last # t \/ Unreachable)

\* An outage is reported once, although shares change the row while a pass works
\* on what it selected, and the return from it at most twice: a session that
\* begins after the pass has read its clock is newer than the mark.  Each death
\* of the alarm can repeat one notice.
NoticesPerOutage ==
    \A w \in Workers : \A t \in 1..MaxClock :
        /\ sent["down"][w][t] <= 1 + alarmDeaths
        /\ sent["up"][w][t] <= 2 + alarmDeaths
==============================================================================
