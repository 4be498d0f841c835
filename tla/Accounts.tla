------------------------------- MODULE Accounts -------------------------------
(***************************************************************************)
(* Registration and activation of users, in src/api/main.py.               *)
(*                                                                         *)
(* Every statement is a transaction of its own and every await lets other  *)
(* requests run, so a handler is a step per statement; the first comes with*)
(* the request, and one that refuses it changes nothing.  A request may end*)
(* at any step: the client goes away, or the database refuses.             *)
(*                                                                         *)
(* Abstracted: only the code of the row an address has now can activate it,*)
(* so codes are left out; requests at the same statement are counted.      *)
(***************************************************************************)
EXTENDS UserTables

CONSTANT MaxApiRequests     \* bound: requests on their way at the same time

ASSUME AccountsAssumption == MaxApiRequests \in Nat

\* The statement a request comes to next
Statements == {"delete", "insert", "activate"}

VARIABLE api    \* by address and statement: how many requests are before it

Underway == FoldSet(LAMBDA e, n : n + api[e]["delete"] + api[e]["insert"] + api[e]["activate"],
                    0, Emails)

Arrives(e, s) ==
    /\ Underway < MaxApiRequests
    /\ api' = [api EXCEPT ![e][s] = @ + 1]

Leaves(e, s) ==
    /\ api[e][s] > 0
    /\ api' = [api EXCEPT ![e][s] = @ - 1]

\* register: SELECT count(*) ... is_activated IS TRUE
Register(e) ==
    /\ users[e] # "active"
    /\ Arrives(e, "delete")
    /\ UNCHANGED tableVars

\* DELETE FROM users: whatever row the address has by now
DeleteUser(e) ==
    /\ api[e]["delete"] > 0
    /\ api' = [api EXCEPT ![e]["delete"] = @ - 1, ![e]["insert"] = @ + 1]
    /\ users' = [users EXCEPT ![e] = "absent"]
    /\ UNCHANGED <<workers, email>>

\* INSERT INTO users, an error if another request has inserted the address
InsertUser(e) ==
    /\ Leaves(e, "insert")
    /\ users' = [users EXCEPT ![e] = IF @ = "absent" THEN "pending" ELSE @]
    /\ UNCHANGED <<workers, email>>

\* activate: SELECT count(*) ... is_activated IS FALSE AND activate_code = %s
Activate(e) ==
    /\ users[e] = "pending"
    /\ Arrives(e, "activate")
    /\ UNCHANGED tableVars

\* UPDATE users SET is_activated: whatever row the address has by now
ActivateUser(e) ==
    /\ Leaves(e, "activate")
    /\ users' = [users EXCEPT ![e] = IF @ = "absent" THEN "absent" ELSE "active"]
    /\ UNCHANGED <<workers, email>>

\* The request ends before its next statement.
ApiRequestFails(e) ==
    /\ \E s \in Statements : Leaves(e, s)
    /\ UNCHANGED tableVars

AccountsInit == api = [e \in Emails |-> [s \in Statements |-> 0]]

AccountsNext ==
    \E e \in Emails :
        \/ Register(e) \/ DeleteUser(e) \/ InsertUser(e)
        \/ Activate(e) \/ ActivateUser(e)
        \/ ApiRequestFails(e)
==============================================================================
