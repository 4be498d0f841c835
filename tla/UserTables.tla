------------------------------ MODULE UserTables ------------------------------
(***************************************************************************)
(* The Postgres tables users and workers, which the api, the engine and the*)
(* alarm share (alembic/versions/c364450a1076, 62bc20a1fb35, 95d5f8edbe65, *)
(* c70ef211a245).                                                          *)
(*                                                                         *)
(* Abstracted: a worker stands for its wallet too, whose row (worker IS    *)
(* NULL) is inserted with it and has its e-mail; passwords, additional     *)
(* e-mails and the counters of time and hashes are left out.               *)
(***************************************************************************)
EXTENDS Naturals, FiniteSets, FiniteSetsExt

CONSTANTS
    Workers,    \* workers, each of its own wallet
    Emails      \* addresses somebody may register or mine under

VARIABLES
    users,      \* by address: whether there is a row, and whether it is activated
    workers,    \* by worker: its row's times, in ticks
    email       \* by worker: the address in its wallet's row

tableVars == <<users, workers, email>>

\* NULL, and the time of a worker without a row: the clock starts at 1.
Null == 0

NoEmail == "none"

HasRow(w) == workers[w].last # Null

\* The pool may have been running for a while: some workers have a row since the
\* first tick, and perhaps an address.
TablesInit ==
    \E W \in SUBSET Workers :
        /\ users = [e \in Emails |-> "absent"]
        /\ workers = [w \in Workers |->
               LET t == IF w \in W THEN 1 ELSE Null IN
               [last |-> t, session |-> t, down |-> Null, up |-> Null]]
        /\ email \in [Workers -> Emails \cup {NoEmail}]
        /\ \A w \in Workers \ W : email[w] = NoEmail
==============================================================================
