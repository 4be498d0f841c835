-------------------------------- MODULE Frontend -------------------------------
(***************************************************************************)
(* The web frontend, src/frontend/js: one tab of a browser.                *)
(*                                                                         *)
(* Views and fetches put actions on a queue; App's loop takes one after the*)
(* other, lets AppDispatcher change the model, and draws it again.  The    *)
(* loop runs in microtasks, so users, timers and answers come in only when *)
(* the queue is empty.  An exception while drawing ends the loop: the page *)
(* is dead until it is loaded again.                                       *)
(*                                                                         *)
(* Abstracted: e-mail and password are one credential; a value of the      *)
(* settings is known by whose it is and whether it was typed; a malformed  *)
(* one only changes an error text; a new hash reaches the view at once.    *)
(* Pool statistics, the list of miners, sorting, searching, registration   *)
(* and activation are left out, and so are redraws by the router alone,    *)
(* which the loop's next one repairs.                                      *)
(***************************************************************************)
EXTENDS Naturals, Sequences, FiniteSets, Bags

CONSTANTS
    Accounts,      \* activated users
    Visitors,      \* those whose credentials may be in the cookie at first
    FirstPages,    \* pages the tab may be opened on
    MaxEvents,     \* bound: what the user does
    MaxRequests,   \* bound: fetches in flight before a timer adds one
    MaxFailures    \* bound: fetches that fail

ASSUME FrontendAssumption ==
    /\ Visitors \subseteq Accounts
    /\ FirstPages \subseteq {"/", "/miners/wallet", "/account"}
    /\ {"none", "wrong", "wallet", "refused", "null"} \cap Accounts = {}
    /\ {MaxEvents, MaxRequests, MaxFailures} \subseteq Nat

VARIABLES
    model,       \* AppModel
    queue,       \* actionQueue
    page,        \* the path in the address bar
    poll,        \* AppDispatcher.poll: the page whose data it fetches, or "none"
    loginPoll,   \* AppDispatcher.loginPoll: there is a handle of an interval
    leaked,      \* an interval polls the login of which no handle is left
    cookie,      \* the credentials in the cookies
    requests,    \* fetches in flight, a bag
    server,      \* the api: settings of each account
    alive,       \* the loop runs
    fresh,       \* history: this login's settings have been fetched
    excuses,     \* history: what the user did that the code does not expect
    events, failures

vars == <<model, queue, page, poll, loginPoll, leaked, cookie, requests, server, alive,
          fresh, excuses, events, failures>>

tabVars == <<poll, loginPoll, leaked, cookie>>
netVars == <<requests, server, failures>>

\* Pages that show a miner: of a wallet, and of the user
MinerPages == {"/miners/wallet", "/account"}

Pages == MinerPages \cup {"/"}

Credentials == Accounts \cup {"none", "wrong"}

Setting(owner, how) == [of |-> owner, how |-> how]

Blank == [isAuthenticated |-> FALSE, authenticationInfo |-> "none",
          currentMinerInfo |-> "null", showMinerSettings |-> FALSE,
          minerSettings |-> Setting("none", "saved"),
          minerSettingsOld |-> Setting("none", "saved")]

User == model.authenticationInfo

------------------------------------------------------------------------------
(* Fetches *)

NoValue == Setting("none", "none")

Refusal == Setting("refused", "none")

Request(kind, as, value) == [kind |-> kind, as |-> as, value |-> value, answer |-> NoValue]

InFlight(kind) == {r \in BagToSet(requests) : r.kind = kind}

Send(r) == requests' = requests (+) SetToBag({r})

Without(r) == requests (-) SetToBag({r})

\* check_login, polled: the settings come with the verdict
Check == Request("check", User, NoValue)

\* get_miner_info, by wallet or by credentials
Info(path) == Request("info", IF path = "/account" THEN User ELSE "wallet", NoValue)

\* The api reads or writes the settings.  A fetch whose answer never changes needs
\* no step of its own for this.
Served(r) ==
    /\ r.kind \in {"check", "save"} /\ r.answer = NoValue
    /\ server' = IF r.kind = "save" /\ r.as \in Accounts
                 THEN [server EXCEPT ![r.as] = r.value] ELSE server
    /\ LET reply == IF r.as \in Accounts THEN server'[r.as] ELSE Refusal
       IN  requests' = Without(r) (+) SetToBag({[r EXCEPT !.answer = reply]})
    /\ UNCHANGED <<model, queue, page, tabVars, alive, fresh, excuses, events, failures>>

Action(type) == [type |-> type]

\* What comes of saving the settings
Outcome(r) == Action(IF r.answer = Refusal THEN "SaveError" ELSE "SaveSuccess")

\* What a fetch puts on the queue when it is answered
Reaction(r) ==
    CASE r.kind = "login" -> Action(IF r.as \in Accounts THEN "LoginSuccess" ELSE "LoginError")
      [] r.kind = "check" /\ r.answer = Refusal -> [type |-> "Logout", by |-> "poll"]
      [] r.kind = "check" /\ r.answer # Refusal ->
             [type |-> "PollLoginSuccess", settings |-> r.answer, as |-> r.as]
      [] r.kind = "info" -> [type |-> "UpdateMinerInfo",
                             info |-> IF r.as \in {"none", "wrong"} THEN "refused" ELSE r.as]
      [] r.kind = "save" -> Outcome(r)

Idle == alive /\ queue = <<>>

Answered(r) ==
    /\ Idle
    /\ r.kind \in {"check", "save"} => r.answer # NoValue
    /\ requests' = Without(r)
    /\ queue' = <<Reaction(r)>>
    /\ UNCHANGED <<model, page, tabVars, server, alive, fresh, excuses, events, failures>>

\* The connection breaks, perhaps after the api has served the fetch: the polls say
\* nothing of it.
Fails(r) ==
    /\ Idle
    /\ failures < MaxFailures /\ failures' = failures + 1
    /\ requests' = Without(r)
    /\ queue' = CASE r.kind = "login" -> <<Action("LoginError")>>
                  [] r.kind = "save" -> <<Action("SaveError")>>
                  [] OTHER -> <<>>
    /\ UNCHANGED <<model, page, tabVars, server, alive, fresh, excuses, events>>

\* The interval of the page
PageTick ==
    /\ Idle /\ poll \in MinerPages
    /\ BagCardinality(requests) < MaxRequests
    /\ Send(Info(poll))
    /\ UNCHANGED <<model, queue, page, tabVars, server, alive, fresh, excuses, events, failures>>

\* The interval of the login, or one that outlived it
LoginTick ==
    /\ Idle /\ (loginPoll \/ leaked)
    /\ BagCardinality(requests) < MaxRequests
    /\ Send(Check)
    /\ UNCHANGED <<model, queue, page, tabVars, server, alive, fresh, excuses, events, failures>>

------------------------------------------------------------------------------
(* What the user does *)

Does(actions) ==
    /\ Idle
    /\ events < MaxEvents /\ events' = events + 1
    /\ queue' = actions
    /\ UNCHANGED <<model, tabVars, netVars, alive, fresh, excuses>>

ChangePage(path) == [type |-> "ChangePage", pathname |-> path]

Navigate(path) ==
    /\ page # path /\ page' = path
    /\ Does(<<ChangePage(path)>>)

UpdateAuthenticationInfo(c) == [type |-> "UpdateAuthenticationInfo", as |-> c]

\* The login form is shown to those who are not logged in.
TypesCredentials(c) ==
    /\ ~model.isAuthenticated
    /\ Does(<<UpdateAuthenticationInfo(c)>>) /\ UNCHANGED page

SubmitsLogin(c) ==
    /\ ~model.isAuthenticated
    /\ Does(<<UpdateAuthenticationInfo(c), Action("Login")>>) /\ UNCHANGED page

LogsOut ==
    /\ model.isAuthenticated
    /\ Does(<<[type |-> "Logout", by |-> "user"]>>) /\ UNCHANGED page

OpensSettings ==
    /\ model.isAuthenticated /\ ~model.showMinerSettings
    /\ Does(<<Action("ShowMinerSettings")>>) /\ UNCHANGED page

\* The form stays open until it is closed, whatever else happens: a click elsewhere
\* closes it, the keyboard does not.
UsesSettings ==
    /\ model.showMinerSettings
    /\ \E type \in {"HideMinerSettings", "UpdateMinerSettings", "SaveMinerSettings"} :
          Does(<<Action(type)>>)
    /\ UNCHANGED page

\* The tab is loaded again, dead or alive: App puts Init on the queue, and the view
\* the page it is on.
Reload ==
    /\ alive => queue = <<>>
    /\ events < MaxEvents /\ events' = events + 1
    /\ model' = Blank
    /\ queue' = <<Action("Init"), ChangePage(page)>>
    /\ poll' = "none" /\ loginPoll' = FALSE /\ leaked' = FALSE
    /\ requests' = EmptyBag
    /\ alive' = TRUE /\ fresh' = FALSE
    /\ UNCHANGED <<page, cookie, server, excuses, failures>>

------------------------------------------------------------------------------
(* AppDispatcher.dispatch *)

\* The loop takes an action of this type,
Takes(type) ==
    /\ alive /\ queue # <<>> /\ Head(queue).type = type
    /\ UNCHANGED <<server, events, failures>>

\* and draws the page: a refused miner has no wallets to show.
Draws == alive' = (page' \in MinerPages => model'.currentMinerInfo # "refused")

Done == queue' = Tail(queue) /\ UNCHANGED page

\* history.push: the view hears of it unless the path is the same
Push(path) ==
    /\ page' = path
    /\ queue' = Tail(queue) \o (IF page = path THEN <<>> ELSE <<ChangePage(path)>>)

\* An action that changes nothing but the model
Sets(type, newModel) ==
    /\ Takes(type)
    /\ model' = newModel /\ Done
    /\ UNCHANGED <<tabVars, requests>>
    /\ Draws

Excuse(name, applies) == excuses' = IF applies THEN excuses \cup {name} ELSE excuses

DispatchInit ==
    /\ Takes("Init")
    /\ Done
    /\ IF cookie = "none"
       THEN UNCHANGED <<model, requests, loginPoll>>
       ELSE /\ model' = [model EXCEPT !.authenticationInfo = cookie, !.isAuthenticated = TRUE]
            /\ Send(Request("check", cookie, NoValue))
            /\ loginPoll' = TRUE
    /\ UNCHANGED <<poll, leaked, cookie, fresh, excuses>>
    /\ Draws

\* Mutant of DispatchChangePage: a running interval is kept.
DispatchChangePageKeepsPoll ==
    LET path == Head(queue).pathname IN
    /\ Takes("ChangePage")
    /\ Done
    /\ poll' = IF poll # "none" THEN poll ELSE IF path \in MinerPages THEN path ELSE "none"
    /\ IF path \in MinerPages
       THEN model' = [model EXCEPT !.currentMinerInfo = "null"] /\ Send(Info(path))
       ELSE UNCHANGED <<model, requests>>
    /\ Excuse("strayed", path = "/account" /\ ~model.isAuthenticated)
    /\ UNCHANGED <<loginPoll, leaked, cookie, fresh>>
    /\ Draws

\* The interval of the page before is cleared.
DispatchChangePage ==
    LET path == Head(queue).pathname IN
    /\ Takes("ChangePage")
    /\ Done
    /\ poll' = IF path \in MinerPages THEN path ELSE "none"
    /\ IF path \in MinerPages
       THEN model' = [model EXCEPT !.currentMinerInfo = "null"] /\ Send(Info(path))
       ELSE UNCHANGED <<model, requests>>
    /\ Excuse("strayed", path = "/account" /\ ~model.isAuthenticated)
    /\ UNCHANGED <<loginPoll, leaked, cookie, fresh>>
    /\ Draws

DispatchUpdateMinerInfo ==
    /\ Sets("UpdateMinerInfo", [model EXCEPT !.currentMinerInfo = Head(queue).info])
    /\ UNCHANGED <<fresh, excuses>>

DispatchUpdateAuthenticationInfo ==
    /\ Sets("UpdateAuthenticationInfo", [model EXCEPT !.authenticationInfo = Head(queue).as])
    /\ Excuse("edited", InFlight("login") # {} /\ Head(queue).as # User)
    /\ UNCHANGED fresh

DispatchLogin ==
    /\ Takes("Login")
    /\ Send(Request("login", User, NoValue))
    /\ Done /\ UNCHANGED <<model, tabVars, fresh>>
    /\ Excuse("doubled", InFlight("login") # {})
    /\ Draws

\* The cookies and the polls get what the form says now.  The interval of an earlier
\* login is not cleared, its handle is overwritten.
DispatchLoginSuccess ==
    /\ Takes("LoginSuccess")
    /\ model' = [model EXCEPT !.isAuthenticated = TRUE]
    /\ cookie' = User
    /\ Push("/account")
    /\ Send(Check)
    /\ loginPoll' = TRUE /\ leaked' = (leaked \/ loginPoll)
    /\ fresh' = FALSE
    /\ UNCHANGED <<poll, excuses>>
    /\ Draws

LoggedOut == [model EXCEPT !.isAuthenticated = FALSE, !.authenticationInfo = "none"]

\* Mutant of DispatchLogout: the page is not left.
DispatchLogoutStays ==
    /\ Takes("Logout")
    /\ model' = LoggedOut /\ cookie' = "none" /\ Done
    /\ loginPoll' = FALSE /\ fresh' = FALSE
    /\ Excuse("leftOpen", model.showMinerSettings)
    /\ UNCHANGED <<poll, leaked, requests>>
    /\ Draws

\* Mutant of DispatchLogout: the interval goes on.
DispatchLogoutPolls ==
    /\ Takes("Logout")
    /\ model' = LoggedOut /\ cookie' = "none" /\ Push("/")
    /\ fresh' = FALSE
    /\ Excuse("leftOpen", model.showMinerSettings)
    /\ UNCHANGED <<poll, loginPoll, leaked, requests>>
    /\ Draws

DispatchLogout ==
    /\ Takes("Logout")
    /\ model' = LoggedOut /\ cookie' = "none" /\ Push("/")
    /\ loginPoll' = FALSE /\ fresh' = FALSE
    /\ Excuse("leftOpen", model.showMinerSettings)
    /\ UNCHANGED <<poll, leaked, requests>>
    /\ Draws

DispatchShowMinerSettings ==
    /\ Sets("ShowMinerSettings", [model EXCEPT !.showMinerSettings = TRUE])
    /\ Excuse("hasty", ~fresh) /\ UNCHANGED fresh

DispatchHideMinerSettings ==
    /\ Sets("HideMinerSettings", [model EXCEPT !.showMinerSettings = FALSE,
                                               !.minerSettings = model.minerSettingsOld])
    /\ UNCHANGED <<fresh, excuses>>

DispatchUpdateMinerSettings ==
    /\ Sets("UpdateMinerSettings", [model EXCEPT !.minerSettings = Setting(User, "typed")])
    /\ UNCHANGED <<fresh, excuses>>

DispatchSaveMinerSettings ==
    /\ Takes("SaveMinerSettings")
    /\ Send(Request("save", User, model.minerSettings))
    /\ Done /\ UNCHANGED <<model, tabVars, fresh, excuses>>
    /\ Draws

\* What is kept is what the form says now, not what was saved.
DispatchSaveSuccess ==
    /\ Sets("SaveSuccess", [model EXCEPT !.showMinerSettings = FALSE,
                                         !.minerSettingsOld = model.minerSettings])
    /\ UNCHANGED <<fresh, excuses>>

\* Errors only show a text.
DispatchError ==
    /\ Sets("LoginError", model) \/ Sets("SaveError", model)
    /\ UNCHANGED <<fresh, excuses>>

\* Mutant of DispatchPollLoginSuccess: the form keeps what it had.
DispatchPollLoginSuccessOld ==
    /\ Sets("PollLoginSuccess", [model EXCEPT !.minerSettingsOld = Head(queue).settings])
    /\ fresh' = TRUE
    /\ Excuse("overtaken", model.isAuthenticated /\ Head(queue).as # User)

\* The form follows the api unless it is open.
DispatchPollLoginSuccess ==
    /\ Sets("PollLoginSuccess",
            [model EXCEPT !.minerSettingsOld = Head(queue).settings,
                          !.minerSettings = IF model.showMinerSettings THEN @
                                            ELSE Head(queue).settings])
    /\ fresh' = TRUE
    /\ Excuse("overtaken", model.isAuthenticated /\ Head(queue).as # User)

dispatch ==
    \/ DispatchInit \/ DispatchChangePage \/ DispatchUpdateMinerInfo
    \/ DispatchUpdateAuthenticationInfo \/ DispatchLogin \/ DispatchLoginSuccess
    \/ DispatchLogout
    \/ DispatchShowMinerSettings \/ DispatchHideMinerSettings
    \/ DispatchUpdateMinerSettings \/ DispatchSaveMinerSettings \/ DispatchSaveSuccess
    \/ DispatchError \/ DispatchPollLoginSuccess

------------------------------------------------------------------------------

Init ==
    /\ model = Blank
    /\ page \in FirstPages
    /\ queue = <<Action("Init"), ChangePage(page)>>
    /\ poll = "none" /\ loginPoll = FALSE /\ leaked = FALSE
    /\ cookie \in Visitors \cup {"none"}
    /\ requests = EmptyBag
    /\ server = [a \in Accounts |-> Setting(a, "saved")]
    /\ alive = TRUE /\ fresh = FALSE /\ excuses = {}
    /\ events = 0 /\ failures = 0

UserActs ==
    \/ \E path \in Pages : Navigate(path)
    \/ \E c \in Credentials \ {"none"} : TypesCredentials(c) \/ SubmitsLogin(c)
    \/ LogsOut \/ OpensSettings \/ UsesSettings
    \/ Reload

Answers == \E r \in BagToSet(requests) : Answered(r)

Serves == \E r \in BagToSet(requests) : Served(r)

Next ==
    \/ dispatch \/ UserActs \/ Serves \/ Answers \/ PageTick \/ LoginTick
    \/ \E r \in BagToSet(requests) : Fails(r)

Spec == Init /\ [][Next]_vars

\* The loop goes on, the api answers something, and no interval is kept out for good
\* by fetches in flight: less than a browser does, which has all of them answered or
\* fail.  Nothing is assumed of the user.
Fairness ==
    /\ WF_vars(dispatch \/ Serves \/ Answers)
    /\ SF_vars(PageTick) /\ SF_vars(LoginTick)

FairSpec == Spec /\ Fairness

------------------------------------------------------------------------------
(* Properties *)

Excused(names) == excuses \cap names # {}

\* No exception ends the loop, whatever is answered late or not at all, through
\* logins, logouts and reloads; unless the user opened the account's page without
\* being logged in, or clicked or typed on while a login was under way.
PageSurvives == alive \/ Excused({"strayed", "edited", "doubled"})

\* A login with good credentials is ended by its user only: a poll of an earlier
\* login, or of nobody, does not end it; unless two logins were sent at once or the
\* form was changed before the answer.
SessionLasts ==
    [][model.isAuthenticated /\ User \in Accounts /\ ~model'.isAuthenticated /\ events' = events
         => Head(queue).by = "user" \/ Excused({"edited", "doubled"})]_vars

\* The settings of an account are never overwritten with those of another one or
\* with the empty ones of a fresh tab; unless the form was opened before the first
\* poll of its login was answered, that answer belonged to an earlier login, or the
\* form was left open in a logout.
SettingsAreOwn ==
    \A a \in Accounts : server[a].of = a \/ Excused({"hasty", "overtaken", "leftOpen"})

\* Whom the page is about
ShownMiner == IF page = "/account" THEN User ELSE "wallet"

Settles ==
    alive =>
        /\ page \in MinerPages => model.currentMinerInfo = ShownMiner
        /\ model.isAuthenticated /\ ~model.showMinerSettings /\ User \in Accounts
               => model.minerSettings = server[User]

\* When the user leaves it alone, a living page comes to show the miner it is about
\* and the settings the api has, although answers for earlier pages and logins still
\* come in, in any order.
ViewSettles == <>[]Settles
==============================================================================
