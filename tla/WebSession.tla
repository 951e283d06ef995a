----------------------------- MODULE WebSession -----------------------------
(***************************************************************************)
(* The session of the web interface (web/static/js/core.js): first setup,  *)
(* login, forced change of password, start of the application, logout, and *)
(* the logout that an answer 401 forces.  The browser keeps one cookie; a  *)
(* request carries the one it has when it leaves.                          *)
(***************************************************************************)
EXTENDS Browser

CONSTANTS
  Users,
  Nav,          \* tabs of the navigation
  Restricted,   \* [Users -> SUBSET Nav]: the tabs a user may see, {} for all
  New,          \* users whose password an administrator chose
  MaxClicks     \* bound on what users do, by whether they wait: [BOOLEAN -> Nat]

VARIABLES
  page,         \* the globals of the page, and what it shows
  server        \* accounts, passwords to change, tokens that are valid

vars == <<page, calls, server, inTurn>>

Denied == "denied"
Garbled == "garbled"
Names == Users \union {None}

(* A check; then says who waits for it. *)
Check(then) == Asks("status", [then |-> then])

FirstPage(u) ==
  [cookie |-> u, confirmed |-> FALSE, me |-> None, user |-> None,
   overlay |-> TRUE, section |-> None, pending |-> None, hidden |-> {},
   loading |-> TRUE, heartbeat |-> TRUE, devices |-> None]

Init ==
  /\ inTurn \in BOOLEAN
  /\ \E any \in BOOLEAN, u \in Names :
       /\ u \in Users => any
       /\ server = [users |-> any, must |-> New, valid |-> {u} \ {None}, clicks |-> 0]
       /\ page = FirstPage(u)
  /\ calls = Begun(NoCalls, Check("init"))

-----------------------------------------------------------------------------
(* The server.  A login or a logout changes the cookie as its answer comes. *)
Fetched(i) == Answered(i) /\ Answer(i) # Denied

Carries(i) == calls[i].arg.as
SignedIn(i) == Carries(i) \in server.valid

ServeStatus(i) ==
  Sent(i, "status") /\ Answers(i, server.users) /\ UNCHANGED <<page, server>>

ServeMe(i) ==
  /\ Sent(i, "me")
  /\ IF SignedIn(i) THEN \E d \in {Carries(i), Garbled} : Answers(i, d) ELSE Answers(i, Denied)
  /\ UNCHANGED <<page, server>>

ServeWork(i) ==
  /\ Sent(i, "version") \/ Sent(i, "load") \/ Sent(i, "work")
  /\ Answers(i, IF SignedIn(i) THEN Carries(i) ELSE Denied)
  /\ UNCHANGED <<page, server>>

ServeRegister(i) ==
  /\ Sent(i, "register")
  /\ Answers(i, IF server.users THEN Denied ELSE "ok")
  /\ server' = [server EXCEPT !.users = TRUE]
  /\ UNCHANGED page

ServeLogin(i) ==
  /\ Sent(i, "login")
  /\ \/ Answers(i, Denied) /\ UNCHANGED <<page, server>>
     \/ /\ Answers(i, "ok")
        /\ server' = [server EXCEPT !.valid = @ \union {calls[i].arg.user}]
        /\ page' = [page EXCEPT !.cookie = calls[i].arg.user]

ServePassword(i) ==
  /\ Sent(i, "password")
  /\ IF SignedIn(i) /\ Carries(i) = calls[i].arg.old
     THEN Answers(i, "ok") /\ server' = [server EXCEPT !.must = @ \ {Carries(i)}]
     ELSE Answers(i, Denied) /\ UNCHANGED server
  /\ UNCHANGED page

ServeLogout(i) ==
  /\ Sent(i, "logout") /\ Answers(i, "ok")
  /\ page' = [page EXCEPT !.cookie = None]
  /\ UNCHANGED server

Lose(i) == calls[i].at = "sent" /\ Fails(i) /\ UNCHANGED <<page, server>>

Expire(u) ==
  /\ u \in server.valid
  /\ server' = [server EXCEPT !.valid = @ \ {u}]
  /\ UNCHANGED <<page, calls>>

-----------------------------------------------------------------------------
(* checkAuthRequirements: whether anybody is registered, then who is signed *)
(* in.  It answers FALSE to appInit when it leaves the overlay up.          *)
Checking(p) == [p EXCEPT !.section = IF @ = "password" THEN None ELSE @]

(* appInit begins with a check. *)
Starting(p) == [Checking(p) EXCEPT !.heartbeat = TRUE, !.loading = TRUE]

Refused(p, i, section) ==
  [p EXCEPT !.section = section, !.overlay = TRUE,
            !.loading = IF calls[i].arg.then = "init" THEN FALSE ELSE @]

HasUsers(i) == Answered(i) /\ Answer(i)

CheckStatus(i) ==
  /\ Back(i, "status")
  /\ \/ /\ ~HasUsers(i)
        /\ page' = Refused(page, i, IF Answered(i) THEN "wizard" ELSE "login")
        /\ Ends(i)
     \/ /\ HasUsers(i)
        /\ page' = [page EXCEPT !.section = "login"]
        /\ GoesOn(i, Asks("me", [as |-> page.cookie, then |-> calls[i].arg.then]))
  /\ UNCHANGED server

(* Fault: the overlay stays as it is. *)
MeRefusedUnlocked(i) ==
  /\ Back(i, "me") /\ ~Fetched(i)
  /\ page' = [page EXCEPT !.section = "login",
                          !.loading = IF calls[i].arg.then = "init" THEN FALSE ELSE @]
  /\ Ends(i)
  /\ UNCHANGED server

MeRefused(i) ==
  /\ Back(i, "me") /\ ~Fetched(i)
  /\ page' = [page EXCEPT !.section = "login", !.overlay = TRUE,
                          !.loading = IF calls[i].arg.then = "init" THEN FALSE ELSE @]
  /\ Ends(i)
  /\ UNCHANGED server

(* applyRoleUI and normalizeAllowedTabs: a restriction hides tabs. *)
Shown(p, u) ==
  [p EXCEPT !.user = u,
            !.hidden = IF Restricted[u] # {} THEN @ \union (Nav \ Restricted[u]) ELSE @]

Confirmed(p, i) ==
  [p EXCEPT !.confirmed = TRUE, !.overlay = FALSE,
            !.me = IF Answer(i) = Garbled THEN None ELSE Answer(i)]

MeKnown(i) ==
  /\ Back(i, "me") /\ Fetched(i)
  /\ LET p == Confirmed(page, i)
         c == [as |-> page.cookie]
     IN  \/ calls[i].arg.then = None /\ page' = p /\ Ends(i)
         \/ /\ calls[i].arg.then = "init"
            /\ page' = IF p.me # None THEN Shown(p, p.me) ELSE p
            /\ GoesOn(i, Asks("version", c))
  /\ UNCHANGED server

-----------------------------------------------------------------------------
(* apiFetch: a 401 in a confirmed session forces a logout; the caller gets  *)
(* nothing, as from a request that failed.                                  *)
LoggingOut(p) == [p EXCEPT !.confirmed = FALSE, !.me = None]
LogoutCall == Asks("logout", [as |-> page.cookie])
Forces(i) == Answered(i) /\ Answer(i) = Denied /\ page.confirmed

(* The call goes on with cs to p, after the logout that its answer forces. *)
AfterFetch(i, p, cs) ==
  IF Forces(i)
  THEN /\ \E j \in Ids : cs[j].fn = None
       /\ page' = LoggingOut(p) /\ calls' = Begun(cs, LogoutCall)
  ELSE page' = p /\ calls' = cs

(* appInit: the version, then devices and vendors, then what is shown. *)
Version(i) ==
  /\ Back(i, "version")
  /\ AfterFetch(i, page, Moved(i, Asks("load", [as |-> page.cookie])))
  /\ UNCHANGED server

Load(i) ==
  /\ Back(i, "load")
  /\ AfterFetch(i, [page EXCEPT !.loading = FALSE,
                                !.devices = IF Fetched(i) THEN Answer(i) ELSE @],
                Ended(i))
  /\ UNCHANGED server

(* Any other request of a page. *)
Work(i) == Back(i, "work") /\ AfterFetch(i, page, Ended(i)) /\ UNCHANGED server

-----------------------------------------------------------------------------
(* The user. *)
(* One place is left for the logout that an answer may force. *)
MayClick ==
  /\ server.clicks < MaxClicks[inTurn]
  /\ \E i, j \in Free : i # j
  /\ inTurn => Quiet
Click(c) == MayClick /\ Starts(c) /\ server' = [server EXCEPT !.clicks = @ + 1]

ClickRegister(u) ==
  /\ page.overlay /\ page.section = "wizard"
  /\ Click(Asks("register", [as |-> page.cookie, user |-> u]))
  /\ UNCHANGED page

ClickLogin(u) ==
  /\ page.overlay /\ page.section = "login"
  /\ Click(Asks("login", [as |-> page.cookie, user |-> u, wizard |-> FALSE]))
  /\ UNCHANGED page

ClickPassword ==
  /\ page.overlay /\ page.section = "password"
  /\ Click(Asks("password", [as |-> page.cookie, old |-> page.pending]))
  /\ UNCHANGED page

ClickLogout == ~page.overlay /\ Click(LogoutCall) /\ page' = LoggingOut(page)

ClickWork ==
  /\ ~page.overlay
  /\ Click(Asks("work", [as |-> page.cookie]))
  /\ UNCHANGED page

(* btnRegisterAdmin: a first account signs in at once. *)
Registered(i) ==
  /\ Back(i, "register")
  /\ IF Fetched(i)
     THEN GoesOn(i, Asks("login", [as |-> page.cookie, user |-> calls[i].arg.user,
                                   wizard |-> TRUE]))
     ELSE Ends(i)
  /\ UNCHANGED <<page, server>>

(* btnLogin: in, or on to the change of a password an administrator gave. *)
LoggedIn(i) ==
  /\ Back(i, "login")
  /\ LET u == calls[i].arg.user
         w == calls[i].arg.wizard
     IN  \/ ~Fetched(i) /\ ~(w /\ Answered(i)) /\ UNCHANGED page /\ Ends(i)
         \/ ~Fetched(i) /\ w /\ Answered(i) /\ page' = Checking(page) /\ GoesOn(i, Check(None))
         \/ /\ Fetched(i) /\ ~w /\ u \in server.must
            /\ page' = [page EXCEPT !.pending = u, !.section = "password"]
            /\ Ends(i)
         \/ /\ Fetched(i) /\ (w \/ u \notin server.must)
            /\ page' = [Starting(page) EXCEPT !.overlay = FALSE]
            /\ GoesOn(i, Check("init"))
  /\ UNCHANGED server

PasswordChanged(i) ==
  /\ Back(i, "password")
  /\ \/ ~Fetched(i) /\ UNCHANGED page /\ Ends(i)
     \/ /\ Fetched(i)
        /\ page' = [Starting(page) EXCEPT !.pending = None, !.section = "login", !.overlay = FALSE]
        /\ GoesOn(i, Check("init"))
  /\ UNCHANGED server

LoggedOut(i) ==
  /\ Back(i, "logout")
  /\ page' = [Checking(page) EXCEPT !.user = None]
  /\ GoesOn(i, Check(None))
  /\ UNCHANGED server

-----------------------------------------------------------------------------
Serve(i) ==
  \/ ServeStatus(i) \/ ServeMe(i) \/ ServeWork(i) \/ ServeRegister(i)
  \/ ServeLogin(i) \/ ServePassword(i) \/ ServeLogout(i)

Continue(i) ==
  \/ CheckStatus(i) \/ MeRefused(i) \/ MeKnown(i) \/ Version(i) \/ Load(i) \/ Work(i)
  \/ Registered(i) \/ LoggedIn(i) \/ PasswordChanged(i) \/ LoggedOut(i)

Next ==
  /\ UNCHANGED inTurn
  /\ \/ \E i \in Ids : Serve(i) \/ Lose(i) \/ Continue(i)
     \/ \E u \in Users : Expire(u) \/ ClickRegister(u) \/ ClickLogin(u)
     \/ ClickPassword \/ ClickLogout \/ ClickWork

(* A request is answered or fails, and its function then goes on. *)
Spec ==
  /\ Init /\ [][Next]_vars
  /\ \A i \in Ids : WF_vars(Serve(i) \/ Lose(i)) /\ WF_vars(Continue(i))

-----------------------------------------------------------------------------
TypeOK ==
  /\ page.cookie \in Names /\ page.me \in Names /\ page.user \in Names
  /\ page.pending \in Names /\ page.devices \in Names
  /\ page.confirmed \in BOOLEAN /\ page.overlay \in BOOLEAN /\ page.loading \in BOOLEAN
  /\ page.section \in {"login", "wizard", "password", None} /\ page.hidden \subseteq Nav
  /\ server.must \subseteq Users /\ server.valid \subseteq Users

(***************************************************************************)
(* The overlay is down only in a session that the server confirmed, or     *)
(* while a call that will decide is in progress.                           *)
(***************************************************************************)
UnlockedIsConfirmed ==
  ~page.overlay => page.confirmed \/ InProgress({"status", "me", "logout"}) # {}

(***************************************************************************)
(* At rest, an overlay that is up offers a way in: the sections hidden for *)
(* a check come back whatever becomes of it.                               *)
(***************************************************************************)
WayIn == Quiet /\ page.overlay => page.section # None

(* appLoading, which stops the threat page from loading, is down at rest. *)
NotLoadingAtRest == Quiet => ~page.loading

(***************************************************************************)
(* Users one after the other: the role and the devices shown are those of  *)
(* the user of the cookie, or none were loaded for that user.              *)
(***************************************************************************)
RoleIsOfUser ==
  Quiet /\ ~page.overlay => page.user \in {page.cookie, None}

(***************************************************************************)
(* core.js says of the tabs a user may see that empty means all of them.   *)
(***************************************************************************)
EmptyMeansAllTabs ==
  Quiet /\ ~page.overlay /\ page.user # None /\ Restricted[page.user] = {} => page.hidden = {}
=============================================================================
