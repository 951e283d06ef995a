------------------------------ MODULE WebUsers ------------------------------
(***************************************************************************)
(* The table of users of the settings tab (web/static/js/settings.js).     *)
(* Each row holds four editors: the role and the tenants are saved as they *)
(* are touched, the tabs only at the press of a button, and the switch     *)
(* sends the opposite of what the row was drawn with.  Whatever is saved   *)
(* is one request, and the table is then loaded again, all of it.          *)
(***************************************************************************)
EXTENDS Browser, FiniteSets

CONSTANTS
  Users, Me,    \* the names there are; the administrator at work
  Tenants, Tabs,
  MaxClicks     \* bound on what the user does, by whether he waits: [BOOLEAN -> Nat]

VARIABLES page, server
vars == <<page, calls, server, inTurn>>

Roles == {"viewer", "admin"}
NoUser == [role |-> None, off |-> FALSE, groups |-> {}, tabs |-> {}]
NewUser(r) == [NoUser EXCEPT !.role = r]

(* renderUsersTable: an administrator has neither boxes for tenants nor     *)
(* for tabs; orig is what the boxes of the tabs are compared with.          *)
Row(u) ==
  [role |-> u.role, off |-> u.off, boxes |-> u.role # "admin", groups |-> u.groups,
   tabs |-> u.tabs, orig |-> u.tabs]
NoRow == Row(NoUser)
Rendered(users) == [u \in Users |-> Row(users[u])]

Init ==
  /\ inTurn \in BOOLEAN
  /\ page = [rows |-> [u \in Users |-> NoRow], in |-> TRUE]
  /\ calls = Begun(NoCalls, Asks("users", <<>>))
  /\ server = [users |-> [u \in Users |-> IF u = Me THEN NewUser("admin") ELSE NoUser],
               clicks |-> 0]

-----------------------------------------------------------------------------
MayClick == page.in /\ server.clicks < MaxClicks[inTurn] /\ (inTurn => Quiet)
Clicked == server' = [server EXCEPT !.clicks = @ + 1]
Shown(u) == page.rows[u].role # None
HasBoxes(u) == Shown(u) /\ page.rows[u].boxes

Flip(S, x) == IF x \in S THEN S \ {x} ELSE S \union {x}
Dirty(u) == page.rows[u].tabs # page.rows[u].orig

(* saveUserGroups: all the boxes that are checked, at each touch of one. *)
ToggleGroup(u, g) ==
  /\ MayClick /\ HasBoxes(u)
  /\ LET groups == Flip(page.rows[u].groups, g)
     IN  /\ page' = [page EXCEPT !.rows[u].groups = groups]
         /\ Starts(Asks("groups", [user |-> u, to |-> groups]))
  /\ Clicked

(* markTabsDirty: nothing is sent. *)
ToggleTab(u, t) ==
  /\ MayClick /\ HasBoxes(u)
  /\ page' = [page EXCEPT !.rows[u].tabs = Flip(@, t)]
  /\ Clicked /\ UNCHANGED calls

SaveTabs(u) ==
  /\ MayClick /\ HasBoxes(u) /\ Dirty(u)
  /\ Starts(Asks("tabs", [user |-> u, to |-> page.rows[u].tabs]))
  /\ Clicked /\ UNCHANGED page

ChangeRole(u) ==
  /\ MayClick /\ Shown(u)
  /\ \E r \in Roles \ {page.rows[u].role} :
       /\ page' = [page EXCEPT !.rows[u].role = r]
       /\ Starts(Asks("role", [user |-> u, to |-> r]))
  /\ Clicked

ToggleDisabled(u) ==
  /\ MayClick /\ Shown(u) /\ u # Me
  /\ Starts(Asks("disable", [user |-> u, to |-> ~page.rows[u].off]))
  /\ Clicked /\ UNCHANGED page

CreateUser(u, r) ==
  /\ MayClick
  /\ Starts(Asks("create", [user |-> u, to |-> r]))
  /\ Clicked /\ UNCHANGED page

DeleteUser(u) ==
  /\ MayClick /\ Shown(u)
  /\ Starts(Asks("delete", [user |-> u, to |-> None]))
  /\ Clicked /\ UNCHANGED page

Savings == {"groups", "tabs", "role", "disable", "create", "delete"}
SavedOk(i) == Answered(i) /\ Answer(i) = "ok"

(* Fault: a role that was refused is not loaded either. *)
SavedAsChosen(i) ==
  /\ \E fn \in Savings : Back(i, fn)
  /\ LET gone == calls[i].fn = "delete" /\ SavedOk(i) /\ calls[i].arg.user = Me
     IN  /\ page' = [page EXCEPT !.in = @ /\ ~gone]
         /\ IF SavedOk(i) /\ calls[i].fn # "role" /\ ~gone THEN GoesOn(i, Asks("users", <<>>)) ELSE Ends(i)
  /\ UNCHANGED server

(* What was saved is loaded, but for a role, of which only the failure is;  *)
(* a deletion of oneself that is accepted ends the session.                 *)
Saved(i) ==
  /\ \E fn \in Savings : Back(i, fn)
  /\ LET fn == calls[i].fn
         gone == fn = "delete" /\ SavedOk(i) /\ calls[i].arg.user = Me
     IN  /\ page' = [page EXCEPT !.in = @ /\ ~gone]
         /\ IF SavedOk(i) # (fn = "role") /\ ~gone THEN GoesOn(i, Asks("users", <<>>)) ELSE Ends(i)
  /\ UNCHANGED server

Loaded(i) ==
  /\ Back(i, "users")
  /\ page' = IF Answered(i) THEN [page EXCEPT !.rows = Rendered(Answer(i))] ELSE page
  /\ Ends(i)
  /\ UNCHANGED server

-----------------------------------------------------------------------------
Admins == {u \in Users : server.users[u].role = "admin" /\ ~server.users[u].off}
Store(u, v) == server' = [server EXCEPT !.users[u] = v]

(* guardLastAdmin: the last administrator at work keeps the role. *)
IsLast(u) == Admins = {u}

(* requireAuth reads the role at each request. *)
MayAsk == server.users[Me].role = "admin"

(* Whether the server refuses what a call asks, and what it makes of it;    *)
(* of a user that is not there nothing changes and nothing is said but for  *)
(* the tabs.                                                                *)
Refuses(fn, u, to) ==
  \/ ~MayAsk
  \/ fn = "create" /\ server.users[u] # NoUser
  \/ fn = "delete" /\ (u = Me \/ IsLast(u))
  \/ fn = "disable" /\ (u = Me \/ (to /\ IsLast(u)))
  \/ fn = "role" /\ to # "admin" /\ IsLast(u)
  \/ fn = "tabs" /\ server.users[u] = NoUser

Changed(fn, u, to) ==
  LET user == server.users[u] IN
  IF fn = "create" THEN NewUser(to)
  ELSE IF fn = "delete" \/ user = NoUser THEN NoUser
  ELSE CASE fn = "disable" -> [user EXCEPT !.off = to]
         [] fn = "role" -> [user EXCEPT !.role = to]
         [] fn = "tabs" -> [user EXCEPT !.tabs = to]
         [] fn = "groups" -> [user EXCEPT !.groups = to]

ServeSaving(i) ==
  /\ \E fn \in Savings : Sent(i, fn)
  /\ LET c == calls[i]
         no == Refuses(c.fn, c.arg.user, c.arg.to)
     IN  /\ IF no THEN UNCHANGED server ELSE Store(c.arg.user, Changed(c.fn, c.arg.user, c.arg.to))
         /\ Answers(i, IF no THEN "refused" ELSE "ok")
  /\ UNCHANGED page

ServeUsers(i) ==
  /\ Sent(i, "users")
  /\ IF MayAsk THEN Answers(i, server.users) ELSE Fails(i)
  /\ UNCHANGED <<page, server>>

Lose(i) == ~inTurn /\ calls[i].at = "sent" /\ Fails(i) /\ UNCHANGED <<page, server>>

Continue(i) == Saved(i) \/ Loaded(i)
Serve(i) == ServeSaving(i) \/ ServeUsers(i)

Next ==
  /\ UNCHANGED inTurn
  /\ \/ \E u \in Users :
          \/ \E g \in Tenants : ToggleGroup(u, g)
          \/ \E t \in Tabs : ToggleTab(u, t)
          \/ \E r \in Roles : CreateUser(u, r)
          \/ SaveTabs(u) \/ ChangeRole(u) \/ ToggleDisabled(u) \/ DeleteUser(u)
     \/ \E i \in Ids : Serve(i) \/ Lose(i) \/ Continue(i)

Fairness == \A i \in Ids : WF_vars(Serve(i)) /\ WF_vars(Continue(i))
Spec == Init /\ [][Next]_vars /\ Fairness

-----------------------------------------------------------------------------
TypeOK ==
  /\ page.in \in BOOLEAN
  /\ \A u \in Users :
       /\ server.users[u].role \in Roles \union {None}
       /\ page.rows[u].groups \subseteq Tenants /\ page.rows[u].tabs \subseteq Tabs

(***************************************************************************)
(* To a user who waits, the table tells what the server holds whenever the *)
(* page is at rest, for as long as that user is an administrator: who is   *)
(* there, the roles, a refused change of one undone, who is disabled, the  *)
(* tenants, and the tabs that unsaved boxes are compared with.             *)
(***************************************************************************)
TableIsTrue ==
  Quiet /\ MayAsk =>
    \A u \in Users :
      LET r == page.rows[u]
          v == server.users[u]
      IN  /\ r.role = v.role /\ r.off = v.off
          /\ r.boxes /\ Shown(u) => r.groups = v.groups /\ r.orig = v.tabs
=============================================================================
