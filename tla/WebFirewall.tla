---------------------------- MODULE WebFirewall ----------------------------
(***************************************************************************)
(* The firewall tab (web/static/js/fortigate-management.js): the targets   *)
(* and their tokens, which of them is active, and what is read of it, view *)
(* by view, and remembered.  Targets are changed at three places: the list *)
(* above the views, a form among the settings, and a modal.                *)
(***************************************************************************)
EXTENDS Browser

CONSTANTS
  Devices,      \* the firewalls of the inventory: their addresses, numbers above 0
  MaxClicks     \* bound on what the user does, by whether he waits: [BOOLEAN -> Nat]

VARIABLES page, server
vars == <<page, calls, server, inTurn>>

Nobody == 0
Somebody == Devices \union {Nobody}

(* The views of the panes: some that are read when they are opened, one     *)
(* that needs its form filled, and one the server has no route for.         *)
PaneOf == [interfaces |-> "network", arp |-> "network", sessions |-> "traffic",
           clientDiagnosis |-> "traffic", resources |-> "overview"]
Views == DOMAIN PaneOf
Requires == {"clientDiagnosis"}
Unrouted == {"resources"}
Panes == {"overview", "network", "traffic", "settings"}
Default == [network |-> "interfaces", traffic |-> "sessions"]

Unread == [got |-> FALSE, of |-> Nobody, at |-> 0]
Failed == [Unread EXCEPT !.got = TRUE]
NoTargets == [rows |-> {}, active |-> Nobody]
NoForm == [edit |-> Nobody, ip |-> Nobody, tok |-> Nobody]   \* tok: whom the typed token is for

(* server.kept: who is selected has changed, and what was loaded stayed.    *)
Init ==
  /\ inTurn \in BOOLEAN
  /\ page = [pane |-> "overview", view |-> "resources", targets |-> NoTargets, select |-> Nobody,
             data |-> [k \in Views |-> Unread], shown |-> [k \in Views |-> Nobody], filled |-> FALSE,
             tiles |-> Nobody, tokens |-> {}, prev |-> NoForm,
             modal |-> FALSE, form |-> NoForm, table |-> {}, drawn |-> 0, tested |-> {}]
  /\ calls = NoCalls
  /\ server = [tok |-> [d \in Devices |-> d], active |-> Nobody, kills |-> [d \in Devices |-> 0],
               kept |-> FALSE, clicks |-> 0]

-----------------------------------------------------------------------------
MayClick ==
  /\ server.clicks < MaxClicks[inTurn] /\ (inTurn => Quiet)
  /\ \E i, j \in Free : i # j
Clicked == server' = [server EXCEPT !.clicks = @ + 1]
OnTab == MayClick /\ ~page.modal
InModal == MayClick /\ page.modal

(* renderFgtTargetSelect: the active one is selected, or the first.         *)
Selected(ts) ==
  IF ts.rows = {} THEN Nobody
  ELSE IF ts.active # Nobody THEN ts.active
  ELSE CHOOSE d \in ts.rows : \A e \in ts.rows : d <= e

(* loadFgtDataset of the target selected, as page p and calls cs become.    *)
Asking(p, k) == p.select # Nobody /\ (k \in Requires => p.filled)
Loading(p, k) == IF Asking(p, k) THEN p ELSE [p EXCEPT !.shown[k] = Nobody]
LoadCalls(p, cs, k) == IF Asking(p, k) THEN Begun(cs, Asks("dataset", [key |-> k, of |-> p.select])) ELSE cs

(* fgtPickView: what is remembered is drawn, and not loaded.                *)
Picked(p, k) ==
  LET q == [p EXCEPT !.view = k]
  IN  IF q.data[k].got THEN [q EXCEPT !.shown[k] = q.data[k].of] ELSE Loading(q, k)
PickCalls(p, cs, k) == IF p.data[k].got THEN cs ELSE LoadCalls(p, cs, k)

(* fgtSwitchView. *)
Switched(p, v) ==
  LET q == [p EXCEPT !.pane = v]
  IN  CASE v = "overview" -> [q EXCEPT !.view = "resources", !.tiles = IF q.select = Nobody THEN Nobody ELSE @]
        [] v = "settings" -> q
        [] OTHER -> Picked(q, Default[v])
SwitchCalls(p, cs, v) ==
  CASE v = "overview" -> IF p.select = Nobody THEN cs ELSE Begun(cs, Asks("status", p.select))
    [] v = "settings" -> Begun(Begun(cs, Asks("tokens", None)), Asks("targets", "settings"))
    [] OTHER -> PickCalls(p, cs, Default[v])

-----------------------------------------------------------------------------
OpenTab == OnTab /\ Starts(Asks("targets", "tab")) /\ Clicked /\ UNCHANGED page

(* Another target: what was loaded of the one before is forgotten.          *)
Forgotten(p) == [p EXCEPT !.data = [k \in Views |-> Unread]]

(* loadFgtTargets, and what its caller does then.  Only the tab and the     *)
(* list forget what was loaded; elsewhere it is kept, whoever is selected.  *)
TargetsLoaded(i) ==
  /\ Back(i, "targets") /\ Free # {}
  /\ LET ts == IF Answered(i) THEN Answer(i) ELSE NoTargets
         p == [page EXCEPT !.targets = ts, !.select = Selected(ts)]
         then == calls[i].arg
     IN  IF then \in {"tab", "select"}
         THEN /\ page' = Switched(Forgotten(p), p.pane)
              /\ calls' = SwitchCalls(Forgotten(p), Ended(i), p.pane)
              /\ server' = [server EXCEPT !.kept = FALSE]
         ELSE /\ page' = IF then = "modal" THEN [p EXCEPT !.table = ts.rows, !.drawn = 1 - @, !.tested = {}] ELSE p
              /\ Ends(i)
              /\ server' = [server EXCEPT !.kept = @ \/ p.select # page.select]

(* onFgtTargetSelectChange: the list has changed before the server knows.   *)
SelectTarget(d) ==
  /\ OnTab /\ d \in page.targets.rows \ {page.select}
  /\ page' = [page EXCEPT !.select = d]
  /\ Starts(Asks("active", [of |-> d, then |-> "select"]))
  /\ Clicked

(* activateFgtMgrTarget. *)
ActivateTarget(d) ==
  /\ InModal /\ d \in page.table
  /\ Starts(Asks("active", [of |-> d, then |-> "modal"]))
  /\ Clicked /\ UNCHANGED page

Activated(i) ==
  /\ Back(i, "active")
  /\ IF Answered(i) THEN GoesOn(i, Asks("targets", calls[i].arg.then)) ELSE Ends(i)
  /\ server' = [server EXCEPT !.kept = @ \/ (~Answered(i) /\ calls[i].arg.then = "select")]
  /\ UNCHANGED page

-----------------------------------------------------------------------------
SwitchView(v) ==
  /\ OnTab
  /\ page' = Switched(page, v)
  /\ calls' = SwitchCalls(page, calls, v)
  /\ Clicked

PickView(k) ==
  /\ OnTab /\ PaneOf[k] = page.pane /\ page.pane \in DOMAIN Default
  /\ page' = Picked(page, k)
  /\ calls' = PickCalls(page, calls, k)
  /\ Clicked

(* refreshFgtView, and the buttons that run the query of a form.            *)
Refresh(k) ==
  /\ OnTab /\ PaneOf[k] = page.pane /\ k = page.view
  /\ page' = Loading(page, k)
  /\ calls' = LoadCalls(page, calls, k)
  /\ Clicked

FillForm == OnTab /\ page' = [page EXCEPT !.filled = ~@] /\ Clicked /\ UNCHANGED calls

(* Remembered by the name of the view, whoever is selected by then.         *)
DatasetShown(i) ==
  /\ Back(i, "dataset")
  /\ LET k == calls[i].arg.key
         got == IF Answered(i) THEN Answer(i) ELSE Failed
     IN  page' = [page EXCEPT !.data[k] = got, !.shown[k] = got.of]
  /\ Ends(i)
  /\ UNCHANGED server

(* renderFgtOverview goes on to the resources of whoever is selected then.  *)
OverviewShown(i) ==
  /\ Back(i, "status")
  /\ LET p == [page EXCEPT !.tiles = IF Answered(i) THEN Answer(i) ELSE Nobody]
     IN  /\ page' = Loading(p, "resources")
         /\ calls' = LoadCalls(p, Ended(i), "resources")
  /\ UNCHANGED server

(* fgtKillSessions, with a filter; then the sessions that are left.         *)
KillSessions ==
  /\ OnTab /\ page.pane = "traffic" /\ page.view = "sessions" /\ page.select # Nobody
  /\ Starts(Asks("kill", page.select))
  /\ Clicked /\ UNCHANGED page

SessionsKilled(i) ==
  /\ Back(i, "kill")
  /\ IF Answered(i)
     THEN page' = Loading(page, "sessions") /\ calls' = LoadCalls(page, Ended(i), "sessions")
     ELSE UNCHANGED page /\ Ends(i)
  /\ UNCHANGED server

-----------------------------------------------------------------------------
(* The form among the settings: a token is saved, or taken away with its    *)
(* target; the table of the tokens is loaded, the list of the targets not.  *)
TypePrevToken(d) ==
  /\ OnTab /\ page.pane = "settings"
  /\ page' = [page EXCEPT !.prev = [NoForm EXCEPT !.ip = d, !.tok = d]]
  /\ Clicked /\ UNCHANGED calls

SavePrevToken(keep) ==
  /\ OnTab /\ page.pane = "settings" /\ page.prev.ip # Nobody
  /\ Starts(Asks("prevToken", [ip |-> page.prev.ip, tok |-> IF keep THEN page.prev.tok ELSE Nobody]))
  /\ Clicked /\ UNCHANGED page

PrevTokenSaved(i) ==
  /\ Back(i, "prevToken")
  /\ IF Answered(i)
     THEN page' = [page EXCEPT !.prev = NoForm] /\ GoesOn(i, Asks("tokens", None))
     ELSE UNCHANGED page /\ Ends(i)
  /\ UNCHANGED server

TokensShown(i) ==
  /\ Back(i, "tokens")
  /\ page' = [page EXCEPT !.tokens = IF Answered(i) THEN Answer(i) ELSE {}]
  /\ Ends(i)
  /\ UNCHANGED server

-----------------------------------------------------------------------------
(* The modal.  A saved form is the one that was read when it was saved; the *)
(* answer empties whatever stands in the form by then.                      *)
OpenManager ==
  /\ OnTab
  /\ page' = [page EXCEPT !.modal = TRUE, !.form = NoForm, !.table = page.targets.rows, !.drawn = 1 - @, !.tested = {}]
  /\ Clicked /\ UNCHANGED calls

CloseManager == InModal /\ page' = [page EXCEPT !.modal = FALSE] /\ Clicked /\ UNCHANGED calls

EditTarget(d) ==
  /\ InModal /\ d \in page.table \intersect page.targets.rows
  /\ page' = [page EXCEPT !.form = [edit |-> d, ip |-> d, tok |-> Nobody]]
  /\ Clicked /\ UNCHANGED calls

(* A token is typed for the device the form names, edited or new.           *)
TypeToken(d) ==
  /\ InModal /\ page.form.edit \in {Nobody, d}
  /\ page' = [page EXCEPT !.form.ip = d, !.form.tok = d]
  /\ Clicked /\ UNCHANGED calls

SaveTarget ==
  /\ InModal /\ page.form.ip # Nobody
  /\ page.form.edit = Nobody => page.form.tok # Nobody
  /\ Starts(Asks(IF page.form.edit = Nobody THEN "new" ELSE "put", page.form))
  /\ Clicked /\ UNCHANGED page

DeleteTarget(d) ==
  /\ InModal /\ d \in page.table
  /\ Starts(Asks("new", [NoForm EXCEPT !.ip = d]))
  /\ Clicked /\ UNCHANGED page

TargetSaved(i) ==
  /\ Back(i, "new") \/ Back(i, "put")
  /\ IF Answered(i)
     THEN page' = [page EXCEPT !.form = NoForm] /\ GoesOn(i, Asks("targets", "modal"))
     ELSE UNCHANGED page /\ Ends(i)
  /\ UNCHANGED server

(* testFgtMgrTarget writes into the row its button was in.                  *)
TestTarget(d) ==
  /\ InModal /\ d \in page.table
  /\ Starts(Asks("test", [of |-> d, drawn |-> page.drawn]))
  /\ Clicked /\ UNCHANGED page

Tested(i) ==
  /\ Back(i, "test")
  /\ page' = IF page.drawn = calls[i].arg.drawn THEN [page EXCEPT !.tested = @ \union {calls[i].arg.of}] ELSE page
  /\ Ends(i)
  /\ UNCHANGED server

-----------------------------------------------------------------------------
(* The server.  A target is its token; saved without one it keeps the one   *)
(* it has, posted without one it is deleted; whoever is active stays so.    *)
Saved == {d \in Devices : server.tok[d] # Nobody}

SetToken(d, tok) ==
  server' = [server EXCEPT !.tok[d] = tok, !.active = IF tok = Nobody /\ @ = d THEN Nobody ELSE @]

ServeRead(i) ==
  /\ \/ Sent(i, "targets") /\ Answers(i, [rows |-> Saved, active |-> server.active])
     \/ Sent(i, "tokens") /\ Answers(i, Saved)
     \/ Sent(i, "status") /\ (IF calls[i].arg \in Saved THEN Answers(i, calls[i].arg) ELSE Fails(i))
     \/ Sent(i, "test") /\ Answers(i, "ok")
  /\ UNCHANGED server

ServeDataset(i) ==
  /\ Sent(i, "dataset")
  /\ LET d == calls[i].arg.of
     IN  IF calls[i].arg.key \notin Unrouted /\ d \in Saved
         THEN Answers(i, [got |-> TRUE, of |-> d, at |-> server.kills[d]])
         ELSE Fails(i)
  /\ UNCHANGED server

ServeActive(i) ==
  /\ Sent(i, "active")
  /\ IF calls[i].arg.of \in Saved
     THEN Answers(i, "ok") /\ server' = [server EXCEPT !.active = calls[i].arg.of]
     ELSE Fails(i) /\ UNCHANGED server

ServeToken(i) ==
  /\ Sent(i, "prevToken") \/ Sent(i, "new")
  /\ Answers(i, "ok")
  /\ SetToken(calls[i].arg.ip, calls[i].arg.tok)

ServeUpdate(i) ==
  /\ Sent(i, "put")
  /\ LET d == calls[i].arg.edit
     IN  IF d \notin Saved THEN Fails(i) /\ UNCHANGED server
         ELSE /\ Answers(i, "ok")
              /\ SetToken(d, IF calls[i].arg.tok = Nobody THEN server.tok[d] ELSE calls[i].arg.tok)

ServeKill(i) ==
  /\ Sent(i, "kill")
  /\ IF calls[i].arg \in Saved
     THEN Answers(i, "ok") /\ server' = [server EXCEPT !.kills[calls[i].arg] = @ + 1]
     ELSE Fails(i) /\ UNCHANGED server

Serve(i) ==
  /\ ServeRead(i) \/ ServeDataset(i) \/ ServeActive(i) \/ ServeToken(i) \/ ServeUpdate(i) \/ ServeKill(i)
  /\ UNCHANGED page

Lose(i) == ~inTurn /\ calls[i].at = "sent" /\ Fails(i) /\ UNCHANGED <<page, server>>

Continue(i) ==
  \/ TargetsLoaded(i) \/ Activated(i) \/ DatasetShown(i) \/ OverviewShown(i) \/ SessionsKilled(i)
  \/ PrevTokenSaved(i) \/ TokensShown(i) \/ TargetSaved(i) \/ Tested(i)

Next ==
  /\ UNCHANGED inTurn
  /\ \/ OpenTab \/ FillForm \/ KillSessions \/ OpenManager \/ CloseManager \/ SaveTarget
     \/ \E v \in Panes : SwitchView(v)
     \/ \E k \in Views : PickView(k) \/ Refresh(k)
     \/ \E keep \in BOOLEAN : SavePrevToken(keep)
     \/ \E d \in Devices :
          \/ SelectTarget(d) \/ ActivateTarget(d) \/ TypePrevToken(d) \/ EditTarget(d) \/ TypeToken(d)
          \/ DeleteTarget(d) \/ TestTarget(d)
     \/ \E i \in Ids : Serve(i) \/ Lose(i) \/ Continue(i)

Fairness == \A i \in Ids : WF_vars(Serve(i)) /\ WF_vars(Continue(i))
Spec == Init /\ [][Next]_vars /\ Fairness

-----------------------------------------------------------------------------
TypeOK ==
  /\ page.pane \in Panes /\ page.view \in Views /\ page.select \in Somebody
  /\ page.tokens \subseteq Devices /\ page.table \subseteq Devices /\ page.tested \subseteq Devices
  /\ server.active \in Somebody

(***************************************************************************)
(* A token is only ever stored for the firewall it was typed for, however  *)
(* the two forms and the answers to them come in between.                  *)
(***************************************************************************)
TokenGoesHome == \A d \in Devices : server.tok[d] \in {d, Nobody}

(***************************************************************************)
(* To a user who waits: the list selects the target that is active, and    *)
(* what is remembered and shown was read of it, unless it changed in the   *)
(* modal or the settings, or to one that is gone, which keeps what was     *)
(* loaded; after a kill the sessions shown are those that are left; the    *)
(* table of the modal is the list.                                         *)
(***************************************************************************)
FirewallIsTrue ==
  Quiet =>
    /\ ~server.kept =>
         /\ page.select = Selected(page.targets)
         /\ \A k \in Views : page.data[k].of \in {page.select, Nobody}
         /\ page.pane = "overview" => page.tiles \in {page.select, Nobody}
    /\ page.pane \in DOMAIN Default => page.shown[page.view] \in {page.data[page.view].of, Nobody}
    /\ LET s == page.data["sessions"]
       IN  s.of # Nobody => s.at = server.kills[s.of]
    /\ page.modal => page.table = page.targets.rows /\ page.tested \subseteq page.table
=============================================================================
