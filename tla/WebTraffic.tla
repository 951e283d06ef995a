----------------------------- MODULE WebTraffic -----------------------------
(***************************************************************************)
(* The traffic tab (web/static/js/observability.js): one window for all of *)
(* its views, the table of flows, the events of syslog, the graph, and the *)
(* anomalies.  A timer refreshes the view that is open; a refresh of the   *)
(* table while another is under way is dropped.  Tenants are ticked off    *)
(* and flows are chosen in the page alone; what the assistant is to be     *)
(* sent with the next question is set here, and a note says so.            *)
(***************************************************************************)
EXTENDS Browser, FiniteSets

CONSTANTS
  Flows, Tenant(_), Source(_), Noise,    \* Noise: flows to the collectors
  Anoms, Of(_),                          \* anomalies, and the flow each is about
  Logs,                                  \* the tenants whose devices log
  MaxClicks                              \* bound on what the user and the traffic do, by whether he waits: [BOOLEAN -> Nat]

VARIABLES page, server
vars == <<page, calls, server, inTurn>>

All == "all"
Syslog == "syslog"
Sources == {Source(f) : f \in Flows} \union {All, Syslog}
Windows == {"short", "long"}
Views == {"overview", "flows", "anomalies"}
Statuses == {"new", "ack", "resolved"}
Tenants == {Tenant(f) : f \in Flows} \union Logs

(* What a request of the table carries; the graph is of its window and noise. *)
Scope(p) == [window |-> p.window, source |-> p.source, quiet |-> p.quiet]
Never == [window |-> None, source |-> None, quiet |-> FALSE]

Top(p) == Asks(IF p.source = Syslog THEN Syslog ELSE "top", Scope(p))
Anomalies(p) == Asks("anoms", [status |-> p.status, window |-> p.window])

Init ==
  /\ inTurn \in BOOLEAN
  /\ page = [view |-> "overview", window |-> "short", source |-> All, quiet |-> FALSE,
             rows |-> [of |-> Never, flows |-> {}], log |-> [of |-> Never, tenants |-> {}],
             table |-> Never, busy |-> TRUE, graph |-> Never, graphBusy |-> FALSE,
             tenants |-> {}, sel |-> {}, all |-> TRUE, keys |-> {}, panel |-> None, map |-> None,
             status |-> "new", filter |-> None, anoms |-> [of |-> <<>>, is |-> <<>>],
             attach |-> None, note |-> None]
  /\ calls = Begun(NoCalls, Top([window |-> "short", source |-> All, quiet |-> FALSE]))
  /\ server = [live |-> Flows, status |-> [a \in Anoms |-> "new"], clicks |-> 0]

-----------------------------------------------------------------------------
MayAct == server.clicks < MaxClicks[inTurn] /\ (inTurn => Quiet)
MayClick == MayAct /\ Free # {}
Clicked == server' = [server EXCEPT !.clicks = @ + 1]

(* loadTopTalkers, dropped when one is under way; TRAF_LOADERS of the view. *)
LoadTop(p) ==
  IF p.busy THEN page' = p /\ UNCHANGED calls
  ELSE page' = [p EXCEPT !.busy = TRUE] /\ Starts(Top(p))

Load(p) ==
  IF p.view = "anomalies" THEN page' = p /\ Starts(Anomalies(p)) ELSE LoadTop(p)

SwitchView(v) == MayClick /\ Load([page EXCEPT !.view = v]) /\ Clicked
SetWindow(w) == MayClick /\ Load([page EXCEPT !.window = w]) /\ Clicked
SetSource(s) == MayClick /\ page.view = "flows" /\ LoadTop([page EXCEPT !.source = s]) /\ Clicked
HideNoise == MayClick /\ LoadTop([page EXCEPT !.quiet = ~@]) /\ Clicked

(* The timer, and the return to the page. *)
Refresh == MayClick /\ Load(page) /\ Clicked

-----------------------------------------------------------------------------
(* rebuildFlowsTenantList: what was ticked stays, new ones if all are.      *)
Rebuilt(p, ts) ==
  LET sel == IF p.all THEN ts ELSE p.sel \intersect ts
  IN  [p EXCEPT !.tenants = ts, !.sel = sel, !.all = ts # {} /\ sel = ts]

(* renderFlowsTable, which forgets the choice of flows that are gone.       *)
Rendered(p) ==
  IF p.source = Syslog THEN [p EXCEPT !.table = p.log.of]
  ELSE [p EXCEPT !.table = p.rows.of, !.keys = @ \intersect p.rows.flows]

(* The table is drawn, and the graph of its window is asked for.            *)
TableShown(i, p, window) ==
  /\ IF p.graphBusy THEN Ends(i)
     ELSE GoesOn(i, Asks("graph", [window |-> window, source |-> None, quiet |-> p.quiet]))
  /\ page' = [Rendered(p) EXCEPT !.busy = FALSE, !.graphBusy = TRUE]

(* Fault: it still counts as busy. *)
TableFailsBusy(i) ==
  /\ \E t \in {page.table, Never} : page' = [page EXCEPT !.table = t]
  /\ Ends(i)

(* An error is shown in the table, unless there was no answer at all.       *)
TableFails(i) ==
  /\ \E t \in {page.table, Never} : page' = [page EXCEPT !.busy = FALSE, !.table = t]
  /\ Ends(i)

TenantsOf(fs) == {Tenant(f) : f \in fs}

TopBack(i) ==
  /\ Back(i, "top")
  /\ LET a == calls[i].arg
         p == [page EXCEPT !.rows = [of |-> a, flows |-> Answer(i)]]
     IN  CASE ~Answered(i) -> TableFails(i)
           [] Answered(i) /\ page.source = All ->
                page' = p /\ GoesOn(i, Asks("logs", a))
           [] OTHER -> TableShown(i, Rebuilt(p, TenantsOf(Answer(i))), a.window)
  /\ UNCHANGED server

(* Of all sources, the events of syslog are shown below the table.          *)
LogsBack(i) ==
  /\ Back(i, "logs")
  /\ LET a == calls[i].arg
         log == IF Answered(i) THEN Answer(i) ELSE {}
         ts == TenantsOf(page.rows.flows) \union (IF page.source = All THEN log ELSE {})
     IN  TableShown(i, Rebuilt([page EXCEPT !.log = [of |-> a, tenants |-> log]], ts), a.window)
  /\ UNCHANGED server

SyslogBack(i) ==
  /\ Back(i, Syslog)
  /\ IF ~Answered(i) THEN TableFails(i)
     ELSE /\ LET p == [page EXCEPT !.log = [of |-> calls[i].arg, tenants |-> Answer(i)]]
             IN  page' = [Rebuilt(p, Answer(i)) EXCEPT !.busy = FALSE, !.table = calls[i].arg]
          /\ Ends(i)
  /\ UNCHANGED server

GraphBack(i) ==
  /\ Back(i, "graph")
  /\ page' = [page EXCEPT !.graphBusy = FALSE, !.graph = IF Answered(i) THEN calls[i].arg ELSE @]
  /\ Ends(i)
  /\ UNCHANGED server

-----------------------------------------------------------------------------
(* updateFlowsTenantSelection and toggleTrafTenantAll. *)
TickTenant(t) ==
  /\ MayAct /\ t \in page.tenants
  /\ LET sel == IF t \in page.sel THEN page.sel \ {t} ELSE page.sel \union {t}
     IN  page' = Rendered([page EXCEPT !.sel = sel, !.all = sel = page.tenants])
  /\ Clicked /\ UNCHANGED calls

TickAllTenants ==
  /\ MayAct
  /\ page' = Rendered([page EXCEPT !.all = ~@, !.sel = IF page.all THEN {} ELSE page.tenants])
  /\ Clicked /\ UNCHANGED calls

Visible == IF page.source = Syslog THEN {} ELSE {f \in page.rows.flows : Tenant(f) \in page.sel}

ChooseFlow(f) ==
  /\ MayAct /\ f \in Visible
  /\ page' = [page EXCEPT !.keys = IF f \in @ THEN @ \ {f} ELSE @ \union {f}]
  /\ Clicked /\ UNCHANGED calls

(* openFlowDetailPanel, and where its client is. *)
OpenPanel(f) ==
  /\ MayClick /\ f \in Visible
  /\ page' = [page EXCEPT !.panel = f, !.map = None]
  /\ Starts(Asks("client", f))
  /\ Clicked

ClosePanel ==
  /\ MayAct /\ page.panel # None
  /\ page' = [page EXCEPT !.panel = None]
  /\ Clicked /\ UNCHANGED calls

ClientShown(i) ==
  /\ Back(i, "client")
  /\ page' = [page EXCEPT !.map = calls[i].arg]
  /\ Ends(i)
  /\ UNCHANGED server

(* _prepareFlowAiChat: what is chosen, or of no choice the top of all; the  *)
(* note names it once the provider is known.                                *)
Attach(p, what) ==
  /\ page' = [p EXCEPT !.attach = what]
  /\ Starts(Asks("profiles", what))
  /\ Clicked

Chosen == page.keys \intersect page.rows.flows
Analyze == MayClick /\ Attach(page, IF Chosen = {} THEN All ELSE Cardinality(Chosen))
AnalyzeOne == MayClick /\ page.panel # None /\ Attach([page EXCEPT !.panel = None], 1)

Noted(i) ==
  /\ Back(i, "profiles")
  /\ page' = [page EXCEPT !.note = calls[i].arg]
  /\ Ends(i)
  /\ UNCHANGED server

-----------------------------------------------------------------------------
(* loadAnomalies: the filter that is set when the answer comes. *)
AnomsBack(i) ==
  /\ Back(i, "anoms")
  /\ page' = IF ~Answered(i) THEN page
             ELSE LET s == Answer(i)
                      shown == {a \in DOMAIN s : page.filter \in {None, Of(a)}}
                  IN  [page EXCEPT !.anoms = [of |-> <<calls[i].arg, page.filter>>, is |-> [a \in shown |-> s[a]]]]
  /\ Ends(i)
  /\ UNCHANGED server

LoadAnomalies(p) == page' = p /\ Starts(Anomalies(p)) /\ Clicked
SetStatus(s) == MayClick /\ page.view = "anomalies" /\ LoadAnomalies([page EXCEPT !.status = s])
ClearFilter == MayClick /\ page.filter # None /\ LoadAnomalies([page EXCEPT !.filter = None])
JumpToAnomalies ==
  /\ MayClick /\ page.panel # None
  /\ LoadAnomalies([page EXCEPT !.filter = page.panel, !.panel = None, !.status = All])

(* anomTransition: from the status that is shown. *)
Transition(a, s) ==
  /\ MayClick /\ page.view = "anomalies" /\ a \in DOMAIN page.anoms.is
  /\ <<page.anoms.is[a], s>> \in {<<"new", "ack">>, <<"new", "resolved">>, <<"ack", "resolved">>}
  /\ Starts(Asks("move", [id |-> a, from |-> page.anoms.is[a], to |-> s]))
  /\ Clicked /\ UNCHANGED page

(* Done, or refused because another was first: the list is read again.      *)
Transitioned(i) ==
  /\ Back(i, "move")
  /\ IF Answered(i) THEN GoesOn(i, Anomalies(page)) ELSE Ends(i)
  /\ UNCHANGED <<page, server>>

-----------------------------------------------------------------------------
FlowsIn(a) ==
  {f \in IF a.window = "short" THEN server.live ELSE Flows :
     a.source \in {All, Source(f)} /\ (a.quiet => f \notin Noise)}

WithStatus(s) == {a \in Anoms : s \in {All, server.status[a]}}

ServeRead(i) ==
  /\ \/ Sent(i, "top") /\ Answers(i, FlowsIn(calls[i].arg))
     \/ (Sent(i, "logs") \/ Sent(i, Syslog)) /\ Answers(i, Logs)
     \/ Sent(i, "anoms") /\ Answers(i, [a \in WithStatus(calls[i].arg.status) |-> server.status[a]])
     \/ (Sent(i, "graph") \/ Sent(i, "client") \/ Sent(i, "profiles")) /\ Answers(i, "ok")
  /\ UNCHANGED <<page, server>>

(* A change of status is from what it is now, or it is a conflict. *)
ServeMove(i) ==
  /\ Sent(i, "move")
  /\ LET a == calls[i].arg
     IN  server' = IF server.status[a.id] = a.from THEN [server EXCEPT !.status[a.id] = a.to] ELSE server
  /\ Answers(i, "ok")
  /\ UNCHANGED page

(* Traffic comes and goes. *)
Flow(f) ==
  /\ MayAct
  /\ server' = [server EXCEPT !.clicks = @ + 1, !.live = IF f \in @ THEN @ \ {f} ELSE @ \union {f}]
  /\ UNCHANGED <<page, calls>>

Lose(i) == ~inTurn /\ calls[i].at = "sent" /\ Fails(i) /\ UNCHANGED <<page, server>>

Serve(i) == ServeRead(i) \/ ServeMove(i)
Continue(i) ==
  \/ TopBack(i) \/ LogsBack(i) \/ SyslogBack(i) \/ GraphBack(i) \/ ClientShown(i)
  \/ Noted(i) \/ AnomsBack(i) \/ Transitioned(i)

Next ==
  /\ UNCHANGED inTurn
  /\ \/ \E v \in Views : SwitchView(v)
     \/ \E w \in Windows : SetWindow(w)
     \/ \E s \in Sources : SetSource(s)
     \/ HideNoise \/ Refresh \/ TickAllTenants \/ ClosePanel \/ Analyze \/ AnalyzeOne
     \/ \E t \in Tenants : TickTenant(t)
     \/ \E f \in Flows : ChooseFlow(f) \/ OpenPanel(f) \/ Flow(f)
     \/ ClearFilter \/ JumpToAnomalies
     \/ \E s \in Statuses : SetStatus(s) \/ \E a \in Anoms : Transition(a, s)
     \/ \E i \in Ids : Serve(i) \/ Lose(i) \/ Continue(i)

Fairness == \A i \in Ids : WF_vars(Serve(i)) /\ WF_vars(Continue(i))
Spec == Init /\ [][Next]_vars /\ Fairness

-----------------------------------------------------------------------------
TypeOK ==
  /\ page.window \in Windows /\ page.view \in Views /\ page.source \in Sources
  /\ page.sel \subseteq page.tenants /\ page.tenants \subseteq Tenants
  /\ page.keys \subseteq Flows /\ page.panel \in Flows \union {None}

(***************************************************************************)
(* A refresh is held off only while one is under way, so that no failed    *)
(* request stops the tab for good; and all tenants are shown as ticked     *)
(* only when they are.                                                     *)
(***************************************************************************)
RefreshIsNotStuck ==
  /\ page.busy = (InProgress({"top", "logs", Syslog}) # {})
  /\ page.graphBusy = (InProgress({"graph"}) # {})
  /\ page.all => page.sel = page.tenants

(* The overview is of the window that is chosen above it. *)
OverviewIsOfTheWindow == Quiet /\ page.view = "overview" => page.graph.window = page.window

(***************************************************************************)
(* To a user who waits: every view is of the one window (the overview if   *)
(* it is not syslog that the flows are of), the anomalies are those of the *)
(* filter and have the status they have, the panel's client is that of its *)
(* flow, and the note tells what the assistant is sent.                    *)
(***************************************************************************)
TrafficIsTrue ==
  Quiet =>
    /\ page.source # Syslog => OverviewIsOfTheWindow
    /\ page.view = "flows" => page.table = Scope(page)
    /\ page.view = "anomalies" =>
         /\ page.anoms.of = <<[status |-> page.status, window |-> page.window], page.filter>>
         /\ \A a \in DOMAIN page.anoms.is : page.anoms.is[a] = server.status[a]
    /\ page.panel # None => page.map = page.panel
    /\ page.note = page.attach
=============================================================================
