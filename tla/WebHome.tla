------------------------------- MODULE WebHome -------------------------------
(***************************************************************************)
(* Tabs and home of the web interface (web/static/js/core.js, home.js):    *)
(* scripts of a tab are loaded at its first visit, home shows the state of *)
(* all devices and, while the ping monitor runs, is refreshed by a timer.  *)
(* What the page does with a status null or unknown and with               *)
(* icmp_reachable is left out: this server sends none of them.             *)
(***************************************************************************)
EXTENDS Browser, FiniteSets

CONSTANTS
  Devices,
  Tenant,       \* [Devices -> tenant]
  Jump,         \* devices behind a bastion, which no ping reaches
  Tabs,         \* with "home"
  Scripts,      \* [Tabs -> set of scripts loaded at the first visit]
  MaxBays,      \* tenants shown before the rest is summed up
  MaxEvents     \* bound on clicks, ticks and changes, by whether users wait: [BOOLEAN -> Nat]

VARIABLES page, server
vars == <<page, calls, server, inTurn>>

Home == "home"
Statuses == {None, "online", "offline"}
Tenants == {Tenant[d] : d \in Devices}

(* A timer that never started, and a call that waits for scripts of a tab. *)
NoTimer == 0
Waits(t, scripts) == [Asks("scripts", [tab |-> t, wait |-> scripts])
                        EXCEPT !.at = IF scripts = {} THEN "back" ELSE "sent"]

-----------------------------------------------------------------------------
(* renderFleetOneline: a bay per tenant, its state from those of its devices. *)
Count(vs, ds, st) == Cardinality({d \in ds : vs[d] = st})

BayState(vs, ds) ==
  LET total == Cardinality(ds)
      n(st) == Count(vs, ds, st)
  IN  IF n(None) = total THEN "idle"
      ELSE IF n("offline") = total THEN "down"
      ELSE IF n("offline") > 0 THEN "warn" ELSE "up"

Of(t) == {d \in Devices : Tenant[d] = t}
OfAll(ts) == UNION {Of(t) : t \in ts}

(* The largest tenants have bays of their own. *)
Large ==
  CHOOSE ts \in SUBSET Tenants :
    /\ Cardinality(ts) = IF MaxBays < Cardinality(Tenants) THEN MaxBays ELSE Cardinality(Tenants)
    /\ \A t \in ts, u \in Tenants \ ts : Cardinality(Of(t)) >= Cardinality(Of(u))

Bays(vs) == [t \in Large |-> BayState(vs, Of(t))]
Rest(vs) == IF Tenants = Large THEN None ELSE BayState(vs, OfAll(Tenants \ Large))

(* The counters: what is not online is to be looked at, never measured or not. *)
Rendered(vs) ==
  LET online == {d \in Devices : vs[d] = "online"}
  IN  [online |-> online, attention |-> Devices \ online, bays |-> Bays(vs), rest |-> Rest(vs)]

-----------------------------------------------------------------------------
(***************************************************************************)
(* The monitor's answer, up or not, of the devices that it has tried: none *)
(* before its first cycle, which at this commit nothing starts.            *)
(***************************************************************************)
Monitor == [d \in IF server.cycled THEN Devices ELSE {} |-> server.up[d]]

Merged(vs, pm) ==
  [d \in Devices |-> IF d \notin DOMAIN pm THEN vs[d] ELSE IF pm[d] THEN "online" ELSE "offline"]

Init ==
  /\ inTurn \in BOOLEAN
  /\ \E monitor, cycled, cached \in BOOLEAN, triage \in [Devices -> Statuses] :
       /\ server = [up |-> [d \in Devices |-> d \notin Jump], monitor |-> monitor, cycled |-> cycled,
                    turned |-> FALSE, triage |-> triage, events |-> 0]
       /\ page = [tab |-> Home, cached |-> cached, timer |-> NoTimer, timers |-> {},
                  versions |-> IF cached THEN triage ELSE [d \in Devices |-> None],
                  shown |-> <<>>, loaded |-> {}, loading |-> {}, began |-> {Home}]
  /\ calls = NoCalls

(* loadHome: the devices if there are none yet, then the state of the monitor. *)
Cleared(p) == [p EXCEPT !.timers = @ \ {p.timer}, !.timer = NoTimer]
HomeCall(p) == Asks(IF p.cached THEN "ping" ELSE "devices", <<>>)

Armed(p) ==
  LET n == CHOOSE n \in 1..MaxCalls + 1 : n \notin p.timers
  IN  [p EXCEPT !.timers = @ \union {n}, !.timer = n]

GotDevices(i) ==
  /\ Back(i, "devices")
  /\ page' = IF Answered(i) THEN [page EXCEPT !.cached = TRUE, !.versions = Answer(i)] ELSE page
  /\ GoesOn(i, Asks("ping", <<>>))
  /\ UNCHANGED server

GotPing(i) ==
  /\ Back(i, "ping")
  /\ Cardinality(page.timers) <= MaxCalls
  /\ LET p == IF Answered(i) /\ Answer(i).enabled /\ DOMAIN Answer(i).devices # {}
              THEN Armed([page EXCEPT !.versions = Merged(@, Answer(i).devices)])
              ELSE page
     IN  page' = [p EXCEPT !.shown = <<Rendered(p.versions)>>]
  /\ Ends(i)
  /\ UNCHANGED server

-----------------------------------------------------------------------------
MayAct == server.events < MaxEvents[inTurn] /\ (inTurn => Quiet)
Acts == server' = [server EXCEPT !.events = @ + 1]

(* A timer that was replaced but not cleared ticks too. *)
Tick(n) ==
  /\ MayAct /\ n \in page.timers
  /\ page' = Cleared(page)
  /\ Starts(HomeCall(page)) /\ Acts

(* switchTab, up to the await for the scripts of the tab. *)
Click(t) ==
  /\ MayAct
  /\ LET missing == Scripts[t] \ page.loaded
     IN  /\ Starts(Waits(t, missing))
         /\ page' = [page EXCEPT !.loading = @ \union missing]
  /\ Acts

(* A script comes or fails for all the tabs that wait for it. *)
ScriptComes(s) ==
  /\ s \in page.loading
  /\ page' = [page EXCEPT !.loaded = @ \union {s}, !.loading = @ \ {s}]
  /\ calls' = [i \in Ids |->
                 IF Sent(i, "scripts") THEN Waits(calls[i].arg.tab, calls[i].arg.wait \ {s})
                 ELSE calls[i]]
  /\ UNCHANGED server

ScriptFails(s) ==
  /\ ~inTurn /\ s \in page.loading
  /\ page' = [page EXCEPT !.loading = @ \ {s}]
  /\ calls' = [i \in Ids |->
                 IF Sent(i, "scripts") /\ s \in calls[i].arg.wait
                 THEN [calls[i] EXCEPT !.at = "back"] ELSE calls[i]]
  /\ UNCHANGED server

(* Fault: the timer of the page that was shown goes on. *)
SwitchKeepingTimer(i) ==
  /\ Back(i, "scripts")
  /\ LET t == calls[i].arg.tab
         p == [page EXCEPT !.tab = t, !.began = @ \union {t}]
     IN  /\ page' = p
         /\ IF t = Home THEN GoesOn(i, HomeCall(p)) ELSE Ends(i)
  /\ UNCHANGED server

(* switchTab after it: a tab is shown and begins, with or without scripts. *)
Switch(i) ==
  /\ Back(i, "scripts")
  /\ LET t == calls[i].arg.tab
         p == [Cleared(page) EXCEPT !.tab = t, !.began = @ \union {t}]
     IN  /\ page' = p
         /\ IF t = Home THEN GoesOn(i, HomeCall(p)) ELSE Ends(i)
  /\ UNCHANGED server

-----------------------------------------------------------------------------
ServeDevices(i) ==
  Sent(i, "devices") /\ Answers(i, server.triage) /\ UNCHANGED <<page, server>>

ServePing(i) ==
  /\ Sent(i, "ping")
  /\ Answers(i, [enabled |-> server.monitor, devices |-> Monitor])
  /\ server' = [server EXCEPT !.turned = FALSE]
  /\ UNCHANGED page

Lose(i) ==
  /\ ~inTurn /\ (Sent(i, "devices") \/ Sent(i, "ping"))
  /\ Fails(i)
  /\ UNCHANGED <<page, server>>

(* A device goes down or comes back. *)
Turn(d) ==
  /\ server.events < MaxEvents[inTurn] /\ d \notin Jump
  /\ server' = [server EXCEPT !.up[d] = ~@, !.turned = TRUE, !.events = @ + 1]
  /\ UNCHANGED <<page, calls>>

Serve(i) == ServeDevices(i) \/ ServePing(i)
Continue(i) == GotDevices(i) \/ GotPing(i) \/ Switch(i)

Next ==
  /\ UNCHANGED inTurn
  /\ \/ \E i \in Ids : Serve(i) \/ Lose(i) \/ Continue(i)
     \/ \E n \in page.timers : Tick(n)
     \/ \E t \in Tabs : Click(t)
     \/ \E s \in page.loading : ScriptComes(s) \/ ScriptFails(s)
     \/ \E d \in Devices : Turn(d)

-----------------------------------------------------------------------------
TypeOK ==
  /\ page.tab \in Tabs /\ page.cached \in BOOLEAN /\ page.versions \in [Devices -> Statuses]
  /\ page.timer \in page.timers \union {NoTimer}
  /\ page.loaded \intersect page.loading = {}

(* Scripts waited for are on their way: no tab waits for ever. *)
AwaitedIsLoading ==
  \A i \in Ids : Sent(i, "scripts") => calls[i].arg.wait \subseteq page.loading

(***************************************************************************)
(* Home is refreshed while it is shown and a monitor runs that has a cycle *)
(* behind it, by one timer; a hidden home is not, nor one of a monitor     *)
(* that has tried no device yet.                                           *)
(***************************************************************************)
Monitored == server.monitor /\ server.cycled
RefreshedWhenShown ==
  Quiet /\ page.shown # <<>> =>
    page.timers = IF page.tab = Home /\ Monitored THEN {page.timer} ELSE {}

(***************************************************************************)
(* For users who wait, home shows of every device what the monitor said    *)
(* last, or, of a monitor that is off or has said nothing, what was stored *)
(* of it.  So a device behind a bastion, which no ping reaches, is shown   *)
(* as down whatever its triage found (home.js says that it is not).        *)
(***************************************************************************)
ShownIsMeasured ==
  Quiet /\ page.shown # <<>> /\ ~server.turned =>
    page.shown[1] = Rendered(IF Monitored THEN Merged(server.triage, Monitor) ELSE server.triage)
=============================================================================
