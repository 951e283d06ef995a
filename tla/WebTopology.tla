----------------------------- MODULE WebTopology -----------------------------
(***************************************************************************)
(* The map of the network (web/static/js/topology.js, its first half): the *)
(* two views that share data and filters, the state of each device from    *)
(* the ping monitor, what the user arranges on the map and the browser     *)
(* keeps, the exports, the reset, and the report of aggregated links.      *)
(***************************************************************************)
EXTENDS Browser, Sequences

CONSTANTS
  Managed, Found,   \* devices of the inventory, and those neighbours announce
  Jump,             \* managed devices behind a bastion, which no ping reaches
  TriState,         \* the server says what a ping cannot measure; ours does not
  Tenant,           \* [Managed \union Found -> tenant]
  Links,            \* cables of the map, by a key that outlives its drawing
  LinkCats,         \* names of categories the user gives to cables
  MaxClicks         \* bound on what the user does, by whether he waits: [BOOLEAN -> Nat]

VARIABLES page, server
vars == <<page, calls, server, inTurn>>

Nodes == Managed \union Found
Groups == {Tenant[n] : n \in Nodes} \union {"all"}
Views == {"classic", "minimal"}
Unknown == "unknown"
NoMap == [of |-> None, view |-> None, nodes |-> {}, status |-> <<>>]

(* What the browser keeps beyond the page is part of the page here. *)
Init ==
  /\ inTurn \in BOOLEAN
  /\ page = [group |-> "all", discovered |-> FALSE, view |-> "classic", hidden |-> {}, states |-> <<>>,
             map |-> NoMap, report |-> None, size |-> "page",
             cats |-> {}, assigned |-> [e \in {} |-> None], menu |-> <<>>,
             pills |-> {}, drag |-> None, stored |-> {}, file |-> <<>>]
  /\ calls = Begun(NoCalls, Asks("status", [group |-> "all", next |-> None]))
  /\ \E saved \in [Managed -> {"online", "offline"}] :
       server = [up |-> [d \in Managed |-> d \notin Jump], saved |-> saved, topology |-> TRUE, clicks |-> 0]

-----------------------------------------------------------------------------
MayClick == server.clicks < MaxClicks[inTurn] /\ (inTurn => Quiet)
Clicked == server' = [server EXCEPT !.clicks = @ + 1]

(* loadInteractiveMap: the tenant is that of the moment it is called. *)
LoadMap(p) == Starts(Asks("status", [group |-> p.group, next |-> None]))

(* Everything the user changes about the map draws it again. *)
Redraws(p) == MayClick /\ page' = p /\ LoadMap(p) /\ Clicked

ChooseGroup(g) == g # page.group /\ Redraws([page EXCEPT !.group = g])
ToggleDiscovered == Redraws([page EXCEPT !.discovered = ~@])
SetView(v) == v # page.view /\ Redraws([page EXCEPT !.view = v])

(* toggleDeviceFilter: hidden for the tenant whose devices were listed. *)
ToggleHidden(n) ==
  /\ page.map.of # None
  /\ LET h == <<page.map.of, n>>
     IN  Redraws([page EXCEPT !.hidden = IF h \in @ THEN @ \ {h} ELSE @ \union {h}])

(* The monitor's states first, where it has any; then the map itself. *)
Monitored(i) ==
  /\ Back(i, "status")
  /\ page' = IF Answered(i) THEN [page EXCEPT !.states = Answer(i)] ELSE page
  /\ GoesOn(i, [calls[i] EXCEPT !.fn = "map", !.at = "sent", !.got = <<>>])
  /\ UNCHANGED server

(* The filters and the view are those of now; a node has the state that the *)
(* monitor knows or, for want of one, the one that came with the map.       *)
Visible(p, g, n) == (n \in Found => p.discovered) /\ <<g, n>> \notin p.hidden
StateOf(states, came, n) ==
  IF n \in DOMAIN states /\ states[n] # Unknown THEN states[n] ELSE came[n]

Drawn(i) ==
  /\ Back(i, "map")
  /\ IF ~Answered(i) THEN UNCHANGED page /\ Ends(i)
     ELSE LET g == calls[i].arg.group
              came == Answer(i)
              ns == {n \in DOMAIN came : Visible(page, g, n)}
          IN  /\ page' = [page EXCEPT !.map = [of |-> g, view |-> page.view, nodes |-> ns,
                                               status |-> [n \in ns |-> StateOf(page.states, came, n)]]]
              /\ Ends(i)
  /\ UNCHANGED server

(* updateTopologyMapNodeStatus: a ping from the inventory found d so. *)
Pinged(d) ==
  /\ MayClick
  /\ LET st == IF server.up[d] THEN "online" ELSE "offline" IN
     page' = [page EXCEPT !.states = [n \in DOMAIN @ \union {d} |-> IF n = d THEN st ELSE @[n]],
                          !.map.status = [n \in DOMAIN @ |-> IF n = d THEN st ELSE @[n]]]
  /\ Clicked /\ UNCHANGED calls

-----------------------------------------------------------------------------
(* The report of aggregated links, of the tenant asked for. *)
AskReport(g) == MayClick /\ Starts(Asks("report", [group |-> g])) /\ Clicked /\ UNCHANGED page
ReportShown(i) ==
  /\ Back(i, "report")
  /\ page' = [page EXCEPT !.report = IF Answered(i) THEN calls[i].arg.group ELSE None]
  /\ Ends(i)
  /\ UNCHANGED server

(* resetTopology: the map goes at once; inventory, report and map follow,   *)
(* and the map is of the tenant that is chosen when its turn comes.         *)
Reset == MayClick /\ Starts(Asks("reset", <<>>)) /\ Clicked /\ UNCHANGED page
ResetDone(i) ==
  /\ Back(i, "reset")
  /\ IF Answered(i)
     THEN page' = [page EXCEPT !.map = NoMap] /\ GoesOn(i, Asks("inventory", <<>>))
     ELSE UNCHANGED page /\ Ends(i)
  /\ UNCHANGED server

(* appInit has the states of the store; loadTopology is not waited for. *)
Reloaded(i) ==
  /\ Back(i, "inventory") /\ Free # {}
  /\ page' = IF Answered(i) THEN [page EXCEPT !.states = Answer(i)] ELSE page
  /\ calls' = Begun(Moved(i, Asks("status", [group |-> page.group, next |-> None])),
                    Asks("report", [group |-> page.group]))
  /\ UNCHANGED server

-----------------------------------------------------------------------------
(* exportVisioMap: the overlay if the minimal view is chosen and drawn.     *)
Export ==
  /\ MayClick /\ page.map # NoMap
  /\ LET overlay == page.view = "minimal" /\ page.map.view = "minimal"
     IN  Starts(Asks("vsdx", [overlay |-> overlay, drawn |-> page.map.view = "minimal"]))
  /\ Clicked /\ UNCHANGED page

Exported(i) ==
  /\ Back(i, "vsdx")
  /\ page' = IF Answered(i) THEN [page EXCEPT !.file = <<calls[i].arg>>] ELSE page
  /\ Ends(i)
  /\ UNCHANGED server

(* captureMapCanvas: the map is large for two frames and then as it was.    *)
Capture ==
  /\ MayClick /\ page.map # NoMap /\ Free # {}
  /\ calls' = Begun(calls, [fn |-> "frames", at |-> "back", arg |-> [was |-> page.size], got |-> <<>>])
  /\ page' = [page EXCEPT !.size = "large"]
  /\ Clicked

Captured(i) ==
  /\ Back(i, "frames")
  /\ page' = [page EXCEPT !.size = calls[i].arg.was]
  /\ Ends(i)
  /\ UNCHANGED server

-----------------------------------------------------------------------------
(* Categories of cables: showEdgeCatMenu lists those there are; any click   *)
(* elsewhere closes it.                                                     *)
Closed(p) == [p EXCEPT !.menu = <<>>]

AddLinkCat(c) == Redraws(Closed([page EXCEPT !.cats = @ \union {c}]))

(* Fault: the cables keep it. *)
DeleteLinkCatOnly(c) ==
  /\ c \in page.cats
  /\ Redraws(Closed([page EXCEPT !.cats = @ \ {c}]))

DeleteLinkCat(c) ==
  /\ c \in page.cats
  /\ LET left == {e \in DOMAIN page.assigned : page.assigned[e] # c}
     IN  Redraws(Closed([page EXCEPT !.cats = @ \ {c}, !.assigned = [e \in left |-> @[e]]]))

OpenMenu(e) ==
  /\ MayClick /\ page.map.view = "minimal" /\ page.view = "minimal"
  /\ page' = [page EXCEPT !.menu = <<e, page.cats>>]
  /\ Clicked /\ UNCHANGED calls

Assign(c) ==
  /\ MayClick /\ page.menu # <<>> /\ c \in page.menu[2] \union {None}
  /\ LET e == page.menu[1]
         es == IF c = None THEN DOMAIN page.assigned \ {e} ELSE DOMAIN page.assigned \union {e}
     IN  page' = Closed([page EXCEPT !.assigned = [x \in es |-> IF x = e THEN c ELSE @[x]]])
  /\ Clicked /\ UNCHANGED calls

(* initPillInteraction: a pill is dragged, and where it is left is kept.    *)
Grab(e) ==
  /\ MayClick /\ page.map.view = "minimal" /\ page.view = "minimal" /\ page.drag = None
  /\ page' = Closed([page EXCEPT !.drag = e])
  /\ Clicked /\ UNCHANGED calls

Drag ==
  /\ page.drag # None /\ page.drag \notin page.pills /\ page.map # NoMap
  /\ page' = [page EXCEPT !.pills = @ \union {page.drag}]
  /\ UNCHANGED <<calls, server>>

Release ==
  /\ page.drag # None
  /\ page' = [page EXCEPT !.drag = None, !.stored = page.pills]
  /\ UNCHANGED <<calls, server>>

-----------------------------------------------------------------------------
(* buildGraph: the managed devices of the tenant, as the store has them,    *)
(* and what their neighbours announced, if that is still there.             *)
MapOf(g) ==
  LET ns == {n \in Nodes : (g = "all" \/ Tenant[n] = g) /\ (n \in Found => server.topology)}
  IN  [n \in ns |-> IF n \in Found THEN "discovered" ELSE server.saved[n]]

(* The monitor: what does not answer a ping is down, or unknown. *)
StatusNow == [d \in Managed |-> IF TriState /\ d \in Jump THEN Unknown ELSE IF server.up[d] THEN "online" ELSE "offline"]

ServeRead(i) ==
  /\ \/ Sent(i, "status") /\ Answers(i, StatusNow)
     \/ Sent(i, "map") /\ Answers(i, MapOf(calls[i].arg.group))
     \/ Sent(i, "inventory") /\ Answers(i, server.saved)
     \/ Sent(i, "report") /\ Answers(i, "ok")
     \/ Sent(i, "vsdx") /\ Answers(i, "ok")
  /\ UNCHANGED <<page, server>>

ServeReset(i) ==
  /\ Sent(i, "reset")
  /\ server' = [server EXCEPT !.topology = FALSE]
  /\ Answers(i, "ok")
  /\ UNCHANGED page

(* A triage finds out what neighbours there are, and that the device is up. *)
Triaged(d) ==
  /\ MayClick
  /\ server' = [server EXCEPT !.topology = TRUE, !.saved[d] = "online", !.clicks = @ + 1]
  /\ UNCHANGED <<page, calls>>

Lose(i) == ~inTurn /\ calls[i].at = "sent" /\ Fails(i) /\ UNCHANGED <<page, server>>

Serve(i) == ServeRead(i) \/ ServeReset(i)
Continue(i) ==
  \/ Monitored(i) \/ Drawn(i) \/ ReportShown(i) \/ ResetDone(i) \/ Reloaded(i)
  \/ Exported(i) \/ Captured(i)

Next ==
  /\ UNCHANGED inTurn
  /\ \/ ToggleDiscovered \/ Reset \/ Export \/ Capture \/ Drag \/ Release
     \/ \E g \in Groups : ChooseGroup(g) \/ AskReport(g)
     \/ \E v \in Views : SetView(v)
     \/ \E n \in Nodes : ToggleHidden(n)
     \/ \E d \in Managed \ Jump : Pinged(d)
     \/ \E d \in Managed : Triaged(d)
     \/ \E c \in LinkCats : AddLinkCat(c) \/ DeleteLinkCat(c)
     \/ \E e \in Links : OpenMenu(e) \/ Grab(e)
     \/ \E c \in LinkCats \union {None} : Assign(c)
     \/ \E i \in Ids : Serve(i) \/ Lose(i) \/ Continue(i)

Fairness == \A i \in Ids : WF_vars(Serve(i)) /\ WF_vars(Continue(i))
Spec == Init /\ [][Next]_vars /\ Fairness

-----------------------------------------------------------------------------
TypeOK ==
  /\ page.group \in Groups /\ page.view \in Views /\ page.size \in {"page", "large"}
  /\ page.map.nodes \subseteq Nodes /\ DOMAIN page.map.status = page.map.nodes
  /\ page.hidden \subseteq Groups \X Nodes
  /\ page.stored \subseteq page.pills /\ page.pills \subseteq Links

(* A cable is never of a category that is gone, in any order of clicks. *)
CablesHaveTheirCategory == \A e \in DOMAIN page.assigned : page.assigned[e] \in page.cats

(***************************************************************************)
(* To a user who waits: the map is of the tenant and in the view that are  *)
(* chosen, without a device that is hidden, of the size of the page, and   *)
(* an exported drawing is the one on the screen.                           *)
(***************************************************************************)
MapIsTrue ==
  Quiet =>
    /\ page.map # NoMap
    /\ page.map.of = page.group /\ page.map.view = page.view
    /\ \A n \in page.map.nodes : Visible(page, page.group, n)
    /\ page.size = "page"
    /\ \A k \in DOMAIN page.file : page.file[k].overlay = page.file[k].drawn
=============================================================================
