------------------------------ MODULE WebClients ------------------------------
(***************************************************************************)
(* The tab of the clients (client-map.js, diagnosi.js and                  *)
(* endpoint-inventory.js of web/static/js): four panes under one choice of *)
(* a tenant, each loaded when it is first shown.  MAC addresses are        *)
(* collected from switches and addresses from gateways, searched and       *)
(* located; a client is diagnosed, on a wireless controller too.  Every    *)
(* client is found at every device that was asked: what a table shows is   *)
(* the set of the devices its rows come from.                              *)
(***************************************************************************)
EXTENDS Browser, FiniteSets, Sequences

CONSTANTS
  Devices, Group(_),
  Clients, Macs,     \* what may be diagnosed, and which of it are MAC addresses
  Days,              \* for how long sightings may be kept
  MaxClicks          \* bound on what the user does, by whether he waits: [BOOLEAN -> Nat]

VARIABLES page, server
vars == <<page, calls, server, inTurn>>

Panes == {"mac", "clientmap", "diagnosi", "inventory"}
Tenants == {Group(d) : d \in Devices} \union {"all"}
Of(t) == {d \in Devices : t \in {"all", Group(d)}}

(* One of a selector's options stays chosen, or none is, or the first is.  *)
Kept(d, ds) == IF d \in ds THEN d ELSE None
OrFirst(d, ds) == IF d \in ds THEN d ELSE CHOOSE x \in ds : TRUE

(* A table and what it is filtered by, with the devices that may be asked. *)
NoTable == [offered |-> {}, ticked |-> {}, at |-> None, rows |-> {}]
NoReport == [of |-> None, wifi |-> None]

Init ==
  /\ inTurn \in BOOLEAN
  /\ page = [view |-> "mac", tenant |-> "all", loaded |-> [v \in Panes |-> FALSE],
             mac |-> NoTable, arp |-> NoTable, ovs |-> {},
             kept |-> None, field |-> None, modal |-> [of |-> None, at |-> {}],
             report |-> NoReport, diagMac |-> None, client |-> None,
             mode |-> "list", picker |-> None, scanning |-> {}]
  /\ calls = NoCalls
  /\ server = [seen |-> {}, bound |-> {}, ovs |-> {}, days |-> CHOOSE n \in Days : TRUE, clicks |-> 0]

-----------------------------------------------------------------------------
MayClick == server.clicks < MaxClicks[inTurn] /\ (inTurn => Quiet)
Clicked == server' = [server EXCEPT !.clicks = @ + 1]

(* Several requests at once, and the same in place of an answered one: the *)
(* n-th request goes to the n-th place that is free.                       *)
Place(cs, i) == Cardinality({j \in 1..i : cs[j].fn = None})
AllBegun(cs, reqs) ==
  [i \in Ids |-> IF cs[i].fn = None /\ Place(cs, i) \in DOMAIN reqs THEN reqs[Place(cs, i)] ELSE cs[i]]

Sends(reqs) == Cardinality(Free) >= Len(reqs) /\ calls' = AllBegun(calls, reqs)
Followed(i, reqs) == Cardinality(Free) + 1 >= Len(reqs) /\ calls' = AllBegun(Ended(i), reqs)

(* Fault: what was ticked stays so. *)
OfferedKeepingTicks(c, t) == [c EXCEPT !.offered = Of(t), !.at = Kept(@, Of(t))]

(* populateMacScanDevices, populateArpScanDevices and the filters by       *)
(* switch and by gateway: the devices of the tenant, none of them ticked.  *)
Offered(c, t) == [c EXCEPT !.offered = Of(t), !.ticked = {}, !.at = Kept(@, Of(t))]

SearchMac(p) == Asks("macSearch", [at |-> p.mac.at])
SearchArp(p) == Asks("arpSearch", [at |-> p.arp.at, tenant |-> p.tenant])
ReadStats(fill) == Asks("stats", fill)
ReadOverrides == Asks("overrides", None)
ReadInventory(apply) == Asks("inventory", apply)

Filled(p, v) ==
  CASE v = "mac" -> [p EXCEPT !.mac = Offered(@, p.tenant)]
    [] v = "clientmap" -> [p EXCEPT !.arp = Offered(@, p.tenant)]
    [] OTHER -> p

LoadRequests(p, v) ==
  CASE v = "mac" -> <<ReadOverrides, ReadStats(TRUE), SearchMac(p)>>
    [] v = "clientmap" -> <<SearchArp(p)>>
    [] v = "inventory" -> <<ReadInventory(TRUE)>>
    [] OTHER -> <<>>

(* A pane loads when it is first shown. *)
locSwitchView(v) ==
  /\ MayClick
  /\ LET p == [page EXCEPT !.view = v]
         q == Filled([p EXCEPT !.loaded[v] = TRUE], v)
     IN  IF p.loaded[v] THEN page' = p /\ Sends(<<>>) ELSE page' = q /\ Sends(LoadRequests(q, v))
  /\ Clicked

(* Another tenant: the pane that is shown loads anew, the others when they *)
(* are shown.                                                              *)
locTenantChanged(t) ==
  /\ MayClick /\ page.loaded[page.view] /\ t # page.tenant
  /\ LET p == Filled([page EXCEPT !.tenant = t, !.loaded = [v \in Panes |-> v = page.view]], page.view)
     IN  page' = p /\ Sends(LoadRequests(p, page.view))
  /\ Clicked

-----------------------------------------------------------------------------
Toggled(ds, d) == IF d \in ds THEN ds \ {d} ELSE ds \union {d}
On(v) == MayClick /\ page.view = v /\ page.loaded[v]

TickMac(d) ==
  /\ On("mac") /\ d \in page.mac.offered
  /\ page' = [page EXCEPT !.mac.ticked = Toggled(@, d)]
  /\ Clicked /\ UNCHANGED calls
TickArp(d) ==
  /\ On("clientmap") /\ d \in page.arp.offered
  /\ page' = [page EXCEPT !.arp.ticked = Toggled(@, d)]
  /\ Clicked /\ UNCHANGED calls

(* The choice of a switch, or of a gateway, searches; so do the buttons.   *)
FilterMac(d) ==
  /\ On("mac") /\ d \in page.mac.offered \union {None}
  /\ LET p == [page EXCEPT !.mac.at = d] IN page' = p /\ Sends(<<SearchMac(p)>>)
  /\ Clicked
FilterArp(d) ==
  /\ On("clientmap") /\ d \in page.arp.offered \union {None}
  /\ LET p == [page EXCEPT !.arp.at = d] IN page' = p /\ Sends(<<SearchArp(p)>>)
  /\ Clicked

(* The button of a scan is off until its request has ended. *)
runMacScan ==
  /\ On("mac") /\ "mac" \notin page.scanning
  /\ page' = [page EXCEPT !.scanning = @ \union {"mac"}]
  /\ Sends(<<Asks("macScan", [group |-> page.tenant, ips |-> page.mac.ticked])>>)
  /\ Clicked
runArpScan ==
  /\ On("clientmap") /\ "arp" \notin page.scanning
  /\ page' = [page EXCEPT !.scanning = @ \union {"arp"}]
  /\ Sends(<<Asks("arpScan", [group |-> page.tenant, ips |-> page.arp.ticked])>>)
  /\ Clicked

(* Fault: the table is not searched anew. *)
MacScannedUnseen(i) ==
  /\ Back(i, "macScan")
  /\ page' = [page EXCEPT !.scanning = @ \ {"mac"}]
  /\ Followed(i, IF Answered(i) THEN <<ReadStats(FALSE)>> ELSE <<>>)
  /\ UNCHANGED server

MacScanned(i) ==
  /\ Back(i, "macScan")
  /\ page' = [page EXCEPT !.scanning = @ \ {"mac"}]
  /\ Followed(i, IF Answered(i) THEN <<SearchMac(page), ReadStats(FALSE)>> ELSE <<>>)
  /\ UNCHANGED server
ArpScanned(i) ==
  /\ Back(i, "arpScan")
  /\ page' = [page EXCEPT !.scanning = @ \ {"arp"}]
  /\ Followed(i, IF Answered(i) THEN <<SearchArp(page)>> ELSE <<>>)
  /\ UNCHANGED server

(* A failed search of MAC addresses leaves the table, one of addresses     *)
(* empties it.                                                             *)
renderMacResults(i) ==
  /\ Back(i, "macSearch")
  /\ page' = IF Answered(i) THEN [page EXCEPT !.mac.rows = Answer(i)] ELSE page
  /\ Ends(i) /\ UNCHANGED server
renderArpResults(i) ==
  /\ Back(i, "arpSearch")
  /\ page' = [page EXCEPT !.arp.rows = IF Answered(i) THEN Answer(i) ELSE {}]
  /\ Ends(i) /\ UNCHANGED server

(* Where a client is: the tenant of the row goes with the question.        *)
macLocate(d) ==
  /\ On("mac") /\ d \in page.mac.rows /\ page.modal.of = None
  /\ Sends(<<Asks("locate", Group(d))>>)
  /\ Clicked /\ UNCHANGED page
Located(i) ==
  /\ Back(i, "locate")
  /\ page' = IF Answered(i) THEN [page EXCEPT !.modal = [of |-> calls[i].arg, at |-> Answer(i)]] ELSE page
  /\ Ends(i) /\ UNCHANGED server
closeMacLocateModal ==
  /\ MayClick /\ page.modal.of # None
  /\ page' = [page EXCEPT !.modal = [of |-> None, at |-> {}]]
  /\ Clicked /\ UNCHANGED calls

-----------------------------------------------------------------------------
(* Commands of a device's own, and for how long sightings are kept.        *)
saveMacOverride(d) ==
  /\ On("mac") /\ d \in page.mac.offered
  /\ Sends(<<Asks("saveOverride", d)>>)
  /\ Clicked /\ UNCHANGED page
removeMacOverride(d) ==
  /\ On("mac") /\ d \in page.ovs
  /\ Sends(<<Asks("removeOverride", d)>>)
  /\ Clicked /\ UNCHANGED page
OverrideChanged(i) ==
  /\ Back(i, "saveOverride") \/ Back(i, "removeOverride")
  /\ Followed(i, IF Answered(i) THEN <<ReadOverrides>> ELSE <<>>)
  /\ UNCHANGED <<page, server>>
renderMacOverrides(i) ==
  /\ Back(i, "overrides")
  /\ page' = IF Answered(i) THEN [page EXCEPT !.ovs = Answer(i)] ELSE page
  /\ Ends(i) /\ UNCHANGED server

EditRetention(n) ==
  /\ On("mac") /\ n # page.field
  /\ page' = [page EXCEPT !.field = n]
  /\ Clicked /\ UNCHANGED calls
saveMacRetention ==
  /\ On("mac") /\ page.field # None
  /\ Sends(<<Asks("retention", page.field)>>)
  /\ Clicked /\ UNCHANGED page
RetentionSaved(i) ==
  /\ Back(i, "retention")
  /\ Followed(i, IF Answered(i) THEN <<ReadStats(FALSE)>> ELSE <<>>)
  /\ UNCHANGED <<page, server>>

(* What is in the field stays, unless it is empty or the pane is loaded.   *)
refreshMacStats(i) ==
  /\ Back(i, "stats")
  /\ page' = IF ~Answered(i) THEN page
             ELSE [page EXCEPT !.kept = Answer(i),
                               !.field = IF calls[i].arg \/ @ = None THEN Answer(i) ELSE @]
  /\ Ends(i) /\ UNCHANGED server

-----------------------------------------------------------------------------
(* The diagnosis: what was typed is kept, and what was shown goes.         *)
Diagnoses(p, c) ==
  /\ page' = [p EXCEPT !.client = c, !.report = NoReport]
  /\ Sends(<<Asks("diagnose", c)>>)

runDiagnosi(c) == On("diagnosi") /\ Diagnoses(page, c) /\ Clicked

(* diagnoseClientInTab: from a row, in its pane. *)
diagnoseClientInTab(c) ==
  /\ On("clientmap") /\ page.arp.rows # {}
  /\ Diagnoses([page EXCEPT !.view = "diagnosi", !.loaded["diagnosi"] = TRUE], c)
  /\ Clicked

(* What the server answers has none of the sections that are drawn, so the *)
(* MAC address is what was typed, when it is one.                          *)
DiagMac(p) == IF p.client \in Macs THEN p.client ELSE None
renderDiagnosi(i) ==
  /\ Back(i, "diagnose")
  /\ page' = IF Answered(i)
             THEN [page EXCEPT !.report = [of |-> Answer(i), wifi |-> None], !.diagMac = DiagMac(page)]
             ELSE [page EXCEPT !.report = NoReport]
  /\ Ends(i) /\ UNCHANGED server

(* diagnoseWifi: in the report that is shown by then, if it still is. *)
diagnoseWifi ==
  /\ On("diagnosi") /\ page.report.of # None /\ page.diagMac # None
  /\ page' = [page EXCEPT !.report.wifi = None]
  /\ Sends(<<Asks("wifi", [mac |-> page.diagMac, in |-> page.report.of])>>)
  /\ Clicked
WifiDiagnosed(i) ==
  /\ Back(i, "wifi")
  /\ page' = IF page.report.of = calls[i].arg.in /\ Answered(i)
             THEN [page EXCEPT !.report.wifi = calls[i].arg.mac] ELSE page
  /\ Ends(i) /\ UNCHANGED server

-----------------------------------------------------------------------------
(* The inventory: no such address is served, so that it shows an error;    *)
(* but in the mode of the ports the choice of a switch is filled anew.     *)
ShowPorts(p) == [p EXCEPT !.mode = "ports", !.picker = OrFirst(@, Of(p.tenant))]

endpointsApplyFilters ==
  /\ On("inventory")
  /\ Sends(<<ReadInventory(TRUE)>>)
  /\ Clicked /\ UNCHANGED page
endpointsMode(m) ==
  /\ On("inventory")
  /\ page' = IF m = "ports" THEN ShowPorts(page) ELSE [page EXCEPT !.mode = m]
  /\ Sends(<<IF m = "ports" THEN Asks("ports", page'.picker) ELSE ReadInventory(FALSE)>>)
  /\ Clicked
InventoryRead(i) ==
  /\ Back(i, "inventory")
  /\ IF calls[i].arg /\ page.mode = "ports"
     THEN page' = ShowPorts(page) /\ Followed(i, <<Asks("ports", page'.picker)>>)
     ELSE UNCHANGED page /\ Ends(i)
  /\ UNCHANGED server
PortsRead(i) == Back(i, "ports") /\ Ends(i) /\ UNCHANGED <<page, server>>

-----------------------------------------------------------------------------
(* What the server does.  A scan reaches some of its devices; the search   *)
(* of MAC addresses and their location do not look at the tenant.          *)
Targets(a) == {d \in Of(a.group) : a.ips = {} \/ d \in a.ips}
At(ds, d) == {x \in ds : d \in {None, x}}

Scan(i) ==
  /\ \/ /\ Sent(i, "macScan")
        /\ \E s \in SUBSET Targets(calls[i].arg) : server' = [server EXCEPT !.seen = @ \union s]
        /\ Answers(i, "ok")
     \/ /\ Sent(i, "arpScan")
        /\ \E s \in SUBSET Targets(calls[i].arg) : server' = [server EXCEPT !.bound = @ \union s]
        /\ IF Targets(calls[i].arg) = {} THEN Fails(i) ELSE Answers(i, "ok")
  /\ UNCHANGED page

Store(i) ==
  /\ \/ Sent(i, "saveOverride") /\ server' = [server EXCEPT !.ovs = @ \union {calls[i].arg}]
     \/ Sent(i, "removeOverride") /\ server' = [server EXCEPT !.ovs = @ \ {calls[i].arg}]
     \/ Sent(i, "retention") /\ server' = [server EXCEPT !.days = calls[i].arg]
  /\ Answers(i, "ok") /\ UNCHANGED page

Read(i) ==
  /\ \/ Sent(i, "macSearch") /\ Answers(i, At(server.seen, calls[i].arg.at))
     \/ Sent(i, "arpSearch") /\ Answers(i, At(server.bound, calls[i].arg.at) \intersect Of(calls[i].arg.tenant))
     \/ Sent(i, "locate") /\ Answers(i, server.seen)
     \/ Sent(i, "overrides") /\ Answers(i, server.ovs)
     \/ Sent(i, "stats") /\ Answers(i, server.days)
     \/ Sent(i, "diagnose") /\ Answers(i, calls[i].arg)
     \/ Sent(i, "wifi") /\ Answers(i, "ok")
     \/ (Sent(i, "inventory") \/ Sent(i, "ports")) /\ Fails(i)
  /\ UNCHANGED <<page, server>>

Serve(i) == Scan(i) \/ Store(i) \/ Read(i)
Lose(i) == ~inTurn /\ calls[i].at = "sent" /\ Fails(i) /\ UNCHANGED <<page, server>>

Continue(i) ==
  \/ MacScanned(i) \/ ArpScanned(i) \/ renderMacResults(i) \/ renderArpResults(i) \/ Located(i)
  \/ OverrideChanged(i) \/ renderMacOverrides(i) \/ RetentionSaved(i) \/ refreshMacStats(i)
  \/ renderDiagnosi(i) \/ WifiDiagnosed(i) \/ InventoryRead(i) \/ PortsRead(i)

Next ==
  /\ UNCHANGED inTurn
  /\ \/ \E v \in Panes : locSwitchView(v)
     \/ \E t \in Tenants : locTenantChanged(t)
     \/ \E d \in Devices : TickMac(d) \/ TickArp(d) \/ macLocate(d) \/ saveMacOverride(d) \/ removeMacOverride(d)
     \/ \E d \in Devices \union {None} : FilterMac(d) \/ FilterArp(d)
     \/ \E n \in Days : EditRetention(n)
     \/ \E c \in Clients : runDiagnosi(c) \/ diagnoseClientInTab(c)
     \/ \E m \in {"list", "ports"} : endpointsMode(m)
     \/ runMacScan \/ runArpScan \/ closeMacLocateModal \/ saveMacRetention
     \/ diagnoseWifi \/ endpointsApplyFilters
     \/ \E i \in Ids : Serve(i) \/ Lose(i) \/ Continue(i)

Fairness == \A i \in Ids : WF_vars(Serve(i)) /\ WF_vars(Continue(i))
Spec == Init /\ [][Next]_vars /\ Fairness

-----------------------------------------------------------------------------
TypeOK ==
  /\ page.view \in Panes /\ page.tenant \in Tenants
  /\ \A c \in {page.mac, page.arp} : c.ticked \subseteq c.offered /\ c.at \in c.offered \union {None}
  /\ page.report.of \in Clients \union {None} /\ page.picker \in Devices \union {None}

(* A scan asks devices of the tenant that was chosen, and so never none.   *)
ScanIsOfTheTenant ==
  \A i \in InProgress({"macScan", "arpScan"}) : calls[i].arg.ips \subseteq Of(calls[i].arg.group)

(***************************************************************************)
(* To a user who waits, a pane that counts as loaded shows what the server *)
(* has: the sightings at the switch and the bindings at the gateway that   *)
(* are chosen, the bindings of the tenant that is, the commands of the     *)
(* devices and for how long sightings are kept, and a switch of the tenant *)
(* for its ports.  The wireless controller is asked about the client of    *)
(* the report.                                                             *)
(***************************************************************************)
ClientsAreTrue ==
  Quiet =>
    /\ page.loaded["mac"] =>
         page.mac.rows = At(server.seen, page.mac.at) /\ page.ovs = server.ovs /\ page.kept = server.days
    /\ page.loaded["clientmap"] =>
         page.arp.rows = At(server.bound, page.arp.at) \intersect Of(page.tenant)
    /\ (page.loaded["inventory"] /\ page.mode = "ports") => page.picker \in Of(page.tenant)
    /\ page.report.of # None => page.diagMac \in {None, page.report.of}
    /\ page.report.wifi \in {None, page.report.of}
    /\ page.scanning = {}

(* A client that is located from a row is located in the row's tenant.     *)
LocateIsOfTheTenant == \A d \in page.modal.at : Group(d) = page.modal.of

=============================================================================
