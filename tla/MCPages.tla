------------------------------- MODULE MCPages -------------------------------
(***************************************************************************)
(* The pages of the web interface, for TLC: those of Pages and, with two   *)
(* devices, hosts, flows or incidents each, the others.  Two               *)
(* specifications share them out: ConsoleSpec has those about users and    *)
(* devices, NetworkSpec those about the network, its traffic and its       *)
(* incidents.                                                              *)
(***************************************************************************)
EXTENDS Pages

CONSTANTS d1, d2, d3, anna, bruno, g1, g2, h1, h2, x, y, nb, nbd, pk, n1, n2, p1, v1, v9

(* What the user may do at most: at any moment, and one after the other. *)
Clicks(any, waiting) == [w \in BOOLEAN |-> IF w THEN waiting ELSE any]
FewClicks(p) ==
  CASE p = "clients" -> Clicks(3, 4)
    [] p = "session" -> Clicks(1, 4)
    [] p = "settings" -> Clicks(2, 4)
    [] p = "users" -> Clicks(3, 5)
    [] p = "profiles" -> Clicks(5, 7)
    [] p = "sites" -> Clicks(5, 6)
    [] p = "policy" -> Clicks(5, 6)
    [] p = "firewall" -> Clicks(3, 6)
    [] p = "categories" -> Clicks(3, 4)

-----------------------------------------------------------------------------
(* The pages of the console. *)
(* Two devices of two tenants, the second behind a bastion. *)
TenantOf(d) == IF d = d1 THEN g1 ELSE g2
TwoTenants == [d \in {d1, d2} |-> TenantOf(d)]

(* An old user may see all tabs, a new one the second only. *)
OneTab == [u \in Users |-> IF u \in Novices THEN {"t1"} ELSE {}]

(* One bay is shown, the rest is summed up. *)
Needed == [t \in {"home", "ai", "map"} |-> IF t = "home" THEN {} ELSE IF t = "ai" THEN {"s1"} ELSE {"s1", "s2"}]
Home == INSTANCE WebHome WITH
  Tenant <- TwoTenants, Jump <- {d2},
  Tabs <- {"home", "ai", "map"}, Scripts <- Needed, MaxBays <- 1, MaxEvents <- Clicks(2, 3)

(* The page has a status of the first device only. *)
Table == INSTANCE WebDevices WITH
  Tenant <- TwoTenants, Jump <- {d2}, Known <- {d1}, MaxClicks <- Clicks(2, 3)

Own == [t \in {g1, g2} |-> IF t = g1 THEN x ELSE y]
Form == INSTANCE WebDeviceForm WITH
  Tenants <- {g1, g2}, Sites <- {"central", "branch"}, First <- g1,
  Central <- "central", Identity <- Own, MaxClicks <- 3

(* The second host lets both identities in, the first only one. *)
Opens == {<<h1, x>>, <<h2, x>>, <<h2, y>>}
ScanPage == INSTANCE WebScan WITH
  Hosts <- {h1, h2}, Identities <- {x, y}, Accepts <- Opens, MaxJobs <- 2,
  Dialog <- "scan", MaxClicks <- Clicks(3, 8)
Bulk == INSTANCE WebScan WITH
  Hosts <- {h1, h2}, Identities <- {x, y}, Accepts <- Opens, MaxJobs <- 2,
  Dialog <- "bulk", MaxClicks <- Clicks(3, 6)

Chat == INSTANCE WebChat WITH
  Devices <- {d1}, MaxQuestions <- 2, MaxConvs <- 2, Polls <- 2, MaxClicks <- Clicks(2, 5)

-----------------------------------------------------------------------------
(* The pages of the network. *)
(* Three devices of two tenants. *)
GroupOf(d) == IF d = d3 THEN "b" ELSE "a"

(* d2 is of another tenant, behind a bastion; nb is announced by a neighbour *)
(* and becomes nbd when it is promoted.                                     *)
Tenancy == [d \in {d1, d2, nb} |-> IF d = d2 THEN "b" ELSE "a"]
Promoted == [n \in {nb} |-> nbd]
Topology == INSTANCE WebTopology WITH
  Managed <- {d1, d2}, Found <- {nb}, Jump <- {d2}, TriState <- FALSE, Tenant <- Tenancy,
  Links <- {"cable"}, LinkCats <- {"fibre"}, MaxClicks <- Clicks(2, 5), MaxCalls <- FewCalls

(* Two flows of two tenants, and an anomaly of the one that is no noise. *)
FlowTenant(w) == IF w = "f1" THEN "a" ELSE "b"
FlowSource(w) == "netflow"
AnomalyFlow(a) == "f1"
Traffic == INSTANCE WebTraffic WITH
  Flows <- {"f1", "f2"}, Noise <- {"f2"}, Anoms <- {"an"}, Logs <- {"a"},
  Tenant <- FlowTenant, Source <- FlowSource, Of <- AnomalyFlow,
  MaxClicks <- Clicks(2, 4), MaxCalls <- FewCalls

Search == INSTANCE WebSiem WITH
  Denied <- {2, 3}, Batch <- 2, Newest <- 1, MaxRows <- 3, MaxEvents <- Clicks(3, 4),
  MaxClicks <- Clicks(2, 5), MaxCalls <- FewCalls

(* A threshold of v9 is refused; of one port, a rule and one of its device. *)
Incident == INSTANCE WebIncidents WITH
  Incidents <- {n1, n2}, Ports <- {}, Values <- {v1}, Allowed <- {v1}, MaxClicks <- Clicks(3, 0)
IncidentInTurn == INSTANCE WebIncidents WITH
  Incidents <- {n1, n2}, Ports <- {p1}, Values <- {v1, v9}, Allowed <- {v1}, MaxClicks <- Clicks(0, 4)

Audit == INSTANCE WebAudit WITH
  Devices <- {d1}, Files <- {"file"}, Checklists <- {"c"}, MaxRuns <- 1, Bilingual <- TRUE,
  MaxClicks <- Clicks(3, 0), MaxCalls <- FewCalls
AuditInTurn == INSTANCE WebAudit WITH
  Devices <- {d1}, Files <- {"file"}, Checklists <- {"c"}, MaxRuns <- 1, Bilingual <- FALSE,
  MaxClicks <- Clicks(0, 5), MaxCalls <- FewCalls

Checklist == INSTANCE WebChecklist WITH
  Audits <- {"a1", "a2"}, Items <- {"i1"}, Verdicts <- {"v"}, MaxClicks <- Clicks(5, 11), MaxCalls <- FewCalls

-----------------------------------------------------------------------------
ConsoleInit ==
  /\ inTurn \in BOOLEAN
  /\ \/ PagesInit /\ part \in ConsolePages
     \/ part = "home" /\ Home!Init
     \/ part = "devices" /\ Table!Init
     \/ part = "form" /\ Form!Init
     \/ part = "scan" /\ ScanPage!Init
     \/ part = "bulk" /\ Bulk!Init
     \/ part = "chat" /\ Chat!Init

ConsoleNext ==
  \/ part \in ConsolePages /\ PagesNext
  \/ /\ UNCHANGED part
     /\ \/ part = "home" /\ Home!Next
        \/ part = "devices" /\ Table!Next
        \/ part = "form" /\ Form!Next
        \/ part = "scan" /\ ScanPage!Next
        \/ part = "bulk" /\ Bulk!Next
        \/ part = "chat" /\ Chat!Next

(* The fairness of the modules whose liveness is checked, for who waits. *)
ConsoleFairness ==
  /\ \A i \in 1..3 :
       /\ WF_vars(part = "session" /\ inTurn /\ (Auth!Serve(i) \/ Auth!Lose(i)))
       /\ WF_vars(part = "session" /\ inTurn /\ Auth!Continue(i))
  /\ \A i \in {1, 2} :
       /\ WF_vars(part = "devices" /\ inTurn /\ Table!Serve(i))
       /\ WF_vars(part = "devices" /\ inTurn /\ Table!Continue(i))
       /\ WF_vars(part = "scan" /\ inTurn /\ ScanPage!Serve(i))
       /\ WF_vars(part = "scan" /\ inTurn /\ ScanPage!Continue(i))
       /\ WF_vars(part = "scan" /\ inTurn /\ ScanPage!Tick(i))
       /\ WF_vars(part = "scan" /\ inTurn /\ ScanPage!EndJob(i))
       /\ WF_vars(part = "bulk" /\ inTurn /\ Bulk!Serve(i))
       /\ WF_vars(part = "bulk" /\ inTurn /\ Bulk!Continue(i))
       /\ WF_vars(part = "bulk" /\ inTurn /\ Bulk!BulkPoll(i))
       /\ WF_vars(part = "bulk" /\ inTurn /\ Bulk!EndJob(i))
       /\ \A h \in {h1, h2} : WF_vars(part = "bulk" /\ inTurn /\ Bulk!RunOn(i, h))
       /\ WF_vars(part = "chat" /\ inTurn /\ Chat!Serve(i))
       /\ WF_vars(part = "chat" /\ inTurn /\ Chat!Continue(i))
  /\ \A d \in {d1, d2} : WF_vars(part = "devices" /\ inTurn /\ Table!Visit(d))

ConsoleSpec == ConsoleInit /\ [][ConsoleNext]_<<part, inTurn, vars>> /\ ConsoleFairness

-----------------------------------------------------------------------------
(* The properties of the pages of the console, each where it applies. *)

(***************************************************************************)
(* Home: no tab waits for a script that nobody loads; one timer refreshes  *)
(* the page while it is shown and there is something to refresh it with;   *)
(* and for a user who waits it shows what was measured last.               *)
(***************************************************************************)
HomeIsTrue ==
  part = "home" =>
    /\ Home!TypeOK /\ Home!AwaitedIsLoading
    /\ inTurn => Home!RefreshedWhenShown /\ Home!ShownIsMeasured

(***************************************************************************)
(* Devices: as many loops poll as the page believes, every button comes    *)
(* back; at rest the rows have what the cache has and the cache what the   *)
(* server has, each with its exceptions; and so has the form.              *)
(***************************************************************************)
DevicesAreTrue ==
  /\ part = "devices" =>
       /\ Table!TypeOK /\ Table!FlagsTellTheLoops /\ Table!ButtonsComeBack
       /\ inTurn => Table!RowsTellTheCache /\ Table!CacheTellsTheServer
  /\ part = "form" => Form!TypeOK /\ Form!CacheIsTheInventory /\ Form!FormIsConsistent

(***************************************************************************)
(* Scan: a host is added only if it let some identity in, whatever jobs    *)
(* overlap; one job at a time is followed by its own timer; and of         *)
(* commands to many devices the results of all are shown in the end.       *)
(***************************************************************************)
ScansAreTrue ==
  /\ part = "scan" =>
       /\ ScanPage!TypeOK /\ ScanPage!VerdictIsEarned
       /\ inTurn => ScanPage!TimerIsOfTheJob /\ ScanPage!ScanMayStart
  /\ part = "bulk" => Bulk!TypeOK /\ (inTurn => Bulk!BulkIsTrue)

(***************************************************************************)
(* Chat: a device is sent commands only as often as the user confirmed     *)
(* them and only if its configuration went with the question; and what is  *)
(* shown is what was saved, once.                                          *)
(***************************************************************************)
ChatsAreTrue ==
  part = "chat" =>
    /\ Chat!TypeOK /\ Chat!PushIsConfirmed
    /\ inTurn => Chat!SavedAsShown /\ Chat!OneRowPerChat

(***************************************************************************)
(* What was begun comes to an end on the page: the check of a session, a   *)
(* batch of triage, a job of a scan and commands that were sent.           *)
(***************************************************************************)
Unfinished ==
  /\ inTurn
  /\ \/ part = "session" /\ ~Auth!Quiet
     \/ part = "devices" /\ (server.running \/ ~Table!Quiet)
     \/ part = "scan" /\ (page.timers # {} \/ page.job.status = "running")
     \/ part = "bulk" /\ page.bulk.timers # {}
     \/ part = "chat" /\ \E k \in DOMAIN page.cards : page.cards[k].state = "sending"
WorkIsShown == []<>~Unfinished

(* KeepsSaved: a credential left blank stays as it is saved. *)
BlankStaysUnchanged == [][part = "form" => Form!KeepsSaved]_<<part, page, server>>

-----------------------------------------------------------------------------
NetworkInit ==
  /\ inTurn \in BOOLEAN
  /\ \/ PagesInit /\ part \in NetworkPages
     \/ part = "map" /\ Topology!Init
     \/ part = "traffic" /\ Traffic!Init
     \/ part = "siem" /\ Search!Init
     \/ part = "incidents" /\ (IF inTurn THEN IncidentInTurn!Init ELSE Incident!Init)
     \/ part = "audit" /\ (IF inTurn THEN AuditInTurn!Init ELSE Audit!Init)
     \/ part = "checklist" /\ Checklist!Init

NetworkNext ==
  \/ part \in NetworkPages /\ PagesNext
  \/ /\ UNCHANGED part
     /\ \/ part = "map" /\ Topology!Next
        \/ part = "traffic" /\ Traffic!Next
        \/ part = "siem" /\ Search!Next
        \/ part = "incidents" /\ ~inTurn /\ Incident!Next
        \/ part = "incidents" /\ inTurn /\ IncidentInTurn!Next
        \/ part = "audit" /\ ~inTurn /\ Audit!Next
        \/ part = "audit" /\ inTurn /\ AuditInTurn!Next
        \/ part = "checklist" /\ Checklist!Next

NetworkSpec == NetworkInit /\ [][NetworkNext]_<<part, inTurn, vars>>

-----------------------------------------------------------------------------
(* The properties of the pages of the network, each where it applies. *)

(***************************************************************************)
(* Topology: the map is the one that was asked for last, in its size; the  *)
(* exported file is what is drawn; a cable's category is one of the list.  *)
(***************************************************************************)
TopologyIsTrue == part = "map" => Topology!TypeOK /\ Topology!CablesHaveTheirCategory /\ (inTurn => Topology!MapIsTrue)

(***************************************************************************)
(* Traffic: every view is of the window, the filter and the source that    *)
(* are chosen, and a request that fails does not stop the refresh.         *)
(***************************************************************************)
TrafficIsTrue ==
  part = "traffic" => Traffic!TypeOK /\ Traffic!RefreshIsNotStuck /\ (inTurn => Traffic!TrafficIsTrue)


(***************************************************************************)
(* Incidents: a narrative stays with its incident, and the list, what is   *)
(* open, the threshold and the rules of the ports are those of the server. *)
(***************************************************************************)
IncidentsAreTrue ==
  part = "incidents" =>
    /\ IF inTurn THEN IncidentInTurn!TypeOK ELSE Incident!TypeOK
    /\ Incident!NarrativeIsOfTheIncident
    /\ inTurn => IncidentInTurn!IncidentsAreTrue

(***************************************************************************)
(* Audit: what would be scanned is there, a report has the name of what it *)
(* is of, and a verdict is saved for the audit whose items were judged.    *)
(***************************************************************************)
AuditsAreTrue ==
  /\ part = "audit" => Audit!TypeOK /\ Audit!SelectionCanBeScanned /\ (inTurn => AuditInTurn!AuditIsTrue)
  /\ part = "checklist" => Checklist!TypeOK /\ (inTurn => Checklist!ChecklistIsTrue)

(* HeldByADetail, for a user who waits. *)
StreamGoesOn == part = "siem" /\ inTurn => Search!HeldByADetail
=============================================================================
