-------------------------------- MODULE Pages --------------------------------
(***************************************************************************)
(* Pages of the web interface, side by side: part says which one runs, and *)
(* inTurn whether its user waits for the page; one who does not acts at    *)
(* any moment, and requests fail.  These are the pages whose users,        *)
(* devices, sites and bounds are constants here; MCPages adds the others.  *)
(***************************************************************************)
EXTENDS Naturals, FiniteSets, Sequences

CONSTANTS
  MaxCalls,                         \* bound on the calls in progress
  FewCalls,                         \* as MaxCalls, of pages that send one or two requests at once
  Devices, Clients, Macs, Days, Group(_),   \* WebClients
  Users, Nav, Restricted, Novices,          \* WebSession
  Me, UserTenants, Boxes,                   \* WebUsers
  AiProfiles, Providers,                    \* WebProfiles
  AgentSites, SiteIdentities, MaxTokens, MaxJobs,   \* WebSites
  Routers, RouterGroup(_), Packets,         \* WebPolicy
  Firewalls,                                \* WebFirewall
  Switches, Neighbours, PromotedTo, Cats, Subs, DeviceNames,   \* WebCategories
  ClicksOf(_)    \* by page, what its user may do at any moment, and one after the other

VARIABLES part, inTurn, page, calls, server
vars == <<page, calls, server>>

Map == INSTANCE WebClients WITH MaxClicks <- ClicksOf("clients")

Auth == INSTANCE WebSession WITH New <- Novices, MaxClicks <- ClicksOf("session")

Prefs == INSTANCE WebSettings WITH MaxClicks <- ClicksOf("settings")

Admin == INSTANCE WebUsers WITH Tenants <- UserTenants, Tabs <- Boxes, MaxClicks <- ClicksOf("users")

Site == INSTANCE WebSites WITH
  Sites <- AgentSites, Identities <- SiteIdentities, MaxClicks <- ClicksOf("sites"), MaxCalls <- FewCalls

Ai == INSTANCE WebProfiles WITH
  Profiles <- AiProfiles, MaxClicks <- ClicksOf("profiles"), MaxCalls <- FewCalls

Policy == INSTANCE WebPolicy WITH
  Devices <- Routers, Group <- RouterGroup, MaxClicks <- ClicksOf("policy"), MaxCalls <- FewCalls

Fw == INSTANCE WebFirewall WITH Devices <- Firewalls, MaxClicks <- ClicksOf("firewall")

Panel == INSTANCE WebCategories WITH
  Managed <- Switches, Found <- Neighbours, Ip <- PromotedTo, Names <- DeviceNames,
  MaxClicks <- ClicksOf("categories"), MaxCalls <- FewCalls

ASSUME PagesAreRight ==
  /\ Auth!CallsAssumption /\ Policy!CallsAssumption /\ Devices # {}
  /\ Novices \subseteq Users /\ Ai!Nothing \notin AiProfiles
  /\ Site!None \notin AgentSites /\ MaxTokens \in Nat
  /\ Firewalls \subseteq Nat \ {Fw!Nobody}
  /\ \A f \in Neighbours : PromotedTo[f] \in Switches \ Neighbours

-----------------------------------------------------------------------------
(* Those about users and devices, and those about the network. *)
ConsolePages == {"clients", "session", "settings", "users"}
NetworkPages == {"policy", "firewall", "categories", "sites", "profiles"}

PagesInit ==
  /\ inTurn \in BOOLEAN
  /\ \/ part = "clients" /\ Map!Init
     \/ part = "session" /\ Auth!Init
     \/ part = "settings" /\ Prefs!Init
     \/ part = "users" /\ Admin!Init
     \/ part = "policy" /\ Policy!Init
     \/ part = "firewall" /\ Fw!Init
     \/ part = "categories" /\ Panel!Init
     \/ part = "sites" /\ Site!Init
     \/ part = "profiles" /\ Ai!Init

PagesNext ==
  /\ UNCHANGED part
  /\ \/ part = "clients" /\ Map!Next
     \/ part = "session" /\ Auth!Next
     \/ part = "settings" /\ Prefs!Next
     \/ part = "users" /\ Admin!Next
     \/ part = "policy" /\ Policy!Next
     \/ part = "firewall" /\ Fw!Next
     \/ part = "categories" /\ Panel!Next
     \/ part = "sites" /\ Site!Next
     \/ part = "profiles" /\ Ai!Next

PagesSpec == PagesInit /\ [][PagesNext]_<<part, inTurn, vars>>

-----------------------------------------------------------------------------
(* The properties of these pages, each where it applies. *)

(* Clients: what is ticked, and what is scanned, was offered of the tenant. *)
ScanIsOfTheTenant == part = "clients" => Map!ScanIsOfTheTenant

(***************************************************************************)
(* Clients: a pane that counts as loaded shows what the server has, if the *)
(* user waits: bindings of the tenant, sightings of MAC addresses of every *)
(* tenant, as handleMacSearch answers them.                                *)
(***************************************************************************)
LoadedPanesAreTrue ==
  part = "clients" => Map!TypeOK /\ (inTurn => Map!ClientsAreTrue)

(***************************************************************************)
(* Session: the page is open only in a session the server confirmed, a     *)
(* closed one offers a way in, and what is shown is of the user who is in. *)
(***************************************************************************)
SessionIsTrue ==
  part = "session" =>
    /\ Auth!TypeOK /\ Auth!UnlockedIsConfirmed /\ Auth!WayIn /\ Auth!NotLoadingAtRest
    /\ inTurn => Auth!RoleIsOfUser

(* Settings: at rest the switch is as the server has it, and so is the monitor. *)
SettingsAreTrue == part = "settings" => Prefs!TypeOK /\ (inTurn => Prefs!SettingsAreTrue)

(* Users: the table tells what the server holds, refused changes undone. *)
UsersAreTrue == part = "users" => Admin!TypeOK /\ (inTurn => Admin!TableIsTrue)

(***************************************************************************)
(* Policy and firewalls: what is shown is of the device and of the tenant  *)
(* that are chosen, what is remembered of a device is its own, and a token *)
(* is stored for the firewall it was typed for.                            *)
(***************************************************************************)
PoliciesAreTrue ==
  /\ part = "policy" => Policy!TypeOK /\ Policy!DeviceIsOfTheTenant /\ (inTurn => Policy!PolicyIsTrue)
  /\ part = "firewall" => Fw!TypeOK /\ Fw!TokenGoesHome /\ (inTurn => Fw!FirewallIsTrue)

(* Categories: the panel shows what the server has, and stages for it. *)
CategoriesAreTrue == part = "categories" => Panel!TypeOK /\ (inTurn => Panel!CategoriesAreTrue)

(***************************************************************************)
(* Categories: what is staged goes away with the user's click, or when the *)
(* server has it.                                                          *)
(***************************************************************************)
EditsAreNotLost == [][part = "categories" /\ inTurn => Panel!KeepsEdits]_<<part, page, server>>

(***************************************************************************)
(* Sites and profiles: an inventory is written to the site it was read at, *)
(* a key is sent for the profile it was typed for and kept, if the user    *)
(* waits, by no other; and the tables are those of the server.             *)
(***************************************************************************)
AdministrationIsTrue ==
  /\ part = "sites" => Site!TypeOK /\ Site!InventoryGoesHome /\ (inTurn => Site!SitesAreTrue)
  /\ part = "profiles" => Ai!TypeOK /\ Ai!KeyGoesHome /\ (inTurn => Ai!ProfilesAreTrue)

(* EmptyMeansAllTabs, for users who wait for the page. *)
UnrestrictedSeesAll == part = "session" /\ inTurn => Auth!EmptyMeansAllTabs

(* LocateIsOfTheTenant, for a user who waits. *)
LocatedInTheTenant == part = "clients" /\ inTurn => Map!LocateIsOfTheTenant

-----------------------------------------------------------------------------
(***************************************************************************)
(* The invariants by which these are proved, page by page.                 *)
(***************************************************************************)

(* A call is a record of these fields. *)
CallFields == {"fn", "at", "arg", "got"}

(* WebSession.                                                              *)
(* What SessionsAreTrue rests on: records keep their fields, so that an     *)
(* assignment in the page is seen, and a call is found where it was begun.  *)
SessionFields ==
  {"cookie", "confirmed", "me", "user", "overlay", "section", "pending", "hidden", "loading", "heartbeat",
   "devices"}

SessionShape ==
  /\ DOMAIN page = SessionFields
  /\ DOMAIN calls = Auth!Ids
  /\ \A i \in Auth!Ids : DOMAIN calls[i] = CallFields

SessionInv == SessionShape /\ Auth!UnlockedIsConfirmed

(* A call that decides whether the page is locked. *)
Decides(c) == c.fn \in {"status", "me", "logout"}

(***************************************************************************)
(* WebClients, for any devices, tenants and clients, by an invariant: while *)
(* a pane counts as loaded, what it offers and what is ticked in it is of  *)
(* the tenant that is chosen.  A change of tenant ticks nothing in the     *)
(* pane that is shown, and the other panes are offered anew before they    *)
(* count as loaded again.                                                  *)
(***************************************************************************)
Scans == {"macScan", "arpScan"}
CallsShape == DOMAIN calls = Map!Ids /\ \A i \in Map!Ids : CallFields \subseteq DOMAIN calls[i]

TableFields == {"offered", "ticked", "at", "rows"}
ClientShape ==
  /\ {"view", "tenant", "loaded", "mac", "arp", "ovs", "kept", "field", "modal", "report", "diagMac",
      "client", "mode", "picker", "scanning"} = DOMAIN page
  /\ DOMAIN page.loaded = Map!Panes /\ page.view \in Map!Panes
  /\ DOMAIN page.mac = TableFields /\ DOMAIN page.arp = TableFields

OfTheTenant(c, t) == c.offered \subseteq Map!Of(t) /\ c.ticked \subseteq Map!Of(t)
PanesAreOfTheTenant ==
  /\ page.loaded["mac"] => OfTheTenant(page.mac, page.tenant)
  /\ page.loaded["clientmap"] => OfTheTenant(page.arp, page.tenant)

ClientPage == ClientShape /\ PanesAreOfTheTenant
ClientCalls == CallsShape /\ Map!ScanIsOfTheTenant
ClientInv == ClientPage /\ ClientCalls

(* The rest of the clients, any user: a table chooses of what it offers, a  *)
(* report is of a client, and ports are of a device.                        *)
TableChooses(c) == c.ticked \subseteq c.offered /\ c.at \in c.offered \union {Map!None}
ClientTypes ==
  /\ page.tenant \in Map!Tenants /\ TableChooses(page.mac) /\ TableChooses(page.arp)
  /\ DOMAIN page.report = {"of", "wifi"} /\ page.report.of \in Clients \union {Map!None}
  /\ page.picker \in Devices \union {Map!None}
  /\ DOMAIN server = {"seen", "bound", "ovs", "days", "clicks"}
ClientCall(c) == c.fn = "diagnose" => c.arg \in Clients /\ (c.got # <<>> => c.got[1] \in Clients)

(* A user who waits: one call at a time, but for what the pane of the MAC   *)
(* addresses reads at once; what a pane shows is as the server has it, or   *)
(* one of the calls is about to read it.                                    *)
Together == {"overrides", "stats", "macSearch"}
OneOrTogether ==
  \A i, j \in Map!Ids :
    i # j => \/ calls[i].fn = Map!None \/ calls[j].fn = Map!None
             \/ calls[i].fn \in Together /\ calls[j].fn \in Together

MacRows(p, s) == Map!At(s.seen, p.mac.at)
ArpRows(p, s) == Map!At(s.bound, p.arp.at) \intersect Map!Of(p.tenant)
ClientTold(c, p, s) ==
  /\ c.at = "sent" => c.got = <<>>
  /\ c.fn = "macSearch" => c.arg.at = p.mac.at /\ (c.at = "back" => c.got = <<MacRows(p, s)>>)
  /\ c.fn = "arpSearch" =>
       c.arg.at = p.arp.at /\ c.arg.tenant = p.tenant /\ (c.at = "back" => c.got = <<ArpRows(p, s)>>)
  /\ c.fn = "overrides" /\ c.at = "back" => c.got = <<s.ovs>>
  /\ c.fn = "stats" /\ c.at = "back" => c.got = <<s.days>>
  /\ c.fn = "diagnose" => /\ c.arg = p.client /\ p.report = Map!NoReport
                          /\ c.got # <<>> => c.got = <<p.client>>
  /\ c.fn = "wifi" => c.arg.mac = c.arg.in

Reads(cs, fn) == \E c \in cs : c.fn = fn
Changed(cs, fns) == \E c \in cs : c.fn \in fns /\ c.got # <<>>

MacShown(cs, p, s) ==
  p.loaded["mac"] =>
    /\ p.mac.rows = MacRows(p, s) \/ Reads(cs, "macSearch") \/ Changed(cs, {"macScan"})
    /\ p.ovs = s.ovs \/ Reads(cs, "overrides") \/ Changed(cs, {"saveOverride", "removeOverride"})
    /\ p.kept = s.days \/ Reads(cs, "stats") \/ Changed(cs, {"retention"})
ArpShown(cs, p, s) ==
  p.loaded["clientmap"] => p.arp.rows = ArpRows(p, s) \/ Reads(cs, "arpSearch") \/ Changed(cs, {"arpScan"})
PortsShown(cs, p) ==
  p.loaded["inventory"] /\ p.mode = "ports" =>
    p.picker \in Map!Of(p.tenant) \/ \E c \in cs : c.fn = "inventory" /\ c.arg
ReportTells(p) ==
  /\ p.report.of # Map!None => p.diagMac \in {Map!None, p.report.of}
  /\ p.report.wifi \in {Map!None, p.report.of}
ScansShown(cs, p) ==
  /\ p.scanning \subseteq {"mac", "arp"}
  /\ "mac" \in p.scanning => Reads(cs, "macScan")
  /\ "arp" \in p.scanning => Reads(cs, "arpScan")

(* Of the calls that are under way, and of no other. *)
ClientTells(cs, p, s) ==
  /\ \A c \in cs : ClientTold(c, p, s)
  /\ MacShown(cs, p, s) /\ ArpShown(cs, p, s) /\ PortsShown(cs, p) /\ ReportTells(p) /\ ScansShown(cs, p)

ClientTurn == OneOrTogether /\ ClientTells({calls[i] : i \in Map!Ids}, page, server)
ClientRest == ClientTypes /\ (\A i \in Map!Ids : ClientCall(calls[i])) /\ (inTurn => ClientTurn)

(* The rest of the session: what calls carry; a section that is hidden for *)
(* a check comes back with it, and the loading ends with the chain of      *)
(* requests that appInit sends.                                            *)
SessionCall(c) ==
  /\ DOMAIN c = CallFields
  /\ c.fn \in {"register", "login"} => c.arg.user \in Users
  /\ c.fn \in {"me", "version", "load", "work", "password"} => c.arg.as \in Auth!Names
  /\ c.fn = "me" /\ c.got # <<>> => c.got[1] \in {c.arg.as, Auth!Garbled, Auth!Denied}
  /\ c.fn = "load" /\ c.got # <<>> => c.got[1] \in {c.arg.as, Auth!Denied}

OfTheChain(c) == c.fn \in {"version", "load"} \/ (c.fn \in {"status", "me"} /\ c.arg.then = "init")

SectionIsPending == page.section = Auth!None => \E i \in Auth!Ids : calls[i].fn = "status"
LoadingIsPending == page.loading => \E i \in Auth!Ids : OfTheChain(calls[i])

SessionTypes == Auth!TypeOK /\ DOMAIN server = {"users", "must", "valid", "clicks"}

SessionRest ==
  /\ SessionTypes /\ (\A i \in Auth!Ids : SessionCall(calls[i]))
  /\ SectionIsPending /\ LoadingIsPending

(* A user who waits: the requests that lead in are alone, none is under    *)
(* way while a user is shown, and who is shown has the cookie.             *)
Leads(c) == c.fn \in {"register", "login", "password"} \/ (c.fn \in {"status", "me"} /\ c.arg.then = "init")
Clears(c) == c.fn \in {"register", "login", "password", "status", "me"}

SessionTurn ==
  /\ \A i, j \in Auth!Ids : Leads(calls[i]) /\ i # j => calls[j].fn = Auth!None
  /\ \A i \in Auth!Ids : Clears(calls[i]) => page.user = Auth!None
  /\ page.overlay => page.user = Auth!None
  /\ page.user \in {page.cookie, Auth!None} \/ \E i \in Auth!Ids : calls[i].fn = "logout"
  /\ \A i \in Auth!Ids : calls[i].fn = "me" /\ calls[i].arg.then = "init" => calls[i].arg.as = page.cookie

(* WebSettings.                                                            *)
(* Any user: what the page, the server and the calls hold.                 *)
SettingsShape ==
  /\ DOMAIN page = {"drawn", "value", "known", "monitor"} /\ DOMAIN page.value = Prefs!Forms
  /\ DOMAIN server = {"value", "clicks"} /\ DOMAIN server.value = Prefs!Forms
  /\ DOMAIN calls = Prefs!Ids

SettingsCall(c) ==
  /\ DOMAIN c = CallFields
  /\ c.at = "sent" => c.got = <<>>
  /\ c.fn \in {"load", "save"} => c.arg.form \in Prefs!Forms
  /\ c.fn = "save" => c.arg.value \in Prefs!Values
  /\ c.fn \in {"load", "status"} /\ c.got # <<>> => c.got[1] \in Prefs!Values

SettingsRest == SettingsShape /\ Prefs!TypeOK /\ \A i \in Prefs!Ids : SettingsCall(calls[i])

(* A user who waits: what is saved is alone on its way, the switch is      *)
(* ahead of the server by one save that is not decided, and what was       *)
(* answered is as the server still has it.                                 *)
SaveOf(c, f) == c.fn = "save" /\ c.arg.form = f

TrueOf(c, shown, held) ==
  /\ c.fn = "load" /\ c.got # <<>> => c.got[1] = held[c.arg.form]
  /\ c.fn = "status" /\ c.got # <<>> => c.got[1] = held["ping"]
  /\ SaveOf(c, "blacklist") => c.arg.value = shown["blacklist"]

SavesAreAlone ==
  \A i, j \in Prefs!Ids : calls[i].fn = "save" /\ i # j => calls[j].fn = Prefs!None
CallsAreTrue == \A i \in Prefs!Ids : TrueOf(calls[i], page.value, server.value)
Undecided == \E i \in Prefs!Ids : SaveOf(calls[i], "blacklist") /\ calls[i].got = <<>>
SwitchFollows ==
  "blacklist" \in page.known =>
    page.value["blacklist"] = IF Undecided THEN 1 - server.value["blacklist"] ELSE server.value["blacklist"]
MonitorFollows ==
  \/ page.monitor \in {<<>>, <<server.value["ping"]>>}
  \/ \E i \in Prefs!Ids : calls[i].fn = "status" \/ (SaveOf(calls[i], "ping") /\ calls[i].got # <<>>)

SettingsTurn == SavesAreAlone /\ CallsAreTrue /\ SwitchFollows /\ MonitorFollows

(* WebUsers.                                                               *)
(* Any user: what a row, a user and a call hold.                           *)
RolesOrNone == Admin!Roles \union {Admin!None}
UserRecords == [role : RolesOrNone, off : BOOLEAN, groups : SUBSET UserTenants, tabs : SUBSET Boxes]
RowRecords ==
  [role : RolesOrNone, off : BOOLEAN, boxes : BOOLEAN, groups : SUBSET UserTenants, tabs : SUBSET Boxes,
   orig : SUBSET Boxes]

UsersCall(c) ==
  /\ DOMAIN c = CallFields
  /\ c.fn \in Admin!Savings => c.arg.user \in Users
  /\ c.fn \in {"create", "role"} => c.arg.to \in Admin!Roles
  /\ c.fn = "groups" => c.arg.to \in SUBSET UserTenants
  /\ c.fn = "tabs" => c.arg.to \in SUBSET Boxes
  /\ c.fn = "disable" => c.arg.to \in BOOLEAN
  /\ c.fn = "users" /\ c.got # <<>> => c.got[1] \in [Users -> UserRecords]

UsersTypes ==
  /\ page \in [rows : [Users -> RowRecords], in : BOOLEAN]
  /\ DOMAIN server = {"users", "clicks"} /\ server.users \in [Users -> UserRecords]
UsersCalls == DOMAIN calls = Admin!Ids /\ \A i \in Admin!Ids : UsersCall(calls[i])
UsersRest == UsersTypes /\ UsersCalls

(* An administrator who waits: one call at a time, and at each of its      *)
(* stages how far the table is from what the server holds.                 *)
RowTells(r, v, role) ==
  /\ r.role = role /\ r.off = v.off
  /\ r.boxes /\ r.role # Admin!None => r.groups = v.groups /\ r.orig = v.tabs
TableTells(rows, users) == \A u \in Users : RowTells(rows[u], users[u], users[u].role)

(* A role is shown as it was chosen while the server has yet to decide.    *)
RoleAhead(c, rows, users) ==
  /\ users[c.arg.user].role # Admin!None
  /\ \A u \in Users : RowTells(rows[u], users[u], IF u = c.arg.user THEN c.arg.to ELSE users[u].role)

(* Nothing is changed before it is saved, nor when it is refused.          *)
Settled(c) == c.fn \in {"tabs", "disable", "create", "delete"} /\ c.got # <<"ok">>

Told(c, rows, users) ==
  /\ Settled(c) => TableTells(rows, users)
  /\ c.fn = "role" /\ c.got # <<"refused">> => RoleAhead(c, rows, users)
  /\ c.fn = "role" /\ c.got = <<"ok">> => users[c.arg.user].role = c.arg.to
  /\ c.fn = "groups" /\ c.at = "back" => c.got = <<"ok">>
  /\ c.fn \in Admin!Savings => c.got \in IF c.at = "back" THEN {<<"ok">>, <<"refused">>} ELSE {<<>>}
  /\ c.fn = "delete" /\ c.got = <<"ok">> => c.arg.user # Me
  /\ c.fn = "users" /\ c.at = "back" => c.got = <<users>>

OneCall ==
  \A i, j \in Admin!Ids : calls[i].fn # Admin!None /\ i # j => calls[j].fn = Admin!None
TableFollows ==
  /\ Admin!Quiet => TableTells(page.rows, server.users)
  /\ \A i \in Admin!Ids : Told(calls[i], page.rows, server.users)

UsersTurn == OneCall /\ (Admin!MayAsk => TableFollows)

(* WebProfiles.                                                             *)
(* Any user: what the form, the store and a call hold, and that one         *)
(* generation is under way while the page is busy.                          *)
IsCache(f) == DOMAIN f \subseteq AiProfiles /\ \A p \in DOMAIN f : f[p] \in Providers
Edited == AiProfiles \union {Ai!New, Ai!Nothing}

ProfileForm(p) ==
  /\ DOMAIN p = {"cache", "active", "edit", "provider", "key", "models", "busy"}
  /\ IsCache(p.cache) /\ p.edit \in Edited
  /\ p.provider \in Providers \union {Ai!None} /\ p.models \in Providers \union {Ai!None}
  /\ p.edit \in AiProfiles => p.key \in {Ai!None, p.edit}
  /\ p.busy \in BOOLEAN
ProfileStore(s) ==
  /\ DOMAIN s = {"profiles", "keys", "active", "clicks"} /\ DOMAIN s.keys = AiProfiles
  /\ IsCache(s.profiles)
ProfileTypes == ProfileForm(page) /\ ProfileStore(server)

ProfileCall(c) ==
  /\ c.fn = "profiles" => /\ c.arg = <<>> \/ \E p \in AiProfiles : c.arg = <<p>>
                          /\ c.got # <<>> => IsCache(c.got[1].profiles)
  /\ c.fn = "models" => c.arg.of \in Providers
  /\ c.fn = "save" => /\ c.arg.of \in Edited /\ c.arg.provider \in Providers
                      /\ c.arg.of \in AiProfiles => c.arg.key \in {Ai!None, c.arg.of}
                      /\ c.got # <<>> => c.got[1] \in AiProfiles

Generates(c) == c.fn = "generate"
OneGenerates ==
  /\ page.busy <=> \E i \in Ai!Ids : Generates(calls[i])
  /\ \A i, j \in Ai!Ids : Generates(calls[i]) /\ Generates(calls[j]) => i = j
ProfileCalls == DOMAIN calls = Ai!Ids /\ \A i \in Ai!Ids : ProfileCall(calls[i])
ProfileRest == ProfileTypes /\ OneGenerates /\ ProfileCalls

(* A user who waits: one call at a time, and the page lists what the server *)
(* has until the server decides, and again when the load that follows came. *)
EditIsListed(p, s) == p.edit \in DOMAIN s.profiles \union {Ai!New}
ListIsShown(p, s) == p.cache = s.profiles /\ p.active = s.active /\ EditIsListed(p, s)
FormTells(p) ==
  /\ p.models # Ai!None => p.models = p.provider
  /\ p.key \in {Ai!None, p.edit} /\ p.edit # Ai!Nothing
KeysAreOwn(s) == \A q \in AiProfiles : s.keys[q] \in {Ai!None, q, Ai!New}

Decisions == {"save", "delete", "activate"}
ProfileTold(c, p, s) ==
  /\ c.at = "sent" => c.got = <<>>
  /\ c.fn \in Decisions \union {"models", "generate"} =>
       ListIsShown(p, s) \/ (c.fn \in Decisions /\ c.got # <<>>)
  /\ c.fn = "models" => c.arg.of = p.provider
  /\ c.fn = "save" => /\ c.arg.key \in {Ai!None, c.arg.of} /\ c.arg.of # Ai!Nothing
                      /\ c.got # <<>> => c.got[1] \in DOMAIN s.profiles
  /\ c.fn = "activate" /\ c.got # <<>> =>
       p.cache = s.profiles /\ s.active = c.arg.of /\ EditIsListed(p, s)
  /\ c.fn = "profiles" => /\ c.arg # <<>> => c.arg[1] \in DOMAIN s.profiles
                          /\ c.at = "back" => c.got = <<[profiles |-> s.profiles, active |-> s.active]>>

OneProfileCall ==
  \A i, j \in Ai!Ids : calls[i].fn # Ai!None /\ calls[j].fn # Ai!None => i = j
ProfileTurn ==
  /\ OneProfileCall
  /\ \A i \in Ai!Ids : ProfileTold(calls[i], page, server)
  /\ Ai!Quiet => ListIsShown(page, server)
  /\ FormTells(page) /\ KeysAreOwn(server)

(* WebSites.                                                                *)
(* Any user: what the page, the server and a call hold; an inventory is     *)
(* always together with the site at which it was read.                      *)
ModesOrNone == Site!Modes \union {Site!None}
SiteJobs(s) ==
  {j \in [command : {"inventory", "save"}, status : {"queued", "done"}, result : {Site!None, s}] :
     j.status = "done" => j.result = s}

SitesDialog(d) ==
  /\ DOMAIN d = {"open", "title", "of", "jobs", "inventory"}
  /\ d.of \in AgentSites \union {Site!None}
  /\ d.inventory # <<>> => d.inventory = <<d.of>>
SitesPage(p) ==
  /\ DOMAIN p = {"mode", "shown", "identities", "choices", "dialog"}
  /\ p.mode \in [AgentSites -> ModesOrNone] /\ p.shown \in [AgentSites -> 0..MaxTokens]
  /\ SitesDialog(p.dialog)
SitesServer(s) ==
  /\ DOMAIN s = {"sites", "tokens", "jobs", "clicks"}
  /\ s.sites \in [AgentSites -> [mode : ModesOrNone, token : 0..MaxTokens]]
  /\ s.tokens \in 0..MaxTokens
  /\ DOMAIN s.jobs = AgentSites /\ \A t \in AgentSites : s.jobs[t] \in Seq(SiteJobs(t))

Changes == {"create", "regenerate", "delete"}
SitesCall(c) ==
  /\ DOMAIN c = {"fn", "at", "arg", "got"}
  /\ c.fn \in Changes => c.arg.of \in AgentSites /\ (c.got # <<>> => c.got[1] \in 0..MaxTokens)
  /\ c.fn = "create" => c.arg.mode \in Site!Modes
  /\ c.fn = "sites" /\ c.got # <<>> => \A s \in AgentSites : c.got[1][s].mode \in ModesOrNone
  /\ c.fn = "agent" => /\ DOMAIN c.arg = {"of", "jobs", "sites"} /\ c.arg.of \in AgentSites
                       /\ c.arg.jobs # <<>> => c.arg.jobs[1] \in Seq(SiteJobs(c.arg.of))
                       /\ c.at = "back" => c.arg.jobs # <<>>
  /\ c.fn = "act" => /\ c.arg.of \in AgentSites /\ c.arg.act \in {"inventory", "save"}
                     /\ c.arg.act = "save" => c.arg.text = <<c.arg.of>>

SitesRest ==
  /\ SitesPage(page) /\ SitesServer(server)
  /\ DOMAIN calls = Site!Ids /\ \A i \in Site!Ids : SitesCall(calls[i])

(* A user who waits: one call at a time; the table is that of the server    *)
(* until the server decides, and again when the load that follows came; and *)
(* a token comes with the answer of the call that made it.                  *)
ModesShown(p, s) == \A t \in AgentSites : p.mode[t] = s.sites[t].mode
TokenShown(p, s, t) == s.sites[t].mode = "agent" => p.shown[t] = s.sites[t].token
TokensShown(p, s) == \A t \in AgentSites : TokenShown(p, s, t)
DialogTells(d) == d.open => d.title = d.of
ChoicesTell(p) ==
  p.identities \in {<<>>, <<SiteIdentities>>} /\ p.choices \in {<<>>, <<SiteIdentities>>}

TokenComes(c, p, s) ==
  /\ \A t \in AgentSites \ {c.arg.of} : TokenShown(p, s, t)
  /\ s.sites[c.arg.of].mode = "agent" => c.got[1] = s.sites[c.arg.of].token /\ c.got[1] # 0
SitesTold(c, p, s) ==
  /\ c.at = "sent" => c.got = <<>>
  /\ c.fn \in Changes => IF c.got = <<>> THEN ModesShown(p, s) /\ TokensShown(p, s) ELSE TokenComes(c, p, s)
  /\ c.fn = "sites" => TokensShown(p, s) /\ (c.at = "back" => c.got = <<s.sites>>)
  /\ c.fn \in {"identities", "agent", "act"} => ModesShown(p, s) /\ TokensShown(p, s)
  /\ c.fn = "identities" /\ c.at = "back" => c.got = <<SiteIdentities>>
  /\ c.fn = "agent" => p.dialog.title = c.arg.of
  /\ c.fn # "agent" /\ c.fn # Site!None => DialogTells(p.dialog)
SitesShown(p, s) == ModesShown(p, s) /\ TokensShown(p, s) /\ DialogTells(p.dialog)

OneSitesCall ==
  \A i, j \in Site!Ids : calls[i].fn # Site!None /\ calls[j].fn # Site!None => i = j
SitesTurn ==
  /\ OneSitesCall
  /\ \A i \in Site!Ids : SitesTold(calls[i], page, server)
  /\ Site!Quiet => SitesShown(page, server)
  /\ ChoicesTell(page)

(* WebPolicy.                                                               *)
(* Any user: what the page holds.  A user who waits: what is remembered is  *)
(* of its device, what is drawn is of the tenant, and as long as anything   *)
(* is on the way it is of the device that is chosen.                        *)
PolicyPage(p) ==
  /\ DOMAIN p = {"tenant", "dev", "panel", "pkt", "shows", "cache"}
  /\ p.tenant \in Policy!Tenants \union {Policy!None} /\ p.dev \in Routers \union {Policy!None}
  /\ p.panel \in Policy!Panels /\ p.pkt \in Packets \union {Policy!None}
  /\ DOMAIN p.shows = Policy!Panels
  /\ \A l \in Policy!Panels : DOMAIN p.shows[l] = {"of", "pkt", "proof", "drawn"}
  /\ DOMAIN p.cache = Policy!Lists
  /\ \A l \in Policy!Lists : DOMAIN p.cache[l] = Routers \union {Policy!None}
  /\ p.dev # Policy!None => RouterGroup(p.dev) = p.tenant
PolicyTells(p) ==
  /\ \A l \in Policy!Lists : \A d \in Routers : p.cache[l][d] \in {Policy!None, d}
  /\ \A l \in Policy!Panels :
       p.shows[l].of # Policy!None => p.dev # Policy!None /\ RouterGroup(p.shows[l].of) = p.tenant
PolicyTold(c, dev) ==
  /\ c.fn # Policy!None => dev # Policy!None
  /\ c.fn \in Policy!Lists => c.arg = dev /\ (c.got # <<>> => c.got = <<dev>>)
  /\ c.fn = "trace" => c.arg.dev = dev /\ (c.got # <<>> => c.got[1].dev = dev)
PolicyRest == PolicyPage(page) /\ DOMAIN calls = Policy!Ids
PolicyTurn == PolicyTells(page) /\ \A i \in Policy!Ids : PolicyTold(calls[i], page.dev)
PolicyInv == PolicyRest /\ (inTurn => PolicyTurn)

(* WebFirewall.                                                             *)
(* Any user: what the page, the server and a call hold; a form names no     *)
(* firewall but the one its token was typed for.                            *)
FwForm(f) ==
  /\ DOMAIN f = {"edit", "ip", "tok"} /\ f.ip \in Fw!Somebody
  /\ f.edit \in {Fw!Nobody, f.ip} /\ f.tok \in {Fw!Nobody, f.ip}
FwTargets(t) == DOMAIN t = {"rows", "active"} /\ t.rows \subseteq Firewalls /\ t.active \in Fw!Somebody
FwData(d) == DOMAIN d = {"got", "of", "at"} /\ d.got \in BOOLEAN /\ d.of \in Fw!Somebody
FwPage(p) ==
  /\ DOMAIN p = {"pane", "view", "targets", "select", "data", "shown", "filled", "tiles", "tokens", "prev", "modal", "form",
                 "table", "drawn", "tested"}
  /\ p.pane \in Fw!Panes /\ p.view \in Fw!Views /\ p.select \in Fw!Somebody /\ FwTargets(p.targets)
  /\ DOMAIN p.data = Fw!Views /\ DOMAIN p.shown = Fw!Views /\ \A k \in Fw!Views : FwData(p.data[k])
  /\ p.tokens \subseteq Firewalls /\ p.table \subseteq Firewalls /\ p.tested \subseteq Firewalls
  /\ FwForm(p.prev) /\ FwForm(p.form) /\ p.modal \in BOOLEAN
FwServer(s) ==
  /\ DOMAIN s = {"tok", "active", "kills", "kept", "clicks"}
  /\ DOMAIN s.tok = Firewalls /\ \A d \in Firewalls : s.tok[d] \in {d, Fw!Nobody}
  /\ s.active \in Fw!Somebody /\ DOMAIN s.kills = Firewalls /\ s.kept \in BOOLEAN
FwCall(c) ==
  /\ c.fn = "targets" => c.arg \in {"tab", "select", "modal", "settings"} /\ (c.got # <<>> => FwTargets(c.got[1]))
  /\ c.fn = "tokens" => (c.got # <<>> => c.got[1] \subseteq Firewalls)
  /\ c.fn = "dataset" =>
       c.arg.key \in Fw!Views /\ c.arg.of \in Firewalls /\ (c.got # <<>> => FwData(c.got[1]))
  /\ c.fn \in {"status", "kill"} => c.arg \in Firewalls
  /\ c.fn = "active" => c.arg.of \in Firewalls /\ c.arg.then \in {"select", "modal"}
  /\ c.fn = "prevToken" => c.arg.ip \in Firewalls /\ c.arg.tok \in {Fw!Nobody, c.arg.ip}
  /\ c.fn \in {"new", "put"} => FwForm(c.arg) /\ c.arg.ip \in Firewalls /\ (c.fn = "put" => c.arg.edit = c.arg.ip)
  /\ c.fn = "test" => c.arg.of \in Firewalls
FwCalls(cs) == DOMAIN cs = Fw!Ids /\ \A i \in Fw!Ids : FwCall(cs[i])
FwRest == FwPage(page) /\ FwServer(server) /\ FwCalls(calls)

(* A user who waits: what holds when nothing is on the way, each part of it *)
(* also as long as no call is on the way that is about to restore it.       *)
OfSelected(p, s) ==
  ~s.kept => /\ p.select = Fw!Selected(p.targets)
             /\ \A k \in Fw!Views : p.data[k].of \in {p.select, Fw!Nobody}
TilesOfSelected(p, s) == ~s.kept /\ p.pane = "overview" => p.tiles \in {p.select, Fw!Nobody}
ShownIsRead(p) == p.pane \in DOMAIN Fw!Default => p.shown[p.view] \in {p.data[p.view].of, Fw!Nobody}
KillIsSeen(p, s) == p.data["sessions"].of # Fw!Nobody => p.data["sessions"].at = s.kills[p.data["sessions"].of]
TableIsList(p) == p.modal => p.table = p.targets.rows /\ p.tested \subseteq p.table
FwShown(p, s) ==
  OfSelected(p, s) /\ TilesOfSelected(p, s) /\ ShownIsRead(p) /\ KillIsSeen(p, s) /\ TableIsList(p)

Selecting(c) == (c.fn = "active" /\ c.arg.then = "select") \/ (c.fn = "targets" /\ c.arg = "select")
FwTold(c, p, s) ==
  /\ c.at = "sent" => c.got = <<>>
  /\ c.fn # Fw!None =>
       /\ Selecting(c) \/ OfSelected(p, s)
       /\ Selecting(c) \/ c.fn = "status" \/ TilesOfSelected(p, s)
       /\ ShownIsRead(p) \/ (c.fn = "dataset" /\ c.arg.key = p.view)
       /\ KillIsSeen(p, s) \/ (c.fn = "kill" /\ c.got # <<>>) \/ (c.fn = "dataset" /\ c.arg.key = "sessions")
       /\ TableIsList(p)
  /\ (c.fn = "targets" /\ c.arg # "modal") \/ Selecting(c) => ~p.modal
  /\ c.fn = "test" /\ c.arg.drawn = p.drawn => c.arg.of \in p.table
  /\ c.fn = "dataset" =>
       c.arg.of = p.select /\ (c.got # <<>> => c.got[1].of = p.select /\ c.got[1].at = s.kills[p.select])
  /\ c.fn = "status" => c.arg = p.select /\ (c.got # <<>> => c.got[1] = p.select)
  /\ c.fn = "kill" => c.arg = p.select

(* One call at a time, but for the two that open the settings.              *)
FwPair(c, d) == c.fn = "tokens" /\ d.fn = "targets" /\ d.arg = "settings"
FwFew(cs) ==
  \A i, j \in Fw!Ids : i # j /\ cs[i].fn # Fw!None /\ cs[j].fn # Fw!None =>
    FwPair(cs[i], cs[j]) \/ FwPair(cs[j], cs[i])
FwNone(cs) == \A i \in Fw!Ids : cs[i].fn = Fw!None
FwTells(cs, p, s) ==
  /\ FwFew(cs) /\ \A i \in Fw!Ids : FwTold(cs[i], p, s)
  /\ FwNone(cs) => FwShown(p, s)
FwTurn == FwTells(calls, page, server)
FwInv == FwRest /\ (inTurn => FwTurn)

(* WebCategories.                                                           *)
(* Any user: what the page, the server and a call hold.                     *)
FieldValues ==
  [category |-> Cats \union {Panel!Base, Panel!Empty}, subcategory |-> Subs \union {Panel!Empty},
   name |-> DeviceNames \union {Panel!Empty}]
IsEdit(e) == DOMAIN e \subseteq Panel!Fields /\ \A f \in DOMAIN e : e[f] \in FieldValues[f]

IsClassification(c) ==
  DOMAIN c = {"cats", "nodes", "meta"} /\ c.nodes \subseteq Panel!Nodes /\ \A n \in c.nodes : c.meta[n] \in Panel!Meta

PanelPage(p) ==
  /\ DOMAIN p = {"known", "pending", "listeners"} /\ IsClassification(p.known)
  /\ \A n \in DOMAIN p.pending : n \in Panel!Nodes /\ IsEdit(p.pending[n])
  /\ p.listeners \in 0..FewCalls

PanelServer(s) ==
  /\ DOMAIN s = {"cats", "meta", "nodes", "stacks", "clicks"}
  /\ DOMAIN s.meta = Panel!Nodes /\ \A n \in Panel!Nodes : s.meta[n] \in Panel!Meta
  /\ s.nodes \subseteq Panel!Nodes /\ s.clicks \in Nat

PanelCall(c) ==
  /\ DOMAIN c = CallFields
  /\ c.fn = "load" /\ c.got # <<>> => IsClassification(c.got[1])
  /\ c.fn = "assign" => c.arg.id \in Panel!Nodes /\ IsEdit(c.arg.edit) /\ c.arg.todo \subseteq Panel!Nodes
  /\ c.fn = "name" => c.arg.id \in Panel!Nodes /\ c.arg.name \in FieldValues.name
  /\ c.fn = "promote" => /\ c.arg.id \in Neighbours /\ c.arg.name \in FieldValues.name
                         /\ c.arg.category \in FieldValues.category

PanelRest ==
  /\ DOMAIN calls = Panel!Ids /\ \A i \in Panel!Ids : PanelCall(calls[i])
  /\ PanelPage(page) /\ PanelServer(server)

(* A user who waits: what a load brings is what the server has; what is     *)
(* staged is saved row by row; of two calls each deletes the same, or finds *)
(* it deleted.                                                              *)
Saved(s, n, e) == Panel!Merged(s.meta[n], e) = s.meta[n]
PanelTold(c, p, s) ==
  /\ c.fn = "load" /\ c.at = "back" => c.got = <<Panel!Classified(s)>>
  /\ c.fn = "assign" =>
       /\ c.arg.todo \subseteq DOMAIN p.pending /\ c.arg.id \in DOMAIN p.pending /\ c.arg.edit = p.pending[c.arg.id]
       /\ \A n \in DOMAIN p.pending \ c.arg.todo : (n = c.arg.id /\ c.at = "sent") \/ Saved(s, n, p.pending[n])
  /\ c.fn = "promote" /\ c.at = "back" => c.arg.id \notin s.nodes

Promoting(c, n) == c.fn = "promote" /\ c.at = "back" /\ c.got # <<>> /\ c.arg.id = n
Renewing(c) ==
  \/ c.fn \in {"load", "assign"}
  \/ c.fn \in Panel!Changes \union {"promote"} /\ c.at = "back" /\ c.got # <<>>

PanelShown(cs, p, s) ==
  /\ p.known = Panel!Classified(s) \/ \E i \in Panel!Ids : Renewing(cs[i])
  /\ \A n \in DOMAIN p.pending : n \in s.nodes \/ \E i \in Panel!Ids : Promoting(cs[i], n)

Deletes == {"delete", "deletesub"}
IsDeleted(c, s) ==
  IF c.fn = "delete" THEN c.arg.key \notin DOMAIN s.cats ELSE Panel!WithoutSub(s, c.arg.key, c.arg.sub) = s
PanelPair(c, e, s) ==
  c.fn # Panel!None /\ e.fn # Panel!None =>
    /\ c.fn \in Deletes \union {"load"}
    /\ c.fn \in Deletes /\ c.at = "sent" => e = c \/ IsDeleted(c, s)

PanelTurn ==
  /\ \A i \in Panel!Ids : PanelTold(calls[i], page, server)
  /\ PanelShown(calls, page, server)
  /\ \A i, j \in Panel!Ids : i # j => PanelPair(calls[i], calls[j], server)
PanelInv == PanelRest /\ (inTurn => PanelTurn)

PagesInv ==
  /\ part = "clients" => ClientInv /\ ClientRest
  /\ part = "session" => SessionInv /\ SessionRest /\ (inTurn => SessionTurn)
  /\ part = "settings" => SettingsRest /\ (inTurn => SettingsTurn)
  /\ part = "users" => UsersRest /\ (inTurn => UsersTurn)
  /\ part = "policy" => PolicyInv
  /\ part = "firewall" => FwInv
  /\ part = "categories" => PanelInv
  /\ part = "sites" => SitesRest /\ (inTurn => SitesTurn)
  /\ part = "profiles" => ProfileRest /\ (inTurn => ProfileTurn)
=============================================================================
