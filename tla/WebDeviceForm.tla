---------------------------- MODULE WebDeviceForm ----------------------------
(***************************************************************************)
(* The form that adds and changes devices, and what is done to one device  *)
(* in the table (web/static/js/devices.js, provisioning.js, core.js).  The *)
(* form is filled in pieces: opening its tab reloads tenants, sites and    *)
(* identities while a device to change is being filled in.                 *)
(***************************************************************************)
EXTENDS Browser

CONSTANTS
  Devices, Tenants, Sites,
  First,        \* the tenant listed first, which a select shows by itself
  Central,      \* the site of a device of no other
  Identity,     \* [tenant -> the identity kept for it]
  MaxClicks     \* bound on what the user does; each waits for calls to end

VARIABLES page, server
vars == <<page, calls, server, inTurn>>

Default == "default"
Profiles == {Default} \union {Identity[t] : t \in Tenants}
Record == [group : Tenants, site : Sites, profile : Profiles, password : BOOLEAN]

(* The form: password is whether one is typed in. *)
Blank == [ip |-> None, group |-> First, site |-> Central, profile |-> Default, password |-> FALSE]

(* What /api/local-devices says of devices: not where they are. *)
Told(ds) == [d \in DOMAIN ds |-> [group |-> ds[d].group, site |-> Central, profile |-> ds[d].profile]]

(* What refreshIdentityOptions was asked for, and who goes on after it. *)
IdentitiesOf(t, keep) == Asks("identities", [tenant |-> t, keep |-> keep])
SitesFor(keep, then) == Asks("sites", [keep |-> keep, then |-> then])

Init ==
  /\ inTurn
  /\ \E t \in Tenants, s \in Sites :
       LET ds == [d \in Devices |->
                    [group |-> t, site |-> s, profile |-> Identity[t], password |-> TRUE]] IN
       /\ server = [devices |-> ds, kept |-> Tenants, clicks |-> 0]
       /\ page = [devices |-> Told(ds), form |-> Blank, editing |-> None,
                  offered |-> {}, off |-> FALSE]
  /\ calls = NoCalls

-----------------------------------------------------------------------------
MayClick == Quiet /\ server.clicks < MaxClicks
Clicked == server' = [server EXCEPT !.clicks = @ + 1]

(* populateProvisioningFormSelects: the list of tenants is made anew. *)
Populated(p) == [p EXCEPT !.form.group = First]

(* loadProvisioningTab, started when the tab is shown. *)
OpenTab ==
  /\ MayClick /\ calls' = Begun(calls, Asks("groups", <<>>))
  /\ Clicked /\ UNCHANGED page

(* Sites are loaded twice at once; only the second is waited for. *)
GotGroups(i) ==
  /\ Back(i, "groups")
  /\ page' = Populated(page)
  /\ calls' = Begun(Moved(i, SitesFor(page.form.site, "tab")), SitesFor(page.form.site, None))
  /\ UNCHANGED server

(* editDevice: the tab is opened, and the tenant set, before sites are known. *)
ClickEdit(d) ==
  /\ MayClick /\ d \in DOMAIN page.devices
  /\ page' = [page EXCEPT !.editing = d, !.form.group = page.devices[d].group]
  /\ calls' = Begun(Begun(calls, Asks("sites", [keep |-> page.devices[d].site, then |-> d])),
                    Asks("groups", <<>>))
  /\ Clicked

(* populateSiteOptions, and what its caller does next. *)
GotSites(i) ==
  /\ Back(i, "sites")
  /\ LET then == calls[i].arg.then
         p == [page EXCEPT !.form.site = IF Answered(i) THEN calls[i].arg.keep ELSE Central]
     IN  \/ then = None /\ page' = p /\ Ends(i)
         \/ /\ then = "tab" /\ page' = p
            /\ GoesOn(i, IdentitiesOf(p.form.group, p.form.profile))
         \/ /\ then \in Devices
            /\ page' = [p EXCEPT !.form.ip = then, !.form.password = FALSE]
            /\ GoesOn(i, IdentitiesOf(p.form.group, page.devices[then].profile))
  /\ UNCHANGED server

(* refreshIdentityOptions, then renderIdentitiesPanel. *)
GotIdentities(i) ==
  /\ Back(i, "identities")
  /\ LET ids == IF Answered(i) THEN Answer(i) ELSE {}
         keep == calls[i].arg.keep
     IN  page' = [page EXCEPT !.offered = ids, !.form.profile = IF keep \in ids THEN keep ELSE Default]
  /\ Ends(i)
  /\ UNCHANGED server

(* The tenant is chosen by hand. *)
ChooseTenant(t) ==
  /\ MayClick
  /\ page' = [page EXCEPT !.form.group = t]
  /\ calls' = Begun(calls, IdentitiesOf(t, page.form.profile))
  /\ Clicked

TypePassword ==
  /\ MayClick /\ ~page.form.password
  /\ page' = [page EXCEPT !.form.password = TRUE]
  /\ Clicked /\ UNCHANGED calls

-----------------------------------------------------------------------------
(* What changes the inventory, and appInit after it. *)
ClickSave(d) ==
  /\ MayClick /\ (page.editing # None => d = page.form.ip)
  /\ d \in Devices
  /\ calls' = Begun(calls, Asks("save", [of |-> d, to |-> page.form]))
  /\ Clicked /\ UNCHANGED page

ClickDelete(d) ==
  /\ MayClick /\ d \in DOMAIN page.devices
  /\ calls' = Begun(calls, Asks("delete", [of |-> d]))
  /\ Clicked /\ UNCHANGED page

(* A select of the table, off until the answer. *)
ClickReassign(d, t) ==
  /\ MayClick /\ d \in DOMAIN page.devices /\ t # page.devices[d].group
  /\ calls' = Begun(calls, Asks("reassign", [of |-> d, to |-> t]))
  /\ page' = [page EXCEPT !.off = TRUE]
  /\ Clicked

ClickSite(d, s) ==
  /\ MayClick /\ d \in DOMAIN page.devices /\ s # page.devices[d].site
  /\ calls' = Begun(calls, Asks("site", [of |-> d, to |-> s]))
  /\ page' = [page EXCEPT !.off = TRUE]
  /\ Clicked

ClickForget(t) ==
  /\ MayClick /\ Identity[t] \in page.offered
  /\ calls' = Begun(calls, Asks("forget", [of |-> t]))
  /\ Clicked /\ UNCHANGED page

ClickCancel ==
  /\ MayClick /\ page.editing # None
  /\ page' = [page EXCEPT !.editing = None, !.form = [Blank EXCEPT !.group = page.form.group]]
  /\ Clicked /\ UNCHANGED calls

AppInit == Asks("devices", <<>>)

Saved(i) ==
  /\ Back(i, "save")
  /\ IF Answered(i)
     THEN /\ page' = [page EXCEPT !.editing = None, !.form = [Blank EXCEPT !.group = page.form.group]]
          /\ GoesOn(i, AppInit)
     ELSE UNCHANGED page /\ Ends(i)
  /\ UNCHANGED server

Deleted(i) ==
  /\ Back(i, "delete")
  /\ IF Answered(i) THEN GoesOn(i, AppInit) ELSE Ends(i)
  /\ UNCHANGED <<page, server>>

(* reassignDevice changes the cached device and reloads nothing. *)
Reassigned(i) ==
  /\ Back(i, "reassign")
  /\ page' = [page EXCEPT !.off = FALSE,
                !.devices[calls[i].arg.of].group = IF Answered(i) THEN calls[i].arg.to ELSE @]
  /\ Ends(i)
  /\ UNCHANGED server

SiteReassigned(i) ==
  /\ Back(i, "site")
  /\ page' = [page EXCEPT !.off = FALSE,
                !.devices[calls[i].arg.of].site = IF Answered(i) THEN calls[i].arg.to ELSE @]
  /\ IF Answered(i) THEN GoesOn(i, AppInit) ELSE Ends(i)
  /\ UNCHANGED server

(* deleteIdentity: one in use is refused; either way the list is refreshed, *)
(* unless it was refused.                                                   *)
Forgotten(i) ==
  /\ Back(i, "forget")
  /\ IF Answered(i) /\ Answer(i) = "in use" THEN Ends(i)
     ELSE GoesOn(i, IdentitiesOf(page.form.group, page.form.profile))
  /\ UNCHANGED <<page, server>>

(* appInit, as far as this page goes. *)
GotDevices(i) ==
  /\ Back(i, "devices")
  /\ IF Answered(i)
     THEN /\ page' = Populated([page EXCEPT !.devices = Answer(i)])
          /\ GoesOn(i, SitesFor(page.form.site, None))
     ELSE UNCHANGED page /\ Ends(i)
  /\ UNCHANGED server

-----------------------------------------------------------------------------
Put(f, d, r) == [x \in DOMAIN f \union {d} |-> IF x = d THEN r ELSE f[x]]
InUse(t) == \E d \in DOMAIN server.devices : server.devices[d].profile = Identity[t]

Store(ds) == server' = [server EXCEPT !.devices = ds]

(* handleAddDevice does not read the site, and keeps the password sent. *)
Kept(form) ==
  [group |-> form.group, site |-> Central, profile |-> form.profile, password |-> form.password]

ServeChange(i) ==
  LET d == calls[i].arg.of
      ds == server.devices
  IN  /\ \/ Sent(i, "save") /\ Store(Put(ds, d, Kept(calls[i].arg.to)))
         \/ Sent(i, "delete") /\ Store([x \in DOMAIN ds \ {d} |-> ds[x]])
         \/ Sent(i, "reassign") /\ Store([ds EXCEPT ![d].group = calls[i].arg.to])
         \/ Sent(i, "site") /\ Store([ds EXCEPT ![d].site = calls[i].arg.to])
      /\ Answers(i, "ok")
      /\ UNCHANGED page

ServeForget(i) ==
  /\ Sent(i, "forget")
  /\ LET t == calls[i].arg.of
     IN  IF InUse(t) THEN Answers(i, "in use") /\ UNCHANGED server
         ELSE Answers(i, "ok") /\ server' = [server EXCEPT !.kept = @ \ {t}]
  /\ UNCHANGED page

ServeRead(i) ==
  /\ \/ Sent(i, "devices") /\ Answers(i, Told(server.devices))
     \/ Sent(i, "groups") /\ Answers(i, Tenants)
     \/ Sent(i, "sites") /\ Answers(i, Sites)
     \/ /\ Sent(i, "identities")
        /\ Answers(i, {Identity[t] : t \in server.kept \intersect {calls[i].arg.tenant}})
  /\ UNCHANGED <<page, server>>

(* A request that changes something may be refused, or lost on its way. *)
Refuse(i) ==
  /\ calls[i].at = "sent" /\ calls[i].fn \in {"save", "delete", "reassign", "site"}
  /\ Fails(i)
  /\ UNCHANGED <<page, server>>

Serve(i) == ServeChange(i) \/ ServeForget(i) \/ ServeRead(i)
Continue(i) ==
  \/ GotGroups(i) \/ GotSites(i) \/ GotIdentities(i) \/ GotDevices(i)
  \/ Saved(i) \/ Deleted(i) \/ Reassigned(i) \/ SiteReassigned(i) \/ Forgotten(i)

Next ==
  /\ UNCHANGED inTurn
  /\ \/ \E i \in Ids : Serve(i) \/ Refuse(i) \/ Continue(i)
     \/ \E d \in Devices : ClickEdit(d) \/ ClickSave(d) \/ ClickDelete(d)
     \/ \E d \in Devices, t \in Tenants : ClickReassign(d, t)
     \/ \E d \in Devices, s \in Sites : ClickSite(d, s)
     \/ \E t \in Tenants : ChooseTenant(t) \/ ClickForget(t)
     \/ OpenTab \/ ClickCancel \/ TypePassword

-----------------------------------------------------------------------------
TypeOK ==
  /\ page.form.group \in Tenants /\ page.form.site \in Sites
  /\ DOMAIN page.devices \subseteq Devices /\ page.off \in BOOLEAN
  /\ \A d \in DOMAIN server.devices : server.devices[d] \in Record

(***************************************************************************)
(* At rest the page has the inventory of the server, whatever was refused: *)
(* what a call changed here it changed there, and no select is left off.   *)
(***************************************************************************)
CacheIsTheInventory == Quiet => page.devices = Told(server.devices) /\ ~page.off

(* A device in the form is the one being changed, and its profile exists. *)
FormIsConsistent ==
  /\ Quiet /\ page.editing # None => page.form.ip = page.editing
  /\ Quiet /\ page.form.profile # Default => page.form.profile \in page.offered

(***************************************************************************)
(* devices.js says that a credential left blank when a device is changed   *)
(* stays as it is saved.                                                   *)
(***************************************************************************)
KeepsSaved ==
  \A d \in DOMAIN server.devices \intersect DOMAIN server'.devices :
    page.editing = d /\ server.devices[d].password => server'.devices[d].password
=============================================================================
