----------------------------- MODULE WebDevices -----------------------------
(***************************************************************************)
(* The status of devices in the inventory (web/static/js/devices.js): a    *)
(* ping or a triage of one device, the ping of all that are shown, and the *)
(* triage of a group, whose progress is polled.  Each answer changes the   *)
(* cached status and paints its row; the table may be drawn again while a  *)
(* request is in progress, and a row drawn before is then painted in vain. *)
(* What the page does with null, unknown and icmp_reachable is left out:   *)
(* this server sends none of them.                                         *)
(***************************************************************************)
EXTENDS Browser, FiniteSets

CONSTANTS
  Devices,
  Tenant,       \* [Devices -> tenant]
  Jump,         \* devices behind a bastion, which no ping reaches
  Known,        \* devices with a status at the start
  MaxClicks     \* bound on what users do, by whether they wait: [BOOLEAN -> Nat]

VARIABLES page, server
vars == <<page, calls, server, inTurn>>

Tenants == {Tenant[d] : d \in Devices}
All == "all"
Statuses == {None, "online", "offline"}

-----------------------------------------------------------------------------
(* renderDeviceTable: a row for each device of the tenant that is chosen.  *)
Listed(p) == {d \in Devices : p.filter \in {All, Tenant[d]}}

Drawn(p) ==
  [p EXCEPT !.rows = [d \in Listed(p) |-> p.versions[d]], !.drawn = 1 - @, !.off = {}]

(* An answer paints the row it was asked from, if that row is still there. *)
Painted(p, d, label, drawn) ==
  IF d \in DOMAIN p.rows /\ p.drawn = drawn THEN [p EXCEPT !.rows[d] = label] ELSE p

Set(p, d, st) == [p EXCEPT !.versions[d] = st]

Init ==
  /\ inTurn \in BOOLEAN
  /\ LET vs == [d \in Devices |-> IF d \in Known THEN "online" ELSE None] IN
       /\ server = [known |-> vs, left |-> {}, running |-> FALSE, seen |-> TRUE,
                    lost |-> {}, clicks |-> 0]
       /\ page = [versions |-> vs, rows |-> vs, drawn |-> 0, off |-> {},
                  filter |-> All, polling |-> FALSE, wasRunning |-> FALSE, pinging |-> FALSE]
  /\ calls = NoCalls

-----------------------------------------------------------------------------
MayClick == server.clicks < MaxClicks[inTurn] /\ (inTurn => Quiet)
Clicked == server' = [server EXCEPT !.clicks = @ + 1]

(* A button of a row, off until the answer, or until the row is drawn anew. *)
Button(fn, d) ==
  /\ MayClick /\ d \in DOMAIN page.rows /\ <<fn, d>> \notin page.off
  /\ Starts(Asks(fn, [of |-> d, drawn |-> page.drawn]))
  /\ page' = [page EXCEPT !.off = @ \union {<<fn, d>>}, !.rows[d] = "busy"]
  /\ Clicked

ClickPing(d) == Button("ping", d)
ClickTriage(d) == Button("triage", d)
On(p, i) == IF p.drawn = calls[i].arg.drawn THEN [p EXCEPT !.off = @ \ {<<calls[i].fn, calls[i].arg.of>>}] ELSE p

(* What a ping says. *)
Reachable(d) == IF d \in Jump THEN "offline" ELSE "online"

(* pingSingleDevice: a request that failed leaves the row as if busy. *)
Pinged(i) ==
  /\ Back(i, "ping")
  /\ LET d == calls[i].arg.of
         st == Answer(i)
     IN  page' = IF Answered(i) THEN Painted(Set(On(page, i), d, st), d, st, calls[i].arg.drawn)
                 ELSE On(page, i)
  /\ Ends(i)
  /\ UNCHANGED server

(* triageSingleDevice: the outcome goes to the cache if the device has a     *)
(* status there, and to the row always.                                      *)
Triaged(i) ==
  /\ Back(i, "triage")
  /\ LET d == calls[i].arg.of
         st == Answer(i)
         p == IF Answered(i) /\ page.versions[d] # None THEN Set(page, d, st) ELSE page
     IN  page' = IF Answered(i) THEN Painted(On(p, i), d, st, calls[i].arg.drawn) ELSE On(p, i)
  /\ Ends(i)
  /\ UNCHANGED server

(* runPingCheck, for the tenant chosen; one at a time. *)
ClickCheck ==
  /\ MayClick /\ ~page.pinging
  /\ Starts(Asks("check", [group |-> page.filter]))
  /\ page' = [page EXCEPT !.pinging = TRUE]
  /\ Clicked

(* applyPingResultsToTable: of the devices that have a row when it is there. *)
Checked(i) ==
  /\ Back(i, "check")
  /\ LET ds == IF Answered(i) THEN DOMAIN Answer(i) \intersect DOMAIN page.rows ELSE {}
         st(d) == Answer(i)[d]
     IN  page' = [page EXCEPT
           !.pinging = FALSE,
           !.versions = [d \in Devices |-> IF d \in ds THEN st(d) ELSE @[d]],
           !.rows = [d \in DOMAIN @ |-> IF d \in ds THEN st(d) ELSE @[d]]]
  /\ Ends(i)
  /\ UNCHANGED server

(* The choice of a tenant draws the table. *)
Choose(f) ==
  /\ MayClick /\ f # page.filter
  /\ page' = Drawn([page EXCEPT !.filter = f])
  /\ Clicked
  /\ UNCHANGED calls

-----------------------------------------------------------------------------
(* startGroupTriage: the server says that it runs, and polling begins. *)
ClickGroup ==
  /\ MayClick /\ Starts(Asks("run", [group |-> page.filter]))
  /\ Clicked /\ UNCHANGED page

(* Fault: it polls once more. *)
PollingTwice(p, cs) == Begun(cs, Asks("poll", <<>>))

(* startTriageStatusPolling: unless it polls already. *)
Polling(p, cs) == IF p.polling THEN cs ELSE Begun(cs, Asks("poll", <<>>))

Run(i) ==
  /\ Back(i, "run")
  /\ IF Answered(i)
     THEN page' = [page EXCEPT !.polling = TRUE] /\ calls' = Polling(page, Ended(i))
     ELSE UNCHANGED page /\ Ends(i)
  /\ UNCHANGED server

(* pollTriageStatus: again in a while, or at the end the devices anew. *)
Polled(i) ==
  /\ Back(i, "poll")
  /\ CASE ~Answered(i) -> page' = [page EXCEPT !.polling = FALSE] /\ Ends(i)
       [] Answered(i) /\ Answer(i) ->
            page' = [page EXCEPT !.wasRunning = TRUE] /\ GoesOn(i, Asks("wait", <<>>))
       [] OTHER ->
            /\ page' = [page EXCEPT !.polling = FALSE, !.wasRunning = FALSE]
            /\ IF page.wasRunning THEN GoesOn(i, Asks("load", <<>>)) ELSE Ends(i)
  /\ UNCHANGED server

PollAgain(i) == Sent(i, "wait") /\ GoesOn(i, Asks("poll", <<>>)) /\ UNCHANGED <<page, server>>

(* appInit, as far as devices go: the table is drawn, and polling begins. *)
Loaded(i) ==
  /\ Back(i, "load")
  /\ IF Answered(i)
     THEN /\ page' = [Drawn([page EXCEPT !.versions = Answer(i)]) EXCEPT !.polling = TRUE]
          /\ calls' = Polling(page, Ended(i))
     ELSE UNCHANGED page /\ Ends(i)
  /\ UNCHANGED server

-----------------------------------------------------------------------------
(* The server: pings are stored as the status, and so are triages. *)
InGroup(g) == {d \in Devices : g \in {All, Tenant[d]}}
Stored(f) == [server EXCEPT !.known = [d \in Devices |->
                IF d \in DOMAIN f THEN f[d] ELSE @[d]]]

ServePing(i) ==
  /\ Sent(i, "ping")
  /\ LET d == calls[i].arg.of
     IN  Answers(i, Reachable(d)) /\ server' = Stored([x \in {d} |-> Reachable(x)])
  /\ UNCHANGED page

ServeCheck(i) ==
  /\ Sent(i, "check")
  /\ LET f == [d \in InGroup(calls[i].arg.group) |-> Reachable(d)]
     IN  Answers(i, f) /\ server' = Stored(f)
  /\ UNCHANGED page

ServeTriage(i) ==
  /\ Sent(i, "triage")
  /\ \E st \in {"online", "offline"} :
       Answers(i, st) /\ server' = Stored([x \in {calls[i].arg.of} |-> st])
  /\ UNCHANGED page

(* One batch at a time, in which each device is visited. *)
ServeRun(i) ==
  /\ Sent(i, "run")
  /\ IF server.running THEN Fails(i) /\ UNCHANGED server
     ELSE /\ Answers(i, "started")
          /\ server' = [server EXCEPT !.running = TRUE, !.seen = FALSE,
                                   !.left = InGroup(calls[i].arg.group)]
  /\ UNCHANGED page

Visit(d) ==
  /\ d \in server.left
  /\ \E st \in {"online", "offline"} :
       server' = [server EXCEPT !.left = @ \ {d}, !.known[d] = st,
                                !.running = server.left # {d}]
  /\ UNCHANGED <<page, calls>>

(* seen: a poll has found the last batch running. *)
ServePoll(i) ==
  /\ Sent(i, "poll") /\ Answers(i, server.running)
  /\ server' = [server EXCEPT !.seen = @ \/ server.running]
  /\ UNCHANGED page

ServeRest(i) == Sent(i, "load") /\ Answers(i, server.known) /\ UNCHANGED <<page, server>>

(* A request is lost; of a row, or of the page. *)
Lose(i) ==
  /\ calls[i].at = "sent" /\ calls[i].fn # "wait"
  /\ Fails(i)
  /\ server' = [server EXCEPT
       !.lost = @ \union {IF calls[i].fn \in {"ping", "triage"} THEN calls[i].arg.of ELSE All}]
  /\ UNCHANGED page

Serve(i) == ServePing(i) \/ ServeCheck(i) \/ ServeTriage(i) \/ ServeRun(i) \/ ServePoll(i) \/ ServeRest(i)
Continue(i) ==
  Pinged(i) \/ Triaged(i) \/ Checked(i) \/ Run(i) \/ Polled(i) \/ PollAgain(i) \/ Loaded(i)

Next ==
  /\ UNCHANGED inTurn
  /\ \/ \E i \in Ids : Serve(i) \/ Lose(i) \/ Continue(i)
     \/ \E d \in Devices : Visit(d) \/ ClickPing(d) \/ ClickTriage(d)
     \/ ClickCheck \/ ClickGroup
     \/ \E f \in {All} \union Tenants : Choose(f)

Fairness ==
  /\ \A i \in Ids : WF_vars(Serve(i)) /\ WF_vars(Continue(i))
  /\ \A d \in Devices : WF_vars(Visit(d))

Spec == Init /\ [][Next]_vars /\ Fairness

-----------------------------------------------------------------------------
TypeOK ==
  /\ page.versions \in [Devices -> Statuses] /\ DOMAIN page.rows = Listed(page)
  /\ page.filter \in {All} \union Tenants /\ server.left \subseteq Devices

(***************************************************************************)
(* One loop polls the triage, for as long as the page says that it polls;  *)
(* one ping of all devices is in progress for as long as its button is off. *)
(***************************************************************************)
FlagsTellTheLoops ==
  /\ Cardinality(InProgress({"poll", "wait"})) = IF page.polling THEN 1 ELSE 0
  /\ Cardinality(InProgress({"check"})) = IF page.pinging THEN 1 ELSE 0

(* At rest no button of a row is left off. *)
ButtonsComeBack == Quiet => page.off = {} /\ ~page.pinging /\ ~page.polling

(***************************************************************************)
(* Users who wait see at rest what the cache says, so that drawing the     *)
(* table anew changes nothing, but of two kinds of rows: one whose request *)
(* was lost is left busy, and one painted by the triage of a device that   *)
(* the cache has no status of is drawn anew as never scanned.              *)
(***************************************************************************)
RowsTellTheCache ==
  Quiet => \A d \in DOMAIN page.rows :
    \/ page.rows[d] = page.versions[d]
    \/ page.rows[d] = "busy" /\ d \in server.lost
    \/ page.versions[d] = None /\ (server.seen /\ server.lost = {} => page.rows[d] = server.known[d])

(***************************************************************************)
(* And if no request was lost, the cache has what the server has, but for  *)
(* such a device and after a batch that no poll found running: the page    *)
(* loads the devices anew only at the end of one that it saw.              *)
(***************************************************************************)
CacheTellsTheServer ==
  Quiet /\ server.seen /\ server.lost = {} =>
    \A d \in Devices : page.versions[d] \in {None, server.known[d]}
=============================================================================
