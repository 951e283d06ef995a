------------------------------- MODULE WebScan -------------------------------
(***************************************************************************)
(* The subnet scan of the web interface (web/static/js/devices.js): a scan *)
(* finds hosts, a verification tries an identity on those that are         *)
(* checked, and those are added.  Scans and verifications are jobs of the  *)
(* server that a timer of the page polls; they go on when the dialog is    *)
(* closed, and one record says which of them the page takes for the job.   *)
(* So do commands that are sent to many devices (bulk-command.js), whose   *)
(* dialog stops its timer when it is closed.                               *)
(***************************************************************************)
EXTENDS Browser, Sequences

CONSTANTS
  Hosts, Identities,
  Accepts,      \* pairs of a host and an identity that it lets in
  Dialog,       \* the one that users open: "scan" or "bulk"
  MaxJobs,      \* bound on the jobs of a behaviour
  MaxClicks     \* bound on what users do, by whether they wait: [BOOLEAN -> Nat]

VARIABLES page, server
vars == <<page, calls, server, inTurn>>

Idle == [id |-> 0, kind |-> None, status |-> "idle"]

(* refreshScanActionButtons *)
Refreshed(p) == [p EXCEPT !.verifyOff = p.checked = {} \/ p.identity = None]

(* renderScanResults: the boxes are drawn unchecked. *)
Rendered(p) == Refreshed([p EXCEPT !.checked = {}])

NoResults == [job |-> 0, of |-> {}]
NoBulk == [open |-> FALSE, ticked |-> {}, off |-> FALSE, shown |-> NoResults, timers |-> {}, handle |-> 0]

Init ==
  /\ inTurn \in BOOLEAN
  /\ page = [job |-> Idle, rows |-> <<>>, checked |-> {}, identity |-> None, open |-> FALSE,
             startOff |-> FALSE, verifyOff |-> TRUE, timers |-> {}, handle |-> 0,
             bulk |-> NoBulk]
  /\ calls = NoCalls
  /\ server = [jobs |-> <<>>, added |-> [h \in Hosts |-> None], clicks |-> 0]

-----------------------------------------------------------------------------
MayClick == server.clicks < MaxClicks[inTurn] /\ (inTurn => Quiet)
MayStart == MayClick /\ page.open /\ (inTurn => page.timers = {})
Clicked == server' = [server EXCEPT !.clicks = @ + 1]

(* Where hosts are drawn, the identities to choose from are loaded. *)
Drawing(p, cs) == IF DOMAIN p.rows = {} THEN cs ELSE Begun(cs, Asks("identities", <<>>))

(* openSubnetScanModal: as the job says, or empty. *)
Open ==
  /\ MayClick /\ Dialog = "scan" /\ ~page.open /\ Free # {}
  /\ LET p == [page EXCEPT !.open = TRUE] IN
     CASE page.job.status = "running" ->
            page' = [p EXCEPT !.startOff = TRUE] /\ UNCHANGED calls
       [] page.job.status = "done" /\ DOMAIN page.rows # {} ->
            page' = Rendered([p EXCEPT !.startOff = FALSE]) /\ calls' = Drawing(page, calls)
       [] OTHER ->
            page' = [p EXCEPT !.startOff = FALSE, !.rows = <<>>, !.checked = {}] /\ UNCHANGED calls
  /\ Clicked

Close ==
  /\ MayClick /\ page.open
  /\ page' = [page EXCEPT !.open = FALSE]
  /\ Clicked /\ UNCHANGED calls

(* startSubnetScan: the timer that is known is stopped. *)
ClickStart ==
  /\ MayStart /\ ~page.startOff
  /\ page' = [page EXCEPT !.timers = @ \ {page.handle}, !.handle = 0, !.startOff = TRUE,
                          !.rows = <<>>, !.checked = {}]
  /\ Starts(Asks("scan", <<>>))
  /\ Clicked

(* pollScanJob; the timer before this one, if any, is not looked for. *)
Started(i) ==
  /\ Back(i, "scan")
  /\ page' = IF Answered(i)
             THEN [page EXCEPT !.job = [id |-> Answer(i), kind |-> "scan", status |-> "running"],
                               !.timers = @ \union {Answer(i)}, !.handle = Answer(i)]
             ELSE [page EXCEPT !.startOff = FALSE]
  /\ Ends(i)
  /\ UNCHANGED server

Check(h) ==
  /\ MayClick /\ page.open /\ h \in DOMAIN page.rows
  /\ page' = Refreshed([page EXCEPT !.checked = IF h \in @ THEN @ \ {h} ELSE @ \union {h}])
  /\ Clicked /\ UNCHANGED calls

ChooseIdentity(x) ==
  /\ MayClick /\ page.open /\ DOMAIN page.rows # {} /\ x # page.identity
  /\ page' = Refreshed([page EXCEPT !.identity = x])
  /\ Clicked /\ UNCHANGED calls

(* populateScanIdentitySelect: the list is made anew, nothing chosen. *)
GotIdentities(i) ==
  /\ Back(i, "identities")
  /\ page' = [page EXCEPT !.identity = None]
  /\ Ends(i)
  /\ UNCHANGED server

ClickVerify ==
  /\ MayStart /\ ~page.verifyOff /\ page.checked # {} /\ page.identity # None
  /\ page' = [page EXCEPT !.verifyOff = TRUE]
  /\ Starts(Asks("verify", [ips |-> page.checked, identity |-> page.identity]))
  /\ Clicked

VerifyStarted(i) ==
  /\ Back(i, "verify")
  /\ page' = IF Answered(i)
             THEN [page EXCEPT !.job = [id |-> Answer(i), kind |-> "verify", status |-> "running"],
                               !.timers = @ \union {Answer(i)}]
             ELSE Refreshed(page)
  /\ Ends(i)
  /\ UNCHANGED server

-----------------------------------------------------------------------------
(* A timer polls its job, whether or not its last poll is answered. *)
Tick(t) ==
  /\ t \in page.timers /\ (inTurn => Quiet)
  /\ Starts(Asks("poll", [job |-> t, kind |-> server.jobs[t].kind, ips |-> server.jobs[t].ips]))
  /\ UNCHANGED <<page, server>>

(* Fault: the timer of a verification goes on. *)
StoppedButTimer(c, status) ==
  IF c.kind = "scan"
  THEN [page EXCEPT !.timers = @ \ {page.handle}, !.handle = 0, !.startOff = FALSE,
                    !.job.status = status]
  ELSE [page EXCEPT !.job.status = status]

(* A poll stops its timer: that of a scan the one the page knows. *)
Stopped(c, status) ==
  IF c.kind = "scan"
  THEN [page EXCEPT !.timers = @ \ {page.handle}, !.handle = 0, !.startOff = FALSE,
                    !.job.status = status]
  ELSE [page EXCEPT !.timers = @ \ {c.job}, !.job.status = status]

PollLost(i) ==
  /\ Back(i, "poll") /\ ~Answered(i)
  /\ LET p == Stopped(calls[i].arg, "error")
     IN  page' = IF calls[i].arg.kind = "scan" THEN p ELSE Refreshed(p)
  /\ Ends(i)
  /\ UNCHANGED server

(* Fault: a job that runs is not asked about again. *)
StillRunningGivenUp(i) ==
  /\ Back(i, "poll") /\ Answered(i) /\ Answer(i).running
  /\ page' = [page EXCEPT !.timers = @ \ {calls[i].arg.job}]
  /\ Ends(i)
  /\ UNCHANGED server

StillRunning(i) ==
  /\ Back(i, "poll") /\ Answered(i) /\ Answer(i).running
  /\ Ends(i)
  /\ UNCHANGED <<page, server>>

(* The hosts that a scan found, or what became of those that were tried. *)
JobDone(i) ==
  /\ Back(i, "poll") /\ Answered(i) /\ ~Answer(i).running
  /\ LET c == calls[i].arg
         res == Answer(i).results
         p == Stopped(c, "done")
         fresh == [h \in res |-> None]
         judged == [h \in DOMAIN p.rows |->
                      IF h \in c.ips THEN (IF h \in res THEN "ok" ELSE "refused") ELSE p.rows[h]]
         q == IF c.kind = "scan" THEN [p EXCEPT !.rows = fresh] ELSE [p EXCEPT !.rows = judged]
     IN  /\ page' = IF c.kind = "scan" THEN Rendered(q)
                    ELSE Refreshed([q EXCEPT !.checked = c.ips \intersect DOMAIN judged])
         /\ calls' = Drawing(q, Ended(i))
  /\ UNCHANGED server

(* addSelectedScanRows: one device after the other, whatever is answered. *)
Add(h, left, x) ==
  LET verified == h \in DOMAIN page.rows /\ page.rows[h] = "ok"
  IN  Asks("add", [of |-> h, profile |-> IF verified THEN x ELSE None, left |-> left, identity |-> x])

ClickAdd ==
  /\ MayClick /\ page.open
  /\ \E h \in page.checked : Starts(Add(h, page.checked \ {h}, page.identity))
  /\ Clicked /\ UNCHANGED page

Added(i) ==
  /\ Back(i, "add")
  /\ LET c == calls[i].arg
     IN  \/ /\ \E h \in c.left : GoesOn(i, Add(h, c.left \ {h}, c.identity))
            /\ UNCHANGED page
         \/ c.left = {} /\ page' = [page EXCEPT !.open = FALSE] /\ Ends(i)
  /\ UNCHANGED server

-----------------------------------------------------------------------------
(* openBulkCommandModal: emptied, but for the devices that were ticked.     *)
BulkOpen ==
  /\ MayClick /\ Dialog = "bulk" /\ ~page.bulk.open
  /\ page' = [page EXCEPT !.bulk = [@ EXCEPT !.open = TRUE, !.off = FALSE, !.shown = NoResults]]
  /\ Clicked /\ UNCHANGED calls

(* clearInterval: of the timer that is known, if any. *)
BulkStopped(b) == [b EXCEPT !.timers = @ \ {b.handle}, !.handle = 0]

BulkClose ==
  /\ MayClick /\ page.bulk.open
  /\ page' = [page EXCEPT !.bulk = [BulkStopped(@) EXCEPT !.open = FALSE]]
  /\ Clicked /\ UNCHANGED calls

(* A box, the box of all, or another group, whose devices alone stay ticked. *)
BulkTick(hs) ==
  /\ MayClick /\ page.bulk.open /\ hs # page.bulk.ticked
  /\ page' = [page EXCEPT !.bulk.ticked = hs]
  /\ Clicked /\ UNCHANGED calls

BulkStart ==
  /\ MayClick /\ page.bulk.open /\ ~page.bulk.off /\ page.bulk.ticked # {}
  /\ page' = [page EXCEPT !.bulk = [BulkStopped(@) EXCEPT !.off = TRUE, !.shown = NoResults]]
  /\ Starts(Asks("bulk", page.bulk.ticked))
  /\ Clicked

(* pollBulkJob sets its timer whether or not the dialog is still open.      *)
BulkStarted(i) ==
  /\ Back(i, "bulk")
  /\ page' = IF Answered(i)
             THEN [page EXCEPT !.bulk.timers = @ \union {Answer(i)}, !.bulk.handle = Answer(i)]
             ELSE [page EXCEPT !.bulk.off = FALSE]
  /\ Ends(i)
  /\ UNCHANGED server

BulkPoll(t) ==
  /\ t \in page.bulk.timers /\ (inTurn => Quiet)
  /\ Starts(Asks("bulkPoll", t))
  /\ UNCHANGED <<page, server>>

(* The end of a job, or a poll that failed, stops the timer that is known.  *)
BulkPolled(i) ==
  /\ Back(i, "bulkPoll")
  /\ LET b == IF Answered(i) THEN [page.bulk EXCEPT !.shown = [job |-> calls[i].arg, of |-> Answer(i).results]]
              ELSE page.bulk
         goesOn == Answered(i) /\ Answer(i).running
     IN  page' = [page EXCEPT !.bulk = IF goesOn THEN b ELSE [BulkStopped(b) EXCEPT !.off = FALSE]]
  /\ Ends(i)
  /\ UNCHANGED server

-----------------------------------------------------------------------------
(* A job of the server; results are known at its end. *)
Job(kind, ips, x) == [kind |-> kind, ips |-> ips, identity |-> x, running |-> TRUE, results |-> {}]
NewId == Len(server.jobs) + 1
NewJob(j) == NewId <= MaxJobs /\ server' = [server EXCEPT !.jobs = Append(@, j)]

ServeStart(i) ==
  /\ \/ Sent(i, "scan") /\ NewJob(Job("scan", {}, None))
     \/ Sent(i, "verify") /\ NewJob(Job("verify", calls[i].arg.ips, calls[i].arg.identity))
     \/ Sent(i, "bulk") /\ NewJob(Job("bulk", calls[i].arg, None))
  /\ Answers(i, NewId)
  /\ UNCHANGED page

(* A command that could destroy is not sent to anyone. *)
RefuseBulk(i) == Sent(i, "bulk") /\ Fails(i) /\ UNCHANGED <<page, server>>

(* runBulk: one device after the other has done, or has failed. *)
RunOn(j, h) ==
  /\ j \in DOMAIN server.jobs /\ server.jobs[j].kind = "bulk"
  /\ h \in server.jobs[j].ips \ server.jobs[j].results
  /\ server' = [server EXCEPT !.jobs[j].results = @ \union {h}]
  /\ UNCHANGED <<page, calls>>

EndJob(j) ==
  /\ j \in DOMAIN server.jobs /\ server.jobs[j].running
  /\ server.jobs[j].kind = "bulk" => server.jobs[j].results = server.jobs[j].ips
  /\ \E found \in SUBSET Hosts :
       /\ server.jobs[j].kind = "verify" =>
            found = {h \in server.jobs[j].ips : <<h, server.jobs[j].identity>> \in Accepts}
       /\ server.jobs[j].kind = "bulk" => found = server.jobs[j].results
       /\ server' = [server EXCEPT !.jobs[j].running = FALSE, !.jobs[j].results = found]
  /\ UNCHANGED <<page, calls>>

ServePoll(i) ==
  /\ Sent(i, "poll") \/ Sent(i, "bulkPoll")
  /\ LET j == server.jobs[IF calls[i].fn = "poll" THEN calls[i].arg.job ELSE calls[i].arg]
     IN  Answers(i, [running |-> j.running, results |-> j.results])
  /\ UNCHANGED <<page, server>>

ServeAdd(i) ==
  /\ Sent(i, "add")
  /\ server' = [server EXCEPT !.added[calls[i].arg.of] = calls[i].arg.profile]
  /\ Answers(i, "ok")
  /\ UNCHANGED page

ServeIdentities(i) == Sent(i, "identities") /\ Answers(i, Identities) /\ UNCHANGED <<page, server>>

Lose(i) == ~inTurn /\ calls[i].at = "sent" /\ Fails(i) /\ UNCHANGED <<page, server>>

Serve(i) == ServeStart(i) \/ RefuseBulk(i) \/ ServePoll(i) \/ ServeAdd(i) \/ ServeIdentities(i)
Continue(i) ==
  \/ Started(i) \/ VerifyStarted(i) \/ GotIdentities(i) \/ Added(i)
  \/ PollLost(i) \/ StillRunning(i) \/ JobDone(i)
  \/ BulkStarted(i) \/ BulkPolled(i)

Next ==
  /\ UNCHANGED inTurn
  /\ \/ Open \/ Close \/ ClickStart \/ ClickVerify \/ ClickAdd
     \/ \E h \in Hosts : Check(h)
     \/ \E x \in Identities \union {None} : ChooseIdentity(x)
     \/ BulkOpen \/ BulkClose \/ BulkStart
     \/ \E hs \in SUBSET Hosts : BulkTick(hs)
     \/ \E t \in 1..MaxJobs : Tick(t) \/ BulkPoll(t) \/ EndJob(t) \/ \E h \in Hosts : RunOn(t, h)
     \/ \E i \in Ids : Serve(i) \/ Lose(i) \/ Continue(i)

(* Timers fire, jobs end, requests are answered and script runs on. *)
Fairness ==
  /\ \A t \in 1..MaxJobs :
       /\ WF_vars(Tick(t)) /\ WF_vars(BulkPoll(t)) /\ WF_vars(EndJob(t))
       /\ \A h \in Hosts : WF_vars(RunOn(t, h))
  /\ \A i \in Ids : WF_vars(Serve(i)) /\ WF_vars(Continue(i))

Spec == Init /\ [][Next]_vars /\ Fairness

-----------------------------------------------------------------------------
TypeOK ==
  /\ DOMAIN page.rows \subseteq Hosts /\ page.checked \subseteq Hosts
  /\ page.identity \in Identities \union {None} /\ page.handle \in 0..MaxJobs
  /\ page.timers \union page.bulk.timers \subseteq DOMAIN server.jobs /\ page.bulk.ticked \subseteq Hosts

(***************************************************************************)
(* A device is added with an identity only if it let some identity in: the *)
(* verdict of a row is never that of another host or of no verification,   *)
(* whatever jobs overlap.                                                  *)
(***************************************************************************)
VerdictIsEarned ==
  \A h \in Hosts : server.added[h] # None => \E x \in Identities : <<h, x>> \in Accepts

(***************************************************************************)
(* Users who start one job at a time: the one timer there is polls the job *)
(* that the page takes for its own, and runs for as long as the page says. *)
(***************************************************************************)
TimerIsOfTheJob ==
  page.timers = IF page.job.status = "running" THEN {page.job.id} ELSE {}

(* With no job followed, only what reopening did under a verification keeps *)
(* a scan from being started.                                               *)
ScanMayStart ==
  page.timers = {} /\ Quiet /\ page.startOff => page.job.kind = "verify"

(***************************************************************************)
(* Users who send commands to one set of devices at a time: the one timer  *)
(* polls while the button is off, and what is shown in the end is what     *)
(* became of every device of the job.                                      *)
(***************************************************************************)
BulkIsTrue ==
  LET b == page.bulk
  IN  Quiet =>
        /\ b.timers = {b.handle} \ {0}
        /\ b.open => (b.off <=> b.handle # 0)
        /\ b.open /\ b.handle = 0 /\ b.shown.job # 0 => b.shown.of = server.jobs[b.shown.job].ips
=============================================================================
