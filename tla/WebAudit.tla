------------------------------ MODULE WebAudit ------------------------------
(***************************************************************************)
(* The compliance audit of a configuration (web/static/js/netsec-audit.js) *)
(* A scan is of the device that is selected, or of the file that was       *)
(* dropped; its result fills a table, the page keeps the name of what was  *)
(* scanned apart from it, and a report is made of the two.  A report in    *)
(* another language than the page scans again.  The report of a checklist  *)
(* (audit_checklist.js) opens in the same dialog.                          *)
(***************************************************************************)
EXTENDS Browser, Sequences

CONSTANTS
  Devices, Files, Checklists,
  Bilingual,    \* reports are made in another language, too
  MaxRuns,      \* bound on the runs that are kept
  MaxClicks     \* bound on what the user does, by whether he waits: [BOOLEAN -> Nat]

VARIABLES page, server
vars == <<page, calls, server, inTurn>>

All == "all"
Uploaded == "uploaded"
Kinds == {"pdf", "docx"}
NoReport == [title |-> None, of |-> None, payload |-> None]

Init ==
  /\ inTurn \in BOOLEAN
  /\ page = [list |-> {}, sel |-> All, file |-> None, rules |-> None, name |-> None,
             scanOff |-> FALSE, busy |-> {}, open |-> FALSE, report |-> NoReport,
             history |-> {}, got |-> <<>>]
  /\ calls = Begun(Begun(NoCalls, Asks("devices", [previous |-> All])), Asks("history", <<>>))
  /\ server = [runs |-> <<>>, clicks |-> 0]

-----------------------------------------------------------------------------
MayClick == server.clicks < MaxClicks[inTurn] /\ (inTurn => Quiet)
Clicked == server' = [server EXCEPT !.clicks = @ + 1]

(* populateAuditDeviceSelect and restoreUploadedOption: what was selected   *)
(* when the list was asked for, if it can be; the file before nothing.      *)
Populated(i) ==
  /\ Back(i, "devices")
  /\ LET l == IF Answered(i) THEN Answer(i) ELSE {}
         was == calls[i].arg.previous
         sel == IF was \in l THEN was
                ELSE IF page.file # None THEN Uploaded ELSE All
     IN  page' = [page EXCEPT !.list = l, !.sel = sel]
  /\ Ends(i)
  /\ UNCHANGED server

OpenTab ==
  /\ MayClick /\ Free # {} /\ \E i \in Free : Free \ {i} # {}
  /\ calls' = Begun(Begun(calls, Asks("devices", [previous |-> page.sel])), Asks("history", <<>>))
  /\ Clicked /\ UNCHANGED page

Select(d) ==
  /\ MayClick /\ d \in page.list \union {All}
  /\ page' = [page EXCEPT !.sel = d]
  /\ Clicked /\ UNCHANGED calls

(* runAuditScan: the file only if it is what is selected. *)
Target(p) == IF p.sel = Uploaded THEN p.file ELSE p.sel
Scan(p, save) == Asks("scan", [of |-> Target(p), save |-> save])

ClickScan(save) ==
  /\ MayClick /\ ~page.scanOff
  /\ page' = [page EXCEPT !.scanOff = TRUE]
  /\ Starts(Scan(page, save))
  /\ Clicked

(* Another benchmark scans at once, whether or not a scan is under way. *)
ChooseBenchmark(save) ==
  /\ MayClick
  /\ page' = [page EXCEPT !.scanOff = TRUE]
  /\ Starts(Scan(page, save))
  /\ Clicked

(* handleFile: a file that is dropped is selected, and scanned. *)
Drop(f, save) ==
  /\ MayClick
  /\ page' = [page EXCEPT !.file = f, !.name = f, !.sel = Uploaded, !.scanOff = TRUE]
  /\ Starts(Scan(page', save))
  /\ Clicked

ClearFile ==
  /\ MayClick /\ page.file # None
  /\ page' = [page EXCEPT !.file = None, !.name = None, !.sel = All, !.rules = None]
  /\ Clicked /\ UNCHANGED calls

Scanned(i) ==
  /\ Back(i, "scan")
  /\ LET p == [page EXCEPT !.scanOff = FALSE] IN
     IF Answered(i)
     THEN /\ page' = [p EXCEPT !.rules = calls[i].arg.of, !.name = calls[i].arg.of]
          /\ IF Answer(i).saved THEN GoesOn(i, Asks("history", <<>>)) ELSE Ends(i)
     ELSE page' = p /\ Ends(i)
  /\ UNCHANGED server

HistoryShown(i) ==
  /\ Back(i, "history")
  /\ page' = [page EXCEPT !.history = IF Answered(i) THEN Answer(i) ELSE {}]
  /\ Ends(i)
  /\ UNCHANGED server

-----------------------------------------------------------------------------
(* openAuditReportModal. *)
Opened(p, r) == [p EXCEPT !.open = TRUE, !.report = r]
ReportOf(title, of) == [title |-> title, of |-> of, payload |-> of]

(* exportAuditReport: in the language of the page, of the table; in another *)
(* a scan of what is selected, if anything is, takes its place.             *)
Exporting(p, i, foreign, save) ==
  IF foreign /\ (p.file # None \/ p.sel \notin {All, Uploaded})
  THEN /\ page' = p
       /\ calls' = Moved(i, Asks("rescan", [of |-> Target(p), title |-> p.name, rules |-> p.rules, save |-> save]))
  ELSE page' = Opened(p, ReportOf(p.name, p.rules)) /\ Ends(i)

ClickExport(foreign, save) ==
  /\ MayClick /\ page.rules # None /\ (foreign => Bilingual) /\ Free # {}
  /\ Exporting(page, CHOOSE i \in Free : \A j \in Free : i <= j, foreign, save)
  /\ Clicked

Rescanned(i) ==
  /\ Back(i, "rescan")
  /\ LET a == calls[i].arg
     IN  page' = Opened(page, ReportOf(a.title, IF Answered(i) THEN a.of ELSE a.rules))
  /\ Ends(i)
  /\ UNCHANGED server

(* openAuditRun, with its report or without. *)
OpenRun(r, report) ==
  /\ MayClick /\ r \in page.history
  /\ Starts(Asks("run", [id |-> r, report |-> report, foreign |-> FALSE]))
  /\ Clicked /\ UNCHANGED page

RunShown(i) ==
  /\ Back(i, "run")
  /\ IF ~Answered(i) THEN UNCHANGED page /\ Ends(i)
     ELSE LET p == [page EXCEPT !.rules = Answer(i), !.name = Answer(i)]
          IN  IF calls[i].arg.report
              THEN \E foreign \in IF Bilingual THEN BOOLEAN ELSE {FALSE} : Exporting(p, i, foreign, FALSE)
              ELSE page' = p /\ Ends(i)
  /\ UNCHANGED server

DeleteRun(r) ==
  /\ MayClick /\ r \in page.history
  /\ Starts(Asks("delete", [id |-> r]))
  /\ Clicked /\ UNCHANGED page

RunDeleted(i) ==
  /\ Back(i, "delete")
  /\ IF Answered(i) THEN GoesOn(i, Asks("history", <<>>)) ELSE Ends(i)
  /\ UNCHANGED <<page, server>>

(* viewAuditReportForId, of the checklist: a report with no payload. *)
ClickChecklist(c) ==
  /\ MayClick
  /\ Starts(Asks("checklist", [of |-> c]))
  /\ Clicked /\ UNCHANGED page

ChecklistShown(i) ==
  /\ Back(i, "checklist")
  /\ LET c == calls[i].arg.of
     IN  page' = IF Answered(i) THEN Opened(page, [title |-> c, of |-> c, payload |-> None]) ELSE page
  /\ Ends(i)
  /\ UNCHANGED server

CloseReport ==
  /\ MayClick /\ page.open
  /\ page' = [page EXCEPT !.open = FALSE]
  /\ Clicked /\ UNCHANGED calls

(* downloadModalPdf sends what the dialog shows, downloadModalDocx the      *)
(* payload, or of a report that has none the table of the page.             *)
Download(k) ==
  /\ MayClick /\ page.open /\ k \notin page.busy
  /\ LET r == page.report
         of == IF k = "pdf" THEN r.of ELSE IF r.payload # None THEN r.payload ELSE page.rules
     IN  Starts(Asks("download", [kind |-> k, of |-> of, shown |-> r.of]))
  /\ page' = [page EXCEPT !.busy = @ \union {k}]
  /\ Clicked

(* The file gets the name of the report that is there by then. *)
Downloaded(i) ==
  /\ Back(i, "download")
  /\ LET a == calls[i].arg
         got == [name |-> page.report.title, of |-> a.of, shown |-> a.shown]
     IN  page' = [page EXCEPT !.busy = @ \ {a.kind}, !.got = IF Answered(i) THEN <<got>> ELSE @]
  /\ Ends(i)
  /\ UNCHANGED server

-----------------------------------------------------------------------------
Kept == {r \in DOMAIN server.runs : server.runs[r] # None}

(* Nothing selected is refused; what is to be kept is kept. *)
ServeScan(i) ==
  /\ Sent(i, "scan") \/ Sent(i, "rescan")
  /\ LET a == calls[i].arg IN
     IF a.of = All THEN Fails(i) /\ UNCHANGED server
     ELSE /\ a.save => Len(server.runs) < MaxRuns
          /\ server' = IF a.save THEN [server EXCEPT !.runs = Append(@, a.of)] ELSE server
          /\ Answers(i, [saved |-> a.save])
  /\ UNCHANGED page

ServeDelete(i) ==
  /\ Sent(i, "delete")
  /\ server' = [server EXCEPT !.runs[calls[i].arg.id] = None]
  /\ Answers(i, "ok")
  /\ UNCHANGED page

ServeRun(i) ==
  /\ Sent(i, "run")
  /\ IF calls[i].arg.id \in Kept THEN Answers(i, server.runs[calls[i].arg.id]) ELSE Fails(i)
  /\ UNCHANGED <<page, server>>

ServeList(i) ==
  /\ \/ Sent(i, "devices") /\ Answers(i, Devices)
     \/ Sent(i, "history") /\ Answers(i, Kept)
     \/ Sent(i, "checklist") /\ Answers(i, "ok")
     \/ Sent(i, "download") /\ Answers(i, "ok")
  /\ UNCHANGED <<page, server>>

Lose(i) == ~inTurn /\ calls[i].at = "sent" /\ Fails(i) /\ UNCHANGED <<page, server>>

Serve(i) == ServeScan(i) \/ ServeDelete(i) \/ ServeRun(i) \/ ServeList(i)
Continue(i) ==
  \/ Populated(i) \/ Scanned(i) \/ HistoryShown(i) \/ Rescanned(i) \/ RunShown(i)
  \/ RunDeleted(i) \/ ChecklistShown(i) \/ Downloaded(i)

Next ==
  /\ UNCHANGED inTurn
  /\ \/ OpenTab \/ ClearFile \/ CloseReport
     \/ \E d \in Devices \union {All} : Select(d)
     \/ \E save \in BOOLEAN :
          \/ ClickScan(save) \/ ChooseBenchmark(save)
          \/ \E f \in Files : Drop(f, save)
          \/ \E foreign \in BOOLEAN : ClickExport(foreign, save)
     \/ \E r \in 1..MaxRuns : DeleteRun(r) \/ \E report \in BOOLEAN : OpenRun(r, report)
     \/ \E c \in Checklists : ClickChecklist(c)
     \/ \E k \in Kinds : Download(k)
     \/ \E i \in Ids : Serve(i) \/ Lose(i) \/ Continue(i)

Fairness == \A i \in Ids : WF_vars(Serve(i)) /\ WF_vars(Continue(i))
Spec == Init /\ [][Next]_vars /\ Fairness

-----------------------------------------------------------------------------
TypeOK ==
  /\ page.list \subseteq Devices /\ page.file \in Files \union {None}
  /\ page.sel \in Devices \union {All, Uploaded}
  /\ page.history \subseteq DOMAIN server.runs

(***************************************************************************)
(* The selection always names what a scan would be of: never the file when *)
(* there is none, never a device that is not listed.  And the buttons that *)
(* are held off are those of work in progress.                             *)
(***************************************************************************)
SelectionCanBeScanned ==
  /\ page.sel = Uploaded => page.file # None
  /\ page.sel \notin {All, Uploaded} => page.sel \in page.list
  /\ page.scanOff => InProgress({"scan"}) # {}
  /\ page.busy = {calls[i].arg.kind : i \in InProgress({"download"})}

(* The report has the name of what was evaluated in it. *)
ReportIsOfItsTitle == page.report.title = page.report.of

(***************************************************************************)
(* To a user who waits, makes reports in the language of the page and      *)
(* downloads them as PDF: table, name, report and file are of one scan,    *)
(* and the history is what the server keeps.                               *)
(***************************************************************************)
AuditIsTrue ==
  Quiet =>
    /\ page.name = page.rules /\ ReportIsOfItsTitle
    /\ \A k \in DOMAIN page.got : page.got[k].name = page.got[k].shown
    /\ page.history = Kept
=============================================================================
