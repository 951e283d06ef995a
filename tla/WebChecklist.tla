----------------------------- MODULE WebChecklist -----------------------------
(***************************************************************************)
(* The maintenance audits (web/static/js/audit_checklist.js): a list of    *)
(* audits, the workspace of one, where each item gets a verdict that is    *)
(* saved for the audit that is current, and the editor of the questions    *)
(* that all of them share.  The routes that write questions are of another *)
(* server; the router of this one binds none of them.                      *)
(***************************************************************************)
EXTENDS Browser, FiniteSets

CONSTANTS
  Audits, Items, Verdicts,
  MaxClicks     \* bound on what the user does, by whether he waits: [BOOLEAN -> Nat]

VARIABLES page, server
vars == <<page, calls, server, inTurn>>

Unset == "unset"
Fresh == [x \in {} |-> Unset]

Init ==
  /\ inTurn \in BOOLEAN
  /\ page = [audits |-> {}, current |-> None, open |-> FALSE, of |-> None, boxes |-> Fresh,
             template |-> {}, editing |-> None, asking |-> FALSE]
  /\ calls = Begun(Begun(NoCalls, Asks("template", [next |-> None])), Asks("audits", [next |-> None]))
  /\ server = [audits |-> [a \in {} |-> Fresh], items |-> {}, clicks |-> 0]

-----------------------------------------------------------------------------
MayClick == server.clicks < MaxClicks[inTurn] /\ (inTurn => Quiet)
Clicked == server' = [server EXCEPT !.clicks = @ + 1]

(* loadAuditChecklistTab: the questions and the audits, side by side; those *)
(* that a creation reloads are followed by the workspace of the new one.    *)
Tab(cs, next) == Begun(Begun(cs, Asks("template", [next |-> None])), Asks("audits", [next |-> next]))
TwoFree == Cardinality(Free) >= 2

OpenTab == MayClick /\ TwoFree /\ calls' = Tab(calls, None) /\ Clicked /\ UNCHANGED page

(* openAuditWorkspace: current at once, the items when they come. *)
Opening(p, a) == [p EXCEPT !.current = a, !.open = TRUE, !.of = None, !.boxes = Fresh]
ItemsOf(a) == Asks("items", [of |-> a])

AuditsShown(i) ==
  /\ Back(i, "audits")
  /\ LET p == [page EXCEPT !.audits = IF Answered(i) THEN Answer(i) ELSE {}]
         next == calls[i].arg.next
     IN  IF next = None THEN page' = p /\ Ends(i)
         ELSE page' = Opening(p, next) /\ GoesOn(i, ItemsOf(next))
  /\ UNCHANGED server

OpenWorkspace(a) ==
  /\ MayClick /\ a \in page.audits
  /\ page' = Opening(page, a)
  /\ Starts(ItemsOf(a))
  /\ Clicked

(* renderAuditWorkspaceSections: the items that came, as they came. *)
ItemsShown(i) ==
  /\ Back(i, "items")
  /\ page' = IF Answered(i) THEN [page EXCEPT !.of = calls[i].arg.of, !.boxes = Answer(i)]
             ELSE [page EXCEPT !.of = None, !.boxes = Fresh]
  /\ Ends(i)
  /\ UNCHANGED server

CloseWorkspace ==
  /\ MayClick /\ page.open
  /\ page' = [page EXCEPT !.open = FALSE, !.current = None]
  /\ Clicked /\ UNCHANGED calls

Choose(x, v) ==
  /\ MayClick /\ page.open /\ x \in DOMAIN page.boxes /\ v # page.boxes[x]
  /\ page' = [page EXCEPT !.boxes[x] = v]
  /\ Clicked /\ UNCHANGED calls

(* saveAuditItem: for the audit that is current. *)
SaveItem(x) ==
  /\ MayClick /\ page.open /\ x \in DOMAIN page.boxes /\ page.current # None
  /\ Starts(Asks("save", [of |-> page.current, item |-> x, verdict |-> page.boxes[x], seen |-> page.of]))
  /\ Clicked /\ UNCHANGED page

(* What is saved is said, and nothing drawn. *)
ItemSaved(i) == Back(i, "save") /\ Ends(i) /\ UNCHANGED <<page, server>>

OpenNew == MayClick /\ ~page.asking /\ page' = [page EXCEPT !.asking = TRUE] /\ Clicked /\ UNCHANGED calls
SubmitNew == MayClick /\ page.asking /\ Starts(Asks("create", <<>>)) /\ Clicked /\ UNCHANGED page

Created(i) ==
  /\ Back(i, "create")
  /\ IF Answered(i)
     THEN Free # {} /\ page' = [page EXCEPT !.asking = FALSE] /\ calls' = Tab(Ended(i), Answer(i))
     ELSE UNCHANGED page /\ Ends(i)
  /\ UNCHANGED server

-----------------------------------------------------------------------------
(* Fault: the workspace that is open keeps the questions it had. *)
TemplateShownAlone(i) ==
  /\ Back(i, "template")
  /\ page' = IF Answered(i) THEN [page EXCEPT !.template = Answer(i)] ELSE page
  /\ Ends(i)
  /\ UNCHANGED server

(* loadAuditTemplate; behind the change of a question, the workspace that   *)
(* is open by then is opened again.                                         *)
TemplateShown(i) ==
  /\ Back(i, "template")
  /\ LET p == IF Answered(i) THEN [page EXCEPT !.template = Answer(i)] ELSE page IN
     IF calls[i].arg.next = "reopen" /\ p.current # None
     THEN page' = Opening(p, p.current) /\ GoesOn(i, ItemsOf(p.current))
     ELSE page' = p /\ Ends(i)
  /\ UNCHANGED server

(* openTemplateItemModal, on a question or for a new one. *)
EditQuestion(x) ==
  /\ MayClick /\ page.editing = None
  /\ page' = [page EXCEPT !.editing = <<x, x \in page.template>>]
  /\ Clicked /\ UNCHANGED calls

(* submitTemplateItemForm and deleteTemplateItem. *)
SubmitQuestion ==
  /\ MayClick /\ page.editing # None
  /\ Starts(Asks("question", [item |-> page.editing[1], gone |-> FALSE]))
  /\ Clicked /\ UNCHANGED page

DeleteQuestion(x) ==
  /\ MayClick /\ x \in page.template
  /\ Starts(Asks("question", [item |-> x, gone |-> TRUE]))
  /\ Clicked /\ UNCHANGED page

QuestionChanged(i) ==
  /\ Back(i, "question")
  /\ IF Answered(i)
     THEN /\ page' = IF calls[i].arg.gone THEN page ELSE [page EXCEPT !.editing = None]
          /\ GoesOn(i, Asks("template", [next |-> "reopen"]))
     ELSE UNCHANGED page /\ Ends(i)
  /\ UNCHANGED server

-----------------------------------------------------------------------------
Known(f) == [x \in DOMAIN f \union server.items |-> IF x \in DOMAIN f THEN f[x] ELSE Unset]

ServeCreate(i) ==
  /\ Sent(i, "create")
  /\ \E a \in Audits \ DOMAIN server.audits :
       /\ server' = [server EXCEPT !.audits =
                       [b \in DOMAIN @ \union {a} |-> IF b = a THEN Fresh ELSE @[b]]]
       /\ Answers(i, a)
  /\ UNCHANGED page

ServeSave(i) ==
  /\ Sent(i, "save")
  /\ LET c == calls[i].arg
     IN  server' = [server EXCEPT !.audits[c.of] =
                      [x \in DOMAIN @ \union {c.item} |-> IF x = c.item THEN c.verdict ELSE @[x]]]
  /\ Answers(i, "ok")
  /\ UNCHANGED page

(* Another server. *)
ServeQuestion(i) ==
  /\ Sent(i, "question")
  /\ LET c == calls[i].arg
     IN  server' = [server EXCEPT !.items = IF c.gone THEN @ \ {c.item} ELSE @ \union {c.item}]
  /\ Answers(i, "ok")
  /\ UNCHANGED page

ServeRead(i) ==
  /\ \/ Sent(i, "template") /\ Answers(i, server.items)
     \/ Sent(i, "audits") /\ Answers(i, DOMAIN server.audits)
     \/ Sent(i, "items") /\ Answers(i, Known(server.audits[calls[i].arg.of]))
  /\ UNCHANGED <<page, server>>

Lose(i) == ~inTurn /\ calls[i].at = "sent" /\ Fails(i) /\ UNCHANGED <<page, server>>

Serve(i) == ServeCreate(i) \/ ServeSave(i) \/ ServeQuestion(i) \/ ServeRead(i)
Continue(i) ==
  \/ AuditsShown(i) \/ ItemsShown(i) \/ ItemSaved(i) \/ Created(i)
  \/ TemplateShown(i) \/ QuestionChanged(i)

Next ==
  /\ UNCHANGED inTurn
  /\ \/ OpenTab \/ CloseWorkspace \/ OpenNew \/ SubmitNew \/ SubmitQuestion
     \/ \E a \in Audits : OpenWorkspace(a)
     \/ \E x \in Items :
          \/ \E v \in Verdicts : Choose(x, v)
          \/ SaveItem(x) \/ EditQuestion(x) \/ DeleteQuestion(x)
     \/ \E i \in Ids : Serve(i) \/ Lose(i) \/ Continue(i)

Fairness == \A i \in Ids : WF_vars(Serve(i)) /\ WF_vars(Continue(i))
Spec == Init /\ [][Next]_vars /\ Fairness

-----------------------------------------------------------------------------
TypeOK ==
  /\ page.audits \subseteq DOMAIN server.audits
  /\ page.current \in Audits \union {None} /\ page.of \in Audits \union {None}
  /\ DOMAIN page.boxes \subseteq Items
  /\ page.open <=> page.current # None

(* A verdict is saved for the audit whose items were judged. *)
VerdictsStayHome == \A i \in InProgress({"save"}) : calls[i].arg.of = calls[i].arg.seen

(***************************************************************************)
(* To a user who waits: a verdict is saved for the audit whose items are   *)
(* judged, a workspace that is open is of the current audit with all the   *)
(* questions there are, and the lists are those of the server.             *)
(***************************************************************************)
ChecklistIsTrue ==
  /\ VerdictsStayHome
  /\ Quiet =>
       /\ page.audits = DOMAIN server.audits /\ page.template = server.items
       /\ page.open => page.of = page.current /\ server.items \subseteq DOMAIN page.boxes
=============================================================================
