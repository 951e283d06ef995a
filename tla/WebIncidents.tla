---------------------------- MODULE WebIncidents ----------------------------
(***************************************************************************)
(* The incidents tab (web/static/js/incidents.js): the list of a status,   *)
(* the incident that is open beside it, with the guidance of its rule, the *)
(* thresholds of the rule, and what the operator expects to be down: a     *)
(* port, or the device with all of its ports.  The incidents move on under *)
(* the page: other operators take them, too.                               *)
(***************************************************************************)
EXTENDS Browser

CONSTANTS
  Incidents, Ports,
  Values,       \* of the threshold; those outside Allowed are refused
  Allowed,
  MaxClicks     \* bound on what operators do, by whether they wait: [BOOLEAN -> Nat]

VARIABLES page, server
vars == <<page, calls, server, inTurn>>

All == "all"
Statuses == {"new", "ack", "resolved"}
Moves == {<<"new", "ack">>, <<"new", "resolved">>, <<"ack", "resolved">>}
Device == "device"
Keys == Ports \union {Device}
Always == "always"
Untils == {Always, "later"}     \* a rule without an end, or with one
NoDetail == [id |-> None, status |-> None, guided |-> FALSE, told |-> FALSE, shown |-> 0]

Init ==
  /\ inTurn \in BOOLEAN
  /\ page = [filter |-> "new", list |-> <<>>, sel |-> None, detail |-> NoDetail, catalog |-> FALSE,
             value |-> None, edited |-> FALSE, rules |-> <<>>]
  /\ calls = Begun(Begun(Begun(NoCalls, Asks("list", [filter |-> "new", open |-> None])),
                         Asks("rules", None)), Asks("ports", <<>>))
  /\ server = [status |-> [n \in Incidents |-> "new"], told |-> {}, rules |-> [k \in Keys |-> None],
               value |-> CHOOSE v \in Allowed : TRUE, clicks |-> 0]

-----------------------------------------------------------------------------
MayClick == server.clicks < MaxClicks[inTurn] /\ Free # {} /\ (inTurn => Quiet)
Clicked == server' = [server EXCEPT !.clicks = @ + 1]

(* loadIncidentsList.  What is open goes when it is not in the list.        *)
LoadList(s) ==
  /\ MayClick
  /\ page' = [page EXCEPT !.filter = s]
  /\ Starts(Asks("list", [filter |-> s, open |-> None]))
  /\ Clicked

Listed(p, l) ==
  IF p.sel = None \/ p.sel \in DOMAIN l THEN [p EXCEPT !.list = l]
  ELSE [p EXCEPT !.list = l, !.sel = None, !.detail = NoDetail]

(* openIncident: the catalog first, if it is not there yet.                 *)
Opening(p, n) == Asks(IF p.catalog THEN "detail" ELSE "rules", n)

OpenIncident(n) ==
  /\ MayClick /\ n \in DOMAIN page.list
  /\ page' = [page EXCEPT !.sel = n]
  /\ Starts(Opening(page, n))
  /\ Clicked

(* After a change of status, the incident opens again if it is still there. *)
ListShown(i) ==
  /\ Back(i, "list")
  /\ LET p == IF Answered(i) THEN Listed(page, Answer(i)) ELSE page
         n == calls[i].arg.open
     IN  IF n # None /\ n \in DOMAIN p.list
         THEN page' = [p EXCEPT !.sel = n] /\ GoesOn(i, Opening(p, n))
         ELSE page' = p /\ Ends(i)
  /\ UNCHANGED server

(* loadRuleCatalog draws the thresholds anew; then the incident, if any.    *)
RulesShown(i) ==
  /\ Back(i, "rules")
  /\ page' = IF Answered(i) THEN [page EXCEPT !.catalog = TRUE, !.value = Answer(i), !.edited = FALSE]
             ELSE [page EXCEPT !.value = None, !.edited = FALSE]
  /\ IF calls[i].arg = None THEN Ends(i) ELSE GoesOn(i, Asks("detail", calls[i].arg))
  /\ UNCHANGED server

DetailShown(i) ==
  /\ Back(i, "detail")
  /\ page' = [page EXCEPT !.detail =
       IF Answered(i)
       THEN [id |-> calls[i].arg, status |-> Answer(i).status, guided |-> page.catalog,
             told |-> Answer(i).told, shown |-> 1 - @.shown]
       ELSE NoDetail]
  /\ Ends(i)
  /\ UNCHANGED server

(* setIncidentStatus, from the status that is shown. *)
SetStatus(s) ==
  /\ MayClick /\ <<page.detail.status, s>> \in Moves
  /\ Starts(Asks("move", [id |-> page.detail.id, from |-> page.detail.status, to |-> s]))
  /\ Clicked /\ UNCHANGED page

StatusChanged(i) ==
  /\ Back(i, "move")
  /\ IF Answered(i) THEN GoesOn(i, Asks("list", [filter |-> page.filter, open |-> calls[i].arg.id])) ELSE Ends(i)
  /\ UNCHANGED <<page, server>>

(* explainIncident writes into the detail it was asked from, if that is     *)
(* still there.                                                             *)
Explain ==
  /\ MayClick /\ page.detail.id # None
  /\ Starts(Asks("explain", [id |-> page.detail.id, shown |-> page.detail.shown]))
  /\ Clicked /\ UNCHANGED page

(* Fault: into whatever detail is shown by then. *)
ExplainedAnywhere(i) ==
  /\ Back(i, "explain")
  /\ page' = IF Answered(i) THEN [page EXCEPT !.detail.told = TRUE] ELSE page
  /\ Ends(i)
  /\ UNCHANGED server

Explained(i) ==
  /\ Back(i, "explain")
  /\ LET here == page.detail.id = calls[i].arg.id /\ page.detail.shown = calls[i].arg.shown
     IN  page' = IF Answered(i) /\ here THEN [page EXCEPT !.detail.told = TRUE] ELSE page
  /\ Ends(i)
  /\ UNCHANGED server

-----------------------------------------------------------------------------
(* saveRuleParameters sends what is in the fields, and loads nothing.       *)
EditRule(v) ==
  /\ MayClick /\ page.value \notin {None, v}
  /\ page' = [page EXCEPT !.value = v, !.edited = TRUE]
  /\ Clicked /\ UNCHANGED calls

SaveRule ==
  /\ MayClick /\ page.value # None
  /\ Starts(Asks("rule", page.value))
  /\ Clicked /\ UNCHANGED page

RuleSaved(i) ==
  /\ Back(i, "rule")
  /\ page' = IF Answered(i) THEN [page EXCEPT !.edited = page.value # calls[i].arg] ELSE page
  /\ Ends(i)
  /\ UNCHANGED server

(* The fields of a port, or of the device, are sent when one is changed:    *)
(* the box of a port that its device covers is off limits, its date is not. *)
Change(k, on, until) ==
  /\ MayClick /\ page.rules # <<>>
  /\ LET r == page.rules[1][k] IN
       /\ (on # r.on) # (until # r.until)
       /\ r.covered => on = r.on
       /\ Starts(Asks("save", [key |-> k, on |-> on, until |-> until]))
  /\ Clicked /\ UNCHANGED page

Changed(i) ==
  /\ Back(i, "save")
  /\ IF Answered(i) THEN GoesOn(i, Asks("ports", <<>>)) ELSE Ends(i)
  /\ UNCHANGED <<page, server>>

PortsShown(i) ==
  /\ Back(i, "ports")
  /\ page' = [page EXCEPT !.rules = IF Answered(i) THEN <<Answer(i)>> ELSE <<>>]
  /\ Ends(i)
  /\ UNCHANGED server

-----------------------------------------------------------------------------
ServeRead(i) ==
  /\ \/ /\ Sent(i, "list")
        /\ LET s == calls[i].arg.filter
               ns == {n \in Incidents : s \in {All, server.status[n]}}
           IN  Answers(i, [n \in ns |-> server.status[n]])
     \/ /\ Sent(i, "detail")
        /\ Answers(i, [status |-> server.status[calls[i].arg], told |-> calls[i].arg \in server.told])
     \/ Sent(i, "rules") /\ Answers(i, server.value)
  /\ UNCHANGED <<page, server>>

(* The rule a port has, or that of its device; of both, either.             *)
ShownRule(k, of) ==
  IF of = None THEN [on |-> FALSE, until |-> Always, covered |-> FALSE]
  ELSE [on |-> TRUE, until |-> server.rules[of], covered |-> k # Device /\ of = Device]

Covering(k) == {of \in {k, Device} : server.rules[of] # None}

ServePorts(i) ==
  /\ Sent(i, "ports")
  /\ \E f \in [Keys -> Keys \union {None}] :
       /\ \A k \in Keys : f[k] \in IF Covering(k) = {} THEN {None} ELSE Covering(k)
       /\ Answers(i, [k \in Keys |-> ShownRule(k, f[k])])
  /\ UNCHANGED <<page, server>>

ServeMove(i) ==
  /\ Sent(i, "move")
  /\ LET a == calls[i].arg IN
     IF server.status[a.id] = a.from
     THEN server' = [server EXCEPT !.status[a.id] = a.to] /\ Answers(i, "ok")
     ELSE Fails(i) /\ UNCHANGED server
  /\ UNCHANGED page

ServeWrite(i) ==
  /\ \/ /\ Sent(i, "explain") /\ Answers(i, "ok")
        /\ server' = [server EXCEPT !.told = @ \union {calls[i].arg.id}]
     \/ /\ Sent(i, "rule") /\ calls[i].arg \in Allowed /\ Answers(i, "ok")
        /\ server' = [server EXCEPT !.value = calls[i].arg]
     \/ /\ Sent(i, "rule") /\ calls[i].arg \notin Allowed /\ Fails(i)
        /\ UNCHANGED server
     \/ /\ Sent(i, "save") /\ Answers(i, "ok")
        /\ LET a == calls[i].arg
           IN  server' = [server EXCEPT !.rules[a.key] = IF a.on THEN a.until ELSE None]
  /\ UNCHANGED page

(* Another operator, or the end of an incident. *)
Elsewhere(n) ==
  /\ server.clicks < MaxClicks[inTurn] /\ ~inTurn
  /\ \E s \in Statuses : /\ <<server.status[n], s>> \in Moves
                         /\ server' = [server EXCEPT !.clicks = @ + 1, !.status[n] = s]
  /\ UNCHANGED <<page, calls>>

Lose(i) == ~inTurn /\ calls[i].at = "sent" /\ Fails(i) /\ UNCHANGED <<page, server>>

Serve(i) == ServeRead(i) \/ ServePorts(i) \/ ServeMove(i) \/ ServeWrite(i)
Continue(i) ==
  \/ ListShown(i) \/ RulesShown(i) \/ DetailShown(i) \/ StatusChanged(i) \/ Explained(i)
  \/ RuleSaved(i) \/ Changed(i) \/ PortsShown(i)

Next ==
  /\ UNCHANGED inTurn
  /\ \/ \E s \in Statuses \union {All} : LoadList(s) \/ SetStatus(s)
     \/ \E n \in Incidents : OpenIncident(n) \/ Elsewhere(n)
     \/ Explain \/ SaveRule \/ \E v \in Values : EditRule(v)
     \/ \E k \in Keys, on \in BOOLEAN, until \in Untils : Change(k, on, until)
     \/ \E i \in Ids : Serve(i) \/ Lose(i) \/ Continue(i)

Fairness == \A i \in Ids : WF_vars(Serve(i)) /\ WF_vars(Continue(i))
Spec == Init /\ [][Next]_vars /\ Fairness

-----------------------------------------------------------------------------
TypeOK ==
  /\ page.filter \in Statuses \union {All} /\ page.sel \in Incidents \union {None}
  /\ page.detail.id \in Incidents \union {None} /\ page.value \in Values \union {None}

(***************************************************************************)
(* However the answers come in, a narrative is shown only with an incident *)
(* that has one: an answer that is late does not land in another detail.   *)
(***************************************************************************)
NarrativeIsOfTheIncident == page.detail.told => page.detail.id \in server.told

(***************************************************************************)
(* To a user who waits: the list is that of the filter, what is open is in *)
(* it, as it is, with its guidance, and thresholds that were not edited    *)
(* and the rules of the ports are those of the server.                     *)
(***************************************************************************)
IncidentsAreTrue ==
  Quiet =>
    /\ page.list = [n \in {n \in Incidents : page.filter \in {All, server.status[n]}} |-> server.status[n]]
    /\ page.detail.id = page.sel
    /\ page.sel # None => /\ page.sel \in DOMAIN page.list
                          /\ page.detail.status = server.status[page.sel]
                          /\ page.detail.guided
                          /\ page.detail.told = (page.sel \in server.told)
    /\ ~page.edited => page.value = server.value
    /\ \A k \in Keys : page.rules[1][k].on = (Covering(k) # {})
=============================================================================
