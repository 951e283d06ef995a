------------------------------ MODULE WebSites ------------------------------
(***************************************************************************)
(* The sites of the settings tab (web/static/js/settings.js) and the       *)
(* dialog that manages the agent of one (web/static/js/site-agent.js).  A  *)
(* token is shown once, in a prompt; the dialog is drawn when the answers  *)
(* to two requests are there, and each of its buttons carries its site.    *)
(* The routes behind those buttons are of another server: the router of    *)
(* this one binds none of them, and to it the agent is only what those     *)
(* routes queue.                                                           *)
(***************************************************************************)
EXTENDS Browser, Sequences

CONSTANTS
  Sites,        \* the identifiers that sites can get
  Identities,   \* the identities there are
  MaxTokens,    \* bound on the tokens of a behaviour
  MaxJobs,      \* bound on the jobs of a site
  MaxClicks     \* bound on what the user does, by whether he waits: [BOOLEAN -> Nat]

VARIABLES page, server
vars == <<page, calls, server, inTurn>>

Modes == {"central", "agent"}
NoSite == [mode |-> None, token |-> 0]
Closed == [open |-> FALSE, title |-> None, of |-> None, jobs |-> <<>>, inventory |-> <<>>]

Init ==
  /\ inTurn \in BOOLEAN
  /\ page = [mode |-> [s \in Sites |-> None], shown |-> [s \in Sites |-> 0],
             identities |-> <<>>, choices |-> <<>>, dialog |-> Closed]
  /\ calls = NoCalls
  /\ server = [sites |-> [s \in Sites |-> NoSite], tokens |-> 0,
               jobs |-> [s \in Sites |-> <<>>], clicks |-> 0]

-----------------------------------------------------------------------------
MayClick == server.clicks < MaxClicks[inTurn] /\ (inTurn => Quiet)
Clicked == server' = [server EXCEPT !.clicks = @ + 1]
Listed(s) == page.mode[s] # None

ClickCreate(s, mode) ==
  /\ MayClick
  /\ Starts(Asks("create", [of |-> s, mode |-> mode]))
  /\ Clicked /\ UNCHANGED page

ClickRegenerate(s) ==
  /\ MayClick /\ page.mode[s] = "agent"
  /\ Starts(Asks("regenerate", [of |-> s]))
  /\ Clicked /\ UNCHANGED page

ClickDelete(s) ==
  /\ MayClick /\ Listed(s)
  /\ Starts(Asks("delete", [of |-> s]))
  /\ Clicked /\ UNCHANGED page

(* A token that comes is shown; the prompt holds up everything else.  What  *)
(* was accepted is loaded again.                                            *)
Changed(i) ==
  /\ \E fn \in {"create", "regenerate", "delete"} : Back(i, fn)
  /\ IF Answered(i)
     THEN /\ page' = IF Answer(i) = 0 THEN page ELSE [page EXCEPT !.shown[calls[i].arg.of] = Answer(i)]
          /\ GoesOn(i, Asks("sites", <<>>))
     ELSE UNCHANGED page /\ Ends(i)
  /\ UNCHANGED server

Loaded(i) ==
  /\ Back(i, "sites")
  /\ page' = IF Answered(i)
             THEN [page EXCEPT !.mode = [s \in Sites |-> Answer(i)[s].mode]] ELSE page
  /\ Ends(i)
  /\ UNCHANGED server

(* onNewSiteModeChange: to the mode that needs an identity, the choices are *)
(* drawn once.  What a load brought is kept, what it did not bring too.     *)
ChooseJump ==
  /\ MayClick /\ page.choices = <<>>
  /\ IF page.identities = <<>>
     THEN Starts(Asks("identities", <<>>)) /\ UNCHANGED page
     ELSE page' = [page EXCEPT !.choices = page.identities] /\ UNCHANGED calls
  /\ Clicked

GotIdentities(i) ==
  /\ Back(i, "identities")
  /\ LET ids == <<IF Answered(i) THEN Answer(i) ELSE {}>>
     IN  page' = [page EXCEPT !.identities = ids, !.choices = ids]
  /\ Ends(i)
  /\ UNCHANGED server

-----------------------------------------------------------------------------
(* openAgentControlModal: the title at once, the rest when the history of   *)
(* commands and the sites are there; the inventory is that of the newest    *)
(* reading that is done.                                                    *)
Opened(s) == [Closed EXCEPT !.open = TRUE, !.title = s]
Opening(s) == Asks("agent", [of |-> s, jobs |-> <<>>, sites |-> <<>>])

OpenAgent(s) ==
  /\ MayClick /\ page.mode[s] = "agent"
  /\ page' = [page EXCEPT !.dialog = Opened(s)]
  /\ Starts(Opening(s))
  /\ Clicked

CloseAgent ==
  /\ MayClick /\ page.dialog.open
  /\ page' = [page EXCEPT !.dialog.open = FALSE]
  /\ Clicked /\ UNCHANGED calls

Reading(j) == j.command = "inventory" /\ j.status = "done"
Newest(jobs) ==
  IF \E k \in DOMAIN jobs : Reading(jobs[k])
  THEN <<jobs[CHOOSE k \in DOMAIN jobs : Reading(jobs[k]) /\ \A m \in 1..(k - 1) : ~Reading(jobs[m])].result>>
  ELSE <<>>

(* Fault: the dialog keeps its title. *)
AgentDrawnUntitled(i) ==
  /\ Back(i, "agent")
  /\ LET a == calls[i].arg
     IN  page' = [page EXCEPT !.dialog.of = page.dialog.title, !.dialog.jobs = a.jobs[1],
                              !.dialog.inventory = Newest(a.jobs[1])]
  /\ Ends(i)
  /\ UNCHANGED server

AgentDrawn(i) ==
  /\ Back(i, "agent")
  /\ LET a == calls[i].arg
     IN  page' = [page EXCEPT !.dialog.of = a.of, !.dialog.jobs = a.jobs[1],
                              !.dialog.inventory = Newest(a.jobs[1])]
  /\ Ends(i)
  /\ UNCHANGED server

(* The buttons of the dialog, of the site that was drawn; an inventory is   *)
(* sent as it stands in the text, if anything does.                         *)
Press(act) ==
  /\ MayClick /\ page.dialog.open /\ page.dialog.of # None
  /\ act = "save" => page.dialog.inventory # <<>>
  /\ Starts(Asks("act", [of |-> page.dialog.of, act |-> act, text |-> page.dialog.inventory]))
  /\ Clicked /\ UNCHANGED page

(* What was queued opens the dialog again, of the site it was queued for. *)
Pressed(i) ==
  /\ Back(i, "act")
  /\ IF Answered(i)
     THEN page' = [page EXCEPT !.dialog = Opened(calls[i].arg.of)] /\ GoesOn(i, Opening(calls[i].arg.of))
     ELSE UNCHANGED page /\ Ends(i)
  /\ UNCHANGED server

-----------------------------------------------------------------------------
Store(s, site, n) == server' = [server EXCEPT !.sites[s] = site, !.tokens = n]
NextToken == server.tokens + 1

ServeCreate(i) ==
  /\ Sent(i, "create")
  /\ LET s == calls[i].arg.of IN
     IF server.sites[s] # NoSite THEN Fails(i) /\ UNCHANGED server
     ELSE LET n == IF calls[i].arg.mode = "agent" THEN NextToken ELSE 0 IN
          /\ n <= MaxTokens
          /\ Store(s, [mode |-> calls[i].arg.mode, token |-> n], IF n = 0 THEN server.tokens ELSE n)
          /\ Answers(i, n)
  /\ UNCHANGED page

ServeRegenerate(i) ==
  /\ Sent(i, "regenerate")
  /\ LET s == calls[i].arg.of IN
     IF server.sites[s].mode # "agent" THEN Fails(i) /\ UNCHANGED server
     ELSE NextToken <= MaxTokens /\ Store(s, [server.sites[s] EXCEPT !.token = NextToken], NextToken)
          /\ Answers(i, NextToken)
  /\ UNCHANGED page

ServeDelete(i) ==
  /\ Sent(i, "delete")
  /\ LET s == calls[i].arg.of IN
     IF server.sites[s] = NoSite THEN Fails(i) /\ UNCHANGED server
     ELSE Store(s, NoSite, server.tokens) /\ Answers(i, 0)
  /\ UNCHANGED page

ServeSites(i) == Sent(i, "sites") /\ Answers(i, server.sites) /\ UNCHANGED <<page, server>>
ServeIdentities(i) == Sent(i, "identities") /\ Answers(i, Identities) /\ UNCHANGED <<page, server>>

(* Of the two requests of the dialog each is answered, or fails, on its own. *)
Part(i, field, v) ==
  LET a == [calls[i].arg EXCEPT ![field] = <<v>>]
  IN  calls' = [calls EXCEPT ![i].arg = a,
                             ![i].at = IF a.jobs # <<>> /\ a.sites # <<>> THEN "back" ELSE "sent"]
ServeAgent(i, lost) ==
  /\ Sent(i, "agent") /\ (lost => ~inTurn)
  /\ \/ calls[i].arg.jobs = <<>> /\ Part(i, "jobs", IF lost THEN <<>> ELSE server.jobs[calls[i].arg.of])
     \/ calls[i].arg.sites = <<>> /\ Part(i, "sites", IF lost THEN NoSite ELSE server.sites[calls[i].arg.of])
  /\ UNCHANGED <<page, server>>

(* Another server: what a button asks becomes a job, and the newest is the  *)
(* first; of its agent, that a reading of the inventory comes to its end.   *)
ServeAct(i) ==
  /\ Sent(i, "act")
  /\ LET a == calls[i].arg IN
     /\ Len(server.jobs[a.of]) < MaxJobs
     /\ server' = [server EXCEPT !.jobs[a.of] = <<[command |-> a.act, status |-> "queued", result |-> None]>> \o @]
  /\ Answers(i, "ok")
  /\ UNCHANGED page

AgentWorks(s) ==
  /\ \E k \in DOMAIN server.jobs[s] :
       /\ server.jobs[s][k].status = "queued"
       /\ server' = [server EXCEPT !.jobs[s][k].status = "done", !.jobs[s][k].result = s]
  /\ UNCHANGED <<page, calls>>

Lose(i) == ~inTurn /\ calls[i].at = "sent" /\ calls[i].fn # "agent" /\ Fails(i) /\ UNCHANGED <<page, server>>

Serve(i) ==
  \/ ServeCreate(i) \/ ServeRegenerate(i) \/ ServeDelete(i) \/ ServeSites(i)
  \/ ServeIdentities(i) \/ ServeAct(i) \/ \E lost \in BOOLEAN : ServeAgent(i, lost)
Continue(i) == Changed(i) \/ Loaded(i) \/ GotIdentities(i) \/ AgentDrawn(i) \/ Pressed(i)

Next ==
  /\ UNCHANGED inTurn
  /\ \/ \E s \in Sites :
          \/ \E m \in Modes : ClickCreate(s, m)
          \/ ClickRegenerate(s) \/ ClickDelete(s) \/ OpenAgent(s) \/ AgentWorks(s)
     \/ \E act \in {"inventory", "save"} : Press(act)
     \/ ChooseJump \/ CloseAgent
     \/ \E i \in Ids : Serve(i) \/ Lose(i) \/ Continue(i)

Fairness == \A i \in Ids : WF_vars(Serve(i)) /\ WF_vars(Continue(i))
Spec == Init /\ [][Next]_vars /\ Fairness

-----------------------------------------------------------------------------
TypeOK ==
  /\ \A s \in Sites : page.mode[s] \in Modes \union {None} /\ page.shown[s] \in 0..MaxTokens
  /\ page.dialog.of \in Sites \union {None}

(***************************************************************************)
(* The text that the dialog would send to a site was read at that site,    *)
(* whatever dialogs were opened and answered before: an inventory is never *)
(* written to the agent of another.                                        *)
(***************************************************************************)
InventoryGoesHome ==
  /\ page.dialog.inventory # <<>> => page.dialog.inventory = <<page.dialog.of>>
  /\ \A i \in InProgress({"act"}) :
       calls[i].arg.act = "save" => calls[i].arg.text = <<calls[i].arg.of>>

(***************************************************************************)
(* To a user who waits: the table is that of the server, the token shown   *)
(* last opens its site, the identities can be chosen, and the dialog is    *)
(* titled with the site that its buttons act on.                           *)
(***************************************************************************)
SitesAreTrue ==
  Quiet =>
    /\ \A s \in Sites :
         /\ page.mode[s] = server.sites[s].mode
         /\ page.mode[s] = "agent" => page.shown[s] = server.sites[s].token
    /\ page.choices \in {<<>>, <<Identities>>}
    /\ page.dialog.open => page.dialog.title = page.dialog.of
=============================================================================
