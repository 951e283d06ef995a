----------------------------- MODULE WebSettings -----------------------------
(***************************************************************************)
(* The forms of the settings tab (web/static/js/settings.js): where the    *)
(* server listens, the advanced settings, the switch that holds operators  *)
(* to the list of forbidden commands, the ping monitor, and the tools that *)
(* are open to MCP clients.  A form is drawn from what the server answers, *)
(* edited, and saved; the switch is saved as it is touched, and put back   *)
(* when that fails.                                                        *)
(***************************************************************************)
EXTENDS Browser, FiniteSets

CONSTANTS
  MaxClicks     \* bound on what the user does, by whether he waits: [BOOLEAN -> Nat]

VARIABLES page, server
vars == <<page, calls, server, inTurn>>

(* Two of the values that a form can hold are enough to tell them apart. *)
Values == {0, 1}
Forms == {"network", "app", "blacklist", "ping", "mcp"}

(* The forms that are in the page before they are loaded. *)
Standing == {"blacklist", "ping"}

(* loadAppSettings: the forms that are loaded behind the first. *)
Behind == {"blacklist", "ping", "app"}

Init ==
  /\ inTurn \in BOOLEAN
  /\ page = [drawn |-> [f \in Forms |-> f \in Standing], value |-> [f \in Forms |-> 0],
             known |-> {}, monitor |-> <<>>]
  /\ calls = NoCalls
  /\ \E v \in Values : server = [value |-> [f \in Forms |-> v], clicks |-> 0]

-----------------------------------------------------------------------------
MayClick == server.clicks < MaxClicks[inTurn] /\ (inTurn => Quiet)
Clicked == server' = [server EXCEPT !.clicks = @ + 1]
Load(f) == Asks("load", [form |-> f])
Status == Asks("status", <<>>)

Open(f) ==
  /\ MayClick /\ f \in {"network", "mcp"}
  /\ Starts(Load(f))
  /\ Clicked /\ UNCHANGED page

(* What is not answered leaves a form as it stands, or empty; behind what   *)
(* is, the next are asked for.                                              *)
Loaded(i) ==
  /\ Back(i, "load")
  /\ LET f == calls[i].arg.form IN
     IF Answered(i)
     THEN /\ page' = [page EXCEPT !.drawn[f] = TRUE, !.value[f] = Answer(i), !.known = @ \union {f}]
          /\ CASE f = "network" ->
                    /\ Cardinality(Free) >= Cardinality(Behind) - 1
                    /\ calls' = Begun(Begun(Moved(i, Load("blacklist")), Load("ping")), Load("app"))
               [] f = "ping" -> GoesOn(i, Status)
               [] OTHER -> Ends(i)
     ELSE page' = [page EXCEPT !.drawn[f] = f \in Standing] /\ Ends(i)
  /\ UNCHANGED server

Edit(f) ==
  /\ MayClick /\ page.drawn[f] /\ f # "blacklist"
  /\ page' = [page EXCEPT !.value[f] = 1 - @]
  /\ Clicked /\ UNCHANGED calls

Save(f) ==
  /\ MayClick /\ page.drawn[f] /\ f # "blacklist"
  /\ Starts(Asks("save", [form |-> f, value |-> page.value[f]]))
  /\ Clicked /\ UNCHANGED page

(* saveCliBlacklistSetting: what the box says by then. *)
Toggle ==
  /\ MayClick
  /\ page' = [page EXCEPT !.value["blacklist"] = 1 - @]
  /\ Starts(Asks("save", [form |-> "blacklist", value |-> page'.value["blacklist"]]))
  /\ Clicked

(* Fault: the box stays as it was clicked. *)
SavedAsClicked(i) ==
  /\ Back(i, "save")
  /\ IF Answered(i) /\ calls[i].arg.form = "ping" THEN GoesOn(i, Status) ELSE Ends(i)
  /\ UNCHANGED <<page, server>>

Saved(i) ==
  /\ Back(i, "save")
  /\ LET f == calls[i].arg.form
     IN  /\ page' = IF ~Answered(i) /\ f = "blacklist"
                    THEN [page EXCEPT !.value["blacklist"] = 1 - @] ELSE page
         /\ IF Answered(i) /\ f = "ping" THEN GoesOn(i, Status) ELSE Ends(i)
  /\ UNCHANGED server

StatusShown(i) ==
  /\ Back(i, "status")
  /\ page' = [page EXCEPT !.monitor = IF Answered(i) THEN <<Answer(i)>> ELSE <<>>]
  /\ Ends(i)
  /\ UNCHANGED server

-----------------------------------------------------------------------------
ServeLoad(i) ==
  /\ Sent(i, "load") /\ Answers(i, server.value[calls[i].arg.form])
  /\ UNCHANGED <<page, server>>

ServeSave(i) ==
  /\ Sent(i, "save")
  /\ server' = [server EXCEPT !.value[calls[i].arg.form] = calls[i].arg.value]
  /\ Answers(i, "ok")
  /\ UNCHANGED page

ServeStatus(i) == Sent(i, "status") /\ Answers(i, server.value["ping"]) /\ UNCHANGED <<page, server>>

(* A request is refused; or it is served, and its answer is lost. *)
Refuse(i) == calls[i].at = "sent" /\ Fails(i) /\ UNCHANGED <<page, server>>
LoseAnswer(i) ==
  /\ ~inTurn /\ calls[i].at = "back" /\ Answered(i)
  /\ calls' = [calls EXCEPT ![i].got = <<>>]
  /\ UNCHANGED <<page, server>>

Serve(i) == ServeLoad(i) \/ ServeSave(i) \/ ServeStatus(i)
Continue(i) == Loaded(i) \/ Saved(i) \/ StatusShown(i)

Next ==
  /\ UNCHANGED inTurn
  /\ \/ \E f \in Forms : Open(f) \/ Edit(f) \/ Save(f)
     \/ Toggle
     \/ \E i \in Ids : Serve(i) \/ Refuse(i) \/ LoseAnswer(i) \/ Continue(i)

Fairness == \A i \in Ids : WF_vars(Serve(i) \/ Refuse(i)) /\ WF_vars(Continue(i))
Spec == Init /\ [][Next]_vars /\ Fairness

-----------------------------------------------------------------------------
TypeOK ==
  /\ page.known \subseteq Forms
  /\ \A f \in Forms : page.value[f] \in Values /\ server.value[f] \in Values

(* The comment at the switch: a save that fails restores what was there. *)
SwitchIsTrue ==
  Quiet /\ "blacklist" \in page.known => page.value["blacklist"] = server.value["blacklist"]

(***************************************************************************)
(* To a user who waits, and whatever is refused: the switch at rest is as  *)
(* the server has it, once it was loaded, and the monitor is shown as it   *)
(* was set last.                                                           *)
(***************************************************************************)
SettingsAreTrue ==
  /\ SwitchIsTrue
  /\ Quiet /\ page.monitor # <<>> => page.monitor = <<server.value["ping"]>>
=============================================================================
