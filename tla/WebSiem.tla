------------------------------ MODULE WebSiem ------------------------------
(***************************************************************************)
(* The search view of the traffic tab (web/static/js/flow-analytics.js).   *)
(* A search loads events, histogram and facets together, the last two of   *)
(* all events; then a timer asks for the newest events, which are put on   *)
(* top of those that are there, unless a detail is open.  Newest is meant  *)
(* by the stamps of the devices.  A row that is clicked is known by the    *)
(* text of its attribute, an event by the number the server gave it.       *)
(***************************************************************************)
EXTENDS Browser, Sequences, Functions

CONSTANTS
  Denied,      \* the events that are hits of the search
  Batch,       \* how many events a search, and
  Newest,      \* how many the timer asks for
  MaxRows,     \* how many rows there are at most
  MaxEvents,   \* bound on the events that are logged, by whether the user waits: [BOOLEAN -> Nat]
  MaxClicks    \* bound on what the user and the timer do, by whether he waits: [BOOLEAN -> Nat]

VARIABLES page, server
vars == <<page, calls, server, inTurn>>

Deny == "deny"
Queries == {None, Deny}
Parts == {"events", "histogram", "facets"}
Number(e) == [kind |-> "number", of |-> e]
Text(e) == [kind |-> "text", of |-> e]

(* The first n of s; those of s that q finds. *)
FirstOf(s, n) == IF Len(s) <= n THEN s ELSE SubSeq(s, 1, n)
Found(s, q) == SelectSeq(s, LAMBDA e : q = None \/ e \in Denied)

Init ==
  /\ inTurn \in BOOLEAN
  /\ page = [rows |-> <<>>, histogram |-> <<>>, facets |-> <<>>, query |-> None, stream |-> TRUE,
             timer |-> FALSE, chosen |-> <<>>, pane |-> TRUE]
  /\ calls = Begun(NoCalls, Asks("load", [query |-> None]))
  /\ server = [log |-> <<>>, clicks |-> 0]

-----------------------------------------------------------------------------
MayAct == server.clicks < MaxClicks[inTurn] /\ (inTurn => Quiet)
Clicked == server' = [server EXCEPT !.clicks = @ + 1]

(* filterSiemEvents, by hand or from a facet: loadFlowSiemTab. *)
Search(q) ==
  /\ MayAct /\ page.pane
  /\ page' = [page EXCEPT !.query = q]
  /\ Starts(Asks("load", [query |-> q]))
  /\ Clicked

(* Another view of the tab, and back, which loads. *)
LeavePane ==
  /\ MayAct /\ page.pane
  /\ page' = [page EXCEPT !.pane = FALSE]
  /\ Clicked /\ UNCHANGED calls

OpenPane ==
  /\ MayAct /\ ~page.pane
  /\ page' = [page EXCEPT !.pane = TRUE]
  /\ Starts(Asks("load", [query |-> page.query]))
  /\ Clicked

(***************************************************************************)
(* What came of the three is shown, and the timer starts anew.  Histogram  *)
(* and facets are asked without the query: they count what there is.       *)
(***************************************************************************)
Loaded(i) ==
  /\ Back(i, "load")
  /\ LET came == IF Answered(i) THEN Answer(i).parts ELSE {}
     IN  page' = [page EXCEPT
           !.rows = IF "events" \in came THEN Answer(i).events ELSE @,
           !.histogram = IF "histogram" \in came THEN <<Answer(i).all>> ELSE @,
           !.facets = IF "facets" \in came THEN <<Answer(i).all>> ELSE @,
           !.timer = TRUE]
  /\ Ends(i)
  /\ UNCHANGED server

ToggleStream ==
  /\ MayAct
  /\ page' = [page EXCEPT !.stream = ~@]
  /\ Clicked /\ UNCHANGED calls

(* The timer, of startSiemStreamTimer: not while a detail is open.         *)
Tick ==
  /\ MayAct /\ page.timer /\ page.stream /\ page.pane /\ page.chosen = <<>>
  /\ Starts(Asks("poll", [query |-> page.query]))
  /\ Clicked /\ UNCHANGED page


(* Those that are not there yet go on top. *)
Polled(i) ==
  /\ Back(i, "poll")
  /\ LET fresh == IF Answered(i)
                  THEN SelectSeq(Answer(i).events, LAMBDA e : e \notin Range(page.rows)) ELSE <<>>
     IN  page' = [page EXCEPT !.rows = IF fresh = <<>> THEN @ ELSE FirstOf(fresh \o @, MaxRows)]
  /\ Ends(i)
  /\ UNCHANGED server

(* toggleEventDrawer. *)
ClickRow(e) ==
  /\ MayAct /\ e \in Range(page.rows)
  /\ page' = [page EXCEPT !.chosen = IF @ = <<Text(e)>> THEN <<>> ELSE <<Text(e)>>]
  /\ Clicked /\ UNCHANGED calls

(* renderSiemTable: the rows whose detail is open. *)
Details == {e \in Range(page.rows) : page.chosen = <<Number(e)>>}

-----------------------------------------------------------------------------
ServeLoad(i) ==
  /\ Sent(i, "load")
  /\ \E parts \in IF inTurn THEN {Parts} ELSE SUBSET Parts :
       Answers(i, [parts |-> parts, events |-> FirstOf(Found(server.log, calls[i].arg.query), Batch),
                   all |-> Range(server.log)])
  /\ UNCHANGED <<page, server>>

ServePoll(i) ==
  /\ Sent(i, "poll")
  /\ Answers(i, [events |-> FirstOf(Found(server.log, calls[i].arg.query), Newest)])
  /\ UNCHANGED <<page, server>>

(***************************************************************************)
(* A device logs: the server lists the event where its stamp puts it, and  *)
(* a device whose clock is behind, or a message that was held up, comes    *)
(* after events that were logged before.                                   *)
(***************************************************************************)
Log ==
  /\ Len(server.log) < MaxEvents[inTurn]
  /\ \E newer \in 0..Len(server.log) :
       server' = [server EXCEPT !.log = SubSeq(@, 1, newer) \o <<Len(@) + 1>> \o SubSeq(@, newer + 1, Len(@))]
  /\ UNCHANGED <<page, calls>>

Lose(i) == ~inTurn /\ Sent(i, "poll") /\ Fails(i) /\ UNCHANGED <<page, server>>

Serve(i) == ServeLoad(i) \/ ServePoll(i)
Continue(i) == Loaded(i) \/ Polled(i)

Next ==
  /\ UNCHANGED inTurn
  /\ \/ \E q \in Queries : Search(q)
     \/ LeavePane \/ OpenPane \/ ToggleStream \/ Tick \/ Log
     \/ \E e \in 1..MaxEvents[inTurn] : ClickRow(e)
     \/ \E i \in Ids : Serve(i) \/ Lose(i) \/ Continue(i)

Fairness == \A i \in Ids : WF_vars(Serve(i)) /\ WF_vars(Continue(i))
Spec == Init /\ [][Next]_vars /\ Fairness

-----------------------------------------------------------------------------
TypeOK ==
  /\ page.rows \in Seq(1..MaxEvents[inTurn]) /\ Len(page.rows) <= MaxRows
  /\ page.query \in Queries

(***************************************************************************)
(* However the answers of searches and of the timer come in, an event has  *)
(* one row, and an event that a row shows was logged.                      *)
(***************************************************************************)
OneRowPerEvent ==
  /\ \A j, k \in DOMAIN page.rows : page.rows[j] = page.rows[k] => j = k
  /\ Range(page.rows) \subseteq 1..Len(server.log)

Before(e, f) == \E j, k \in DOMAIN server.log : server.log[j] = e /\ server.log[k] = f /\ j < k


(***************************************************************************)
(* flow-analytics.js says that the stream, held off while a detail is      *)
(* open, goes on when it is closed: what holds it off can be closed.       *)
(***************************************************************************)
HeldByADetail == page.chosen # <<>> => Details # {}
=============================================================================
