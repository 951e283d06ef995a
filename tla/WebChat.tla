------------------------------- MODULE WebChat -------------------------------
(***************************************************************************)
(* The AI assistant's chat (web/static/js/ai.js): questions and answers,   *)
(* saved as conversations on the server, and the changes of a device's     *)
(* configuration that an answer may propose, which the user confirms.  The *)
(* chat that is open may be another when an answer comes.                  *)
(***************************************************************************)
EXTENDS Browser, Sequences, FiniteSets

CONSTANTS
  Devices,
  MaxQuestions, \* bound on the questions asked
  MaxConvs,     \* bound on the conversations made
  Polls,        \* times that a job is asked for before the page gives up
  MaxClicks     \* bound on what users do, by whether they wait: [BOOLEAN -> Nat]

VARIABLES page, server
vars == <<page, calls, server, inTurn>>

NoConv == 0
Question(n) == [n |-> n, role |-> "user"]
Reply(n) == [n |-> n, role |-> "assistant"]

Init ==
  /\ inTurn \in BOOLEAN
  /\ page = [conv |-> NoConv, history |-> <<>>, list |-> {}, attach |-> {}, cards |-> <<>>]
  /\ calls = NoCalls
  /\ server = [convs |-> <<>>, jobs |-> <<>>, asked |-> 0, clicks |-> 0]

-----------------------------------------------------------------------------
MayClick == server.clicks < MaxClicks[inTurn] /\ (inTurn => Quiet)
Clicked == server' = [server EXCEPT !.clicks = @ + 1]

(* The boxes of the devices whose configuration goes with a question. *)
Attach(d) ==
  /\ MayClick
  /\ page' = [page EXCEPT !.attach = IF d \in @ THEN @ \ {d} ELSE @ \union {d}]
  /\ Clicked /\ UNCHANGED calls

(* sendAiChat; Enter sends even when the button is off. *)
Send ==
  /\ MayClick /\ server.asked < MaxQuestions
  /\ LET n == server.asked + 1
         h == Append(page.history, Question(n))
     IN  /\ page' = [page EXCEPT !.history = h]
         /\ Starts(Asks("chat", [n |-> n, attach |-> page.attach]))
         /\ server' = [server EXCEPT !.clicks = @ + 1, !.asked = n]

(* persistAiConversation: of the chat that is open, for the first time or again. *)
Persist(p) ==
  IF p.conv = NoConv THEN Asks("create", [msgs |-> p.history])
  ELSE Asks("save", [conv |-> p.conv, msgs |-> p.history])

(* renderAiConfigProposal: without buttons unless the device was attached. *)
Card(d, attached) ==
  [of |-> d, attached |-> attached, confirmed |-> 0,
   state |-> IF d \in attached THEN "shown" ELSE "barred"]

Replied(i) ==
  /\ Back(i, "chat")
  /\ LET c == calls[i].arg
         p == IF ~Answered(i) THEN page
              ELSE [page EXCEPT !.history = Append(@, Reply(c.n)),
                                !.cards = IF Answer(i) \in Devices
                                          THEN Append(@, Card(Answer(i), c.attach)) ELSE @]
     IN  /\ page' = p
         /\ IF p.history = <<>> THEN Ends(i) ELSE GoesOn(i, Persist(p))
  /\ UNCHANGED server

-----------------------------------------------------------------------------
List == Asks("list", <<>>)
Cleared(p) == [p EXCEPT !.history = <<>>, !.conv = NoConv]

(* A row made for this chat, or for a new one. *)
Created(i) ==
  /\ Back(i, "create")
  /\ IF Answered(i) THEN page' = [page EXCEPT !.conv = Answer(i)] /\ GoesOn(i, List)
     ELSE UNCHANGED page /\ Ends(i)
  /\ UNCHANGED server

Saved(i) == Back(i, "save") /\ GoesOn(i, List) /\ UNCHANGED <<page, server>>

Listed(i) ==
  /\ Back(i, "list")
  /\ page' = IF Answered(i) THEN [page EXCEPT !.list = Answer(i)] ELSE page
  /\ Ends(i)
  /\ UNCHANGED server

(* openAiConversation: a history of null is none. *)
Open(c) ==
  /\ MayClick /\ c \in page.list /\ Starts(Asks("open", [conv |-> c]))
  /\ Clicked /\ UNCHANGED page

Opened(i) ==
  /\ Back(i, "open")
  /\ page' = IF Answered(i)
             THEN [page EXCEPT !.conv = calls[i].arg.conv, !.history = Answer(i)] ELSE page
  /\ Ends(i)
  /\ UNCHANGED server

(* newAiConversation, unless the one that is open is new. *)
New ==
  /\ MayClick /\ ~(page.conv # NoConv /\ page.history = <<>>)
  /\ page' = Cleared(page)
  /\ Starts(Asks("create", [msgs |-> <<>>]))
  /\ Clicked

Delete(c) ==
  /\ MayClick /\ c \in page.list \union ({page.conv} \ {NoConv})
  /\ Starts(Asks("delete", [conv |-> c]))
  /\ Clicked /\ UNCHANGED page

Deleted(i) ==
  /\ Back(i, "delete")
  /\ IF Answered(i)
     THEN /\ page' = IF calls[i].arg.conv = page.conv THEN Cleared(page) ELSE page
          /\ GoesOn(i, List)
     ELSE UNCHANGED page /\ Ends(i)
  /\ UNCHANGED server

Rename ==
  /\ MayClick /\ page.conv # NoConv /\ Starts(Asks("rename", [conv |-> page.conv]))
  /\ Clicked /\ UNCHANGED page

Renamed(i) ==
  /\ Back(i, "rename")
  /\ IF Answered(i) THEN GoesOn(i, List) ELSE Ends(i)
  /\ UNCHANGED <<page, server>>

-----------------------------------------------------------------------------
(* Fault: the buttons work while the commands are sent. *)
ConfirmKeepingButtons(k) ==
  /\ MayClick /\ k \in DOMAIN page.cards /\ page.cards[k].state = "shown"
  /\ Starts(Asks("push", [card |-> k]))
  /\ Clicked /\ UNCHANGED page

(* A proposal: confirmed in a dialog, or removed. *)
Confirm(k) ==
  /\ MayClick /\ k \in DOMAIN page.cards /\ page.cards[k].state = "shown"
  /\ page' = [page EXCEPT !.cards[k].state = "sending", !.cards[k].confirmed = @ + 1]
  /\ Starts(Asks("push", [card |-> k]))
  /\ Clicked

Cancel(k) ==
  /\ MayClick /\ k \in DOMAIN page.cards /\ page.cards[k].state = "shown"
  /\ page' = [page EXCEPT !.cards[k].state = "removed"]
  /\ Clicked /\ UNCHANGED calls

(* applyAiConfigProposal: refused, its buttons work again; else it is polled. *)
Pushed(i) ==
  /\ Back(i, "push")
  /\ LET k == calls[i].arg.card
     IN  IF Answered(i)
         THEN GoesOn(i, Asks("job", [card |-> k, job |-> Answer(i), left |-> Polls])) /\ UNCHANGED page
         ELSE page' = [page EXCEPT !.cards[k].state = "shown"] /\ Ends(i)
  /\ UNCHANGED server

Polled(i) ==
  /\ Back(i, "job")
  /\ LET c == calls[i].arg
         over == Answered(i) /\ Answer(i) = "done"
     IN  IF over \/ c.left = 1
         THEN /\ page' = [page EXCEPT !.cards[c.card].state = IF over THEN "applied" ELSE "timeout"]
              /\ Ends(i)
         ELSE UNCHANGED page /\ GoesOn(i, Asks("job", [c EXCEPT !.left = @ - 1]))
  /\ UNCHANGED server

-----------------------------------------------------------------------------
Live == {c \in DOMAIN server.convs : server.convs[c].live}

ServeChat(i) ==
  /\ Sent(i, "chat")
  /\ \E d \in Devices \union {None} : Answers(i, d)
  /\ UNCHANGED <<page, server>>

(* A new row. *)
ServeCreate(i) ==
  /\ Sent(i, "create") /\ Len(server.convs) < MaxConvs
  /\ server' = [server EXCEPT !.convs = Append(@, [live |-> TRUE, msgs |-> calls[i].arg.msgs])]
  /\ Answers(i, Len(server.convs) + 1)
  /\ UNCHANGED page

(* A row that is there; renaming sends no messages, and null is saved. *)
ServeConv(i) ==
  /\ calls[i].at = "sent" /\ calls[i].fn \in {"save", "rename", "delete", "open"}
  /\ LET c == calls[i].arg.conv IN
     IF c \notin Live /\ calls[i].fn # "delete" THEN Fails(i) /\ UNCHANGED server
     ELSE CASE calls[i].fn = "save" ->
                 Answers(i, "ok") /\ server' = [server EXCEPT !.convs[c].msgs = calls[i].arg.msgs]
            [] calls[i].fn = "rename" ->
                 Answers(i, "ok") /\ server' = [server EXCEPT !.convs[c].msgs = <<>>]
            [] calls[i].fn = "delete" ->
                 Answers(i, "ok") /\ server' = [server EXCEPT !.convs[c].live = FALSE]
            [] OTHER -> Answers(i, server.convs[c].msgs) /\ UNCHANGED server
  /\ UNCHANGED page

ServeList(i) == Sent(i, "list") /\ Answers(i, Live) /\ UNCHANGED <<page, server>>

(* The commands run as a job. *)
ServePush(i) ==
  /\ Sent(i, "push")
  /\ server' = [server EXCEPT !.jobs = Append(@, [card |-> calls[i].arg.card, state |-> "running"])]
  /\ Answers(i, Len(server.jobs) + 1)
  /\ UNCHANGED page

EndJob(j) ==
  /\ j \in DOMAIN server.jobs /\ server.jobs[j].state = "running"
  /\ server' = [server EXCEPT !.jobs[j].state = "done"]
  /\ UNCHANGED <<page, calls>>

ServeJob(i) ==
  /\ Sent(i, "job") /\ Answers(i, server.jobs[calls[i].arg.job].state)
  /\ UNCHANGED <<page, server>>

(* An answer may be lost on its way back, too. *)
Lose(i) == ~inTurn /\ calls[i].at = "sent" /\ Fails(i) /\ UNCHANGED <<page, server>>
LosePushed(i) ==
  /\ ~inTurn /\ Back(i, "push") /\ Answered(i)
  /\ calls' = [calls EXCEPT ![i].got = <<>>]
  /\ UNCHANGED <<page, server>>

Serve(i) ==
  ServeChat(i) \/ ServeCreate(i) \/ ServeConv(i) \/ ServeList(i) \/ ServePush(i) \/ ServeJob(i)
Continue(i) ==
  \/ Replied(i) \/ Created(i) \/ Saved(i) \/ Listed(i) \/ Opened(i) \/ Deleted(i) \/ Renamed(i)
  \/ Pushed(i) \/ Polled(i)

Next ==
  /\ UNCHANGED inTurn
  /\ \/ Send \/ New \/ Rename
     \/ \E d \in Devices : Attach(d)
     \/ \E c \in 1..MaxConvs : Open(c) \/ Delete(c)
     \/ \E k \in 1..MaxQuestions : Confirm(k) \/ Cancel(k)
     \/ \E j \in DOMAIN server.jobs : EndJob(j)
     \/ \E i \in Ids : Serve(i) \/ Lose(i) \/ LosePushed(i) \/ Continue(i)

Fairness == \A i \in Ids : WF_vars(Serve(i)) /\ WF_vars(Continue(i))
Spec == Init /\ [][Next]_vars /\ Fairness

-----------------------------------------------------------------------------
Messages == {Question(n) : n \in 1..MaxQuestions} \union {Reply(n) : n \in 1..MaxQuestions}

TypeOK ==
  /\ page.conv \in 0..MaxConvs /\ page.attach \subseteq Devices
  /\ \A k \in DOMAIN page.history : page.history[k] \in Messages

(***************************************************************************)
(* Commands run only at a device whose configuration went with the very    *)
(* question, and as often as the user confirmed them, whatever is lost.    *)
(***************************************************************************)
PushIsConfirmed ==
  \A k \in DOMAIN page.cards :
    LET runs == {j \in DOMAIN server.jobs : server.jobs[j].card = k}
    IN  /\ Cardinality(runs) <= page.cards[k].confirmed
        /\ runs # {} => page.cards[k].of \in page.cards[k].attached

(* An answer follows its question. *)
Paired(h) ==
  \A k \in DOMAIN h : h[k].role = "assistant" => \E j \in 1..(k - 1) : h[j] = Question(h[k].n)

(***************************************************************************)
(* Users who wait: every chat has answers to its own questions only, and   *)
(* what is shown is what is saved, or the row has lost its messages to a   *)
(* new title.                                                              *)
(***************************************************************************)
SavedAsShown ==
  /\ Paired(page.history)
  /\ \A c \in DOMAIN server.convs : Paired(server.convs[c].msgs)
  /\ Quiet /\ page.conv # NoConv =>
       page.conv \in Live /\ server.convs[page.conv].msgs \in {page.history, <<>>}

(* ai.js says: the first answer creates the row, then the same is updated. *)
OneRowPerChat ==
  \A c, d \in Live :
    c # d /\ server.convs[c].msgs # <<>> => server.convs[c].msgs[1] \notin
      {server.convs[d].msgs[k] : k \in DOMAIN server.convs[d].msgs}
=============================================================================
