------------------------------- MODULE Browser -------------------------------
(***************************************************************************)
(* What every page of the web interface runs on: the browser's event loop. *)
(* Script runs alone until an async function awaits a request; then other  *)
(* functions run, and the answers of requests in progress come in any      *)
(* order.  A call is one async function in progress: fn names the await at *)
(* which it stands, arg what it has in its variables, at whether the       *)
(* server has answered, and got the answer, empty when the request failed. *)
(***************************************************************************)
EXTENDS Naturals

CONSTANT MaxCalls    \* bound on the calls in progress at once

CallsAssumption == MaxCalls \in Nat \ {0}

VARIABLES
  calls,
  inTurn     \* TRUE: the user waits until nothing is on the way; it stays so

Ids == 1..MaxCalls
None == "none"
NoCall == [fn |-> None, at |-> None, arg |-> <<>>, got |-> <<>>]
NoCalls == [i \in Ids |-> NoCall]

(* A call that has just sent its request. *)
Asks(fn, arg) == [fn |-> fn, at |-> "sent", arg |-> arg, got |-> <<>>]

Free == {i \in Ids : calls[i].fn = None}
InProgress(fns) == {i \in Ids : calls[i].fn \in fns}
Quiet == \A i \in Ids : calls[i].fn = None

Sent(i, fn) == calls[i].fn = fn /\ calls[i].at = "sent"
Back(i, fn) == calls[i].fn = fn /\ calls[i].at = "back"

(* Of an answered call: whether there is an answer, and which. *)
Answered(i) == calls[i].got # <<>>
Answer(i) == calls[i].got[1]

(* The same calls with i ended, or gone on to its next request. *)
Ended(i) == [calls EXCEPT ![i] = NoCall]
Moved(i, c) == [calls EXCEPT ![i] = c]

(* The calls cs with c begun, in the first free place. *)
Begun(cs, c) ==
  LET i == CHOOSE i \in Ids : cs[i].fn = None /\ \A j \in 1..(i - 1) : cs[j].fn # None
  IN  [cs EXCEPT ![i] = c]

(* The answer d comes to call i, or its request fails. *)
IsBack(c, got) == [fn |-> c.fn, at |-> "back", arg |-> c.arg, got |-> got]
Answers(i, d) == calls' = [calls EXCEPT ![i] = IsBack(@, <<d>>)]
Fails(i) == calls' = [calls EXCEPT ![i] = IsBack(@, <<>>)]

Starts(c) == Free # {} /\ calls' = Begun(calls, c)
Ends(i) == calls' = Ended(i)
GoesOn(i, c) == calls' = Moved(i, c)
=============================================================================
