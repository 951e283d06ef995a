------------------------------ MODULE WebPolicy ------------------------------
(***************************************************************************)
(* The test of a device's policy (web/static/js/policy-test.js): what its  *)
(* rules do to a packet, packets that are examples for its rules, and what *)
(* is wrong with them, each with a proof on request.  A tenant is chosen,  *)
(* then a device of it; the three panels are filled when they are opened,  *)
(* and what was loaded of a device is remembered.                          *)
(***************************************************************************)
EXTENDS Browser

CONSTANTS
  Devices, Group(_),
  Packets,
  MaxClicks     \* bound on what the user does, by whether he waits: [BOOLEAN -> Nat]

VARIABLES page, server
vars == <<page, calls, server, inTurn>>

Panels == {"tracer", "examples", "findings"}
Lists == {"examples", "findings"}
Tenants == {Group(d) : d \in Devices}
OfTenant(t) == {d \in Devices : Group(d) = t}

(* What is in a panel: nothing, an error, or what is of a device; drawn     *)
(* changes when it is drawn anew, and a proof is written in what is there.  *)
Empty == [of |-> None, pkt |-> None, proof |-> None, drawn |-> 0]
Drawn(c, of, pkt) == [of |-> of, pkt |-> pkt, proof |-> None, drawn |-> 1 - c.drawn]
Forgotten == [d \in Devices \union {None} |-> None]
NoCache == [l \in Lists |-> Forgotten]

Init ==
  /\ inTurn \in BOOLEAN
  /\ page = [tenant |-> None, dev |-> None, panel |-> "tracer", pkt |-> None,
             shows |-> [l \in Panels |-> Empty], cache |-> NoCache]
  /\ calls = NoCalls
  /\ server = [clicks |-> 0]

-----------------------------------------------------------------------------
MayClick == server.clicks < MaxClicks[inTurn] /\ Free # {} /\ (inTurn => Quiet)
Clicked == server' = [server EXCEPT !.clicks = @ + 1]

(* renderPolicySelectionState: with no device, every panel is emptied.      *)
Selected(p) ==
  IF p.dev # None THEN p
  ELSE [p EXCEPT !.shows = [l \in Panels |-> Drawn(@[l], None, None)]]

(* Fault: the device stays. *)
ChooseTenantKeepingDevice(t) ==
  /\ MayClick /\ t # page.tenant
  /\ page' = Selected([page EXCEPT !.tenant = t, !.cache = NoCache])
  /\ Clicked /\ UNCHANGED calls

(* Another tenant: no device, and nothing is remembered.  *)
ChooseTenant(t) ==
  /\ MayClick /\ t # page.tenant
  /\ page' = Selected([page EXCEPT !.tenant = t, !.dev = None, !.cache = NoCache])
  /\ Clicked /\ UNCHANGED calls

(* The tab is opened again: the device stays, if it is of the tenant.      *)
OpenTab ==
  /\ MayClick
  /\ page' = Selected([page EXCEPT !.dev = IF @ \in OfTenant(page.tenant) THEN @ ELSE None])
  /\ Clicked /\ UNCHANGED calls

Loads(p, l) == page' = [p EXCEPT !.shows[l] = Drawn(@, None, None)] /\ Starts(Asks(l, p.dev))

(* Another device: what is open is loaded, what is not stays as it is.      *)
ChooseDevice(d) ==
  /\ MayClick /\ d \in OfTenant(page.tenant) \union {None} /\ page.tenant # None /\ d # page.dev
  /\ LET p == Selected([page EXCEPT !.dev = d])
     IN  IF d # None /\ p.panel \in Lists THEN Loads(p, p.panel) ELSE page' = p /\ UNCHANGED calls
  /\ Clicked

(* switchPolicySubtab: what is remembered is not loaded.                   *)
Opened(p, l) == Selected([p EXCEPT !.panel = l])
OpenPanel(l) ==
  /\ MayClick
  /\ LET p == Opened(page, l)
     IN  IF p.dev # None /\ l \in Lists /\ p.cache[l][p.dev] = None
         THEN Loads(p, l) ELSE page' = p /\ UNCHANGED calls
  /\ Clicked

(* Remembered, and drawn, for the device that is chosen by then.           *)
ListShown(i) ==
  /\ \E l \in Lists :
       /\ Back(i, l)
       /\ page' = IF Answered(i)
                  THEN [page EXCEPT !.cache[l][page.dev] = Answer(i), !.shows[l] = Drawn(@, Answer(i), None)]
                  ELSE [page EXCEPT !.shows[l] = Drawn(@, None, None)]
  /\ Ends(i)
  /\ UNCHANGED server

-----------------------------------------------------------------------------
(* runPolicyTrace. *)
Traces(p) ==
  /\ p.dev # None /\ p.pkt # None
  /\ page' = [p EXCEPT !.shows["tracer"] = Drawn(@, None, None)]
  /\ Starts(Asks("trace", [dev |-> p.dev, pkt |-> p.pkt]))

EnterPacket(k) ==
  /\ MayClick /\ k # page.pkt
  /\ page' = [page EXCEPT !.pkt = k]
  /\ Clicked /\ UNCHANGED calls

Trace == MayClick /\ Traces(page) /\ Clicked

(* usePolicyExample: its packet, and at once the trace of it. *)
UseExample(k) ==
  /\ MayClick /\ page.panel = "examples" /\ page.shows["examples"].of # None /\ page.dev # None
  /\ Traces([Opened(page, "tracer") EXCEPT !.pkt = k])
  /\ Clicked

Traced(i) ==
  /\ Back(i, "trace")
  /\ page' = [page EXCEPT !.shows["tracer"] =
       IF Answered(i) THEN Drawn(@, Answer(i).dev, Answer(i).pkt) ELSE Drawn(@, None, None)]
  /\ Ends(i)
  /\ UNCHANGED server

(* proveFinding: on the device that is chosen.  *)
Prove ==
  /\ MayClick /\ page.panel = "findings" /\ page.shows["findings"].of # None /\ page.dev # None
  /\ Starts(Asks("prove", [dev |-> page.dev, drawn |-> page.shows["findings"].drawn]))
  /\ Clicked /\ UNCHANGED page

Proved(i) ==
  /\ Back(i, "prove")
  /\ page' = IF page.shows["findings"].drawn = calls[i].arg.drawn /\ Answered(i)
             THEN [page EXCEPT !.shows["findings"].proof = calls[i].arg.dev] ELSE page
  /\ Ends(i)
  /\ UNCHANGED server

-----------------------------------------------------------------------------
(* The engine works on the device of the address, and keeps nothing. *)
Serve(i) ==
  /\ calls[i].at = "sent"
  /\ \/ calls[i].fn \in Lists \union {"trace"} /\ Answers(i, calls[i].arg)
     \/ calls[i].fn = "prove" /\ Answers(i, "ok")
  /\ UNCHANGED <<page, server>>

Lose(i) == ~inTurn /\ calls[i].at = "sent" /\ Fails(i) /\ UNCHANGED <<page, server>>

Continue(i) == ListShown(i) \/ Traced(i) \/ Proved(i)

Next ==
  /\ UNCHANGED inTurn
  /\ \/ \E t \in Tenants \union {None} : ChooseTenant(t)
     \/ \E d \in Devices \union {None} : ChooseDevice(d)
     \/ \E l \in Panels : OpenPanel(l)
     \/ \E k \in Packets : EnterPacket(k) \/ UseExample(k)
     \/ OpenTab \/ Trace \/ Prove
     \/ \E i \in Ids : Serve(i) \/ Lose(i) \/ Continue(i)

Fairness == \A i \in Ids : WF_vars(Serve(i)) /\ WF_vars(Continue(i))
Spec == Init /\ [][Next]_vars /\ Fairness

-----------------------------------------------------------------------------
TypeOK ==
  /\ page.tenant \in Tenants \union {None} /\ page.dev \in Devices \union {None}
  /\ page.panel \in Panels /\ page.pkt \in Packets \union {None}

(* A device is only ever chosen of the tenant that is.                      *)
DeviceIsOfTheTenant == page.dev # None => Group(page.dev) = page.tenant

(***************************************************************************)
(* To a user who waits, and chooses a device in a panel that loads: what   *)
(* is remembered of a device is its own, all that is shown is of the       *)
(* tenant, nothing is when no device is chosen, and a trace is of the      *)
(* packet of the example it was asked for.                                 *)
(***************************************************************************)
PolicyIsTrue ==
  Quiet =>
    /\ \A l \in Lists, d \in Devices : page.cache[l][d] \in {None, d}
    /\ \A l \in Panels :
         LET of == page.shows[l].of
         IN  of # None => page.dev # None /\ Group(of) = page.tenant
=============================================================================
