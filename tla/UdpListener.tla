----------------------------- MODULE UdpListener -----------------------------
(***************************************************************************)
(* One UDP listener of the ingest pipeline                                 *)
(* (internal/observability/ingest/udp.go): readLoop moves datagrams from   *)
(* the socket to a bounded queue and never waits, consumeLoop decodes them *)
(* and attributes every record to a tenant, Stop closes the socket and     *)
(* waits a limited time for both goroutines.                               *)
(*                                                                         *)
(* Decoding is abstracted to the number of records a datagram holds, and   *)
(* TenantForIP to its three kinds of answer; TenantResolver and            *)
(* TemplateDecoder model what is behind them.                              *)
(***************************************************************************)
EXTENDS Naturals, Sequences, FiniteSets

CONSTANTS
  Datagrams,      \* the datagrams that reach the socket, each of them once
  Exporters,      \* the addresses they may come from
  SourceOf,       \* SourceOf[d]: the exporter that sent datagram d
  MaxRecords,     \* most records decoded from one datagram
  IngestQueueMax, \* capacity of Listener.queue
  AuditInterval,  \* least time between two audit entries of one exporter
  MaxTime         \* bound of the clock

(* What the constants have to be. *)
ListenerAssumption ==
  /\ IsFiniteSet(Datagrams)
  /\ SourceOf \in [Datagrams -> Exporters]
  /\ MaxRecords \in Nat
  /\ IngestQueueMax \in Nat \ {0}
  /\ AuditInterval \in Nat \ {0}
  /\ MaxTime \in Nat

(***************************************************************************)
(* What TenantForIP answers: the exporter is no device of the inventory,   *)
(* a device without tenant, or a device of a tenant.                       *)
(***************************************************************************)
Answers == {"unknown", "untenanted", "tenant"}

VARIABLES
  network,   \* datagrams not yet sent
  socket,    \* "open" or "closed"
  reader,    \* readLoop: "read", "closing" or "exited"
  queue,     \* Listener.queue
  qclosed,   \* the reader has closed the queue
  consumer,  \* consumeLoop: "receive", "dispatch" or "exited"
  current,   \* the datagrams being dispatched: <<d>>, or <<>> between two
  todo,      \* records of that datagram still to dispatch
  stop,      \* Stop: "idle", "waiting", "drained" or "left"
  clock,
  unknownAuditted,  \* unknownAuditted[e]: times of the last audit of e (none or one)
  arrived,   \* history: the datagrams read from the socket, in order
  lost,      \* history: those dropped on a full queue
  handled,   \* history: those completely dispatched, in order
  written,   \* history: per datagram, records handed to the sink
  quarantined, \* history: per datagram, records quarantined
  audits     \* history: <<exporter, time>> of every audit entry

readerVars == <<network, reader, qclosed, arrived, lost>>
consumerVars == <<consumer, current, todo, unknownAuditted, handled, written,
                  quarantined, audits>>
vars == <<readerVars, consumerVars, socket, queue, stop, clock>>

Elems(s) == {s[i] : i \in 1..Len(s)}

Init ==
  /\ network = Datagrams
  /\ socket = "open" /\ stop = "idle" /\ clock = 0
  /\ reader = "read" /\ qclosed = FALSE /\ queue = <<>>
  /\ consumer = "receive" /\ current = <<>> /\ todo = 0
  /\ unknownAuditted = [e \in Exporters |-> {}]
  /\ arrived = <<>> /\ lost = {} /\ handled = <<>>
  /\ written = [d \in Datagrams |-> 0]
  /\ quarantined = [d \in Datagrams |-> 0]
  /\ audits = {}

-----------------------------------------------------------------------------
(***************************************************************************)
(* Fault: a full queue makes room by discarding its oldest datagram.       *)
(***************************************************************************)
ReadDroppingOldest(d) ==
  /\ reader = "read" /\ socket = "open" /\ d \in network
  /\ network' = network \ {d}
  /\ arrived' = Append(arrived, d)
  /\ queue' = IF Len(queue) < IngestQueueMax THEN Append(queue, d)
              ELSE Append(Tail(queue), d)
  /\ UNCHANGED <<reader, qclosed, lost, socket, stop, clock, consumerVars>>

(***************************************************************************)
(* readLoop: ReadFrom returns a datagram while the socket is open; the     *)
(* datagram joins the queue or is dropped, at once.                        *)
(***************************************************************************)
Read(d) ==
  /\ reader = "read" /\ socket = "open" /\ d \in network
  /\ network' = network \ {d}
  /\ arrived' = Append(arrived, d)
  /\ \/ /\ Len(queue) < IngestQueueMax
        /\ queue' = Append(queue, d)
        /\ UNCHANGED lost
     \/ /\ Len(queue) = IngestQueueMax
        /\ lost' = lost \cup {d}
        /\ UNCHANGED queue
  /\ UNCHANGED <<reader, qclosed, socket, stop, clock, consumerVars>>

(***************************************************************************)
(* ReadFrom fails, as it does on a closed socket and may on an open one:   *)
(* the loop ends for good, with the deferred close(l.queue).               *)
(***************************************************************************)
ReadFails ==
  /\ reader = "read"
  /\ reader' = "closing"
  /\ UNCHANGED <<network, qclosed, arrived, lost, socket, queue, stop, clock,
                 consumerVars>>

(***************************************************************************)
(* Fault: the deferred close(l.queue) is missing.                          *)
(***************************************************************************)
CloseQueueForgotten ==
  /\ reader = "closing"
  /\ reader' = "exited"
  /\ UNCHANGED <<network, qclosed, arrived, lost, socket, queue, stop, clock,
                 consumerVars>>

CloseQueue ==
  /\ reader = "closing"
  /\ qclosed' = TRUE
  /\ reader' = "exited"
  /\ UNCHANGED <<network, arrived, lost, socket, queue, stop, clock,
                 consumerVars>>

-----------------------------------------------------------------------------
(***************************************************************************)
(* consumeLoop receives a datagram and decodes it into n records.          *)
(***************************************************************************)
Receive(n) ==
  /\ consumer = "receive" /\ queue # <<>>
  /\ current' = <<Head(queue)>>
  /\ queue' = Tail(queue)
  /\ todo' = n
  /\ consumer' = "dispatch"
  /\ UNCHANGED <<unknownAuditted, handled, written, quarantined, audits,
                 readerVars, socket, stop, clock>>

(***************************************************************************)
(* The range over the queue ends when it is closed and empty.              *)
(***************************************************************************)
ReceiveEnd ==
  /\ consumer = "receive" /\ queue = <<>> /\ qclosed
  /\ consumer' = "exited"
  /\ UNCHANGED <<current, todo, unknownAuditted, handled, written,
                 quarantined, audits, readerVars, socket, queue, stop, clock>>

(***************************************************************************)
(* shouldAudit(e): e was never audited, or long enough ago.                *)
(***************************************************************************)
shouldAudit(e) ==
  \A t \in unknownAuditted[e] : clock - t >= AuditInterval

Audit(e) ==
  IF shouldAudit(e)
  THEN /\ audits' = audits \cup {<<e, clock>>}
       /\ unknownAuditted' = [unknownAuditted EXCEPT ![e] = {clock}]
  ELSE UNCHANGED <<audits, unknownAuditted>>

(***************************************************************************)
(* dispatch hands one record to the sink, or resolveTenant has it counted, *)
(* quarantined and perhaps audited.                                        *)
(***************************************************************************)
Dispatch(answer) ==
  /\ consumer = "dispatch" /\ todo > 0
  /\ LET d == current[1] IN
       IF answer = "tenant"
       THEN /\ written' = [written EXCEPT ![d] = @ + 1]
            /\ UNCHANGED <<quarantined, audits, unknownAuditted>>
       ELSE /\ quarantined' = [quarantined EXCEPT ![d] = @ + 1]
            /\ Audit(SourceOf[d])
            /\ UNCHANGED written
  /\ todo' = todo - 1
  /\ UNCHANGED <<consumer, current, handled, readerVars, socket, queue, stop,
                 clock>>

DispatchEnd ==
  /\ consumer = "dispatch" /\ todo = 0
  /\ handled' = Append(handled, current[1])
  /\ current' = <<>>
  /\ consumer' = "receive"
  /\ UNCHANGED <<todo, unknownAuditted, written, quarantined, audits,
                 readerVars, socket, queue, stop, clock>>

-----------------------------------------------------------------------------
(***************************************************************************)
(* Stop closes the socket, then waits for the first of: both goroutines    *)
(* gone, drainTimeout, the end of the caller's context.  The last two are  *)
(* one event that may happen at any time.                                  *)
(***************************************************************************)
StopCloses ==
  /\ stop = "idle"
  /\ socket' = "closed"
  /\ stop' = "waiting"
  /\ UNCHANGED <<queue, clock, readerVars, consumerVars>>

StopDrained ==
  /\ stop = "waiting"
  /\ reader = "exited" /\ consumer = "exited"
  /\ stop' = "drained"
  /\ UNCHANGED <<socket, queue, clock, readerVars, consumerVars>>

StopGivesUp ==
  /\ stop = "waiting"
  /\ stop' = "left"
  /\ UNCHANGED <<socket, queue, clock, readerVars, consumerVars>>

Tick ==
  /\ clock < MaxTime
  /\ clock' = clock + 1
  /\ UNCHANGED <<socket, queue, stop, readerVars, consumerVars>>

readLoop == (\E d \in Datagrams : Read(d)) \/ ReadFails \/ CloseQueue

consumeLoop ==
  \/ \E n \in 0..MaxRecords : Receive(n)
  \/ ReceiveEnd
  \/ \E answer \in Answers : Dispatch(answer)
  \/ DispatchEnd

Stop == StopCloses \/ StopDrained \/ StopGivesUp

(***************************************************************************)
(* The listener is stopped for good, or the clock and the network of the   *)
(* model have nothing more to offer.                                       *)
(***************************************************************************)
Over ==
  /\ stop \in {"drained", "left"}
  /\ reader = "exited" /\ consumer = "exited" /\ clock = MaxTime

Next == readLoop \/ consumeLoop \/ Stop \/ Tick \/ (Over /\ UNCHANGED vars)

Spec == Init /\ [][Next]_vars

(***************************************************************************)
(* Both goroutines are scheduled, and a closed socket fails the read; the  *)
(* drain timer fires.  Nobody has to stop the listener.                    *)
(***************************************************************************)
Fairness ==
  /\ WF_vars((socket = "closed" /\ ReadFails) \/ CloseQueue)
  /\ WF_vars(consumeLoop)
  /\ WF_vars(StopDrained \/ StopGivesUp)

FairSpec == Spec /\ Fairness

-----------------------------------------------------------------------------
TypeOK ==
  /\ network \subseteq Datagrams
  /\ socket \in {"open", "closed"}
  /\ reader \in {"read", "closing", "exited"}
  /\ queue \in Seq(Datagrams) /\ Len(queue) <= IngestQueueMax
  /\ qclosed \in BOOLEAN
  /\ consumer \in {"receive", "dispatch", "exited"}
  /\ current \in Seq(Datagrams) /\ Len(current) <= 1
  /\ todo \in 0..MaxRecords
  /\ stop \in {"idle", "waiting", "drained", "left"}
  /\ clock \in 0..MaxTime
  /\ unknownAuditted \in [Exporters -> SUBSET (0..MaxTime)]
  /\ arrived \in Seq(Datagrams) /\ handled \in Seq(Datagrams)
  /\ lost \subseteq Datagrams
  /\ written \in [Datagrams -> Nat] /\ quarantined \in [Datagrams -> Nat]
  /\ audits \subseteq Exporters \X (0..MaxTime)

(***************************************************************************)
(* Datagrams are dispatched in the order they were read, each once, and    *)
(* none of them skipped but those the full queue refused: a template must  *)
(* reach the decoder before the data that follows it.                      *)
(***************************************************************************)
Line == handled \o current \o queue

ReadBefore(d, e) ==
  \E i, j \in 1..Len(arrived) : i < j /\ arrived[i] = d /\ arrived[j] = e

ArrivalOrder ==
  /\ Elems(Line) = Elems(arrived) \ lost
  /\ \A i, j \in 1..Len(Line) : i < j => ReadBefore(Line[i], Line[j])

(***************************************************************************)
(* When Stop reports that the listener is drained, every datagram that was *)
(* read has been dispatched or counted as dropped.                         *)
(***************************************************************************)
DrainedMeansHandled ==
  stop = "drained" => Elems(arrived) = Elems(handled) \cup lost

(***************************************************************************)
(* An exporter that is unknown costs one audit entry per interval, however *)
(* many records it sends.                                                  *)
(***************************************************************************)
AuditsAreSpaced ==
  \A a, b \in audits :
    (a[1] = b[1] /\ a[2] < b[2]) => b[2] - a[2] >= AuditInterval

(***************************************************************************)
(* The spacing never hides an exporter: one that had a record refused has  *)
(* an entry in the audit log.                                              *)
(***************************************************************************)
QuarantineIsAudited ==
  \A d \in Datagrams :
    quarantined[d] > 0 => \E t \in 0..clock : <<SourceOf[d], t>> \in audits

(***************************************************************************)
(* Once Stop has closed the socket both goroutines end, even after Stop    *)
(* gave up waiting for them.                                               *)
(***************************************************************************)
GoroutinesEnd ==
  (stop = "waiting") ~> (reader = "exited" /\ consumer = "exited")

(***************************************************************************)
(* Every datagram that joins the queue is dispatched, whether or not the   *)
(* listener is stopped meanwhile.                                          *)
(***************************************************************************)
QueuedIsHandled ==
  \A d \in Datagrams : (d \in Elems(queue)) ~> (d \in Elems(handled))
=============================================================================
