--------------------------------- MODULE Triage ---------------------------------
(***************************************************************************)
(* The global triage (internal/api/triage_handlers.go): one batch visits   *)
(* every device, a few at a time, and keeps one status record for the      *)
(* progress bar.  A request looks at the record under the lock, gives the  *)
(* lock back to read the inventory, and takes it again to write the record *)
(* and start its batch.                                                    *)
(***************************************************************************)
EXTENDS Naturals, FiniteSets

CONSTANTS
  Clients,      \* requests being served at one time
  Devices,      \* the inventory
  Groups,       \* what a request may select: sets of devices
  Concurrency,  \* triageConcurrency
  Silent,       \* devices that may take the connection and never speak
  MaxBatches    \* bound: batches ever started

TriageAssumption ==
  /\ IsFiniteSet(Devices) /\ Groups \subseteq SUBSET Devices
  /\ Concurrency \in Nat \ {0}
  /\ Silent \subseteq Devices
  /\ MaxBatches \in Nat

Batches == 1..MaxBatches

VARIABLES
  triageStatus,  \* [status, total, progress]
  asked,         \* asked[c]: what client c's request selected, when past the check
  pc,            \* pc[c]: "idle", "listing" or "starting"
  started,       \* batches started so far
  waiting,       \* waiting[b]: devices batch b has not begun with
  visiting,      \* visiting[b]: devices its goroutines are at
  live,          \* batches that have not ended
  serial         \* TRUE: a request begins only when no other is being served; it stays so

vars == <<triageStatus, asked, pc, started, waiting, visiting, live, serial>>

(* "" is the zero value; the status handler shows it as idle. *)
NotRunning == {"", "idle"}

Init ==
  /\ triageStatus = [status |-> "", total |-> 0, progress |-> 0]
  /\ asked = [c \in Clients |-> {}]
  /\ pc = [c \in Clients |-> "idle"]
  /\ started = 0
  /\ waiting = [b \in Batches |-> {}] /\ visiting = [b \in Batches |-> {}]
  /\ live = {}
  /\ serial \in BOOLEAN

-----------------------------------------------------------------------------
(* The first critical section: a running triage is a conflict. *)
Check(c) ==
  /\ pc[c] = "idle"
  /\ serial => \A d \in Clients : pc[d] = "idle"
  /\ triageStatus.status \in NotRunning
  /\ started < MaxBatches
  /\ pc' = [pc EXCEPT ![c] = "listing"]
  /\ UNCHANGED <<triageStatus, asked, started, waiting, visiting, live>>

(* The devices of the scope and the group; none of them is an error. *)
ListDevices(c) ==
  /\ pc[c] = "listing"
  /\ \E G \in Groups :
       \/ G # {} /\ pc' = [pc EXCEPT ![c] = "starting"] /\ asked' = [asked EXCEPT ![c] = G]
       \/ G = {} /\ pc' = [pc EXCEPT ![c] = "idle"] /\ UNCHANGED asked
  /\ UNCHANGED <<triageStatus, started, waiting, visiting, live>>

(* The second critical section, and the goroutine of the batch. *)
Start(c) ==
  /\ pc[c] = "starting" /\ started < MaxBatches
  /\ triageStatus' = [status |-> "running", total |-> Cardinality(asked[c]), progress |-> 0]
  /\ started' = started + 1
  /\ live' = live \cup {started'}
  /\ waiting' = [waiting EXCEPT ![started'] = asked[c]]
  /\ pc' = [pc EXCEPT ![c] = "idle"]
  /\ asked' = [asked EXCEPT ![c] = {}]
  /\ UNCHANGED visiting

-----------------------------------------------------------------------------
(* A goroutine of the batch takes the next device. *)
Visit(b) ==
  /\ Cardinality(visiting[b]) < Concurrency
  /\ \E d \in waiting[b] :
       /\ waiting' = [waiting EXCEPT ![b] = @ \ {d}]
       /\ visiting' = [visiting EXCEPT ![b] = @ \cup {d}]
  /\ UNCHANGED <<triageStatus, asked, pc, started, live>>

(* triageDevice returns, with a result or an error: the progress goes up. *)
Visited(b) ==
  /\ \E d \in visiting[b] : visiting' = [visiting EXCEPT ![b] = @ \ {d}]
  /\ triageStatus' = [triageStatus EXCEPT !.progress = @ + 1]
  /\ UNCHANGED <<asked, pc, started, waiting, live>>

(* All goroutines of the batch have ended: Wait returns, the bar is idle. *)
Finish(b) ==
  /\ b \in live /\ waiting[b] = {} /\ visiting[b] = {}
  /\ live' = live \ {b}
  /\ triageStatus' = [triageStatus EXCEPT !.status = "idle"]
  /\ UNCHANGED <<asked, pc, started, waiting, visiting>>

Next ==
  /\ UNCHANGED serial
  /\ \/ \E c \in Clients : Check(c) \/ ListDevices(c) \/ Start(c)
     \/ \E b \in Batches : Visit(b) \/ Visited(b) \/ Finish(b)

Spec == Init /\ [][Next]_vars

(***************************************************************************)
(* A request is served to its end, and a visit ends, at the latest by a    *)
(* timeout.  Not so with a silent device: the context and the timeout of   *)
(* the visit bound the dial alone, and the handshake on the connection     *)
(* (ssh.NewClientConn) has no deadline.                                    *)
(***************************************************************************)
Answered(b) == Visited(b) /\ visiting[b] \cap Silent = visiting'[b] \cap Silent

FairSpec ==
  /\ Spec
  /\ \A c \in Clients : WF_vars(ListDevices(c)) /\ WF_vars(Start(c))
  /\ \A b \in Batches : WF_vars(Visit(b)) /\ WF_vars(Answered(b)) /\ WF_vars(Finish(b))

-----------------------------------------------------------------------------
TypeOK ==
  /\ triageStatus \in [status : {"running"} \cup NotRunning, total : 0..Cardinality(Devices), progress : Nat]
  /\ asked \in [Clients -> SUBSET Devices]
  /\ pc \in [Clients -> {"idle", "listing", "starting"}]
  /\ started \in 0..MaxBatches
  /\ live \subseteq Batches
  /\ waiting \in [Batches -> SUBSET Devices] /\ visiting \in [Batches -> SUBSET Devices]
  /\ serial \in BOOLEAN

(***************************************************************************)
(* No two batches at a time: "Evita triage concorrenti globali"            *)
(* (handleRunTriage).                                                      *)
(***************************************************************************)
OneBatch == Cardinality(live) <= 1

(***************************************************************************)
(* The record tells how far the batch is: running while it has devices to  *)
(* do, done with exactly the others, idle with all of them at the end.     *)
(***************************************************************************)
RecordTellsTheBatch ==
  /\ \A b \in live :
       /\ triageStatus.status = "running"
       /\ triageStatus.progress =
            triageStatus.total - Cardinality(waiting[b] \cup visiting[b])
  /\ live = {} =>
       /\ triageStatus.status \in NotRunning
       /\ triageStatus.progress = triageStatus.total

(***************************************************************************)
(* Overlapping batches or not, the next triage is refused only for as long *)
(* as one is under way: the record is idle again once all have ended.      *)
(***************************************************************************)
IdleAgain == live = {} => triageStatus.status \in NotRunning

(* All that batch b can still do is to wait for silent devices. *)
HeldUp(b) ==
  /\ visiting[b] # {} /\ visiting[b] \subseteq Silent
  /\ waiting[b] = {} \/ Cardinality(visiting[b]) = Concurrency

(***************************************************************************)
(* Every batch ends, and the bar with it, unless silent devices hold it    *)
(* up; until there are as many of them as goroutines, every other device   *)
(* of the batch is visited all the same.                                   *)
(***************************************************************************)
TriageEnds ==
  /\ \A b \in Batches : b \in live ~> b \notin live \/ HeldUp(b)
  /\ triageStatus.status = "running" ~>
       triageStatus.status = "idle" \/ \E b \in live : HeldUp(b)
=============================================================================
