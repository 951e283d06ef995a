--------------------------- MODULE ServicesProofs ---------------------------
(***************************************************************************)
(* Proofs about the services.  First ObsWriter, for any finite set of      *)
(* writes and of Sync calls, any queue capacity and any batch size; then   *)
(* MCServices, from what ListenerManager and CommandRelay prove of         *)
(* themselves for all constants.                                           *)
(***************************************************************************)
EXTENDS MCServices, FiniteSetTheorems, TLAPS

-----------------------------------------------------------------------------
(***************************************************************************)
(* What Elems is of the sequences the actions build.                       *)
(***************************************************************************)
LEMMA ElemsEmpty == Elems(<<>>) = {}
BY DEF Elems

LEMMA ElemsSingle == ASSUME NEW e PROVE Elems(<<e>>) = {e}
BY DEF Elems

LEMMA ElemsAppend ==
  ASSUME NEW S, NEW q \in Seq(S), NEW e \in S
  PROVE  /\ Append(q, e) \in Seq(S)
         /\ Len(Append(q, e)) = Len(q) + 1
         /\ Elems(Append(q, e)) = Elems(q) \cup {e}
<1>1. /\ Append(q, e) \in Seq(S)
      /\ Len(Append(q, e)) = Len(q) + 1
  OBVIOUS
<1>2. \A i \in 1..Len(q) : Append(q, e)[i] = q[i]
  OBVIOUS
<1>3. Append(q, e)[Len(q) + 1] = e
  OBVIOUS
<1>4. Len(q) \in Nat
  OBVIOUS
<1>5. ASSUME NEW x \in Elems(Append(q, e)) PROVE x \in Elems(q) \cup {e}
  BY <1>1, <1>2, <1>3, <1>4 DEF Elems
<1>6. ASSUME NEW x \in Elems(q) \cup {e} PROVE x \in Elems(Append(q, e))
  BY <1>1, <1>2, <1>3, <1>4 DEF Elems
<1> QED BY <1>1, <1>5, <1>6

LEMMA ElemsHeadTail ==
  ASSUME NEW S, NEW q \in Seq(S), q # <<>>
  PROVE  /\ Head(q) \in S
         /\ Tail(q) \in Seq(S)
         /\ Len(Tail(q)) = Len(q) - 1
         /\ Len(q) \in Nat \ {0}
         /\ Elems(q) = {Head(q)} \cup Elems(Tail(q))
<1>1. /\ Head(q) \in S /\ Head(q) = q[1]
      /\ Tail(q) \in Seq(S)
      /\ Len(Tail(q)) = Len(q) - 1
      /\ Len(q) \in Nat \ {0}
  OBVIOUS
<1>2. \A i \in 1..Len(Tail(q)) : Tail(q)[i] = q[i + 1]
  OBVIOUS
<1>3. ASSUME NEW x \in Elems(q) PROVE x \in {Head(q)} \cup Elems(Tail(q))
  <2>1. PICK i \in 1..Len(q) : x = q[i]
    BY DEF Elems
  <2>2. CASE i = 1
    BY <2>1, <2>2, <1>1
  <2>3. CASE i # 1
    <3>1. i - 1 \in 1..Len(Tail(q)) /\ x = Tail(q)[i - 1]
      BY <2>1, <2>3, <1>1, <1>2
    <3> QED BY <3>1 DEF Elems
  <2> QED BY <2>2, <2>3
<1>4. ASSUME NEW x \in {Head(q)} \cup Elems(Tail(q)) PROVE x \in Elems(q)
  BY <1>1, <1>2 DEF Elems
<1> QED BY <1>1, <1>3, <1>4

LEMMA ElemsType ==
  ASSUME NEW S, NEW q \in Seq(S)
  PROVE  Elems(q) \subseteq S /\ Len(q) \in Nat
BY DEF Elems

(***************************************************************************)
(* A sequence has at least as many positions as elements.                  *)
(***************************************************************************)
LEMMA ElemsFinite ==
  ASSUME NEW S, NEW q \in Seq(S)
  PROVE  IsFiniteSet(Elems(q)) /\ Cardinality(Elems(q)) <= Len(q)
<1>1. Len(q) \in Nat
  OBVIOUS
<1>2. IsFiniteSet(1..Len(q)) /\ Cardinality(1..Len(q)) = Len(q)
  BY <1>1, FS_Interval
<1> DEFINE f == [i \in 1..Len(q) |-> q[i]]
<1>3. f \in Surjection(1..Len(q), Elems(q))
  BY DEF Surjection, Elems
<1> QED BY <1>2, <1>3, FS_Surjection
-----------------------------------------------------------------------------
(***************************************************************************)
(* The inductive invariant.                                                *)
(***************************************************************************)

(***************************************************************************)
(* A job is in one place, and there once.                                  *)
(***************************************************************************)
OnePlace ==
  /\ writer \in {"select", "returned"} => batch = <<>>
  /\ \A i, j \in 1..Len(queue) : queue[i] = queue[j] => i = j
  /\ \A i, j \in 1..Len(batch) : batch[i] = batch[j] => i = j
  /\ Elems(batch) \cap Elems(queue) = {}
  /\ Elems(queue) \cap (Resolved \cup refused \cup released) = {}
  /\ InFlight \cap (Resolved \cup refused \cup released) = {}
  /\ writer = "release" => Elems(batch) \cap Writes \subseteq Resolved
  /\ stored \cap failed = {}
  /\ Resolved \cap refused = {}

(***************************************************************************)
(* A Sync call has a barrier once it has sent one, and returns after its   *)
(* barrier was released.                                                   *)
(***************************************************************************)
SyncPlaces ==
  \A s \in Syncers :
    /\ sync[s] = "idle" =>
         s \notin Elems(queue) \cup Elems(batch) \cup released
    /\ sync[s] = "done" => s \in released

(***************************************************************************)
(* What was accepted before a job is ahead of it, all the way.             *)
(***************************************************************************)
Ordered ==
  /\ \A i \in 1..Len(queue) :
       before[queue[i]] \subseteq
         Resolved \cup InFlight \cup {queue[k] : k \in 1..(i - 1)}
  /\ \A j \in Elems(batch) : before[j] \subseteq Resolved \cup InFlight
  /\ \A j \in Resolved \cup released : before[j] \subseteq Resolved

(***************************************************************************)
(* The writer leaves only after it has seen Store.done and an empty queue. *)
(***************************************************************************)
Closing ==
  /\ closed => writer = "returned"
  /\ writer = "returned" => final /\ atClose \subseteq Resolved
  /\ final => done
  /\ ~done => atClose = {}
  /\ atClose \subseteq Accepted

Ind == TypeOK /\ OnePlace /\ SyncPlaces /\ Ordered /\ Closing

-----------------------------------------------------------------------------
LEMMA InitInd == Init => Ind
<1> SUFFICES ASSUME Init PROVE Ind
  OBVIOUS
<1> USE DEF Init
<1>1. Elems(queue) = {} /\ Elems(batch) = {} /\ Len(queue) = 0 /\ Len(batch) = 0
  BY ElemsEmpty
<1>2. TypeOK
  <2>1. queue \in Seq(Job) /\ batch \in Seq(Job)
    OBVIOUS
  <2>2. Len(queue) <= QueueMax /\ Len(batch) <= BatchSize
    BY <1>1, ConstantsAssumption
  <2>3. before \in [Job -> SUBSET Writes]
    OBVIOUS
  <2>4. metrics \in [ok : Nat, full : Nat, error : Nat]
    OBVIOUS
  <2> QED BY <2>1, <2>2, <2>3, <2>4 DEF TypeOK
<1>3. OnePlace
  BY <1>1 DEF OnePlace, Resolved, InFlight
<1>4. SyncPlaces
  BY <1>1 DEF SyncPlaces
<1>5. Ordered
  BY <1>1 DEF Ordered, Resolved
<1>6. Closing
  BY DEF Closing
<1> QED BY <1>2, <1>3, <1>4, <1>5, <1>6 DEF Ind

(***************************************************************************)
(* A job that is in no queue and not dealt with enters the queue.          *)
(***************************************************************************)
LEMMA SendKeeps ==
  ASSUME NEW j \in Job, Ind, Send(j), Len(queue) < QueueMax,
         j \notin Elems(queue) \cup Elems(batch) \cup Resolved \cup refused
                    \cup released,
         UNCHANGED <<batch, writer, final, done, closed, stored, failed,
                     refused, atClose, released, metrics>>
  PROVE  /\ queue' \in Seq(Job) /\ Len(queue') <= QueueMax
         /\ Elems(queue') = Elems(queue) \cup {j}
         /\ before' \in [Job -> SUBSET Writes]
         /\ OnePlace' /\ Ordered' /\ Closing'
<1>1. /\ queue \in Seq(Job) /\ batch \in Seq(Job)
      /\ before \in [Job -> SUBSET Writes]
      /\ Resolved \subseteq Writes
      /\ Len(queue) \in Nat /\ QueueMax \in Nat
  BY ConstantsAssumption DEF Ind, TypeOK, Resolved
<1>2. /\ queue' \in Seq(Job)
      /\ Len(queue') = Len(queue) + 1
      /\ Elems(queue') = Elems(queue) \cup {j}
  BY <1>1, ElemsAppend DEF Send
<1>3. /\ \A i \in 1..Len(queue) : queue'[i] = queue[i]
      /\ queue'[Len(queue) + 1] = j
  BY <1>1 DEF Send
<1>4. /\ Resolved' = Resolved /\ InFlight' = InFlight
      /\ Elems(batch)' = Elems(batch)
  BY DEF Resolved, InFlight, Elems
<1>5. Accepted \subseteq Writes
  BY <1>1 DEF Accepted
<1>6. before' \in [Job -> SUBSET Writes]
  BY <1>1, <1>5 DEF Send
<1>7. \A k \in Job : k # j => before'[k] = before[k]
  BY <1>1 DEF Send
<1>8. before'[j] \subseteq Resolved \cup InFlight \cup Elems(queue)
  BY <1>1 DEF Send, Accepted
<1>9. OnePlace'
  <2>1. \A i \in 1..Len(queue) : queue[i] # j
    BY DEF Elems
  <2>2. \A i, k \in 1..Len(queue') : queue'[i] = queue'[k] => i = k
    BY <1>1, <1>2, <1>3, <2>1 DEF Ind, OnePlace
  <2>3. InFlight \cap released = {} /\ j \notin InFlight
    BY DEF Ind, OnePlace, InFlight
  <2> QED BY <1>2, <1>4, <2>2, <2>3 DEF Ind, OnePlace
<1>10. Ordered'
  <2>1. ASSUME NEW i \in 1..Len(queue')
        PROVE  before'[queue'[i]] \subseteq
                 Resolved \cup InFlight \cup {queue'[k] : k \in 1..(i - 1)}
    <3>1. CASE i \in 1..Len(queue)
      <4>1. queue'[i] = queue[i] /\ queue[i] # j /\ queue[i] \in Job
        BY <3>1, <1>1, <1>3 DEF Elems
      <4>2. \A k \in 1..(i - 1) : queue'[k] = queue[k]
        BY <3>1, <1>1, <1>3
      <4> QED BY <4>1, <4>2, <3>1, <1>7 DEF Ind, Ordered
    <3>2. CASE i = Len(queue) + 1
      <4>1. queue'[i] = j
        BY <3>2, <1>3
      <4>2. Elems(queue) = {queue'[k] : k \in 1..(i - 1)}
        BY <3>2, <1>1, <1>3 DEF Elems
      <4> QED BY <4>1, <4>2, <1>8
    <3> QED BY <3>1, <3>2, <1>1, <1>2
  <2>2. ASSUME NEW k \in Elems(batch)
        PROVE  before'[k] \subseteq Resolved \cup InFlight
    <3>1. k \in Job /\ k # j
      BY <1>1, ElemsType
    <3> QED BY <3>1, <1>7 DEF Ind, Ordered
  <2>3. ASSUME NEW k \in Resolved \cup released
        PROVE  before'[k] \subseteq Resolved
    <3>1. k \in Job /\ k # j
      BY <1>1 DEF Ind, TypeOK, Job
    <3> QED BY <3>1, <1>7 DEF Ind, Ordered
  <2> QED BY <1>4, <2>1, <2>2, <2>3 DEF Ordered
<1>11. Closing'
  <2>1. Accepted \subseteq Accepted'
    BY <1>2, <1>4 DEF Accepted
  <2> QED BY <1>4, <2>1 DEF Ind, Closing
<1> QED BY <1>1, <1>2, <1>6, <1>9, <1>10, <1>11

LEMMA EnqueueInd ==
  ASSUME Ind, NEW w \in Writes, EnqueueWrite(w) PROVE Ind'
<1>1. CASE EnqueueAccepted(w)
  <2>1. w \in Job
    BY DEF Job
  <2>2. w \notin Elems(queue) \cup Resolved \cup refused
    BY <1>1 DEF EnqueueAccepted, Accepted
  <2>3. w \notin Elems(batch)
    BY <1>1, <2>2 DEF EnqueueAccepted, Accepted, InFlight, Ind, TypeOK, OnePlace, Elems
  <2>4. w \notin released
    BY ConstantsAssumption DEF Ind, TypeOK
  <2>5. /\ queue' \in Seq(Job) /\ Len(queue') <= QueueMax
        /\ Elems(queue') = Elems(queue) \cup {w}
        /\ before' \in [Job -> SUBSET Writes]
        /\ OnePlace' /\ Ordered' /\ Closing'
    BY <1>1, <2>1, <2>2, <2>3, <2>4, SendKeeps DEF EnqueueAccepted
  <2>6. TypeOK'
    BY <1>1, <2>5 DEF Ind, TypeOK, EnqueueAccepted
  <2>7. SyncPlaces'
    BY <1>1, <2>5, ConstantsAssumption
    DEF Ind, SyncPlaces, EnqueueAccepted, Elems
  <2> QED BY <2>5, <2>6, <2>7 DEF Ind
<1>2. CASE EnqueueDropped(w)
  <2>1. TypeOK'
    <3>1. refused' \in SUBSET Writes
      BY <1>2 DEF Ind, TypeOK, EnqueueDropped
    <3>2. metrics' \in [ok : Nat, full : Nat, error : Nat]
      <4>1. metrics \in [ok : Nat, full : Nat, error : Nat]
        BY DEF Ind, TypeOK
      <4>2. metrics' = [metrics EXCEPT !.full = metrics.full + 1]
        BY <1>2 DEF EnqueueDropped
      <4>3. metrics.full + 1 \in Nat
        BY <4>1
      <4> QED BY <4>1, <4>2, <4>3
    <3> QED BY <1>2, <3>1, <3>2 DEF Ind, TypeOK, EnqueueDropped
  <2>2. /\ Resolved' = Resolved /\ InFlight' = InFlight
        /\ Accepted' = Accepted
        /\ Elems(queue)' = Elems(queue) /\ Elems(batch)' = Elems(batch)
    BY <1>2 DEF EnqueueDropped, Resolved, InFlight, Accepted, Elems
  <2>3. OnePlace'
    <3>1. w \notin Elems(queue) \cup Resolved \cup InFlight
      BY <1>2 DEF EnqueueDropped, Accepted
    <3> QED BY <1>2, <2>2, <3>1 DEF Ind, OnePlace, EnqueueDropped
  <2>4. SyncPlaces'
    BY <1>2, <2>2 DEF Ind, SyncPlaces, EnqueueDropped
  <2>5. Ordered'
    BY <1>2, <2>2 DEF Ind, Ordered, EnqueueDropped
  <2>6. Closing'
    BY <1>2, <2>2 DEF Ind, Closing, EnqueueDropped
  <2> QED BY <2>1, <2>3, <2>4, <2>5, <2>6 DEF Ind
<1> QED BY <1>1, <1>2 DEF EnqueueWrite

(***************************************************************************)
(* A step that leaves the queues, the database and the writer alone keeps  *)
(* what is said of them.                                                   *)
(***************************************************************************)
LEMMA QueuesUntouched ==
  ASSUME Ind,
         UNCHANGED <<queue, batch, writer, stored, failed, refused, before,
                     released>>
  PROVE  /\ OnePlace' /\ Ordered'
         /\ Elems(queue)' = Elems(queue) /\ Elems(batch)' = Elems(batch)
         /\ Accepted' = Accepted /\ Resolved' = Resolved
<1>1. /\ Resolved' = Resolved /\ InFlight' = InFlight
      /\ Accepted' = Accepted
      /\ Elems(queue)' = Elems(queue) /\ Elems(batch)' = Elems(batch)
  BY DEF Resolved, InFlight, Accepted, Elems
<1>2. OnePlace'
  BY <1>1 DEF Ind, OnePlace
<1>3. Ordered'
  BY <1>1 DEF Ind, Ordered
<1> QED BY <1>1, <1>2, <1>3

LEMMA SyncInd ==
  ASSUME Ind, NEW s \in Syncers, Sync(s) PROVE Ind'
<1>1. CASE SyncSend(s)
  <2>1. s \in Job
    BY DEF Job
  <2>2. s \notin Elems(queue) \cup Elems(batch) \cup released
    BY <1>1 DEF SyncSend, Ind, SyncPlaces
  <2>3. s \notin Resolved \cup refused
    BY ConstantsAssumption DEF Ind, TypeOK, Resolved
  <2>4. /\ queue' \in Seq(Job) /\ Len(queue') <= QueueMax
        /\ Elems(queue') = Elems(queue) \cup {s}
        /\ before' \in [Job -> SUBSET Writes]
        /\ OnePlace' /\ Ordered' /\ Closing'
    BY <1>1, <2>1, <2>2, <2>3, SendKeeps DEF SyncSend
  <2>5. TypeOK'
    BY <1>1, <2>4 DEF Ind, TypeOK, SyncSend
  <2>6. SyncPlaces'
    <3>1. Elems(queue)' = Elems(queue') /\ Elems(batch)' = Elems(batch)
      BY <1>1 DEF SyncSend, Elems
    <3>2. sync' = [sync EXCEPT ![s] = "waiting"] /\ released' = released
      BY <1>1 DEF SyncSend
    <3>3. sync'[s] = "waiting" /\ \A t \in Syncers \ {s} : sync'[t] = sync[t]
      BY <3>2 DEF Ind, TypeOK
    <3> QED BY <2>4, <3>1, <3>2, <3>3 DEF Ind, SyncPlaces
  <2> QED BY <2>4, <2>5, <2>6 DEF Ind
<1>2. CASE SyncReleased(s) \/ SyncClosed(s)
  <2>1. UNCHANGED <<queue, batch, writer, final, done, closed, stored, failed,
                    refused, before, atClose, released, metrics>>
    BY <1>2 DEF SyncReleased, SyncClosed
  <2>2. /\ OnePlace' /\ Ordered'
        /\ Elems(queue)' = Elems(queue) /\ Elems(batch)' = Elems(batch)
        /\ Accepted' = Accepted /\ Resolved' = Resolved
    BY <2>1, QueuesUntouched
  <2>3. TypeOK'
    <3>1. sync' = [sync EXCEPT ![s] = "done"] \/ sync' = [sync EXCEPT ![s] = "closed"]
      BY <1>2 DEF SyncReleased, SyncClosed
    <3>2. sync' \in [Syncers -> {"idle", "waiting", "done", "closed"}]
      BY <3>1 DEF Ind, TypeOK
    <3> QED BY <2>1, <3>2 DEF Ind, TypeOK
  <2>4. SyncPlaces'
    BY <1>2, <2>1, <2>2
    DEF Ind, TypeOK, SyncPlaces, SyncReleased, SyncClosed
  <2>5. Closing'
    BY <2>1, <2>2 DEF Ind, Closing
  <2> QED BY <2>2, <2>3, <2>4, <2>5 DEF Ind
<1> QED BY <1>1, <1>2 DEF Sync

LEMMA CloseInd == ASSUME Ind, Close PROVE Ind'
<1>1. /\ OnePlace' /\ Ordered'
      /\ Elems(queue)' = Elems(queue) /\ Elems(batch)' = Elems(batch)
      /\ Accepted' = Accepted /\ Resolved' = Resolved
  BY QueuesUntouched DEF Close
<1>2. Accepted \subseteq Writes
  BY DEF Accepted, Resolved, Ind, TypeOK
<1>3. TypeOK'
  BY <1>2 DEF Ind, TypeOK, Close
<1>4. SyncPlaces'
  BY <1>1 DEF Ind, SyncPlaces, Close
<1>5. Closing'
  BY <1>1 DEF Ind, Closing, Close
<1> QED BY <1>1, <1>3, <1>4, <1>5 DEF Ind

-----------------------------------------------------------------------------
(***************************************************************************)
(* The writer's steps.                                                     *)
(***************************************************************************)

(***************************************************************************)
(* The head of the queue moves to the end of the batch.                    *)
(***************************************************************************)
LEMMA MoveKeeps ==
  ASSUME Ind, queue # <<>>,
         writer \in {"select", "drain"}, writer' = "drain",
         Len(batch) < BatchSize,
         batch' = Append(batch, Head(queue)), queue' = Tail(queue),
         UNCHANGED <<final, done, closed, stored, failed, refused, before,
                     atClose, released, sync, metrics>>
  PROVE  Ind'
<1> DEFINE h == Head(queue)
<1>1. /\ queue \in Seq(Job) /\ batch \in Seq(Job)
      /\ QueueMax \in Nat /\ BatchSize \in Nat
      /\ Len(queue) <= QueueMax
  BY ConstantsAssumption DEF Ind, TypeOK
<1>2. /\ h \in Job /\ queue' \in Seq(Job)
      /\ Len(queue') = Len(queue) - 1 /\ Len(queue) \in Nat \ {0}
      /\ Elems(queue) = {h} \cup Elems(queue')
  BY <1>1, ElemsHeadTail
<1>3. /\ batch' \in Seq(Job) /\ Len(batch') = Len(batch) + 1
      /\ Elems(batch') = Elems(batch) \cup {h} /\ Len(batch) \in Nat
  BY <1>1, <1>2, ElemsAppend
<1>4. /\ \A i \in 1..Len(queue') : queue'[i] = queue[i + 1]
      /\ h = queue[1]
  BY <1>1, <1>2
<1>5. /\ \A i \in 1..Len(batch) : batch'[i] = batch[i]
      /\ batch'[Len(batch) + 1] = h
  BY <1>1, <1>2
<1>6. h \notin Elems(queue') /\ h \notin Elems(batch)
  <2>1. \A i \in 1..Len(queue') : i + 1 \in 1..Len(queue) /\ i + 1 # 1
    BY <1>2
  <2>2. 1 \in 1..Len(queue)
    BY <1>2
  <2>3. h \notin Elems(queue')
    BY <1>4, <2>1, <2>2 DEF Elems, Ind, OnePlace
  <2> QED BY <2>3, <1>2 DEF Ind, OnePlace
<1>7. /\ Resolved' = Resolved
      /\ InFlight' = InFlight \cup {h}
      /\ Accepted' = Accepted
  <2>1. InFlight = Elems(batch)
    BY ElemsEmpty DEF InFlight, Ind, OnePlace
  <2>2. InFlight' = Elems(batch')
    BY DEF InFlight, Elems
  <2>3. Elems(queue)' = Elems(queue')
    BY DEF Elems
  <2>4. Resolved' = Resolved
    BY DEF Resolved
  <2> QED BY <1>2, <1>3, <2>1, <2>2, <2>3, <2>4 DEF Accepted
<1>8. TypeOK'
  BY <1>1, <1>2, <1>3 DEF Ind, TypeOK
<1>9. OnePlace'
  <2>1. \A i, k \in 1..Len(queue') : queue'[i] = queue'[k] => i = k
    <3>1. \A i \in 1..Len(queue') : i + 1 \in 1..Len(queue)
      BY <1>2
    <3>2. \A i, k \in 1..Len(queue') : queue[i + 1] = queue[k + 1] => i + 1 = k + 1
      BY <3>1 DEF Ind, OnePlace
    <3> QED BY <1>4, <3>2
  <2>2. \A i, k \in 1..Len(batch') : batch'[i] = batch'[k] => i = k
    <3>1. \A i \in 1..Len(batch) : batch[i] # h
      BY <1>6 DEF Elems
    <3> QED BY <1>3, <1>5, <3>1 DEF Ind, OnePlace
  <2>3. Elems(batch') \cap Elems(queue') = {}
    BY <1>2, <1>3, <1>6 DEF Ind, OnePlace
  <2>4. /\ Elems(queue') \cap (Resolved \cup refused \cup released) = {}
        /\ InFlight' \cap (Resolved \cup refused \cup released) = {}
    BY <1>2, <1>7 DEF Ind, OnePlace
  <2>5. Elems(queue)' = Elems(queue') /\ Elems(batch)' = Elems(batch')
    BY DEF Elems
  <2> QED BY <1>7, <2>1, <2>2, <2>3, <2>4, <2>5 DEF Ind, OnePlace
<1>10. SyncPlaces'
  <2>1. Elems(queue)' = Elems(queue') /\ Elems(batch)' = Elems(batch')
    BY DEF Elems
  <2> QED BY <1>2, <1>3, <2>1 DEF Ind, SyncPlaces
<1>11. Ordered'
  <2>1. ASSUME NEW i \in 1..Len(queue')
        PROVE  before[queue'[i]] \subseteq
                 Resolved \cup InFlight' \cup {queue'[k] : k \in 1..(i - 1)}
    <3>1. /\ i + 1 \in 1..Len(queue) /\ queue'[i] = queue[i + 1]
          /\ (i + 1) - 1 = i
      BY <1>2, <1>4
    <3>2. before[queue[i + 1]] \subseteq
            Resolved \cup InFlight \cup {queue[k] : k \in 1..i}
      BY <3>1 DEF Ind, Ordered
    <3>3. {queue[k] : k \in 1..i} \subseteq
            {h} \cup {queue'[k] : k \in 1..(i - 1)}
      <4>1. ASSUME NEW k \in 1..i, k # 1
            PROVE  queue[k] \in {queue'[m] : m \in 1..(i - 1)}
        <5>1. /\ k - 1 \in 1..(i - 1) /\ k - 1 \in 1..Len(queue')
              /\ (k - 1) + 1 = k
          BY <4>1, <1>2
        <5>2. queue'[k - 1] = queue[k]
          BY <5>1, <1>4
        <5> QED BY <5>1, <5>2
      <4>2. \A k \in 1..i : k = 1 => queue[k] = h
        BY <1>4
      <4> QED BY <4>1, <4>2
    <3> QED BY <3>1, <3>2, <3>3, <1>7
  <2>2. ASSUME NEW k \in Elems(batch') PROVE before[k] \subseteq Resolved \cup InFlight'
    <3>1. CASE k \in Elems(batch)
      BY <3>1, <1>7 DEF Ind, Ordered
    <3>2. CASE k = h
      <4>1. before[queue[1]] \subseteq
              Resolved \cup InFlight \cup {queue[m] : m \in 1..(1 - 1)}
        BY <1>2 DEF Ind, Ordered
      <4> QED BY <3>2, <4>1, <1>4, <1>7
    <3> QED BY <3>1, <3>2, <1>3
  <2>3. Elems(batch)' = Elems(batch')
    BY DEF Elems
  <2> QED BY <1>7, <2>1, <2>2, <2>3 DEF Ind, Ordered
<1>12. Closing'
  BY <1>7 DEF Ind, Closing
<1> QED BY <1>8, <1>9, <1>10, <1>11, <1>12 DEF Ind

LEMMA TakeInd == ASSUME Ind, TakeFirst \/ DrainMore PROVE Ind'
<1>1. CASE TakeFirst
  <2>1. batch = <<>> /\ Len(batch) = 0
    BY <1>1 DEF TakeFirst, Ind, OnePlace
  <2>2. batch' = Append(batch, Head(queue))
    BY <1>1, <2>1 DEF TakeFirst
  <2>3. Len(batch) < BatchSize
    BY <2>1, ConstantsAssumption
  <2> QED BY <1>1, <2>2, <2>3, MoveKeeps DEF TakeFirst
<1>2. CASE DrainMore
  BY <1>2, MoveKeeps DEF DrainMore
<1> QED BY <1>1, <1>2

(***************************************************************************)
(* The writer only moves on.                                               *)
(***************************************************************************)
LEMMA MoveOnInd ==
  ASSUME Ind, SeeDone \/ SeeEmpty \/ CloseClosed \/ DrainEnd
  PROVE  Ind'
<1>1. UNCHANGED <<queue, batch, stored, failed, refused, before, released,
                  atClose, done, sync, metrics>>
  BY DEF SeeDone, SeeEmpty, CloseClosed, DrainEnd
<1>2. InFlight' = InFlight
  <2>1. Elems(batch)' = Elems(batch)
    BY <1>1 DEF Elems
  <2>2. writer' \in {"drain", "flush"} <=> writer \in {"drain", "flush"}
    BY DEF SeeDone, SeeEmpty, CloseClosed, DrainEnd
  <2> QED BY <2>1, <2>2 DEF InFlight
<1>3. /\ Resolved' = Resolved /\ Accepted' = Accepted
      /\ Elems(queue)' = Elems(queue) /\ Elems(batch)' = Elems(batch)
  BY <1>1, <1>2 DEF Resolved, Accepted, Elems
<1>4. TypeOK'
  BY <1>1 DEF Ind, TypeOK, SeeDone, SeeEmpty, CloseClosed, DrainEnd
<1>5. OnePlace'
  BY <1>1, <1>2, <1>3
  DEF Ind, OnePlace, SeeDone, SeeEmpty, CloseClosed, DrainEnd
<1>6. SyncPlaces'
  BY <1>1, <1>3 DEF Ind, SyncPlaces
<1>7. Ordered'
  BY <1>1, <1>2, <1>3 DEF Ind, Ordered
<1>8. Closing'
  <2>1. CASE SeeEmpty
    <3>1. Accepted = Resolved
      BY <2>1, ElemsEmpty DEF SeeEmpty, Accepted, InFlight
    <3> QED BY <2>1, <1>1, <1>3, <3>1 DEF Ind, Closing, SeeEmpty
  <2>2. CASE SeeDone \/ CloseClosed \/ DrainEnd
    BY <2>2, <1>1, <1>3 DEF Ind, Closing, SeeDone, CloseClosed, DrainEnd
  <2> QED BY <2>1, <2>2
<1> QED BY <1>4, <1>5, <1>6, <1>7, <1>8 DEF Ind

LEMMA CounterType ==
  ASSUME Ind, NEW n \in Nat, NEW m \in Nat
  PROVE  [metrics EXCEPT !.error = @ + n, !.ok = @ + m]
           \in [ok : Nat, full : Nat, error : Nat]
<1>1. metrics \in [ok : Nat, full : Nat, error : Nat]
  BY DEF Ind, TypeOK
<1>2. metrics.error + n \in Nat /\ metrics.ok + m \in Nat
  BY <1>1
<1> QED BY <1>1, <1>2

LEMMA BatchFinite ==
  ASSUME Ind
  PROVE  /\ IsFiniteSet(BatchWrites)
         /\ Cardinality(BatchWrites) \in Nat
         /\ Len(batch) \in Nat
         /\ Cardinality(BatchWrites) <= Len(batch)
<1>1. batch \in Seq(Job)
  BY DEF Ind, TypeOK
<1>2. /\ IsFiniteSet(Elems(batch))
      /\ Cardinality(Elems(batch)) <= Len(batch)
      /\ Len(batch) \in Nat
  BY <1>1, ElemsFinite
<1>3. BatchWrites \subseteq Elems(batch)
  BY DEF BatchWrites
<1>4. /\ IsFiniteSet(BatchWrites)
      /\ Cardinality(BatchWrites) <= Cardinality(Elems(batch))
  BY <1>2, <1>3, FS_Subset
<1>5. Cardinality(BatchWrites) \in Nat /\ Cardinality(Elems(batch)) \in Nat
  BY <1>2, <1>4, FS_CardinalityType
<1> QED BY <1>2, <1>4, <1>5

(***************************************************************************)
(* Whatever the outcome of flush, the writes of the batch are dealt with:  *)
(* those in good are stored, the others are given up.                      *)
(***************************************************************************)
LEMMA FlushOutcome ==
  ASSUME Ind, Flush
  PROVE  /\ writer = "flush" /\ writer' = "release"
         /\ \E good \in SUBSET BatchWrites :
              /\ stored' = stored \cup good
              /\ failed' = failed \cup (BatchWrites \ good)
         /\ metrics' \in [ok : Nat, full : Nat, error : Nat]
         /\ UNCHANGED <<queue, batch, final, done, closed, refused, before,
                        atClose, released, sync>>
<1>1. CASE BeginFails
  <2>1. stored' = stored \cup {} /\ failed' = failed \cup (BatchWrites \ {})
    BY <1>1 DEF BeginFails
  <2>2. metrics' \in [ok : Nat, full : Nat, error : Nat]
    <3>1. metrics' = [metrics EXCEPT !.error = metrics.error + Len(batch)]
      BY <1>1 DEF BeginFails
    <3>2. /\ metrics \in [ok : Nat, full : Nat, error : Nat]
          /\ Len(batch) \in Nat
      BY BatchFinite DEF Ind, TypeOK
    <3>3. metrics.error + Len(batch) \in Nat
      BY <3>2
    <3> QED BY <3>1, <3>2, <3>3
  <2> QED BY <1>1, <2>1, <2>2 DEF BeginFails
<1>2. CASE \E bad \in SUBSET BatchWrites : Commits(bad) \/ CommitFails(bad)
  <2>1. PICK bad \in SUBSET BatchWrites : Commits(bad) \/ CommitFails(bad)
    BY <1>2
  <2>2. /\ Cardinality(bad) \in Nat
        /\ Cardinality(BatchWrites \ bad) \in Nat
    <3>1. IsFiniteSet(bad) /\ IsFiniteSet(BatchWrites \ bad)
      BY BatchFinite, FS_Subset, BatchWrites \ bad \subseteq BatchWrites
    <3> QED BY <3>1, FS_CardinalityType
  <2>3. CASE Commits(bad)
    <3>1. bad = BatchWrites \ (BatchWrites \ bad)
      OBVIOUS
    <3>2. metrics' \in [ok : Nat, full : Nat, error : Nat]
      BY <2>2, <2>3, CounterType DEF Commits
    <3>3. /\ stored' = stored \cup (BatchWrites \ bad)
          /\ failed' = failed \cup (BatchWrites \ (BatchWrites \ bad))
      BY <2>3, <3>1 DEF Commits
    <3> QED BY <2>3, <3>2, <3>3 DEF Commits
  <2>4. CASE CommitFails(bad)
    <3>1. stored' = stored \cup {} /\ failed' = failed \cup (BatchWrites \ {})
      BY <2>4 DEF CommitFails
    <3>2. metrics' \in [ok : Nat, full : Nat, error : Nat]
      <4>1. metrics' = [metrics EXCEPT !.error =
                          metrics.error + Cardinality(bad)
                            + Cardinality(BatchWrites \ bad)]
        BY <2>4 DEF CommitFails
      <4>2. metrics \in [ok : Nat, full : Nat, error : Nat]
        BY DEF Ind, TypeOK
      <4>3. metrics.error + Cardinality(bad) + Cardinality(BatchWrites \ bad) \in Nat
        BY <4>2, <2>2
      <4> QED BY <4>1, <4>2, <4>3
    <3> QED BY <2>4, <3>1, <3>2 DEF CommitFails
  <2> QED BY <2>1, <2>3, <2>4
<1> QED BY <1>1, <1>2 DEF Flush

LEMMA FlushInd == ASSUME Ind, Flush PROVE Ind'
<1>1. /\ writer = "flush" /\ writer' = "release"
      /\ metrics' \in [ok : Nat, full : Nat, error : Nat]
      /\ UNCHANGED <<queue, batch, final, done, closed, refused, before,
                     atClose, released, sync>>
  BY FlushOutcome
<1>2. PICK good \in SUBSET BatchWrites :
        /\ stored' = stored \cup good
        /\ failed' = failed \cup (BatchWrites \ good)
  BY FlushOutcome
<1>3. /\ InFlight = Elems(batch) /\ InFlight' = {}
      /\ Resolved' = Resolved \cup BatchWrites
      /\ Elems(queue)' = Elems(queue) /\ Elems(batch)' = Elems(batch)
  BY <1>1, <1>2 DEF InFlight, Resolved, Elems
<1>4. Accepted' = Accepted
  BY <1>3 DEF Accepted, BatchWrites
<1>5. TypeOK'
  <2>1. BatchWrites \subseteq Writes
    BY DEF BatchWrites
  <2>2. stored' \in SUBSET Writes /\ failed' \in SUBSET Writes
    BY <1>2, <2>1 DEF Ind, TypeOK
  <2> QED BY <1>1, <2>2 DEF Ind, TypeOK
<1>6. OnePlace'
  <2>1. BatchWrites \cap (Resolved \cup refused \cup released) = {}
    BY <1>3 DEF Ind, OnePlace, BatchWrites
  <2>2. stored' \cap failed' = {}
    BY <1>2, <2>1 DEF Ind, OnePlace, Resolved
  <2>3. BatchWrites \cap Elems(queue) = {}
    BY DEF Ind, OnePlace, BatchWrites
  <2> QED BY <1>1, <1>3, <2>1, <2>2, <2>3 DEF Ind, OnePlace, BatchWrites
<1>7. SyncPlaces'
  BY <1>1, <1>3 DEF Ind, SyncPlaces
<1>8. Ordered'
  <2>1. \A j \in Job : before[j] \subseteq Writes
    BY DEF Ind, TypeOK
  <2>2. \A i \in 1..Len(queue) : queue[i] \in Job
    BY DEF Ind, TypeOK
  <2>3. \A j \in Elems(batch) : j \in Job
    BY ElemsType DEF Ind, TypeOK
  <2>4. ASSUME NEW j \in Elems(batch) PROVE before[j] \subseteq Resolved'
    BY <1>3, <2>1, <2>3 DEF Ind, Ordered, BatchWrites
  <2>5. ASSUME NEW i \in 1..Len(queue)
        PROVE  before[queue[i]] \subseteq
                 Resolved' \cup {queue[k] : k \in 1..(i - 1)}
    BY <1>3, <2>1, <2>2 DEF Ind, Ordered, BatchWrites
  <2>6. ASSUME NEW j \in Resolved' \cup released
        PROVE  before[j] \subseteq Resolved'
    BY <1>3, <2>4 DEF Ind, Ordered, BatchWrites
  <2> QED BY <1>1, <1>3, <2>4, <2>5, <2>6 DEF Ordered
<1>9. Closing'
  BY <1>1, <1>3, <1>4 DEF Ind, Closing
<1> QED BY <1>5, <1>6, <1>7, <1>8, <1>9 DEF Ind

LEMMA ReleaseInd == ASSUME Ind, ReleaseBarriers PROVE Ind'
<1>1. /\ writer = "release" /\ writer' = "select" /\ batch' = <<>>
      /\ released' = released \cup (Elems(batch) \cap Syncers)
      /\ UNCHANGED <<queue, final, done, closed, stored, failed, refused,
                     before, atClose, sync, metrics>>
  BY DEF ReleaseBarriers
<1>2. /\ InFlight = {} /\ InFlight' = {} /\ Resolved' = Resolved
      /\ Elems(queue)' = Elems(queue)
      /\ Elems(batch)' = {} /\ Len(batch') = 0
  BY <1>1, ElemsEmpty DEF InFlight, Resolved, Elems
<1>3. Accepted' = Accepted
  BY <1>2 DEF Accepted
<1>4. TypeOK'
  <2>1. batch' \in Seq(Job) /\ Len(batch') <= BatchSize
    BY <1>1, <1>2, ConstantsAssumption
  <2> QED BY <1>1, <2>1 DEF Ind, TypeOK
<1>5. OnePlace'
  <2>1. Elems(queue) \cap released' = {}
    BY <1>1 DEF Ind, OnePlace
  <2> QED BY <1>1, <1>2, <2>1 DEF Ind, OnePlace
<1>6. SyncPlaces'
  BY <1>1, <1>2 DEF Ind, SyncPlaces
<1>7. Ordered'
  BY <1>1, <1>2 DEF Ind, Ordered
<1>8. Closing'
  BY <1>1, <1>2, <1>3 DEF Ind, Closing
<1> QED BY <1>4, <1>5, <1>6, <1>7, <1>8 DEF Ind

LEMMA NextInd == ASSUME Ind, [Next]_vars PROVE Ind'
<1>1. CASE \E w \in Writes : EnqueueWrite(w)
  BY <1>1, EnqueueInd
<1>2. CASE \E s \in Syncers : Sync(s)
  BY <1>2, SyncInd
<1>3. CASE Close
  BY <1>3, CloseInd
<1>4. CASE writerLoop
  BY <1>4, TakeInd, MoveOnInd, FlushInd, ReleaseInd DEF writerLoop
<1>5. CASE UNCHANGED vars
  <2>1. UNCHANGED <<queue, batch, writer, final, done, closed, stored, failed,
                    refused, before, atClose, released, sync, metrics>>
    BY <1>5 DEF vars
  <2>2. /\ OnePlace' /\ Ordered'
        /\ Elems(queue)' = Elems(queue) /\ Elems(batch)' = Elems(batch)
        /\ Accepted' = Accepted /\ Resolved' = Resolved
    BY <2>1, QueuesUntouched
  <2>3. TypeOK'
    BY <2>1 DEF Ind, TypeOK
  <2>4. SyncPlaces' /\ Closing'
    BY <2>1, <2>2 DEF Ind, SyncPlaces, Closing
  <2> QED BY <2>2, <2>3, <2>4 DEF Ind
<1> QED BY <1>1, <1>2, <1>3, <1>4, <1>5 DEF Next

LEMMA SpecInd == Spec => []Ind
BY InitInd, NextInd, PTL DEF Spec

-----------------------------------------------------------------------------
(***************************************************************************)
(* The variables of the writer keep their types; in particular the queue   *)
(* never outgrows QueueMax nor a batch BatchSize (writer.go:7).            *)
(***************************************************************************)
THEOREM TypeCorrect == Spec => []TypeOK
<1>1. Ind => TypeOK
  BY DEF Ind
<1> QED BY <1>1, SpecInd, PTL

(***************************************************************************)
(* Accepted writes are resolved in the order they were accepted: flow      *)
(* upserts of one bucket are applied in the order of their enqueueing.     *)
(***************************************************************************)
THEOREM WritesInOrder == Spec => []InOrder
<1>1. Ind => InOrder
  BY DEF Ind, Ordered, InOrder
<1> QED BY <1>1, SpecInd, PTL

(***************************************************************************)
(* A Sync that returns through its barrier has waited for every write      *)
(* accepted before it (writer.go:21), and so has a Close that returns      *)
(* (store.go:67).                                                          *)
(***************************************************************************)
THEOREM CallsCover == Spec => []CallsCoverEarlierWrites
<1>1. Ind => SyncCovers
  BY DEF Ind, SyncPlaces, Ordered, SyncCovers
<1>2. Ind => CloseCovers
  BY DEF Ind, Closing, CloseCovers
<1>3. Ind => CallsCoverEarlierWrites
  BY <1>1, <1>2 DEF CallsCoverEarlierWrites
<1> QED BY <1>3, SpecInd, PTL

-----------------------------------------------------------------------------
(***************************************************************************)
(* The queue, the batches and the transactions implement the plain line of *)
(* WriteLog.                                                               *)
(***************************************************************************)
LEMMA ConcatFacts ==
  ASSUME NEW S, NEW a \in Seq(S), NEW b \in Seq(S)
  PROVE  /\ a \o b \in Seq(S)
         /\ Len(a \o b) = Len(a) + Len(b)
         /\ Len(a) \in Nat /\ Len(b) \in Nat
         /\ \A i \in 1..Len(a) : (a \o b)[i] = a[i]
         /\ \A i \in 1..Len(b) : (a \o b)[Len(a) + i] = b[i]
         /\ Elems(a \o b) = Elems(a) \cup Elems(b)
<1>1. /\ a \o b \in Seq(S)
      /\ Len(a \o b) = Len(a) + Len(b)
      /\ Len(a) \in Nat /\ Len(b) \in Nat
      /\ \A i \in 1..Len(a) : (a \o b)[i] = a[i]
      /\ \A i \in 1..Len(b) : (a \o b)[Len(a) + i] = b[i]
  OBVIOUS
<1>2. ASSUME NEW x \in Elems(a \o b) PROVE x \in Elems(a) \cup Elems(b)
  <2>1. PICK i \in 1..(Len(a) + Len(b)) : x = (a \o b)[i]
    BY <1>1 DEF Elems
  <2>2. CASE i \in 1..Len(a)
    BY <2>1, <2>2, <1>1 DEF Elems
  <2>3. CASE i \notin 1..Len(a)
    <3>1. i - Len(a) \in 1..Len(b) /\ Len(a) + (i - Len(a)) = i
      BY <2>3, <1>1
    <3>2. x = b[i - Len(a)]
      BY <2>1, <3>1, <1>1
    <3> QED BY <3>1, <3>2 DEF Elems
  <2> QED BY <2>2, <2>3
<1>3. ASSUME NEW x \in Elems(a) \cup Elems(b) PROVE x \in Elems(a \o b)
  <2>1. CASE x \in Elems(a)
    <3>1. PICK i \in 1..Len(a) : x = a[i]
      BY <2>1 DEF Elems
    <3>2. i \in 1..Len(a \o b) /\ x = (a \o b)[i]
      BY <3>1, <1>1
    <3> QED BY <3>2 DEF Elems
  <2>2. CASE x \in Elems(b)
    <3>1. PICK i \in 1..Len(b) : x = b[i]
      BY <2>2 DEF Elems
    <3>2. Len(a) + i \in 1..Len(a \o b) /\ x = (a \o b)[Len(a) + i]
      BY <3>1, <1>1
    <3> QED BY <3>2 DEF Elems
  <2> QED BY <2>1, <2>2
<1> QED BY <1>1, <1>2, <1>3

LEMMA ConcatAppend ==
  ASSUME NEW S, NEW a \in Seq(S), NEW b \in Seq(S), NEW e \in S
  PROVE  a \o Append(b, e) = Append(a \o b, e)
OBVIOUS

LEMMA ConcatMove ==
  ASSUME NEW S, NEW a \in Seq(S), NEW b \in Seq(S), b # <<>>
  PROVE  Append(a, Head(b)) \o Tail(b) = a \o b
OBVIOUS

LEMMA ConcatDrop ==
  ASSUME NEW S, NEW a \in Seq(S), NEW b \in Seq(S)
  PROVE  SubSeq(a \o b, Len(a) + 1, Len(a \o b)) = b
OBVIOUS

(***************************************************************************)
(* A job that is pending is in the queue or in the batch being worked on.  *)
(***************************************************************************)
LEMMA PendingElems ==
  ASSUME Ind
  PROVE  /\ Pending \in Seq(Job)
         /\ Elems(Pending) = Elems(queue) \cup InFlight
         /\ Log!InLine = Elems(Pending)
<1>1. queue \in Seq(Job) /\ batch \in Seq(Job)
  BY DEF Ind, TypeOK
<1>2. Log!InLine = Elems(Pending)
  BY DEF Log!InLine, Elems
<1> QED BY <1>1, <1>2, ConcatFacts DEF Pending, InFlight

(***************************************************************************)
(* A job is in one place, and what is resolved is nowhere else.            *)
(***************************************************************************)
THEOREM EveryJobOnce == Spec => []ExactlyOnce
<1>1. ASSUME Ind PROVE ExactlyOnce
  <2>1. Elems(Pending) \cap (Resolved \cup refused \cup released) = {}
    BY <1>1, PendingElems DEF Ind, OnePlace
  <2>2. \A i, j \in 1..Len(Pending) : Pending[i] = Pending[j] => i = j
    <3>1. CASE writer \in {"drain", "flush"}
      <4>1. /\ queue \in Seq(Job) /\ batch \in Seq(Job)
            /\ Pending = batch \o queue
        BY <1>1, <3>1 DEF Ind, TypeOK, Pending
      <4>2. /\ Len(Pending) = Len(batch) + Len(queue)
            /\ Len(batch) \in Nat /\ Len(queue) \in Nat
            /\ \A i \in 1..Len(batch) : Pending[i] = batch[i]
            /\ \A i \in 1..Len(queue) : Pending[Len(batch) + i] = queue[i]
        BY <4>1, ConcatFacts
      <4>3. SUFFICES ASSUME NEW i \in 1..Len(Pending), NEW j \in 1..Len(Pending),
                            Pending[i] = Pending[j], i <= j
                     PROVE  i = j
        <5>1. \A i, j \in 1..Len(Pending) : i <= j \/ j <= i
          BY <4>2
        <5> QED BY <5>1
      <4>4. CASE j \in 1..Len(batch)
        <5>1. i \in 1..Len(batch)
          BY <4>2, <4>3, <4>4
        <5> QED BY <1>1, <4>2, <4>3, <4>4, <5>1 DEF Ind, OnePlace
      <4>5. CASE i \notin 1..Len(batch)
        <5>1. /\ i - Len(batch) \in 1..Len(queue)
              /\ j - Len(batch) \in 1..Len(queue)
              /\ Len(batch) + (i - Len(batch)) = i
              /\ Len(batch) + (j - Len(batch)) = j
          BY <4>2, <4>3, <4>5
        <5>2. queue[i - Len(batch)] = queue[j - Len(batch)]
          BY <4>2, <4>3, <5>1
        <5>3. i - Len(batch) = j - Len(batch)
          BY <1>1, <5>1, <5>2 DEF Ind, OnePlace
        <5> QED BY <5>1, <5>3
      <4>6. CASE i \in 1..Len(batch) /\ j \notin 1..Len(batch)
        <5>1. /\ j - Len(batch) \in 1..Len(queue)
              /\ Len(batch) + (j - Len(batch)) = j
          BY <4>2, <4>6
        <5>2. Pending[i] \in Elems(batch) /\ Pending[j] \in Elems(queue)
          BY <4>2, <4>6, <5>1 DEF Elems
        <5> QED BY <1>1, <4>3, <5>2 DEF Ind, OnePlace
      <4> QED BY <4>4, <4>5, <4>6
    <3>2. CASE writer \notin {"drain", "flush"}
      <4>1. Pending = queue
        BY <3>2 DEF Pending
      <4> QED BY <1>1, <4>1 DEF Ind, OnePlace
    <3> QED BY <3>1, <3>2
  <2> QED BY <1>1, <2>1, <2>2 DEF Ind, OnePlace, ExactlyOnce
<1>2. Ind => ExactlyOnce
  BY <1>1
<1> QED BY <1>2, SpecInd, PTL

LEMMA SendIsAccept ==
  ASSUME Ind, NEW j \in Job, Send(j),
         j \notin Elems(queue) \cup InFlight \cup Resolved \cup refused,
         UNCHANGED <<batch, writer, stored, failed, refused>>
  PROVE  Log!Next
<1>1. queue \in Seq(Job) /\ batch \in Seq(Job)
  BY DEF Ind, TypeOK
<1>2. Pending' = Append(Pending, j)
  <2>1. CASE writer \in {"drain", "flush"}
    <3>1. Pending = batch \o queue /\ Pending' = batch \o Append(queue, j)
      BY <2>1 DEF Pending, Send
    <3> QED BY <1>1, <3>1, ConcatAppend
  <2>2. CASE writer \notin {"drain", "flush"}
    BY <2>2 DEF Pending, Send
  <2> QED BY <2>1, <2>2
<1>3. j \notin Log!InLine
  BY PendingElems
<1>4. Log!Accept(j)
  BY <1>2, <1>3 DEF Log!Accept, Resolved
<1> QED BY <1>4 DEF Log!Next, Job

LEMMA FlushIsResolve == ASSUME Ind, Flush PROVE Log!Next
<1>1. /\ writer = "flush" /\ writer' = "release"
      /\ queue' = queue /\ batch' = batch /\ refused' = refused
  BY FlushOutcome
<1>2. PICK good \in SUBSET BatchWrites :
        /\ stored' = stored \cup good
        /\ failed' = failed \cup (BatchWrites \ good)
  BY FlushOutcome
<1>3. queue \in Seq(Job) /\ batch \in Seq(Job)
  BY DEF Ind, TypeOK
<1>4. Pending = batch \o queue /\ Pending' = queue
  BY <1>1 DEF Pending
<1> DEFINE n == Len(batch)
<1>5. /\ n \in 0..Len(Pending)
      /\ Pending' = SubSeq(Pending, n + 1, Len(Pending))
      /\ \A i \in 1..n : Pending[i] = batch[i]
  BY <1>3, <1>4, ConcatFacts, ConcatDrop
<1>6. {Pending[i] : i \in 1..n} \cap Writes = BatchWrites
  BY <1>5 DEF BatchWrites, Elems
<1>7. Log!Resolve(n)
  BY <1>1, <1>2, <1>5, <1>6 DEF Log!Resolve
<1> QED BY <1>5, <1>7 DEF Log!Next

THEOREM Implements == Spec => ImplementsWriteLog
<1>1. Init => Log!Init
  BY DEF Init, Log!Init, Pending
<1>2. ASSUME Ind, [Next]_vars PROVE [Log!Next]_(Log!vars)
  <2>1. CASE \E w \in Writes : EnqueueAccepted(w)
    <3>1. PICK w \in Writes : EnqueueAccepted(w)
      BY <2>1
    <3> QED BY <1>2, <3>1, SendIsAccept DEF EnqueueAccepted, Accepted, Job
  <2>2. CASE \E w \in Writes : EnqueueDropped(w)
    <3>1. PICK w \in Writes : EnqueueDropped(w)
      BY <2>2
    <3>2. w \notin Log!InLine \cup stored \cup failed \cup refused
      BY <1>2, <3>1, PendingElems, ConstantsAssumption
      DEF EnqueueDropped, Accepted, Resolved
    <3>3. Pending' = Pending
      BY <3>1 DEF EnqueueDropped, Pending
    <3>4. Log!Refuse(w)
      BY <3>1, <3>2, <3>3 DEF Log!Refuse, EnqueueDropped
    <3> QED BY <3>4 DEF Log!Next
  <2>3. CASE \E s \in Syncers : SyncSend(s)
    <3>1. PICK s \in Syncers : SyncSend(s)
      BY <2>3
    <3>2. s \notin Elems(queue) \cup InFlight
      BY <1>2, <3>1 DEF Ind, SyncPlaces, SyncSend, InFlight
    <3>3. s \notin Resolved \cup refused
      BY <1>2, ConstantsAssumption DEF Ind, TypeOK, Resolved
    <3> QED BY <1>2, <3>1, <3>2, <3>3, SendIsAccept DEF SyncSend, Job
  <2>4. CASE Flush
    BY <1>2, <2>4, FlushIsResolve
  <2>5. CASE TakeFirst \/ DrainMore
    <3>1. queue \in Seq(Job) /\ batch \in Seq(Job) /\ queue # <<>>
      BY <1>2, <2>5 DEF Ind, TypeOK, TakeFirst, DrainMore
    <3>2. UNCHANGED <<stored, failed, refused>>
      BY <2>5 DEF TakeFirst, DrainMore
    <3>3. Pending = batch \o queue
      <4>1. CASE TakeFirst
        <5>1. Pending = queue /\ batch = <<>>
          BY <1>2, <4>1 DEF Pending, TakeFirst, Ind, OnePlace
        <5> QED BY <3>1, <5>1
      <4>2. CASE DrainMore
        BY <4>2 DEF Pending, DrainMore
      <4> QED BY <2>5, <4>1, <4>2
    <3>4. Pending' = Append(batch, Head(queue)) \o Tail(queue)
      <4>1. CASE TakeFirst
        <5>1. batch' = Append(batch, Head(queue))
          BY <1>2, <4>1 DEF TakeFirst, Ind, OnePlace
        <5> QED BY <4>1, <5>1 DEF TakeFirst, Pending
      <4>2. CASE DrainMore
        BY <4>2 DEF Pending, DrainMore
      <4> QED BY <2>5, <4>1, <4>2
    <3>5. Pending' = Pending
      BY <3>1, <3>3, <3>4, ConcatMove
    <3> QED BY <3>2, <3>5 DEF Log!vars
  <2>6. CASE \/ \E s \in Syncers : SyncReleased(s) \/ SyncClosed(s)
             \/ Close \/ UNCHANGED vars
    <3>1. UNCHANGED <<queue, batch, writer, stored, failed, refused>>
      BY <2>6 DEF SyncReleased, SyncClosed, Close, vars
    <3> QED BY <3>1 DEF Log!vars, Pending
  <2>7. CASE SeeDone \/ SeeEmpty \/ CloseClosed \/ DrainEnd \/ ReleaseBarriers
    <3>1. /\ UNCHANGED <<queue, stored, failed, refused>>
          /\ writer \in {"drain", "flush"} <=> writer' \in {"drain", "flush"}
          /\ writer \in {"drain", "flush"} => batch' = batch
      BY <2>7 DEF SeeDone, SeeEmpty, CloseClosed, DrainEnd, ReleaseBarriers
    <3> QED BY <3>1 DEF Log!vars, Pending
  <2> QED BY <1>2, <2>1, <2>2, <2>3, <2>4, <2>5, <2>6, <2>7
          DEF Next, EnqueueWrite, Sync, writerLoop
<1> QED BY <1>1, <1>2, SpecInd, PTL DEF Spec, Log!Spec, ImplementsWriteLog

-----------------------------------------------------------------------------
(***************************************************************************)
(* The counters.                                                           *)
(***************************************************************************)
LEMMA DisjointUnion ==
  ASSUME NEW A, NEW B, A \subseteq Writes, B \subseteq Writes, A \cap B = {}
  PROVE  /\ Cardinality(A \cup B) = Cardinality(A) + Cardinality(B)
         /\ Cardinality(A) \in Nat /\ Cardinality(B) \in Nat
<1>1. IsFiniteSet(A) /\ IsFiniteSet(B)
  BY ConstantsAssumption, FS_Subset
<1>2. Cardinality(A \cap B) = 0
  BY FS_EmptySet
<1>3. Cardinality(A) \in Nat /\ Cardinality(B) \in Nat
  BY <1>1, FS_CardinalityType
<1>4. Cardinality(A \cup B)
        = Cardinality(A) + Cardinality(B) - Cardinality(A \cap B)
  BY <1>1, FS_Union
<1> QED BY <1>2, <1>3, <1>4

(***************************************************************************)
(* writes_ok and writes_dropped_queue_full count the writes exactly, and   *)
(* writes_dropped_error misses none (writer.go:159).                       *)
(***************************************************************************)
THEOREM CountersAccount == Spec => []MetricsAccountForWrites
<1>1. ASSUME Init PROVE MetricsAccountForWrites
  BY <1>1, FS_EmptySet DEF Init, MetricsAccountForWrites
<1>2. ASSUME Ind, MetricsAccountForWrites, [Next]_vars
      PROVE  MetricsAccountForWrites'
  <2>1. /\ metrics \in [ok : Nat, full : Nat, error : Nat]
        /\ stored \subseteq Writes /\ failed \subseteq Writes
        /\ refused \subseteq Writes /\ BatchWrites \subseteq Writes
    BY <1>2 DEF Ind, TypeOK, BatchWrites
  <2>2. CASE \E w \in Writes : EnqueueDropped(w)
    <3>1. PICK w \in Writes : EnqueueDropped(w)
      BY <2>2
    <3>2. Cardinality(refused \cup {w}) = Cardinality(refused) + 1
      <4>1. refused \cap {w} = {} /\ {w} \subseteq Writes
        BY <3>1 DEF EnqueueDropped
      <4>2. Cardinality({w}) = 1
        BY FS_Singleton
      <4> QED BY <2>1, <4>1, <4>2, DisjointUnion
    <3>3. metrics' = [metrics EXCEPT !.full = metrics.full + 1]
      BY <3>1 DEF EnqueueDropped
    <3>4. /\ metrics'.ok = metrics.ok /\ metrics'.error = metrics.error
          /\ metrics'.full = metrics.full + 1
      BY <2>1, <3>3
    <3>5. /\ stored' = stored /\ failed' = failed
          /\ refused' = refused \cup {w}
      BY <3>1 DEF EnqueueDropped
    <3> QED BY <1>2, <3>2, <3>4, <3>5 DEF MetricsAccountForWrites
  <2>3. CASE Flush
    <3>1. writer = "flush" /\ refused' = refused
      BY <1>2, <2>3, FlushOutcome
    <3>2. BatchWrites \cap (stored \cup failed) = {}
      BY <1>2, <3>1 DEF Ind, OnePlace, InFlight, BatchWrites, Resolved
    <3>3. /\ Cardinality(failed \cup BatchWrites)
               = Cardinality(failed) + Cardinality(BatchWrites)
          /\ Cardinality(failed) \in Nat /\ Cardinality(BatchWrites) \in Nat
      <4>1. failed \cap BatchWrites = {}
        BY <3>2
      <4> QED BY <2>1, <4>1, DisjointUnion
    <3>4. CASE BeginFails
      <4>1. metrics' = [metrics EXCEPT !.error = metrics.error + Len(batch)]
        BY <3>4 DEF BeginFails
      <4>2. Cardinality(BatchWrites) <= Len(batch) /\ Len(batch) \in Nat
        BY <1>2, BatchFinite
      <4>3. /\ metrics'.ok = metrics.ok /\ metrics'.full = metrics.full
            /\ metrics'.error = metrics.error + Len(batch)
        BY <2>1, <4>1
      <4>4. metrics'.error >= Cardinality(failed \cup BatchWrites)
        BY <1>2, <2>1, <3>3, <4>2, <4>3 DEF MetricsAccountForWrites
      <4>5. stored' = stored /\ failed' = failed \cup BatchWrites
        BY <3>4 DEF BeginFails
      <4> QED BY <1>2, <3>1, <4>3, <4>4, <4>5 DEF MetricsAccountForWrites
    <3>5. CASE \E bad \in SUBSET BatchWrites : Commits(bad) \/ CommitFails(bad)
      <4>1. PICK bad \in SUBSET BatchWrites : Commits(bad) \/ CommitFails(bad)
        BY <3>5
      <4> DEFINE good == BatchWrites \ bad
      <4>2. /\ Cardinality(failed \cup bad)
                 = Cardinality(failed) + Cardinality(bad)
            /\ Cardinality(bad) \in Nat
        <5>1. failed \cap bad = {} /\ bad \subseteq Writes
          BY <2>1, <3>2
        <5> QED BY <2>1, <5>1, DisjointUnion
      <4>3. /\ Cardinality(stored \cup good)
                 = Cardinality(stored) + Cardinality(good)
            /\ Cardinality(good) \in Nat
        <5>1. stored \cap good = {} /\ good \subseteq Writes
          BY <2>1, <3>2
        <5> QED BY <2>1, <5>1, DisjointUnion
      <4>4. Cardinality(BatchWrites) = Cardinality(bad) + Cardinality(good)
        <5>1. bad \cup good = BatchWrites /\ bad \cap good = {}
          OBVIOUS
        <5>2. bad \subseteq Writes /\ good \subseteq Writes
          BY <2>1
        <5> QED BY <5>1, <5>2, DisjointUnion
      <4>5. CASE Commits(bad)
        <5>1. /\ stored' = stored \cup good /\ failed' = failed \cup bad
              /\ metrics' = [metrics EXCEPT
                               !.error = metrics.error + Cardinality(bad),
                               !.ok = metrics.ok + Cardinality(good)]
          BY <4>5 DEF Commits
        <5>2. /\ metrics'.ok = metrics.ok + Cardinality(good)
              /\ metrics'.full = metrics.full
              /\ metrics'.error = metrics.error + Cardinality(bad)
          BY <2>1, <5>1
        <5>3. metrics'.error >= Cardinality(failed \cup bad)
          BY <1>2, <2>1, <3>3, <4>2, <5>2 DEF MetricsAccountForWrites
        <5>4. metrics'.ok = Cardinality(stored \cup good)
          BY <1>2, <4>3, <5>2 DEF MetricsAccountForWrites
        <5> QED BY <1>2, <3>1, <5>1, <5>2, <5>3, <5>4
                DEF MetricsAccountForWrites
      <4>6. CASE CommitFails(bad)
        <5>1. /\ stored' = stored /\ failed' = failed \cup BatchWrites
              /\ metrics' = [metrics EXCEPT
                               !.error = metrics.error + Cardinality(bad)
                                           + Cardinality(good)]
          BY <4>6 DEF CommitFails
        <5>2. /\ metrics'.ok = metrics.ok
              /\ metrics'.full = metrics.full
              /\ metrics'.error = metrics.error + Cardinality(bad)
                                    + Cardinality(good)
          BY <2>1, <5>1
        <5>3. metrics'.error >= Cardinality(failed \cup BatchWrites)
          BY <1>2, <2>1, <3>3, <4>2, <4>3, <4>4, <5>2
          DEF MetricsAccountForWrites
        <5> QED BY <1>2, <3>1, <5>1, <5>2, <5>3 DEF MetricsAccountForWrites
      <4> QED BY <4>1, <4>5, <4>6
    <3> QED BY <2>3, <3>4, <3>5 DEF Flush
  <2>4. CASE UNCHANGED <<stored, failed, refused, metrics>>
    BY <1>2, <2>4 DEF MetricsAccountForWrites
  <2>5. \/ \E w \in Writes : EnqueueDropped(w)
        \/ Flush
        \/ UNCHANGED <<stored, failed, refused, metrics>>
    BY <1>2
    DEF Next, vars, EnqueueWrite, EnqueueAccepted, Sync, SyncSend,
        SyncReleased, SyncClosed, Close, writerLoop, TakeFirst, SeeDone,
        SeeEmpty, CloseClosed, DrainMore, DrainEnd, ReleaseBarriers
  <2> QED BY <2>2, <2>3, <2>4, <2>5
<1> QED BY <1>1, <1>2, SpecInd, PTL DEF Spec
-----------------------------------------------------------------------------
(***************************************************************************)
(* The services side by side: what is proved of ListenerManager and of     *)
(* CommandRelay for all constants, about each of the parts of MCServices.  *)
(***************************************************************************)
LEMMA PartsAreSound ==
  /\ Manager!ManagerAssumption /\ InTurn!ManagerAssumption
  /\ Faulty!RelayAssumption /\ Apart!RelayAssumption /\ Changing!RelayAssumption
<1>1. InTurn!ManagerAssumption
  BY ConstantsAreRight DEF Manager!ManagerAssumption, InTurn!ManagerAssumption,
     Manager!IsFiniteSet, InTurn!IsFiniteSet
<1> QED BY <1>1, ConstantsAreRight

(* Where nothing is lost, less happens than where something may be. *)
LEMMA ReliableIsFaulty ==
  ASSUME Faulty!TypeOK, Reliable!Next
  PROVE  Faulty!Next
<1>1. faults \in Nat
  BY DEF Faulty!TypeOK
<1>2. ASSUME NEW a \in {a1, a2}, NEW kind, Reliable!MaySend(a, kind) PROVE Faulty!MaySend(a, kind)
  BY <1>1, <1>2 DEF Reliable!MaySend, Faulty!MaySend, Reliable!Waits, Faulty!Waits,
     Reliable!Cardinality, Faulty!Cardinality
<1>3. ASSUME NEW a \in {a1, a2}, Reliable!SendPoll(a) PROVE Faulty!SendPoll(a)
  BY <1>2, <1>3 DEF Reliable!SendPoll, Faulty!SendPoll
<1>4. ASSUME NEW a \in {a1, a2}, Reliable!SendResult(a) PROVE Faulty!SendResult(a)
  BY <1>2, <1>4 DEF Reliable!SendResult, Faulty!SendResult
<1>5. ASSUME NEW r \in requests, Reliable!Lose(r) PROVE FALSE
  BY <1>1, <1>5 DEF Reliable!Lose
<1>6. ASSUME NEW r \in requests, Reliable!Server(r) PROVE Faulty!Server(r)
  <2>1. Reliable!AuthenticateSite(r) => Faulty!AuthenticateSite(r)
    BY DEF Reliable!AuthenticateSite, Faulty!AuthenticateSite, Reliable!Authenticated, Faulty!Authenticated,
           Reliable!Step, Faulty!Step, Reliable!NoToken, Faulty!NoToken
  <2>2. Reliable!GetSite(r) => Faulty!GetSite(r)
    BY DEF Reliable!GetSite, Faulty!GetSite, Reliable!Step, Faulty!Step, Reliable!Gone, Faulty!Gone
  <2>3. Reliable!Refuse(r) => Faulty!Refuse(r)
    BY DEF Reliable!Refuse, Faulty!Refuse, Reliable!Authenticated, Faulty!Authenticated, Reliable!Gone, Faulty!Gone,
           Reliable!NoToken, Faulty!NoToken
  <2>4. Reliable!ClaimPendingJobs(r) => Faulty!ClaimPendingJobs(r)
    BY DEF Reliable!ClaimPendingJobs, Faulty!ClaimPendingJobs, Reliable!Claimable, Faulty!Claimable,
           Reliable!Pending, Faulty!Pending, Reliable!Cardinality, Faulty!Cardinality
  <2>5. Reliable!CompleteJob(r) => Faulty!CompleteJob(r)
    BY DEF Reliable!CompleteJob, Faulty!CompleteJob, Reliable!Status, Faulty!Status, Reliable!Step, Faulty!Step
  <2> QED BY <1>6, <2>1, <2>2, <2>3, <2>4, <2>5 DEF Reliable!Server, Faulty!Server
<1>7. ASSUME NEW s \in {s1}, Reliable!CheckSite(s) PROVE Faulty!CheckSite(s)
  BY <1>7 DEF Reliable!CheckSite, Faulty!CheckSite, Reliable!Cardinality, Faulty!Cardinality
<1>8. Reliable!EnqueueJob => Faulty!EnqueueJob
  BY DEF Reliable!EnqueueJob, Faulty!EnqueueJob
<1>9. ASSUME NEW s \in {s1},
             Reliable!DeleteSite(s) \/ Reliable!CreateSite(s) \/ Reliable!RegenerateSiteToken(s) \/ Reliable!UpdateMode(s)
      PROVE  FALSE
  BY <1>9 DEF Reliable!DeleteSite, Reliable!CreateSite, Reliable!RegenerateSiteToken, Reliable!UpdateMode
<1>10. ASSUME NEW a \in {a1, a2}, Reliable!Provision(a) PROVE FALSE
  BY <1>10 DEF Reliable!Provision
<1>11. ASSUME NEW a \in {a1, a2}, Reliable!Execute(a) PROVE Faulty!Execute(a)
  BY <1>11 DEF Reliable!Execute, Faulty!Execute, Reliable!Outcomes, Faulty!Outcomes
<1>12. ASSUME NEW r \in requests, Reliable!Receive(r) PROVE Faulty!Receive(r)
  BY <1>12 DEF Reliable!Receive, Faulty!Receive
<1> QED BY <1>3, <1>4, <1>5, <1>6, <1>7, <1>8, <1>9, <1>10, <1>11, <1>12 DEF Reliable!Next, Faulty!Next

(* The invariants of the parts that run; the others stay as they begin. *)
PartsInv ==
  /\ part = "listeners" => Manager!IInv
  /\ part = "listeners in turn" => InTurn!TurnInv
  /\ part = "relay apart" => Apart!TruthInv /\ Apart!OrderInv
  /\ part = "relay changing" => Changing!TruthInv
  /\ part \notin {"relay apart", "relay changing"} => Faulty!TruthInv

(* What a step is for each of the parts. *)
PartsStep ==
  /\ part' = part
  /\ part = "listeners" => [Manager!Next]_managerVars
  /\ part = "listeners in turn" => [InTurn!Next]_managerVars
  /\ part = "relay apart" => [Apart!Next]_relayVars
  /\ part = "relay changing" => [Changing!Next]_relayVars
  /\ part \notin {"relay apart", "relay changing"} => [Faulty!Next]_relayVars

LEMMA StepsAreOfTheParts == PartsInv /\ [MCNext]_MCVars => PartsStep
<1> SUFFICES ASSUME PartsInv, [MCNext]_MCVars PROVE PartsStep
  OBVIOUS
<1>1. CASE UNCHANGED MCVars
  BY <1>1 DEF MCVars, PartsStep
<1>2. CASE part = "relay reliable" /\ Reliable!Next /\ UNCHANGED <<part, vars, managerVars>>
  <2>1. Faulty!TypeOK
    BY <1>2 DEF PartsInv, Faulty!TruthInv, Faulty!IInv
  <2> QED BY <1>2, <2>1, ReliableIsFaulty DEF PartsStep
<1>3. CASE part = "writer" /\ UNCHANGED <<part, managerVars, relayVars>>
  BY <1>3 DEF PartsStep
<1>4. CASE part = "listeners" /\ Manager!Next /\ UNCHANGED <<part, vars, relayVars>>
  BY <1>4 DEF PartsStep
<1>5. CASE part = "listeners in turn" /\ InTurn!Next /\ UNCHANGED <<part, vars, relayVars>>
  BY <1>5 DEF PartsStep
<1>6. CASE part = "relay faulty" /\ Faulty!Next /\ UNCHANGED <<part, vars, managerVars>>
  BY <1>6 DEF PartsStep
<1>7. CASE part = "relay apart" /\ Apart!Next /\ UNCHANGED <<part, vars, managerVars>>
  BY <1>7 DEF PartsStep
<1>8. CASE part = "relay changing" /\ Changing!Next /\ UNCHANGED <<part, vars, managerVars>>
  BY <1>8 DEF PartsStep
<1> QED BY <1>1, <1>2, <1>3, <1>4, <1>5, <1>6, <1>7, <1>8 DEF MCNext

LEMMA PartsBegin == MCInit => PartsInv
<1> SUFFICES ASSUME MCInit PROVE PartsInv
  OBVIOUS
<1>1. Manager!IInv
  BY PartsAreSound, Manager!InitHolds DEF MCInit
<1>2. InTurn!TurnInv
  <2>1. InTurn!Init
    BY DEF MCInit, Manager!Init, InTurn!Init, Manager!None, InTurn!None
  <2> QED BY <2>1, PartsAreSound, InTurn!TurnsBegin
<1>3. part = "relay apart" => Apart!TruthInv /\ Apart!OrderInv
  <2>1. part = "relay apart" => Apart!Init
    BY DEF MCInit
  <2> QED BY <2>1, PartsAreSound, Apart!TruthHoldsFirst, Apart!OrderHoldsFirst
<1>4. part = "relay changing" => Changing!TruthInv
  BY PartsAreSound, Changing!TruthHoldsFirst DEF MCInit
<1>5. part \notin {"relay apart", "relay changing"} => Faulty!TruthInv
  BY PartsAreSound, Faulty!TruthHoldsFirst DEF MCInit
<1> QED BY <1>1, <1>2, <1>3, <1>4, <1>5 DEF PartsInv

LEMMA PartsStay == PartsInv /\ [MCNext]_MCVars => PartsInv'
<1> SUFFICES ASSUME PartsInv, PartsStep PROVE PartsInv'
  BY StepsAreOfTheParts
<1>1. (part = "listeners" => Manager!IInv)'
  BY PartsAreSound, Manager!NextKeeps DEF PartsInv, PartsStep, managerVars, Manager!vars,
     Manager!managerVars, Manager!requestVars, Manager!mainVars
<1>2. (part = "listeners in turn" => InTurn!TurnInv)'
  BY PartsAreSound, InTurn!TurnsKeep DEF PartsInv, PartsStep, managerVars, InTurn!vars,
     InTurn!managerVars, InTurn!requestVars, InTurn!mainVars
<1>3. (part = "relay apart" => Apart!TruthInv /\ Apart!OrderInv)'
  BY PartsAreSound, Apart!TruthStays, Apart!OrderStays DEF PartsInv, PartsStep, relayVars, Apart!vars
<1>4. (part = "relay changing" => Changing!TruthInv)'
  BY PartsAreSound, Changing!TruthStays DEF PartsInv, PartsStep, relayVars, Changing!vars
<1>5. (part \notin {"relay apart", "relay changing"} => Faulty!TruthInv)'
  BY PartsAreSound, Faulty!TruthStays DEF PartsInv, PartsStep, relayVars, Faulty!vars
<1> QED BY <1>1, <1>2, <1>3, <1>4, <1>5 DEF PartsInv

(***************************************************************************)
(* Manager.Apply, Shutdown (manager.go:139-202 and 260): with overlapping  *)
(* requests what the manager knows of itself is true; with requests in     *)
(* turn what runs is what is saved, is shown, and nothing stays open.      *)
(***************************************************************************)
THEOREM ListenersAreAlwaysTrue == MCSpec => []ListenersAreTrue
<1>1. PartsInv => ListenersAreTrue
  <2> SUFFICES ASSUME PartsInv PROVE ListenersAreTrue
    OBVIOUS
  <2>1. part = "listeners" => Manager!StateIsTrue
    BY Manager!InvIsTrue DEF PartsInv
  <2>2. ASSUME part = "listeners in turn"
        PROVE  /\ InTurn!StateIsTrue /\ InTurn!LiveIsSaved /\ InTurn!ListeningIsActive
               /\ InTurn!NoLeak /\ InTurn!ShutdownClosesAll
    <3>1. InTurn!TurnInv /\ InTurn!IInv
      BY <2>2 DEF PartsInv, InTurn!TurnInv
    <3> QED BY <3>1, InTurn!InvIsTrue, InTurn!TurnsAreTrue
  <2> QED BY <2>1, <2>2 DEF ListenersAreTrue
<1> QED BY <1>1, PartsBegin, PartsStay, PTL DEF MCSpec

(***************************************************************************)
(* ClaimPendingJobs, CompleteJob, AuthenticateSite: of the four settings   *)
(* of the relay, no command is executed twice, the table tells what        *)
(* happened, outcomes stay, and only a live token is let in.               *)
(***************************************************************************)
THEOREM CommandsAreAlwaysTrue == MCSpec => CommandsAreTrue
<1> DEFINE Told == CASE part = "relay apart" -> Apart!TypeOK /\ Apart!OwnSiteOldestFirst
                     [] part = "relay changing" -> Changing!TypeOK
                     [] OTHER -> Faulty!TypeOK /\ Faulty!ExecutedAtMostOnce /\ Faulty!TableTellsTheTruth
           Final == \A j \in DOMAIN jobs : jobs[j].status \in {"done", "error"} => jobs'[j] = jobs[j]
<1>1. PartsInv => Told
  <2> SUFFICES ASSUME PartsInv PROVE Told
    OBVIOUS
  <2>1. CASE part = "relay apart"
    BY <2>1 DEF PartsInv, Apart!OrderInv, Apart!IInv
  <2>2. CASE part = "relay changing"
    BY <2>2 DEF PartsInv, Changing!TruthInv, Changing!IInv
  <2>3. CASE part \notin {"relay apart", "relay changing"}
    <3>1. Faulty!TruthInv
      BY <2>3 DEF PartsInv
    <3> QED BY <2>3, <3>1, PartsAreSound, Faulty!TruthIsTold DEF Faulty!TruthInv, Faulty!IInv, Faulty!PlacesInv
  <2> QED BY <2>1, <2>2, <2>3
<1>2. PartsInv /\ [MCNext]_MCVars => [Final]_relayVars
  <2> SUFFICES ASSUME PartsInv, PartsStep PROVE Final
    BY StepsAreOfTheParts
  <2> SUFFICES ASSUME NEW j \in DOMAIN jobs, jobs[j].status \in {"done", "error"} PROVE jobs'[j] = jobs[j]
    OBVIOUS
  <2>1. CASE part = "relay apart"
    BY <2>1, PartsAreSound, Apart!OutcomesAreFinal DEF PartsInv, PartsStep, relayVars, Apart!vars
  <2>2. CASE part = "relay changing"
    BY <2>2, PartsAreSound, Changing!OutcomesAreFinal DEF PartsInv, PartsStep, relayVars, Changing!vars
  <2>3. CASE part \notin {"relay apart", "relay changing"}
    BY <2>3, PartsAreSound, Faulty!OutcomesAreFinal DEF PartsInv, PartsStep, relayVars, Faulty!vars
  <2> QED BY <2>1, <2>2, <2>3
<1>3. PartsInv /\ [MCNext]_MCVars => [part = "relay changing" => Changing!LetInByLiveToken]_relayVars
  <2> SUFFICES ASSUME PartsInv, PartsStep, part = "relay changing" PROVE Changing!LetInByLiveToken
    BY StepsAreOfTheParts
  <2>1. Changing!IInv /\ [Changing!Next]_relayVars
    BY DEF PartsInv, PartsStep, Changing!TruthInv
  <2> QED BY <2>1, Changing!LetInNow DEF relayVars, Changing!vars
<1>4. MCSpec => []Told
  BY <1>1, PartsBegin, PartsStay, PTL DEF MCSpec
<1>5. MCSpec => [][Final]_relayVars
  BY <1>2, PartsBegin, PartsStay, PTL DEF MCSpec
<1>6. MCSpec => [][part = "relay changing" => Changing!LetInByLiveToken]_relayVars
  BY <1>3, PartsBegin, PartsStay, PTL DEF MCSpec
<1> QED BY <1>4, <1>5, <1>6, PTL DEF CommandsAreTrue, Faulty!OutcomeIsFinal, relayVars, Faulty!vars
=============================================================================
