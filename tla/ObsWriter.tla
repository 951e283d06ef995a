------------------------------ MODULE ObsWriter ------------------------------
(***************************************************************************)
(* The write path of the observability store (internal/obsstore/writer.go  *)
(* and store.go): any goroutine hands a write to a bounded queue without   *)
(* ever blocking, one writer goroutine drains the queue into batches and   *)
(* commits each batch in one transaction, Sync waits for a barrier that    *)
(* travels through the same queue, and Close stops the writer.             *)
(*                                                                         *)
(* Every channel operation is one step.  The statements of a transaction   *)
(* are invisible until COMMIT, so executing and committing a batch is one  *)
(* step; releasing the barriers of the batch is the next one.              *)
(***************************************************************************)
EXTENDS Naturals, Sequences, FiniteSets

CONSTANTS
  Writes,     \* the SQL writes the program may enqueue, each of them once
  Syncers,    \* the goroutines that call Sync, each of them once
  QueueMax,   \* capacity of the channel Store.queue
  BatchSize   \* most jobs in one commit

ASSUME ConstantsAssumption ==
  /\ IsFiniteSet(Writes) /\ IsFiniteSet(Syncers)
  /\ Writes \cap Syncers = {}
  /\ QueueMax \in Nat \ {0}
  /\ BatchSize \in Nat \ {0}

(***************************************************************************)
(* A job is a write or the barrier of a Sync call; the barrier of s is s.  *)
(***************************************************************************)
Job == Writes \cup Syncers

VARIABLES
  queue,     \* Store.queue, oldest job first
  batch,     \* the jobs drain has collected, or flush is working on
  writer,    \* where writerLoop is
  final,     \* writerLoop has seen Store.done and is in its emptying loop
  done,      \* channel Store.done is closed
  closed,    \* channel Store.closed is closed
  stored,    \* the writes whose transaction committed
  failed,    \* the writes an error made the writer give up
  refused,   \* the writes EnqueueWrite returned false for
  before,    \* before[j]: the writes accepted when job j entered the queue
  atClose,   \* the writes accepted when Close closed Store.done
  released,  \* the barriers whose own done channel is closed
  sync,      \* sync[s]: where the Sync call of s is
  metrics    \* the three writes_* counters of metrics.Registry

vars == <<queue, batch, writer, final, done, closed, stored, failed, refused,
          before, atClose, released, sync, metrics>>

Elems(s) == {s[i] : i \in 1..Len(s)}

Resolved == stored \cup failed

(***************************************************************************)
(* The jobs of the batch that still have to be executed.                   *)
(***************************************************************************)
InFlight == IF writer \in {"drain", "flush"} THEN Elems(batch) ELSE {}

(***************************************************************************)
(* The writes EnqueueWrite returned true for.                              *)
(***************************************************************************)
Accepted == ((Elems(queue) \cup InFlight) \cap Writes) \cup Resolved

-----------------------------------------------------------------------------
Init ==
  /\ queue = <<>> /\ batch = <<>>
  /\ writer = "select" /\ final = FALSE
  /\ done = FALSE /\ closed = FALSE
  /\ stored = {} /\ failed = {} /\ refused = {}
  /\ before = [j \in Job |-> {}]
  /\ atClose = {}
  /\ released = {}
  /\ sync = [s \in Syncers |-> "idle"]
  /\ metrics = [ok |-> 0, full |-> 0, error |-> 0]

(***************************************************************************)
(* Puts job j at the end of the queue.  before is a history variable.      *)
(***************************************************************************)
Send(j) ==
  /\ queue' = Append(queue, j)
  /\ before' = [before EXCEPT ![j] = Accepted]

EnqueueAccepted(w) ==
  /\ w \notin Accepted \cup refused
  /\ Len(queue) < QueueMax
  /\ Send(w)
  /\ UNCHANGED <<batch, writer, final, done, closed, stored, failed, refused,
                 atClose, released, sync, metrics>>

EnqueueDropped(w) ==
  /\ w \notin Accepted \cup refused
  /\ Len(queue) = QueueMax
  /\ refused' = refused \cup {w}
  /\ metrics' = [metrics EXCEPT !.full = @ + 1]
  /\ UNCHANGED <<queue, batch, writer, final, done, closed, stored, failed,
                 before, atClose, released, sync>>

(***************************************************************************)
(* EnqueueWrite never waits: the default branch of its select.             *)
(***************************************************************************)
EnqueueWrite(w) == EnqueueAccepted(w) \/ EnqueueDropped(w)

(***************************************************************************)
(* Sync.  Both selects also listen on Store.closed; when both branches are *)
(* ready either may be taken.                                              *)
(***************************************************************************)
SyncSend(s) ==
  /\ sync[s] = "idle"
  /\ Len(queue) < QueueMax
  /\ Send(s)
  /\ sync' = [sync EXCEPT ![s] = "waiting"]
  /\ UNCHANGED <<batch, writer, final, done, closed, stored, failed, refused,
                 atClose, released, metrics>>

SyncReleased(s) ==
  /\ sync[s] = "waiting"
  /\ s \in released
  /\ sync' = [sync EXCEPT ![s] = "done"]
  /\ UNCHANGED <<queue, batch, writer, final, done, closed, stored, failed,
                 refused, before, atClose, released, metrics>>

SyncClosed(s) ==
  /\ sync[s] \in {"idle", "waiting"}
  /\ closed
  /\ sync' = [sync EXCEPT ![s] = "closed"]
  /\ UNCHANGED <<queue, batch, writer, final, done, closed, stored, failed,
                 refused, before, atClose, released, metrics>>

Sync(s) == SyncSend(s) \/ SyncReleased(s) \/ SyncClosed(s)

(***************************************************************************)
(* Close: the deferred call at the end of main.                            *)
(***************************************************************************)
Close ==
  /\ ~done
  /\ done' = TRUE
  /\ atClose' = Accepted
  /\ UNCHANGED <<queue, batch, writer, final, closed, stored, failed, refused,
                 before, released, sync, metrics>>

-----------------------------------------------------------------------------
(***************************************************************************)
(* writerLoop takes a first job.  In the outer select a closed Store.done  *)
(* and a job may both be ready: either is taken.                           *)
(***************************************************************************)
TakeFirst ==
  /\ writer = "select"
  /\ queue # <<>>
  /\ batch' = <<Head(queue)>>
  /\ queue' = Tail(queue)
  /\ writer' = "drain"
  /\ UNCHANGED <<final, done, closed, stored, failed, refused, before, atClose,
                 released, sync, metrics>>

SeeDone ==
  /\ writer = "select" /\ ~final
  /\ done
  /\ final' = TRUE
  /\ UNCHANGED <<queue, batch, writer, done, closed, stored, failed, refused,
                 before, atClose, released, sync, metrics>>

(***************************************************************************)
(* The default branch of the emptying loop: nothing is left, return.       *)
(***************************************************************************)
SeeEmpty ==
  /\ writer = "select" /\ final
  /\ queue = <<>>
  /\ writer' = "returned"
  /\ UNCHANGED <<queue, batch, final, done, closed, stored, failed, refused,
                 before, atClose, released, sync, metrics>>

(***************************************************************************)
(* The deferred close(s.closed).                                           *)
(***************************************************************************)
CloseClosed ==
  /\ writer = "returned" /\ ~closed
  /\ closed' = TRUE
  /\ UNCHANGED <<queue, batch, writer, final, done, stored, failed, refused,
                 before, atClose, released, sync, metrics>>

(***************************************************************************)
(* Faults: one job too many in a batch; a barrier released where it is     *)
(* met, before the writes ahead of it have been committed.                 *)
(***************************************************************************)
DrainMoreOffByOne ==
  /\ writer = "drain"
  /\ Len(batch) <= BatchSize
  /\ queue # <<>>
  /\ batch' = Append(batch, Head(queue))
  /\ queue' = Tail(queue)
  /\ UNCHANGED <<writer, final, done, closed, stored, failed, refused, before,
                 atClose, released, sync, metrics>>

DrainMoreReleasesAtOnce ==
  /\ writer = "drain"
  /\ Len(batch) < BatchSize
  /\ queue # <<>>
  /\ batch' = Append(batch, Head(queue))
  /\ queue' = Tail(queue)
  /\ released' = released \cup ({Head(queue)} \cap Syncers)
  /\ UNCHANGED <<writer, final, done, closed, stored, failed, refused, before,
                 atClose, sync, metrics>>

DrainMore ==
  /\ writer = "drain"
  /\ Len(batch) < BatchSize
  /\ queue # <<>>
  /\ batch' = Append(batch, Head(queue))
  /\ queue' = Tail(queue)
  /\ UNCHANGED <<writer, final, done, closed, stored, failed, refused, before,
                 atClose, released, sync, metrics>>

DrainEnd ==
  /\ writer = "drain"
  /\ Len(batch) = BatchSize \/ queue = <<>>
  /\ writer' = "flush"
  /\ UNCHANGED <<queue, batch, final, done, closed, stored, failed, refused,
                 before, atClose, released, sync, metrics>>

BatchWrites == Elems(batch) \cap Writes

(* Fault: a failed Begin counts one error. *)
BeginFailsCountsOne ==
  /\ writer = "flush"
  /\ failed' = failed \cup BatchWrites
  /\ metrics' = [metrics EXCEPT !.error = @ + 1]
  /\ writer' = "release"
  /\ UNCHANGED <<queue, batch, final, done, closed, stored, refused, before,
                 atClose, released, sync>>

(***************************************************************************)
(* flush.  Begin may fail: every job of the batch is given up, and counted *)
(* barriers included.                                                      *)
(***************************************************************************)
BeginFails ==
  /\ writer = "flush"
  /\ failed' = failed \cup BatchWrites
  /\ metrics' = [metrics EXCEPT !.error = @ + Len(batch)]
  /\ writer' = "release"
  /\ UNCHANGED <<queue, batch, final, done, closed, stored, refused, before,
                 atClose, released, sync>>

(***************************************************************************)
(* Or the statements run, those in bad with an error, and the others are   *)
(* committed ...                                                           *)
(***************************************************************************)
Commits(bad) ==
  /\ writer = "flush"
  /\ stored' = stored \cup (BatchWrites \ bad)
  /\ failed' = failed \cup bad
  /\ metrics' = [metrics EXCEPT !.error = @ + Cardinality(bad),
                                !.ok = @ + Cardinality(BatchWrites \ bad)]
  /\ writer' = "release"
  /\ UNCHANGED <<queue, batch, final, done, closed, refused, before, atClose,
                 released, sync>>

(***************************************************************************)
(* Fault: a failed COMMIT puts the batch back at the end of the queue.     *)
(***************************************************************************)
CommitFailsAndRequeues(bad) ==
  /\ writer = "flush"
  /\ Len(batch) + Len(queue) <= QueueMax
  /\ queue' = queue \o batch
  /\ batch' = <<>>
  /\ writer' = "select"
  /\ UNCHANGED <<final, done, closed, stored, failed, refused, before, atClose,
                 released, sync, metrics>>

(***************************************************************************)
(* ... or COMMIT fails and all of them are rolled back.                    *)
(***************************************************************************)
CommitFails(bad) ==
  /\ writer = "flush"
  /\ failed' = failed \cup BatchWrites
  /\ metrics' = [metrics EXCEPT
                   !.error = @ + Cardinality(bad)
                               + Cardinality(BatchWrites \ bad)]
  /\ writer' = "release"
  /\ UNCHANGED <<queue, batch, final, done, closed, stored, refused, before,
                 atClose, released, sync>>

Flush ==
  \/ BeginFails
  \/ \E bad \in SUBSET BatchWrites : Commits(bad) \/ CommitFails(bad)

(***************************************************************************)
(* The deferred function of flush: the barriers of the batch are released  *)
(* whatever became of the transaction.                                     *)
(***************************************************************************)
ReleaseBarriers ==
  /\ writer = "release"
  /\ released' = released \cup (Elems(batch) \cap Syncers)
  /\ batch' = <<>>
  /\ writer' = "select"
  /\ UNCHANGED <<queue, final, done, closed, stored, failed, refused, before,
                 atClose, sync, metrics>>

writerLoop ==
  \/ TakeFirst \/ SeeDone \/ SeeEmpty \/ CloseClosed
  \/ DrainMore \/ DrainEnd \/ Flush \/ ReleaseBarriers

-----------------------------------------------------------------------------
(***************************************************************************)
(* Every call has returned and the writer waits for work or is gone.       *)
(***************************************************************************)
Quiescent ==
  /\ Writes \subseteq Accepted \cup refused
  /\ \A s \in Syncers : sync[s] \in {"done", "closed"}
  /\ done /\ closed

Next ==
  \/ \E w \in Writes : EnqueueWrite(w)
  \/ \E s \in Syncers : Sync(s)
  \/ Close
  \/ writerLoop
  \/ Quiescent /\ UNCHANGED vars

Spec == Init /\ [][Next]_vars

(***************************************************************************)
(* The Go scheduler runs the writer and a Sync caller that can proceed;    *)
(* nothing obliges anybody to enqueue a write or to close the store.       *)
(***************************************************************************)
Fairness ==
  /\ WF_vars(writerLoop)
  /\ \A s \in Syncers : WF_vars(SyncReleased(s) \/ SyncClosed(s))

FairSpec == Spec /\ Fairness

-----------------------------------------------------------------------------
TypeOK ==
  /\ queue \in Seq(Job) /\ Len(queue) <= QueueMax
  /\ batch \in Seq(Job) /\ Len(batch) <= BatchSize
  /\ writer \in {"select", "drain", "flush", "release", "returned"}
  /\ final \in BOOLEAN /\ done \in BOOLEAN /\ closed \in BOOLEAN
  /\ stored \in SUBSET Writes /\ failed \in SUBSET Writes
  /\ refused \in SUBSET Writes
  /\ before \in [Job -> SUBSET Writes]
  /\ atClose \in SUBSET Writes
  /\ released \in SUBSET Syncers
  /\ sync \in [Syncers -> {"idle", "waiting", "done", "closed"}]
  /\ metrics \in [ok : Nat, full : Nat, error : Nat]

(***************************************************************************)
(* No accepted write is stored twice or both stored and given up: a job is *)
(* in one place only, once, and what is resolved is in no queue any more.  *)
(***************************************************************************)
Pending == IF writer \in {"drain", "flush"} THEN batch \o queue ELSE queue

ExactlyOnce ==
  /\ \A i, j \in 1..Len(Pending) : Pending[i] = Pending[j] => i = j
  /\ Elems(Pending) \cap (Resolved \cup refused \cup released) = {}
  /\ stored \cap failed = {}
  /\ Resolved \cap refused = {}

(***************************************************************************)
(* Jobs leave the queue in the order they entered it: when a write has     *)
(* been resolved, so has every write accepted before it (the upserts of    *)
(* one row are applied in the order they were enqueued).                   *)
(***************************************************************************)
InOrder == \A w \in Resolved : before[w] \subseteq Resolved

(***************************************************************************)
(* When Sync returns because its barrier was released, every write that    *)
(* was accepted before the call has been committed or counted as an error. *)
(* Close returns only when the same is true of every write accepted before *)
(* it was called.                                                          *)
(***************************************************************************)
SyncCovers == \A s \in Syncers : sync[s] = "done" => before[s] \subseteq Resolved

CloseCovers == closed => atClose \subseteq Resolved

CallsCoverEarlierWrites == SyncCovers /\ CloseCovers

(***************************************************************************)
(* The counters of the health page account for the writes: writes_ok and   *)
(* writes_dropped_queue_full are exact, writes_dropped_error misses no     *)
(* write that was given up.                                                *)
(***************************************************************************)
MetricsAccountForWrites ==
  /\ metrics.ok = Cardinality(stored)
  /\ metrics.full = Cardinality(refused)
  /\ metrics.error >= Cardinality(failed)

(***************************************************************************)
(* Everything comes to its end: a write that is accepted while the store   *)
(* is open is resolved, a Sync whose barrier is in the queue returns, and  *)
(* so does Close, once called.                                             *)
(***************************************************************************)
EveryCallEnds ==
  /\ \A w \in Writes : (w \in Accepted /\ ~final) ~> (w \in Resolved)
  /\ \A s \in Syncers : (sync[s] = "waiting") ~> (sync[s] \in {"done", "closed"})
  /\ done ~> closed

(***************************************************************************)
(* The queue, the batches and the transactions together implement a plain  *)
(* line of jobs that are dealt with in order, each of them once.           *)
(***************************************************************************)
Log == INSTANCE WriteLog WITH Barriers <- Syncers, pending <- Pending

ImplementsWriteLog == Log!Spec
=============================================================================
