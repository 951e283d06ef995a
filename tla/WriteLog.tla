------------------------------ MODULE WriteLog -------------------------------
(***************************************************************************)
(* What the observability store promises its clients, without queue        *)
(* capacity, batches, transactions or goroutines: a job that is accepted   *)
(* joins a line, jobs leave the line from the front, several at a time,    *)
(* and a write that leaves it is either stored or given up, once.          *)
(***************************************************************************)
EXTENDS Naturals, Sequences

CONSTANTS
  Writes,   \* the writes clients may ask for
  Barriers  \* the markers that are lined up with them

VARIABLES
  pending,  \* the jobs accepted and not yet dealt with, oldest first
  stored,   \* the writes that are in the database
  failed,   \* the writes that were given up after having been accepted
  refused   \* the writes that were never accepted

vars == <<pending, stored, failed, refused>>

InLine == {pending[i] : i \in 1..Len(pending)}

Init == pending = <<>> /\ stored = {} /\ failed = {} /\ refused = {}

Accept(j) ==
  /\ j \notin InLine \cup stored \cup failed \cup refused
  /\ pending' = Append(pending, j)
  /\ UNCHANGED <<stored, failed, refused>>

Refuse(w) ==
  /\ w \notin InLine \cup stored \cup failed \cup refused
  /\ refused' = refused \cup {w}
  /\ UNCHANGED <<pending, stored, failed>>

(***************************************************************************)
(* The first n jobs are dealt with together.                               *)
(***************************************************************************)
Resolve(n) ==
  LET leaving == {pending[i] : i \in 1..n} \cap Writes IN
  /\ pending' = SubSeq(pending, n + 1, Len(pending))
  /\ \E good \in SUBSET leaving :
       /\ stored' = stored \cup good
       /\ failed' = failed \cup (leaving \ good)
  /\ UNCHANGED refused

Next ==
  \/ \E j \in Writes \cup Barriers : Accept(j)
  \/ \E w \in Writes : Refuse(w)
  \/ \E n \in 0..Len(pending) : Resolve(n)

Spec == Init /\ [][Next]_vars
=============================================================================
