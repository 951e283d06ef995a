------------------------------ MODULE Correlator ------------------------------
(***************************************************************************)
(* The correlation of security events with traffic                         *)
(* (internal/observability/correlator.go), with the queries it runs, the   *)
(* operator's transitions of the anomalies it emits                        *)
(* (internal/obsstore/queries.go, internal/api/observability_handlers.go)  *)
(* and the retention job (internal/obsstore/rollup.go).                    *)
(*                                                                         *)
(* A cycle reads the recent security events, looks for a flow that         *)
(* corroborates each one and enqueues an INSERT OR IGNORE on the writer of *)
(* ObsWriter, which applies it later or drops it.  Flow buckets appear     *)
(* after the events they belong to: an exporter reports a flow when it     *)
(* ends.  Time is counted in cycle intervals.  The stamp of an event is    *)
(* what its device wrote: it may be ahead of the clock, or behind it, also *)
(* so far that no cycle looks back to it.                                  *)
(***************************************************************************)
EXTENDS Integers, FiniteSetsExt, FiniteSetTheorems, TLAPS

CONSTANTS
  Events,      \* security events: syslog rows with a security action or High
  High,        \* those of severity 0 to 3
  Flows,       \* flow buckets, numbered by their window_start
  Matching,    \* Matching[e]: buckets with e's tenant, endpoints and time
  Skews,       \* how far the time stamp of an event may be ahead of the clock,
               \* or behind it (negative)
  Lookback,    \* correlationLookback
  MaxEvents,   \* maxEventsPerCycle
  Retention,   \* retention of correlated_events
  Faults,      \* TRUE: queries fail and writes are lost
  MaxTime      \* bound of the clock

(* What the constants have to be. *)
CorrelatorAssumption ==
  /\ IsFiniteSet(Events) /\ High \subseteq Events
  /\ Flows \subseteq Nat \ {0} /\ IsFiniteSet(Flows)
  /\ Matching \in [Events -> SUBSET Flows]
  /\ Skews \subseteq Int
  /\ Lookback \in Nat \ {0} /\ MaxEvents \in Nat \ {0} /\ Retention \in Nat
  /\ Faults \in BOOLEAN /\ MaxTime \in Nat

(* Bucket 0 stands for no flow. *)
Alone == 0

(* What dedup_key tells apart: the event, and the flow it was found with. *)
Keys == Events \X (Flows \cup {Alone})

VARIABLES
  clock,
  syslog,   \* syslog_events: event -> the time stamp its device gave it
  flows,    \* flow_aggregates
  cycled,   \* the cycle of this interval has run
  now,      \* the time the running cycle works with
  work,     \* its events not looked at yet
  running,  \* a cycle is in progress
  queue,    \* rows handed to the writer, not written yet
  rows,     \* correlated_events: key -> status and created_ts
  arrived,  \* history: event -> when it was committed
  flowAt,   \* history: flow -> when it was committed
  pruned    \* history: keys of the rows retention has deleted

cycleVars == <<cycled, now, work, running>>
vars == <<clock, syslog, flows, cycleVars, queue, rows, arrived, flowAt, pruned>>

Row == [status : {"new", "ack", "resolved"}, created : 0..MaxTime]

Init ==
  /\ clock = 0
  /\ syslog = <<>> /\ flows = {} /\ arrived = <<>> /\ flowAt = <<>>
  /\ cycled = FALSE /\ now = 0 /\ work = {} /\ running = FALSE
  /\ queue = {} /\ rows = <<>> /\ pruned = {}

With(f, k, v) == [x \in DOMAIN f \cup {k} |-> IF x = k THEN v ELSE f[x]]

-----------------------------------------------------------------------------
(***************************************************************************)
(* Ingest commits a syslog event or a flow bucket.  extractSyslogTS takes  *)
(* whatever stamp the message has.                                         *)
(***************************************************************************)
SyslogArrives(e) ==
  /\ e \notin DOMAIN syslog
  /\ \E s \in Skews : syslog' = With(syslog, e, clock + s)
  /\ arrived' = With(arrived, e, clock)
  /\ UNCHANGED <<clock, flows, cycleVars, queue, rows, flowAt, pruned>>

FlowArrives(f) ==
  /\ f \notin flows
  /\ flows' = flows \cup {f}
  /\ flowAt' = With(flowAt, f, clock)
  /\ UNCHANGED <<clock, syslog, cycleVars, queue, rows, arrived, pruned>>

(***************************************************************************)
(* SecurityEvents, the WHERE clause.                                       *)
(***************************************************************************)
Recent(t) == {e \in DOMAIN syslog : syslog[e] + Lookback >= t}

(***************************************************************************)
(* ... ORDER BY ts DESC LIMIT maxEventsPerCycle: what a cycle may work on. *)
(***************************************************************************)
SecurityEvents(t) ==
  IF Cardinality(Recent(t)) <= MaxEvents THEN {Recent(t)}
  ELSE {S \in kSubset(MaxEvents, Recent(t)) :
          \A e \in S, d \in Recent(t) \ S : syslog[d] <= syslog[e]}

CycleBegins ==
  /\ ~running /\ ~cycled
  /\ running' = TRUE /\ cycled' = TRUE /\ now' = clock
  /\ work' \in SecurityEvents(clock)
  /\ UNCHANGED <<clock, syslog, flows, queue, rows, arrived, flowAt, pruned>>

(***************************************************************************)
(* CorroboratingFlow: the newest committed bucket, as a set of at most one.*)
(***************************************************************************)
CorroboratingFlow(e) ==
  LET found == flows \cap Matching[e] IN IF found = {} THEN {} ELSE {Max(found)}

(***************************************************************************)
(* Fault: no flow, no anomaly, whatever the severity.                      *)
(***************************************************************************)
EmittedOnlyWithFlow(e) == {<<e, f>> : f \in CorroboratingFlow(e)}

(***************************************************************************)
(* The rows a cycle emits for event e: with its flow; without one only if  *)
(* the severity is high.                                                   *)
(***************************************************************************)
Emitted(e) ==
  IF CorroboratingFlow(e) # {} THEN {<<e, f>> : f \in CorroboratingFlow(e)}
  ELSE IF e \in High THEN {<<e, Alone>>} ELSE {}

(***************************************************************************)
(* One turn of the loop.  The write may be refused by a full queue.        *)
(***************************************************************************)
Correlate(e) ==
  /\ running /\ e \in work
  /\ work' = work \ {e}
  /\ \/ queue' = queue \cup {[key |-> k, created |-> now] : k \in Emitted(e)}
     \/ Faults /\ UNCHANGED queue
  /\ UNCHANGED <<clock, syslog, flows, cycled, now, running, rows, arrived,
                 flowAt, pruned>>

(***************************************************************************)
(* The loop is done, or a query failed and the rest of the cycle is left.  *)
(***************************************************************************)
CycleEnds ==
  /\ running
  /\ work = {} \/ Faults
  /\ running' = FALSE /\ work' = {}
  /\ UNCHANGED <<clock, syslog, flows, cycled, now, queue, rows, arrived,
                 flowAt, pruned>>

CorrelateOnce == CycleBegins \/ (\E e \in Events : Correlate(e)) \/ CycleEnds

-----------------------------------------------------------------------------
(***************************************************************************)
(* InsertCorrelatedSQL: INSERT OR IGNORE, dedup_key is UNIQUE.             *)
(***************************************************************************)
InsertCorrelated(w) ==
  rows' = IF w.key \in DOMAIN rows THEN rows
          ELSE With(rows, w.key, [status |-> "new", created |-> w.created])

(***************************************************************************)
(* The store writer takes a row, or loses it with its batch.               *)
(***************************************************************************)
WriterStep ==
  \E w \in queue :
    /\ queue' = queue \ {w}
    /\ InsertCorrelated(w) \/ (Faults /\ UNCHANGED rows)
    /\ UNCHANGED <<clock, syslog, flows, cycleVars, arrived, flowAt, pruned>>

allowedTransitions == {<<"new", "ack">>, <<"new", "resolved">>, <<"ack", "resolved">>}

(***************************************************************************)
(* handleObsAnomalyStatus and TransitionAnomaly: an allowed transition,    *)
(* from the status the operator saw.                                       *)
(***************************************************************************)
TransitionAnomaly(k, from, to) ==
  /\ <<from, to>> \in allowedTransitions
  /\ rows[k].status = from
  /\ rows' = [rows EXCEPT ![k].status = to]

OperatorActs ==
  \E k \in DOMAIN rows, from, to \in {"new", "ack", "resolved"} :
    /\ TransitionAnomaly(k, from, to)
    /\ UNCHANGED <<clock, syslog, flows, cycleVars, queue, arrived, flowAt, pruned>>

Prunable ==
  {k \in DOMAIN rows : rows[k].created + Retention < clock /\ rows[k].status = "resolved"}

(***************************************************************************)
(* PruneOnce deletes the resolved rows older than the retention, in        *)
(* batches: one row or more at a time.                                     *)
(***************************************************************************)
PruneOnce ==
  \E k \in Prunable :
    /\ rows' = Restrict(rows, DOMAIN rows \ {k})
    /\ pruned' = pruned \cup {k}
    /\ UNCHANGED <<clock, syslog, flows, cycleVars, queue, arrived, flowAt>>

(***************************************************************************)
(* The ticker starts one cycle per interval.  A cycle and the writer are   *)
(* much faster than that.                                                  *)
(***************************************************************************)
Tick ==
  /\ clock < MaxTime
  /\ cycled /\ ~running /\ queue = {}
  /\ clock' = clock + 1
  /\ cycled' = FALSE
  /\ UNCHANGED <<syslog, flows, now, work, running, queue, rows, arrived,
                 flowAt, pruned>>

Next ==
  \/ \E e \in Events : SyslogArrives(e)
  \/ \E f \in Flows : FlowArrives(f)
  \/ CorrelateOnce \/ WriterStep \/ OperatorActs \/ PruneOnce \/ Tick

Spec == Init /\ [][Next]_vars

-----------------------------------------------------------------------------
(***************************************************************************)
(* The variables keep their types, a cycle its limit.                      *)
(***************************************************************************)
TypeOK ==
  /\ clock \in 0..MaxTime /\ now \in 0..MaxTime
  /\ DOMAIN syslog \subseteq Events /\ DOMAIN arrived = DOMAIN syslog
  /\ flows \subseteq Flows /\ DOMAIN flowAt = flows
  /\ cycled \in BOOLEAN /\ running \in BOOLEAN
  /\ work \subseteq Events /\ (work # {} => running)
  /\ Cardinality(work) <= MaxEvents
  /\ queue \subseteq [key : Keys, created : 0..MaxTime]
  /\ DOMAIN rows \subseteq Keys /\ \A k \in DOMAIN rows : rows[k] \in Row
  /\ pruned \subseteq Keys

Reported(e) == {k \in DOMAIN rows \cup pruned : k[1] = e}

(***************************************************************************)
(* "Fa eccezione l'alta severita', che emerge comunque" (correlator.go     *)
(* 100-101), as far as the code keeps it: a severe event whose stamp the   *)
(* first cycle after its arrival still looks back to is an anomaly by the  *)
(* end of that interval.                                                   *)
(***************************************************************************)
HighSeverityEmerges ==
  \A e \in DOMAIN syslog \cap High :
    e \in Recent(arrived[e] + 1) /\ clock > arrived[e] + 1 => Reported(e) # {}

(***************************************************************************)
(* correlationLookback (correlator.go:18): an event is correlated with a   *)
(* flow when both are committed one interval before the event leaves the   *)
(* lookback window, however late the flow comes after the event.           *)
(***************************************************************************)
LateFlowIsCorrelated ==
  \A e \in DOMAIN syslog : \A f \in flows \cap Matching[e] :
    /\ e \in Recent(arrived[e] + 1) /\ e \in Recent(flowAt[f] + 1)
    /\ clock > syslog[e] + Lookback
    => \E k \in Reported(e) : k[2] # Alone

(***************************************************************************)
(* SecurityEvents selects by the stamp, not by the arrival: an event that  *)
(* comes with a stamp older than the lookback is never an anomaly, however *)
(* severe it is and whatever flows belong to it.                           *)
(***************************************************************************)
StaleStampsAreMissed ==
  \A e \in DOMAIN syslog : e \notin Recent(arrived[e]) => Reported(e) = {}

(***************************************************************************)
(* TransitionAnomaly (queries.go:330): whatever operators, cycles and the  *)
(* retention job do, an anomaly only moves forward from new to ack to      *)
(* resolved, and only a resolved one is deleted ("non vengono MAI          *)
(* eliminati automaticamente", rollup.go:19).                              *)
(***************************************************************************)
DecisionsStand ==
  [][\A k \in DOMAIN rows :
       IF k \in DOMAIN rows'
       THEN \/ rows'[k] = rows[k]
            \/ /\ <<rows[k].status, rows'[k].status>> \in allowedTransitions
               /\ rows'[k].created = rows[k].created
       ELSE rows[k].status = "resolved"]_rows

(***************************************************************************)
(* An anomaly that was resolved and deleted does not come back as new: the *)
(* event has left the lookback window by then, unless its time stamp was   *)
(* in the future.                                                          *)
(***************************************************************************)
NoResurrection == pruned \cap DOMAIN rows = {}

-----------------------------------------------------------------------------
(* Of a finite set of buckets one is the newest: the set of those that are  *)
(* as new as some bucket and newer has a least one, by inclusion.           *)
LEMMA NewestExists ==
  ASSUME NEW S, S \subseteq Nat, IsFiniteSet(S), S # {}
  PROVE  \E f \in S : \A g \in S : f >= g
<1> DEFINE Since(f) == {g \in S : g >= f}
           T == {Since(f) : f \in S}
           R == StrictSubsetOrdering(S)
<1>1. T \subseteq FiniteSubsetsOf(S) /\ T # {}
  <2>1. \A f \in S : Since(f) \in SUBSET S
    OBVIOUS
  <2>2. \A f \in S : IsFiniteSet(Since(f))
    BY <2>1, FS_Subset
  <2> HIDE DEF Since
  <2> QED BY <2>1, <2>2 DEF FiniteSubsetsOf
<1>2. IsWellFoundedOn(R, FiniteSubsetsOf(S))
  BY FS_StrictSubsetOrderingWellFounded
<1>3. PICK U \in T : \A V \in T : ~(<<V, U>> \in R)
  <2> HIDE DEF T, R
  <2> QED BY <1>1, <1>2, WFMin
<1>4. PICK f \in S : U = Since(f)
  OBVIOUS
<1>5. ASSUME NEW g \in S, ~(f >= g) PROVE FALSE
  <2>1. f \in Since(f) /\ f \notin Since(g) /\ Since(g) \subseteq Since(f)
    <3>1. f \in Nat /\ g \in Nat /\ g > f
      BY <1>5
    <3>2. \A h \in S : h >= g => h >= f
      BY <3>1
    <3>3. f \in Since(f)
      BY <3>1
    <3>4. f \notin Since(g)
      BY <3>1
    <3>5. Since(g) \subseteq Since(f)
      BY <3>2
    <3> QED BY <3>3, <3>4, <3>5
  <2>2. Since(g) \in T /\ Since(g) \subseteq S /\ Since(f) \subseteq S
    OBVIOUS
  <2>3. <<Since(g), U>> \in R
    <3> HIDE DEF Since
    <3> QED BY <1>4, <2>1, <2>2 DEF StrictSubsetOrdering
  <2> QED BY <1>3, <2>2, <2>3
<1> QED BY <1>5

-----------------------------------------------------------------------------
(***************************************************************************)
(* What follows is proved for any events, flows, time stamps and limits.   *)
(***************************************************************************)

(* What is emitted names an event and a flow that are there. *)
LEMMA EmittedIsTyped ==
  ASSUME CorrelatorAssumption, TypeOK, NEW e \in Events
  PROVE  Emitted(e) \subseteq Keys
<1>1. \A f \in CorroboratingFlow(e) : f \in flows
  <2> DEFINE found == flows \cap Matching[e]
  <2>1. CASE found = {}
    BY <2>1 DEF CorroboratingFlow
  <2>2. CASE found # {}
    <3>0. found \subseteq Nat /\ IsFiniteSet(found)
      BY FS_Subset DEF CorrelatorAssumption, TypeOK
    <3>1. PICK f \in found : \A g \in found : f >= g
      BY <2>2, <3>0, NewestExists
    <3>2. Max(found) \in found
      BY <3>1 DEF Max
    <3> QED BY <2>2, <3>2 DEF CorroboratingFlow
  <2> QED BY <2>1, <2>2
<1> QED BY <1>1 DEF Emitted, Keys, TypeOK

LEMMA TypesHoldFirst == CorrelatorAssumption /\ Init => TypeOK
<1> SUFFICES ASSUME CorrelatorAssumption, Init PROVE TypeOK
  OBVIOUS
<1>1. Cardinality(work) <= MaxEvents
  BY FS_EmptySet DEF Init, CorrelatorAssumption
<1>2. DOMAIN syslog = {} /\ DOMAIN arrived = {} /\ DOMAIN flowAt = {} /\ DOMAIN rows = {}
  BY DEF Init
<1>3. 0 \in 0..MaxTime
  BY DEF CorrelatorAssumption
<1> QED BY <1>1, <1>2, <1>3 DEF Init, TypeOK

LEMMA TypesAreKept == CorrelatorAssumption /\ TypeOK /\ [Next]_vars => TypeOK'
<1> SUFFICES ASSUME CorrelatorAssumption, TypeOK, [Next]_vars PROVE TypeOK'
  OBVIOUS
<1>1. ASSUME NEW e \in Events, SyslogArrives(e) PROVE TypeOK'
  BY <1>1 DEF TypeOK, SyslogArrives, With, cycleVars
<1>2. ASSUME NEW f \in Flows, FlowArrives(f) PROVE TypeOK'
  BY <1>2 DEF TypeOK, FlowArrives, With, cycleVars
<1>3. CASE CycleBegins
  <2>1. work' \subseteq Recent(clock) /\ Cardinality(work') <= MaxEvents
    <3>1. CASE Cardinality(Recent(clock)) <= MaxEvents
      BY <1>3, <3>1 DEF CycleBegins, SecurityEvents
    <3>2. CASE ~(Cardinality(Recent(clock)) <= MaxEvents)
      BY <1>3, <3>2 DEF CycleBegins, SecurityEvents, kSubset, CorrelatorAssumption
    <3> QED BY <3>1, <3>2
  <2>2. Recent(clock) \subseteq Events
    BY DEF Recent, TypeOK
  <2> QED BY <1>3, <2>1, <2>2 DEF TypeOK, CycleBegins
<1>4. ASSUME NEW e \in Events, Correlate(e) PROVE TypeOK'
  <2>1. work' \subseteq work /\ Cardinality(work') <= MaxEvents
    <3>1. work' = work \ {e} /\ IsFiniteSet(work)
      BY <1>4, FS_Subset DEF Correlate, TypeOK, CorrelatorAssumption
    <3>2. Cardinality(work') <= Cardinality(work) /\ Cardinality(work) \in Nat /\ Cardinality(work') \in Nat
      BY <3>1, FS_Subset, FS_CardinalityType
    <3> QED BY <3>1, <3>2 DEF TypeOK, CorrelatorAssumption
  <2>2. queue' \subseteq [key : Keys, created : 0..MaxTime]
    BY <1>4, EmittedIsTyped DEF Correlate, TypeOK
  <2> QED BY <1>4, <2>1, <2>2 DEF TypeOK, Correlate
<1>5. CASE CycleEnds
  <2>1. work' = {} /\ Cardinality(work') <= MaxEvents
    BY <1>5, FS_EmptySet DEF CycleEnds, CorrelatorAssumption
  <2>2. UNCHANGED <<clock, syslog, flows, cycled, now, queue, rows, arrived, flowAt, pruned>> /\ running' = FALSE
    BY <1>5 DEF CycleEnds
  <2> QED BY <2>1, <2>2 DEF TypeOK
<1>6. CASE WriterStep
  <2>1. PICK w \in queue : /\ queue' = queue \ {w}
                           /\ InsertCorrelated(w) \/ UNCHANGED rows
                           /\ UNCHANGED <<clock, syslog, flows, cycleVars, arrived, flowAt, pruned>>
    BY <1>6 DEF WriterStep
  <2>2. w.key \in Keys /\ [status |-> "new", created |-> w.created] \in Row
    BY DEF TypeOK, Row
  <2>3. DOMAIN rows' \subseteq Keys /\ \A k \in DOMAIN rows' : rows'[k] \in Row
    BY <2>1, <2>2 DEF TypeOK, InsertCorrelated, With
  <2> QED BY <2>1, <2>3 DEF TypeOK, cycleVars
<1>7. CASE OperatorActs
  <2>1. PICK k \in DOMAIN rows, to \in {"new", "ack", "resolved"} :
          /\ rows' = [rows EXCEPT ![k].status = to]
          /\ UNCHANGED <<clock, syslog, flows, cycleVars, queue, arrived, flowAt, pruned>>
    BY <1>7 DEF OperatorActs, TransitionAnomaly
  <2>2. DOMAIN rows' \subseteq Keys /\ \A i \in DOMAIN rows' : rows'[i] \in Row
    BY <2>1 DEF TypeOK, Row
  <2> QED BY <2>1, <2>2 DEF TypeOK, cycleVars
<1>8. CASE PruneOnce
  BY <1>8 DEF TypeOK, PruneOnce, Prunable, Restrict, cycleVars
<1>9. CASE Tick
  <2>1. clock' \in 0..MaxTime
    BY <1>9 DEF TypeOK, Tick, CorrelatorAssumption
  <2> QED BY <1>9, <2>1 DEF TypeOK, Tick
<1>10. CASE UNCHANGED vars
  BY <1>10 DEF TypeOK, vars, cycleVars
<1> QED BY <1>1, <1>2, <1>3, <1>4, <1>5, <1>6, <1>7, <1>8, <1>9, <1>10 DEF Next, CorrelateOnce

(* DecisionsStand, of one anomaly. *)
Stands(k) ==
  IF k \in DOMAIN rows'
  THEN \/ rows'[k] = rows[k]
       \/ /\ <<rows[k].status, rows'[k].status>> \in allowedTransitions
          /\ rows'[k].created = rows[k].created
  ELSE rows[k].status = "resolved"

LEMMA StepsStand == ASSUME TypeOK, [Next]_vars, NEW k \in DOMAIN rows PROVE Stands(k)
<1>1. ASSUME NEW w \in queue, InsertCorrelated(w) PROVE Stands(k)
  BY <1>1 DEF InsertCorrelated, With, Stands
<1>2. ASSUME NEW i \in DOMAIN rows, NEW from, NEW to, TransitionAnomaly(i, from, to) PROVE Stands(k)
  <2>1. k \in DOMAIN rows' /\ rows[k] \in Row
    BY <1>2 DEF TransitionAnomaly, TypeOK
  <2>2. CASE k # i
    BY <1>2, <2>1, <2>2 DEF TransitionAnomaly, Stands
  <2>3. CASE k = i
    <3>1. rows'[k] = [rows[k] EXCEPT !.status = to]
      BY <1>2, <2>3 DEF TransitionAnomaly
    <3>2. rows'[k].created = rows[k].created /\ rows'[k].status = to
      BY <2>1, <3>1 DEF Row
    <3> QED BY <1>2, <2>1, <2>3, <3>2 DEF TransitionAnomaly, Stands
  <2> QED BY <2>2, <2>3
<1>3. ASSUME NEW i \in Prunable, rows' = Restrict(rows, DOMAIN rows \ {i}) PROVE Stands(k)
  BY <1>3 DEF Prunable, Restrict, Stands
<1>4. CASE UNCHANGED rows
  BY <1>4 DEF Stands
<1>5. WriterStep => Stands(k)
  BY <1>1, <1>4 DEF WriterStep
<1>6. OperatorActs => Stands(k)
  BY <1>2 DEF OperatorActs
<1>7. PruneOnce => Stands(k)
  BY <1>3 DEF PruneOnce
<1>8. CASE \/ \E e \in Events : SyslogArrives(e)
           \/ \E f \in Flows : FlowArrives(f)
           \/ CorrelateOnce \/ Tick \/ UNCHANGED vars
  <2>1. UNCHANGED rows
    BY <1>8 DEF SyslogArrives, FlowArrives, CorrelateOnce, CycleBegins, Correlate, CycleEnds, Tick, vars
  <2> QED BY <1>4, <2>1
<1> QED BY <1>5, <1>6, <1>7, <1>8 DEF Next

(***************************************************************************)
(* TransitionAnomaly, InsertCorrelatedSQL, PruneOnce: whatever overlaps,   *)
(* anomalies only move forward, and only resolved ones are deleted.        *)
(***************************************************************************)
THEOREM AnomaliesMoveForward ==
  ASSUME CorrelatorAssumption
  PROVE  Spec => []TypeOK /\ DecisionsStand
<1>1. TypeOK /\ [Next]_vars => [\A k \in DOMAIN rows : Stands(k)]_rows
  BY StepsStand
<1> QED BY <1>1, TypesHoldFirst, TypesAreKept, PTL DEF Spec, DecisionsStand, Stands

-----------------------------------------------------------------------------
(* While a cycle or the writer has something to do, it is this interval's.  *)
TimesInv ==
  /\ TypeOK
  /\ running \/ queue # {} => cycled /\ now = clock
  /\ work \subseteq DOMAIN syslog
  /\ \A e \in DOMAIN syslog : syslog[e] \in Int /\ arrived[e] \in Nat /\ arrived[e] <= clock
  /\ \A f \in flows : flowAt[f] \in Nat

LEMMA TimesHoldFirst == CorrelatorAssumption /\ Init => TimesInv
<1> SUFFICES ASSUME CorrelatorAssumption, Init PROVE TimesInv
  OBVIOUS
<1>1. DOMAIN syslog = {}
  BY DEF Init
<1> QED BY <1>1, TypesHoldFirst DEF Init, TimesInv

LEMMA TimesAreKept == CorrelatorAssumption /\ TimesInv /\ [Next]_vars => TimesInv'
<1> SUFFICES ASSUME CorrelatorAssumption, TimesInv, [Next]_vars PROVE TimesInv'
  OBVIOUS
<1>0. TypeOK' /\ TypeOK /\ clock \in Nat
  BY TypesAreKept DEF TimesInv, TypeOK
<1>1. ASSUME NEW e \in Events, SyslogArrives(e) PROVE TimesInv'
  <2>1. PICK s \in Skews : syslog' = With(syslog, e, clock + s) /\ arrived' = With(arrived, e, clock)
    BY <1>1 DEF SyslogArrives
  <2>2. clock + s \in Int /\ clock' = clock
    BY <1>0, <1>1 DEF CorrelatorAssumption, SyslogArrives
  <2>3. \A d \in DOMAIN syslog' : syslog'[d] \in Int /\ arrived'[d] \in Nat /\ arrived'[d] <= clock'
    BY <1>0, <2>1, <2>2 DEF With, TimesInv, TypeOK
  <2>4. DOMAIN syslog' = DOMAIN syslog \cup {e}
    BY <2>1 DEF With
  <2> QED BY <1>0, <1>1, <2>3, <2>4 DEF TimesInv, SyslogArrives, cycleVars
<1>2. ASSUME NEW f \in Flows, FlowArrives(f) PROVE TimesInv'
  <2>1. \A g \in flows' : flowAt'[g] \in Nat
    BY <1>0, <1>2 DEF FlowArrives, With, TimesInv, TypeOK
  <2> QED BY <1>0, <1>2, <2>1 DEF TimesInv, FlowArrives, cycleVars
<1>3. CASE CycleBegins
  <2>1. work' \subseteq Recent(clock)
    BY <1>3 DEF CycleBegins, SecurityEvents, kSubset
  <2> QED BY <1>0, <1>3, <2>1 DEF TimesInv, CycleBegins, Recent
<1>4. ASSUME NEW e \in Events, Correlate(e) PROVE TimesInv'
  BY <1>0, <1>4 DEF TimesInv, Correlate
<1>5. CASE CycleEnds
  BY <1>0, <1>5 DEF TimesInv, CycleEnds
<1>6. CASE WriterStep
  BY <1>0, <1>6 DEF TimesInv, WriterStep, cycleVars
<1>7. CASE OperatorActs \/ PruneOnce
  <2>1. UNCHANGED <<clock, syslog, flows, cycled, now, work, running, queue, arrived, flowAt>>
    BY <1>7 DEF OperatorActs, PruneOnce, cycleVars
  <2> QED BY <1>0, <2>1 DEF TimesInv
<1>8. CASE Tick
  BY <1>0, <1>8 DEF TimesInv, Tick
<1>9. CASE UNCHANGED vars
  BY <1>0, <1>9 DEF TimesInv, vars, cycleVars
<1> QED BY <1>1, <1>2, <1>3, <1>4, <1>5, <1>6, <1>7, <1>8, <1>9 DEF Next, CorrelateOnce

(***************************************************************************)
(* An anomaly of e among some keys: it is reported, or on its way there.   *)
(***************************************************************************)
Written(e, K) == \E k \in DOMAIN rows \cup pruned : k[1] = e /\ k \in K
InHand(e, K) == e \in work \/ (\E w \in queue : w.key[1] = e /\ w.key \in K) \/ Written(e, K)

(* What is written stays so, or is kept as pruned. *)
LEMMA WrittenStays ==
  ASSUME TypeOK, [Next]_vars, NEW e, NEW K, Written(e, K)
  PROVE  Written(e, K)'
<1>1. DOMAIN rows \cup pruned \subseteq DOMAIN rows' \cup pruned'
  <2>1. CASE WriterStep
    BY <2>1 DEF WriterStep, InsertCorrelated, With
  <2>2. CASE OperatorActs
    BY <2>2 DEF OperatorActs, TransitionAnomaly
  <2>3. CASE PruneOnce
    BY <2>3 DEF PruneOnce, Restrict
  <2>4. CASE UNCHANGED <<rows, pruned>>
    BY <2>4
  <2>5. CASE \/ \E d \in Events : SyslogArrives(d)
             \/ \E f \in Flows : FlowArrives(f)
             \/ CorrelateOnce \/ Tick \/ UNCHANGED vars
    <3>1. UNCHANGED <<rows, pruned>>
      BY <2>5 DEF SyslogArrives, FlowArrives, CorrelateOnce, CycleBegins, Correlate, CycleEnds, Tick, vars
    <3> QED BY <2>4, <3>1
  <2> QED BY <2>1, <2>2, <2>3, <2>5 DEF Next
<1> QED BY <1>1 DEF Written

(* Without faults, what is in hand stays in hand, if its event is emitted    *)
(* with one of the keys.                                                     *)
LEMMA InHandStays ==
  ASSUME TypeOK, ~Faults, [Next]_vars, NEW e, NEW K, InHand(e, K),
         \E k \in Emitted(e) : k \in K
  PROVE  InHand(e, K)'
<1>1. CASE Written(e, K)
  BY <1>1, WrittenStays DEF InHand
<1>2. CASE \E w \in queue : w.key[1] = e /\ w.key \in K
  <2>1. PICK w \in queue : w.key[1] = e /\ w.key \in K
    BY <1>2
  <2>2. CASE w \in queue'
    BY <2>1, <2>2 DEF InHand
  <2>3. CASE w \notin queue'
    <3>1. CASE WriterStep
      <4>1. InsertCorrelated(w)
        BY <2>1, <2>3, <3>1 DEF WriterStep
      <4>2. w.key \in DOMAIN rows'
        BY <4>1 DEF InsertCorrelated, With
      <4> QED BY <2>1, <4>2 DEF InHand, Written
    <3>2. CASE \/ \E d \in Events : SyslogArrives(d) \/ Correlate(d)
               \/ \E f \in Flows : FlowArrives(f)
               \/ CycleBegins \/ CycleEnds \/ OperatorActs \/ PruneOnce \/ Tick \/ UNCHANGED vars
      <4>1. queue \subseteq queue'
        BY <3>2 DEF SyslogArrives, FlowArrives, CycleBegins, Correlate, CycleEnds, OperatorActs, PruneOnce,
                    Tick, vars
      <4> QED BY <2>1, <2>3, <4>1
    <3> QED BY <3>1, <3>2 DEF Next, CorrelateOnce
  <2> QED BY <2>2, <2>3
<1>3. CASE e \in work
  <2>1. CASE e \in work'
    BY <2>1 DEF InHand
  <2>2. CASE Correlate(e)
    <3>1. PICK k \in Emitted(e) : k \in K
      OBVIOUS
    <3>2. [key |-> k, created |-> now] \in queue'
      BY <2>2, <3>1 DEF Correlate
    <3>3. k[1] = e
      BY <3>1 DEF Emitted
    <3> QED BY <3>1, <3>2, <3>3 DEF InHand
  <2>3. CASE e \notin work' /\ ~Correlate(e)
    <3>1. ASSUME NEW d \in Events, Correlate(d) PROVE FALSE
      BY <1>3, <2>3, <3>1 DEF Correlate
    <3>2. ~CycleBegins /\ ~CycleEnds
      BY <1>3, <2>3 DEF CycleBegins, CycleEnds, TypeOK
    <3>3. CASE \/ \E d \in Events : SyslogArrives(d)
               \/ \E f \in Flows : FlowArrives(f)
               \/ WriterStep \/ OperatorActs \/ PruneOnce \/ Tick \/ UNCHANGED vars
      <4>1. work' = work
        BY <3>3 DEF SyslogArrives, FlowArrives, WriterStep, OperatorActs, PruneOnce, Tick, vars, cycleVars
      <4> QED BY <1>3, <2>3, <4>1
    <3> QED BY <3>1, <3>2, <3>3 DEF Next, CorrelateOnce
  <2> QED BY <2>1, <2>2, <2>3
<1> QED BY <1>1, <1>2, <1>3 DEF InHand

(* The interval ends when nothing is in hand but what is written. *)
LEMMA TickWrites ==
  ASSUME TypeOK, Tick, NEW e, NEW K, InHand(e, K)
  PROVE  Written(e, K)
BY DEF Tick, TypeOK, InHand

-----------------------------------------------------------------------------
(* What has to be reported when the interval T is over is in hand after its  *)
(* cycle.                                                                    *)
Due(e, T, K) ==
  /\ clock > T => Written(e, K)
  /\ clock = T /\ cycled => InHand(e, K)

WithFlow == {k \in Keys : k[2] # Alone}

(* A cycle that is not full takes every event of the window. *)
LEMMA CycleTakesAll ==
  ASSUME CorrelatorAssumption, TypeOK, Cardinality(Events) <= MaxEvents, CycleBegins
  PROVE  work' = Recent(clock)
<1>1. Recent(clock) \in SUBSET Events
  BY DEF Recent, TypeOK
<1>2. Cardinality(Recent(clock)) <= Cardinality(Events) /\ IsFiniteSet(Recent(clock)) /\ IsFiniteSet(Events)
  BY <1>1, FS_Subset DEF CorrelatorAssumption
<1>3. Cardinality(Recent(clock)) \in Nat /\ Cardinality(Events) \in Nat
  BY <1>2, FS_CardinalityType
<1>4. Cardinality(Recent(clock)) <= MaxEvents
  BY <1>2, <1>3 DEF CorrelatorAssumption
<1> QED BY <1>4 DEF CycleBegins, SecurityEvents

LEMMA DueStays ==
  ASSUME CorrelatorAssumption, TimesInv, ~Faults, Cardinality(Events) <= MaxEvents, [Next]_vars,
         NEW e \in DOMAIN syslog, NEW T \in Nat, T <= syslog[e] + Lookback, NEW K,
         \E k \in Emitted(e) : k \in K, Due(e, T, K)
  PROVE  Due(e, T, K)'
<1>0. TypeOK /\ clock \in Nat
  BY DEF TimesInv, TypeOK
<1>1. CASE Tick
  <2>1. clock' = clock + 1 /\ cycled /\ ~cycled'
    BY <1>1 DEF Tick
  <2>2. ASSUME clock' > T PROVE Written(e, K)
    BY <1>0, <1>1, <2>1, <2>2, TickWrites DEF Due
  <2> QED BY <1>0, <2>1, <2>2, WrittenStays DEF Due
<1>2. CASE CycleBegins
  <2>1. clock' = clock /\ work' = Recent(clock)
    BY <1>0, <1>2, CycleTakesAll DEF CycleBegins
  <2>2. ASSUME clock = T PROVE e \in work'
    BY <1>0, <2>1, <2>2 DEF Recent
  <2> QED BY <1>0, <2>1, <2>2, WrittenStays DEF Due, InHand
<1>3. CASE \/ \E d \in Events : SyslogArrives(d) \/ Correlate(d)
           \/ \E f \in Flows : FlowArrives(f)
           \/ CycleEnds \/ WriterStep \/ OperatorActs \/ PruneOnce \/ UNCHANGED vars
  <2>1. clock' = clock /\ cycled' = cycled
    BY <1>3 DEF SyslogArrives, Correlate, FlowArrives, CycleEnds, WriterStep, OperatorActs, PruneOnce, vars, cycleVars
  <2> QED BY <1>0, <2>1, InHandStays, WrittenStays DEF Due
<1> QED BY <1>1, <1>2, <1>3 DEF Next, CorrelateOnce

(* An event whose stamp the next cycle after its arrival looks back to. *)
InTime(e) == e \in Recent(arrived[e] + 1)

HighDue == \A e \in DOMAIN syslog \cap High : InTime(e) => Due(e, arrived[e] + 1, Keys)
LateDue ==
  \A e \in DOMAIN syslog : \A f \in flows \cap Matching[e] :
    InTime(e) /\ e \in Recent(flowAt[f] + 1) => Due(e, syslog[e] + Lookback, WithFlow)

EmergeInv == TimesInv /\ HighDue /\ LateDue

(* An event with a flow is emitted with one. *)
LEMMA EmittedWithFlow ==
  ASSUME CorrelatorAssumption, TypeOK, NEW e \in Events, NEW f \in flows \cap Matching[e]
  PROVE  \E k \in Emitted(e) : k \in WithFlow
<1> DEFINE found == flows \cap Matching[e]
<1>1. found \subseteq Nat \ {0} /\ IsFiniteSet(found) /\ found # {}
  BY FS_Subset DEF CorrelatorAssumption, TypeOK
<1>2. PICK g \in found : \A h \in found : g >= h
  BY <1>1, NewestExists
<1>3. Max(found) \in found
  BY <1>2 DEF Max
<1>4. <<e, Max(found)>> \in Emitted(e)
  BY <1>1 DEF Emitted, CorroboratingFlow
<1>5. Max(found) \in Flows /\ Max(found) # Alone
  BY <1>1, <1>3 DEF TypeOK, Alone
<1> QED BY <1>4, <1>5 DEF WithFlow, Keys

LEMMA HighIsEmitted ==
  ASSUME CorrelatorAssumption, TypeOK, NEW e \in Events \cap High
  PROVE  \E k \in Emitted(e) : k \in Keys
BY EmittedIsTyped DEF Emitted

LEMMA EmergingFirst == CorrelatorAssumption /\ Init => EmergeInv
<1> SUFFICES ASSUME CorrelatorAssumption, Init PROVE EmergeInv
  OBVIOUS
<1>1. DOMAIN syslog = {}
  BY DEF Init
<1> QED BY <1>1, TimesHoldFirst DEF EmergeInv, HighDue, LateDue

LEMMA EmergingStays ==
  ASSUME CorrelatorAssumption, ~Faults, Cardinality(Events) <= MaxEvents, EmergeInv, [Next]_vars
  PROVE  EmergeInv'
<1>0. TimesInv /\ TimesInv' /\ TypeOK /\ clock \in Nat /\ DOMAIN syslog \subseteq Events
  BY TimesAreKept DEF EmergeInv, TimesInv, TypeOK
<1>1. ASSUME NEW e \in DOMAIN syslog
      PROVE  e \in DOMAIN syslog' /\ syslog'[e] = syslog[e] /\ arrived'[e] = arrived[e]
  <2>1. CASE \E d \in Events : SyslogArrives(d)
    BY <1>0, <1>1, <2>1 DEF SyslogArrives, With, TypeOK
  <2>2. CASE ~\E d \in Events : SyslogArrives(d)
    <3>1. UNCHANGED <<syslog, arrived>>
      BY <2>2 DEF Next, FlowArrives, CorrelateOnce, CycleBegins, Correlate, CycleEnds, WriterStep, OperatorActs,
                  PruneOnce, Tick, vars
    <3> QED BY <1>1, <3>1
  <2> QED BY <2>1, <2>2
<1>2. ASSUME NEW e \in DOMAIN syslog', e \notin DOMAIN syslog
      PROVE  arrived'[e] = clock /\ clock' = clock
  <2>1. PICK d \in Events : SyslogArrives(d)
    BY <1>2 DEF Next, FlowArrives, CorrelateOnce, CycleBegins, Correlate, CycleEnds, WriterStep, OperatorActs,
                PruneOnce, Tick, vars
  <2> QED BY <1>2, <2>1 DEF SyslogArrives, With
<1>3. ASSUME NEW f \in flows' PROVE IF f \in flows THEN flowAt'[f] = flowAt[f]
                                    ELSE flowAt'[f] = clock /\ clock' = clock
  <2>1. CASE \E g \in Flows : FlowArrives(g)
    BY <1>0, <1>3, <2>1 DEF FlowArrives, With, TypeOK
  <2>2. CASE ~\E g \in Flows : FlowArrives(g)
    <3>1. UNCHANGED <<flows, flowAt>>
      BY <2>2 DEF Next, SyslogArrives, CorrelateOnce, CycleBegins, Correlate, CycleEnds, WriterStep, OperatorActs,
                  PruneOnce, Tick, vars
    <3> QED BY <1>3, <3>1
  <2> QED BY <2>1, <2>2
<1>4. Lookback \in Nat \ {0}
  BY DEF CorrelatorAssumption
<1>5. ASSUME NEW e, NEW T \in Nat, NEW K, clock' = clock, clock < T PROVE Due(e, T, K)'
  BY <1>0, <1>5 DEF Due
<1>6. ASSUME NEW e \in DOMAIN syslog' \cap High, NEW T, T = (arrived[e] + 1)', InTime(e)'
      PROVE  Due(e, T, Keys)'
  <2>0. T \in Nat /\ syslog'[e] \in Int /\ T <= syslog'[e] + Lookback
    BY <1>0, <1>4, <1>6 DEF TimesInv, InTime, Recent
  <2>1. CASE e \in DOMAIN syslog
    <3>1. T = arrived[e] + 1 /\ T <= syslog[e] + Lookback /\ InTime(e)
      BY <1>1, <1>6, <2>0, <2>1 DEF InTime, Recent
    <3>2. Due(e, T, Keys)
      BY <1>6, <2>1, <3>1 DEF EmergeInv, HighDue
    <3>3. \E k \in Emitted(e) : k \in Keys
      BY <1>0, <1>6, <2>1, HighIsEmitted
    <3> QED BY <1>0, <2>0, <2>1, <3>1, <3>2, <3>3, DueStays
  <2>2. CASE e \notin DOMAIN syslog
    <3>1. clock' = clock /\ clock < T
      BY <1>0, <1>2, <1>6, <2>2
    <3> QED BY <1>5, <2>0, <3>1
  <2> QED BY <2>1, <2>2
<1>7. ASSUME NEW e \in DOMAIN syslog', NEW f \in flows' \cap Matching[e], NEW T,
             T = (syslog[e] + Lookback)', InTime(e)', (e \in Recent(flowAt[f] + 1))'
      PROVE  Due(e, T, WithFlow)'
  <2>0. /\ T \in Nat /\ T = syslog'[e] + Lookback
        /\ arrived'[e] + 1 <= T /\ flowAt'[f] + 1 <= T /\ flowAt'[f] \in Nat /\ arrived'[e] \in Nat
    BY <1>0, <1>4, <1>7 DEF TimesInv, InTime, Recent
  <2>1. CASE e \in DOMAIN syslog /\ f \in flows
    <3>1. T = syslog[e] + Lookback /\ InTime(e) /\ e \in Recent(flowAt[f] + 1) /\ T <= syslog[e] + Lookback
      BY <1>1, <1>3, <1>7, <2>0, <2>1 DEF InTime, Recent
    <3>2. Due(e, T, WithFlow)
      BY <1>7, <2>1, <3>1 DEF EmergeInv, LateDue
    <3>3. \E k \in Emitted(e) : k \in WithFlow
      BY <1>0, <1>7, <2>1, EmittedWithFlow
    <3> QED BY <1>0, <2>0, <2>1, <3>1, <3>2, <3>3, DueStays
  <2>2. CASE e \notin DOMAIN syslog
    <3>1. clock' = clock /\ clock < T
      BY <1>0, <1>2, <2>0, <2>2
    <3> QED BY <1>5, <2>0, <3>1
  <2>3. CASE f \notin flows
    <3>1. clock' = clock /\ clock < T
      BY <1>0, <1>3, <1>7, <2>0, <2>3
    <3> QED BY <1>5, <2>0, <3>1
  <2> QED BY <2>1, <2>2, <2>3
<1>8. HighDue'
  BY <1>6 DEF HighDue, Due, InTime
<1>9. LateDue'
  BY <1>7 DEF LateDue, Due, InTime, Recent
<1> QED BY <1>0, <1>8, <1>9 DEF EmergeInv

LEMMA Emerged ==
  ASSUME CorrelatorAssumption, EmergeInv
  PROVE  HighSeverityEmerges /\ LateFlowIsCorrelated
<1>1. ASSUME NEW e, NEW K, Written(e, K) PROVE \E k \in Reported(e) : k \in K
  BY <1>1 DEF Written, Reported
<1>2. HighSeverityEmerges
  BY <1>1 DEF EmergeInv, HighDue, Due, HighSeverityEmerges, InTime
<1>3. LateFlowIsCorrelated
  <2> SUFFICES ASSUME NEW e \in DOMAIN syslog, NEW f \in flows \cap Matching[e],
                      e \in Recent(arrived[e] + 1), e \in Recent(flowAt[f] + 1),
                      clock > syslog[e] + Lookback
               PROVE  \E k \in Reported(e) : k[2] # Alone
    BY DEF LateFlowIsCorrelated
  <2>1. Written(e, WithFlow)
    BY DEF EmergeInv, LateDue, Due, InTime
  <2> QED BY <1>1, <2>1 DEF WithFlow
<1> QED BY <1>2, <1>3

(***************************************************************************)
(* CorrelateOnce with a limit that no cycle reaches, and nothing lost: for *)
(* stamps as far ahead of the clock or behind it as devices write them, a  *)
(* severe event that the cycle after its arrival looks back to is an       *)
(* anomaly by the end of that interval, and an event that it looks back to *)
(* is correlated with a flow that comes before its window is over, in      *)
(* whatever order they come.                                               *)
(***************************************************************************)
THEOREM EventsEmerge ==
  ASSUME CorrelatorAssumption, ~Faults, Cardinality(Events) <= MaxEvents
  PROVE  Spec => [](HighSeverityEmerges /\ LateFlowIsCorrelated)
BY EmergingFirst, EmergingStays, Emerged, PTL DEF Spec

-----------------------------------------------------------------------------
(* What a cycle has in hand, and what is reported, was inside the window    *)
(* when it arrived: the window only moves on.                               *)
Fresh(e) == e \in Recent(arrived[e])

FreshInv ==
  /\ TimesInv
  /\ \A e \in work : Fresh(e)
  /\ \A w \in queue : Fresh(w.key[1])
  /\ \A k \in DOMAIN rows \cup pruned : Fresh(k[1])

LEMMA FreshFirst == CorrelatorAssumption /\ Init => FreshInv
<1> SUFFICES ASSUME CorrelatorAssumption, Init PROVE FreshInv
  OBVIOUS
<1>1. DOMAIN rows = {}
  BY DEF Init
<1> QED BY <1>1, TimesHoldFirst DEF Init, FreshInv

LEMMA FreshStays ==
  ASSUME CorrelatorAssumption, FreshInv, [Next]_vars
  PROVE  FreshInv'
<1>0. TimesInv' /\ TimesInv /\ TypeOK /\ clock \in Nat /\ Lookback \in Nat
  BY TimesAreKept DEF FreshInv, TimesInv, TypeOK, CorrelatorAssumption
<1>1. ASSUME NEW e \in Events, SyslogArrives(e) PROVE FreshInv'
  <2>1. /\ e \notin DOMAIN syslog /\ arrived' = With(arrived, e, clock)
        /\ \E s \in Skews : syslog' = With(syslog, e, clock + s)
        /\ UNCHANGED <<work, queue, rows, pruned>>
    BY <1>1 DEF SyslogArrives, cycleVars
  <2>2. ASSUME NEW d, Fresh(d) PROVE Fresh(d)'
    <3>1. d \in DOMAIN syslog /\ d \in DOMAIN arrived /\ d # e
      BY <1>0, <2>1, <2>2 DEF Fresh, Recent, TypeOK
    <3>2. d \in DOMAIN syslog' /\ syslog'[d] = syslog[d] /\ arrived'[d] = arrived[d]
      BY <2>1, <3>1 DEF With
    <3> QED BY <2>2, <3>2 DEF Fresh, Recent
  <2> QED BY <1>0, <2>1, <2>2 DEF FreshInv
<1>2. CASE CycleBegins
  <2>1. work' \subseteq Recent(clock) /\ UNCHANGED <<syslog, arrived, queue, rows, pruned>>
    BY <1>2 DEF CycleBegins, SecurityEvents, kSubset
  <2>2. \A e \in Recent(clock) : Fresh(e)
    BY <1>0 DEF Recent, Fresh, TimesInv
  <2> QED BY <1>0, <2>1, <2>2 DEF FreshInv, Fresh, Recent
<1>3. ASSUME NEW e \in Events, Correlate(e) PROVE FreshInv'
  <2>1. /\ work' \subseteq work /\ e \in work
        /\ queue' \subseteq queue \cup {[key |-> k, created |-> now] : k \in Emitted(e)}
        /\ UNCHANGED <<syslog, arrived, rows, pruned>>
    BY <1>3 DEF Correlate
  <2>2. \A k \in Emitted(e) : k[1] = e
    BY DEF Emitted
  <2>3. \A w \in queue' : Fresh(w.key[1])
    BY <2>1, <2>2 DEF FreshInv
  <2> QED BY <1>0, <2>1, <2>3 DEF FreshInv, Fresh, Recent
<1>4. CASE WriterStep
  <2>1. PICK w \in queue : /\ queue' = queue \ {w}
                           /\ InsertCorrelated(w) \/ UNCHANGED rows
                           /\ UNCHANGED <<syslog, arrived, work, pruned>>
    BY <1>4 DEF WriterStep, cycleVars
  <2>2. DOMAIN rows' \subseteq DOMAIN rows \cup {w.key}
    BY <2>1 DEF InsertCorrelated, With
  <2> QED BY <1>0, <2>1, <2>2 DEF FreshInv, Fresh, Recent
<1>5. CASE OperatorActs
  <2>1. DOMAIN rows' = DOMAIN rows /\ UNCHANGED <<syslog, arrived, work, queue, pruned>>
    BY <1>5 DEF OperatorActs, TransitionAnomaly, cycleVars
  <2> QED BY <1>0, <2>1 DEF FreshInv, Fresh, Recent
<1>6. CASE PruneOnce
  <2>1. DOMAIN rows' \cup pruned' \subseteq DOMAIN rows \cup pruned /\ UNCHANGED <<syslog, arrived, work, queue>>
    BY <1>6 DEF PruneOnce, Prunable, Restrict, cycleVars
  <2> QED BY <1>0, <2>1 DEF FreshInv, Fresh, Recent
<1>7. CASE (\E f \in Flows : FlowArrives(f)) \/ CycleEnds \/ Tick \/ UNCHANGED vars
  <2>1. work' \subseteq work /\ UNCHANGED <<syslog, arrived, queue, rows, pruned>>
    BY <1>7 DEF FlowArrives, CycleEnds, Tick, vars, cycleVars
  <2> QED BY <1>0, <2>1 DEF FreshInv, Fresh, Recent
<1> QED BY <1>1, <1>2, <1>3, <1>4, <1>5, <1>6, <1>7 DEF Next, CorrelateOnce

LEMMA FreshOnly == ASSUME FreshInv PROVE StaleStampsAreMissed
BY DEF FreshInv, Fresh, Reported, StaleStampsAreMissed

(***************************************************************************)
(* SecurityEvents, whatever fails and however full a cycle is: an event    *)
(* that arrives with a stamp older than the lookback is never an anomaly.  *)
(* What "emerge comunque" (correlator.go:101) says of severe events holds  *)
(* under the condition of EventsEmerge only.                               *)
(***************************************************************************)
THEOREM StaleEventsAreMissed ==
  ASSUME CorrelatorAssumption
  PROVE  Spec => []StaleStampsAreMissed
BY FreshFirst, FreshStays, FreshOnly, PTL DEF Spec

-----------------------------------------------------------------------------
(* No stamp ahead: a row is as old as its event at least, so the event of    *)
(* a pruned one is outside the window, and no cycle hands it over again.     *)
Gone(e) == syslog[e] + Lookback < clock

PrunedInv ==
  /\ TimesInv
  /\ \A e \in DOMAIN syslog : syslog[e] <= clock
  /\ \A e \in work : ~Gone(e)
  /\ \A w \in queue : w.created = clock /\ w.key[1] \in DOMAIN syslog /\ ~Gone(w.key[1])
  /\ \A k \in DOMAIN rows : k[1] \in DOMAIN syslog /\ syslog[k[1]] <= rows[k].created
  /\ \A k \in pruned : k[1] \in DOMAIN syslog /\ Gone(k[1])
  /\ NoResurrection

LEMMA PrunedFirst == CorrelatorAssumption /\ Init => PrunedInv
<1> SUFFICES ASSUME CorrelatorAssumption, Init PROVE PrunedInv
  OBVIOUS
<1>1. DOMAIN syslog = {} /\ DOMAIN rows = {}
  BY DEF Init
<1> QED BY <1>1, TimesHoldFirst DEF Init, PrunedInv, NoResurrection

LEMMA PrunedStays ==
  ASSUME CorrelatorAssumption, \A s \in Skews : s <= 0, Lookback <= Retention, PrunedInv, [Next]_vars
  PROVE  PrunedInv'
<1>0. TimesInv' /\ TimesInv /\ TypeOK /\ clock \in Nat /\ Lookback \in Nat /\ Retention \in Nat
  BY TimesAreKept DEF PrunedInv, TimesInv, TypeOK, CorrelatorAssumption
<1>1. ASSUME NEW e \in Events, SyslogArrives(e) PROVE PrunedInv'
  <2>1. PICK s \in Skews : /\ e \notin DOMAIN syslog /\ syslog' = With(syslog, e, clock + s)
                           /\ UNCHANGED <<clock, work, queue, rows, pruned>>
    BY <1>1 DEF SyslogArrives, cycleVars
  <2>2. \A d \in DOMAIN syslog : d \in DOMAIN syslog' /\ syslog'[d] = syslog[d] /\ Gone(d)' = Gone(d)
    BY <2>1 DEF With, Gone
  <2>3. \A d \in DOMAIN syslog' : syslog'[d] <= clock'
    <3>1. s \in Int /\ clock + s <= clock
      BY <1>0 DEF CorrelatorAssumption
    <3> QED BY <1>0, <2>1, <3>1 DEF PrunedInv, With
  <2>4. work \subseteq DOMAIN syslog
    BY DEF PrunedInv, TimesInv
  <2> QED BY <1>0, <2>1, <2>2, <2>3, <2>4 DEF PrunedInv, NoResurrection
<1>2. CASE CycleBegins
  <2>1. work' \subseteq Recent(clock) /\ UNCHANGED <<clock, syslog, queue, rows, pruned>>
    BY <1>2 DEF CycleBegins, SecurityEvents, kSubset
  <2>2. \A e \in Recent(clock) : ~Gone(e)
    BY <1>0 DEF Recent, Gone, TimesInv
  <2> QED BY <1>0, <2>1, <2>2 DEF PrunedInv, Gone, NoResurrection
<1>3. ASSUME NEW e \in Events, Correlate(e) PROVE PrunedInv'
  <2>1. /\ work' \subseteq work /\ e \in work /\ now = clock
        /\ queue' \subseteq queue \cup {[key |-> k, created |-> now] : k \in Emitted(e)}
        /\ UNCHANGED <<clock, syslog, rows, pruned>>
    BY <1>0, <1>3 DEF Correlate, TimesInv
  <2>2. \A k \in Emitted(e) : k[1] = e
    BY DEF Emitted
  <2>3. e \in DOMAIN syslog /\ ~Gone(e)
    BY <2>1 DEF PrunedInv, TimesInv
  <2>4. \A w \in queue' : w.created = clock /\ w.key[1] \in DOMAIN syslog /\ ~Gone(w.key[1])
    BY <2>1, <2>2, <2>3 DEF PrunedInv
  <2> QED BY <1>0, <2>1, <2>4 DEF PrunedInv, Gone, NoResurrection
<1>4. CASE WriterStep
  <2>1. PICK w \in queue : /\ queue' = queue \ {w}
                           /\ InsertCorrelated(w) \/ UNCHANGED rows
                           /\ UNCHANGED <<clock, syslog, work, pruned>>
    BY <1>4 DEF WriterStep, cycleVars
  <2>2. w.key \notin pruned /\ w.key[1] \in DOMAIN syslog /\ syslog[w.key[1]] <= w.created
    BY DEF PrunedInv
  <2>3. \A k \in DOMAIN rows' : \/ k \in DOMAIN rows /\ rows'[k] = rows[k]
                                \/ k = w.key /\ rows'[k].created = w.created
    BY <2>1 DEF InsertCorrelated, With
  <2>4. NoResurrection'
    BY <2>1, <2>2, <2>3 DEF PrunedInv, NoResurrection
  <2>5. \A k \in DOMAIN rows' : k[1] \in DOMAIN syslog /\ syslog[k[1]] <= rows'[k].created
    BY <2>2, <2>3 DEF PrunedInv
  <2> QED BY <1>0, <2>1, <2>4, <2>5 DEF PrunedInv, Gone
<1>5. CASE OperatorActs
  <2>1. UNCHANGED <<clock, syslog, work, queue, pruned>>
    BY <1>5 DEF OperatorActs, cycleVars
  <2>2. DOMAIN rows' = DOMAIN rows /\ \A k \in DOMAIN rows : rows'[k].created = rows[k].created
    <3>1. PICK k \in DOMAIN rows, to \in {"new", "ack", "resolved"} : rows' = [rows EXCEPT ![k].status = to]
      BY <1>5 DEF OperatorActs, TransitionAnomaly
    <3>2. rows[k] \in Row
      BY <1>0 DEF TypeOK
    <3> QED BY <3>1, <3>2 DEF Row
  <2> QED BY <1>0, <2>1, <2>2 DEF PrunedInv, Gone, NoResurrection
<1>6. CASE PruneOnce
  <2>1. PICK k \in Prunable : /\ rows' = Restrict(rows, DOMAIN rows \ {k})
                              /\ pruned' = pruned \cup {k}
                              /\ UNCHANGED <<clock, syslog, work, queue>>
    BY <1>6 DEF PruneOnce, cycleVars
  <2>2. DOMAIN rows' = DOMAIN rows \ {k} /\ \A i \in DOMAIN rows' : rows'[i] = rows[i]
    BY <2>1 DEF Restrict
  <2>3. k[1] \in DOMAIN syslog /\ Gone(k[1])
    <3>1. k \in DOMAIN rows /\ rows[k].created + Retention < clock /\ rows[k] \in Row
      BY <1>0 DEF Prunable, TypeOK
    <3>2. k[1] \in DOMAIN syslog /\ syslog[k[1]] <= rows[k].created
      BY <3>1 DEF PrunedInv
    <3>3. rows[k].created \in Nat /\ syslog[k[1]] \in Int
      BY <1>0, <3>1, <3>2 DEF Row, TimesInv
    <3> QED BY <1>0, <3>1, <3>2, <3>3 DEF Gone
  <2>4. NoResurrection'
    BY <2>1, <2>2 DEF PrunedInv, NoResurrection
  <2> QED BY <1>0, <2>1, <2>2, <2>3, <2>4 DEF PrunedInv, Gone
<1>7. CASE Tick
  <2>1. clock' = clock + 1 /\ work = {} /\ queue = {} /\ UNCHANGED <<syslog, work, queue, rows, pruned>>
    BY <1>0, <1>7 DEF Tick, TypeOK
  <2>2. \A e \in DOMAIN syslog : Gone(e) => Gone(e)'
    BY <1>0, <2>1 DEF Gone, TimesInv
  <2>3. \A e \in DOMAIN syslog : syslog[e] <= clock'
    BY <1>0, <2>1 DEF PrunedInv, TimesInv
  <2> QED BY <1>0, <2>1, <2>2, <2>3 DEF PrunedInv, NoResurrection
<1>8. CASE (\E f \in Flows : FlowArrives(f)) \/ CycleEnds \/ UNCHANGED vars
  <2>1. work' \subseteq work /\ UNCHANGED <<clock, syslog, queue, rows, pruned>>
    BY <1>8 DEF FlowArrives, CycleEnds, vars, cycleVars
  <2> QED BY <1>0, <2>1 DEF PrunedInv, Gone, NoResurrection
<1> QED BY <1>1, <1>2, <1>3, <1>4, <1>5, <1>6, <1>7, <1>8 DEF Next, CorrelateOnce

(***************************************************************************)
(* PruneOnce and correlationLookback: as long as no stamp is ahead of the  *)
(* clock and the retention is not shorter than the window, an anomaly that *)
(* was resolved and deleted does not come back, faults or not.             *)
(***************************************************************************)
THEOREM DeletedStaysDeleted ==
  ASSUME CorrelatorAssumption, \A s \in Skews : s <= 0, Lookback <= Retention
  PROVE  Spec => []NoResurrection
<1>1. PrunedInv => NoResurrection
  BY DEF PrunedInv
<1> QED BY <1>1, PrunedFirst, PrunedStays, PTL DEF Spec
=============================================================================
