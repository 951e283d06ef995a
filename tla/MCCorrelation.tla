---------------------------- MODULE MCCorrelation ----------------------------
(***************************************************************************)
(* Correlator and Incidents, for TLC, side by side: part says which one    *)
(* runs, and under which conditions, while the other stays as it begins.   *)
(***************************************************************************)
EXTENDS Integers, Sequences, FiniteSets

CONSTANTS
  e1, e2, n1, n2, anna, bruno,
  Events, High, Flows, Matching, Skews, Lookback, MaxEvents, Retention, Faults, MaxTime

VARIABLES
  part,
  clock, syslog, flows, cycled, now, work, running, queue, rows, arrived, flowAt, pruned,
  evidence, incidents, conclusions, stage, list, chosen, touched, verdict, seen,
  rounds, broken, failed, aged, unseen

correlatorVars ==
  <<clock, syslog, flows, cycled, now, work, running, queue, rows, arrived, flowAt, pruned>>
incidentVars == <<evidence, incidents, conclusions, stage, list, chosen, touched, verdict, seen,
                  rounds, broken, failed, aged, unseen>>

(* The first event has two buckets, the second shares the newer one. *)
TwoEvents == {e1, e2}
SomeMatching == [e \in TwoEvents |-> IF e = e1 THEN {1, 2} ELSE {2}]

(* Queries fail, writes are lost, stamps are in the future or older than    *)
(* the lookback, cycles are full.                                          *)
SomeSkews == {0 - Lookback - 1, 0, 1}
Faulty == INSTANCE Correlator

(* Nothing fails, no stamp is in the future, some are so old that only one  *)
(* more cycle looks back to them, a cycle takes every event, and what it   *)
(* may look back at is kept.                                               *)
Timely == INSTANCE Correlator WITH
  Skews <- {1 - Lookback, 0}, MaxEvents <- Cardinality(Events), Retention <- Lookback, Faults <- FALSE, MaxTime <- 4

(***************************************************************************)
(* Two triggers, the later name the more severe, and evidence that only    *)
(* supports.                                                               *)
(***************************************************************************)
Trigger(rule, severity) == [role |-> "trigger", rule |-> rule, severity |-> severity]
ThreeKinds ==
  {Trigger("r1", 4), Trigger("r2", 2), [role |-> "supporting", rule |-> "r3", severity |-> 5]}
OneKind == {Trigger("r1", 4)}

(* Evidence in any order of its time stamps, no grouping cut off. *)
AnyOrder == INSTANCE Incidents WITH pc <- stage, drawn <- verdict,
  Kinds <- ThreeKinds, Entities <- {n1}, Times <- {0, 2}, Gap <- 1, InOrder <- FALSE,
  Operators <- {}, MaxEvidence <- 3, MaxAged <- 0, MaxRounds <- 2, MaxBroken <- 0, MaxFailed <- 0

(* Groupings cut off anywhere, and a statement that fails. *)
CutOff == INSTANCE Incidents WITH pc <- stage, drawn <- verdict,
  Kinds <- OneKind, Entities <- {n1}, Times <- {0, 2}, Gap <- 1, InOrder <- FALSE,
  Operators <- {}, MaxEvidence <- 3, MaxAged <- 0, MaxRounds <- 2, MaxBroken <- 2, MaxFailed <- 1

(* Two entities, evidence in the order of its time stamps. *)
InTime == INSTANCE Incidents WITH pc <- stage, drawn <- verdict,
  Kinds <- OneKind, Entities <- {n1, n2}, Times <- 0..2, Gap <- 1, InOrder <- TRUE,
  Operators <- {}, MaxEvidence <- 3, MaxAged <- 1, MaxRounds <- 2, MaxBroken <- 0, MaxFailed <- 0

(* Two operators with pages of any age, while evidence is grouped. *)
Operated == INSTANCE Incidents WITH pc <- stage, drawn <- verdict,
  Kinds <- OneKind, Entities <- {n1}, Times <- 0..2, Gap <- 1, InOrder <- FALSE,
  Operators <- {anna, bruno}, MaxEvidence <- 2, MaxAged <- 2, MaxRounds <- 2, MaxBroken <- 0, MaxFailed <- 0

ASSUME ConstantsAreRight ==
  /\ Faulty!CorrelatorAssumption /\ Timely!CorrelatorAssumption
  /\ AnyOrder!IncidentsAssumption /\ CutOff!IncidentsAssumption
  /\ InTime!IncidentsAssumption /\ Operated!IncidentsAssumption

-----------------------------------------------------------------------------
MCInit ==
  /\ part \in {"timely", "faulty", "unordered", "cut", "ordered", "operated"}
  /\ Faulty!Init
  /\ IF part = "operated" THEN Operated!Init ELSE AnyOrder!Init

MCNext ==
  \/ part = "timely" /\ Timely!Next /\ UNCHANGED <<part, incidentVars>>
  \/ part = "faulty" /\ Faulty!Next /\ UNCHANGED <<part, incidentVars>>
  \/ part = "unordered" /\ AnyOrder!Next /\ UNCHANGED <<part, correlatorVars>>
  \/ part = "cut" /\ CutOff!Next /\ UNCHANGED <<part, correlatorVars>>
  \/ part = "ordered" /\ InTime!Next /\ UNCHANGED <<part, correlatorVars>>
  \/ part = "operated" /\ Operated!Next /\ UNCHANGED <<part, correlatorVars>>

MCVars == <<part, correlatorVars, incidentVars>>
MCSpec == MCInit /\ [][MCNext]_MCVars

-----------------------------------------------------------------------------
(* The properties of both modules, each where it applies. *)

(***************************************************************************)
(* Correlator: if no cycle is full and nothing is lost, a severe event     *)
(* whose stamp the next cycle looks back to is an anomaly soon, and an     *)
(* event with a late flow is correlated with it; a resolved anomaly that   *)
(* was deleted stays away, if no stamp is in the future; and an event with *)
(* a stamp older than the lookback is never an anomaly, however severe.    *)
(***************************************************************************)
EventsEmergeInTime ==
  /\ part = "timely" => /\ Timely!HighSeverityEmerges /\ Timely!LateFlowIsCorrelated
                        /\ Timely!NoResurrection /\ Timely!StaleStampsAreMissed
  /\ part = "faulty" => Faulty!StaleStampsAreMissed

(***************************************************************************)
(* Incidents: the counters and the span of an incident are those of its    *)
(* evidence; a restart loses at most the count of the row it fell on; and  *)
(* silences longer than the gap part incidents, if evidence is in time.    *)
(***************************************************************************)
IncidentsFollowEvidence ==
  /\ part = "timely" => Timely!TypeOK
  /\ part = "faulty" => Faulty!TypeOK
  /\ part = "unordered" => AnyOrder!FollowsEvidence
  /\ part = "cut" => CutOff!FollowsEvidence
  /\ part = "ordered" => InTime!FollowsEvidence /\ InTime!GapKept
  /\ part = "operated" => Operated!FollowsEvidence

(***************************************************************************)
(* Incidents: cause and conclusion follow the evidence that still stands,  *)
(* unless no grouping came within LookbackSeconds of a retraction; and     *)
(* there is one current conclusion, but for statements that failed.        *)
(***************************************************************************)
ConclusionsStand ==
  /\ part = "unordered" => AnyOrder!Concludes
  /\ part = "cut" => CutOff!Concludes
  /\ part = "ordered" => InTime!Concludes
  /\ part = "operated" => Operated!Concludes

(***************************************************************************)
(* What an operator decided, on an anomaly or an incident, is never undone *)
(* by another with an old page, by the correlator or by the grouping; only *)
(* resolved anomalies are deleted; and evidence once linked stays with its *)
(* incident.                                                               *)
(***************************************************************************)
NothingIsUndone == Faulty!DecisionsStand /\ Operated!DecisionsStand /\ AnyOrder!LinkedForGood
=============================================================================
