\* Two events and two flow buckets for the correlator; two or three rows of
\* evidence, two groupings and two operators for the incidents.  Clocks and
\* rows are bounded, so a behaviour may come to an end.
CONSTANTS
  e1 = e1
  e2 = e2
  n1 = n1
  n2 = n2
  anna = anna
  bruno = bruno
  Events <- TwoEvents
  High = {e1}
  Flows = {1, 2}
  Matching <- SomeMatching
  Skews <- SomeSkews
  Lookback = 2
  MaxEvents = 1
  Retention = 1
  Faults = TRUE
  MaxTime = 3
SPECIFICATION MCSpec
CHECK_DEADLOCK FALSE
INVARIANTS
  EventsEmergeInTime
  IncidentsFollowEvidence
  ConclusionsStand
PROPERTIES
  NothingIsUndone
