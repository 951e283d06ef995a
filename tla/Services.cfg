\* Three writes and a Sync call against a queue of three and batches of two;
\* two requests and Shutdown on two listeners and two ports; agents of one and
\* of two sites.  Requests and jobs are bounded, so a behaviour may come to an end.
CONSTANTS
  Writes = {w1, w2, w3}
  Syncers = {y1}
  QueueMax = 3
  BatchSize = 2
  r1 = r1
  r2 = r2
  p1 = p1
  p2 = p2
  ipfix = ipfix
  syslog = syslog
  Off = Off
  s1 = s1
  s2 = s2
  a1 = a1
  a2 = a2
  b1 = b1
SPECIFICATION MCSpec
CHECK_DEADLOCK FALSE
INVARIANTS
  TypeOK
  CallsCoverEarlierWrites
  MetricsAccountForWrites
  ListenersAreTrue
PROPERTIES
  ImplementsWriteLog
  CommandsAreTrue
  ServicesFinish
