\* One agent, one job, and a site that is deleted and made again.
CONSTANTS
  Writes = {w1, w2, w3}
  Syncers = {y1}
  QueueMax = 3
  BatchSize = 2
  r1 = r1
  r2 = r2
  p1 = p1
  p2 = p2
  ipfix = ipfix
  syslog = syslog
  Off = Off
  s1 = s1
  s2 = s2
  a1 = a1
  a2 = a2
  b1 = b1
SPECIFICATION MCSpec
CHECK_DEADLOCK FALSE
PROPERTY ExecutedWhereAsked
