\* Two requests save the settings of the monitor of three devices; two clients
\* ask for triage; two jobs of three hosts; two commands on a session;
\* networks of five bits; two requests about two sites and two or three users.
\* Requests are bounded, so a behaviour may come to an end.
CONSTANTS
  d1 = d1
  d2 = d2
  d3 = d3
  c1 = c1
  c2 = c2
  central = central
  s1 = s1
  q1 = q1
  q2 = q2
  m1 = m1
  m2 = m2
  m3 = m3
  SiteIds = {central, s1}
  Default = central
  Admins = {q1, q2}
  MaxTokens = 2
  Names = {m1, m2, m3}
  Requests = {q1, q2}
  MaxServed = 5
  Clients = {c1, c2}
  Groups <- Selections
  Concurrency = 2
  MaxBatches = 2
  Pollers = {c1}
  Hosts <- Requested
  Limit = 2
  NCmds = 2
  OutLen <- Answers
  MaxRead = 2
  Devices = {d1, d2, d3}
  Savers = {m1, m2}
  Slots = 2
  StartedByApp = TRUE
  MayFail = TRUE
  MaxSaves = 2
  MaxChanges = 2
SPECIFICATION OperationsSpec
CHECK_DEADLOCK FALSE
INVARIANTS
  NoLostWake
  AnsweringIsUp
PROPERTIES
  WorkIsTrue
  TablesAreTrue
  EverythingEnds
