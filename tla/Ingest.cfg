\* Two consumers and one exporter for the resolver, three datagrams of two
\* exporters for the listener, and for the decoder two data sets and three
\* keys, one of them shared, in a cache of two.  The clocks are bounded, so a stage
\* may come to an end.
CONSTANTS
  c1 = c1
  c2 = c2
  d1 = d1
  d2 = d2
  d3 = d3
  e1 = e1
  e2 = e2
  k1 = k1
  k2 = k2
  k3 = k3
  s1 = s1
  s2 = s2
  Callers <- TwoCallers
  IPs = {i1}
  Tenants = {t1}
  Unknown = Unknown
  TTL = 2
  MaxTime = 3
  Datagrams <- ThreeDatagrams
  Exporters = {e1, e2}
  SourceOf <- Sources
  MaxRecords = 1
  IngestQueueMax = 2
  AuditInterval = 2
  ListenTime = 2
  Consumers <- TwoCallers
  Keys = {k1, k2, k3}
  Sets <- TwoSets
  KeyOf <- KeysOfSets
  Serves <- SharedAndOwn
  MaxTemplates = 2
  TemplateTTL = 1
  MaxPendingSets = 1
  MaxAnnouncements = 2
  DecodeTime = 2
SPECIFICATION MCSpec
CHECK_DEADLOCK FALSE
INVARIANTS
  BoundedStaleness
  DispatchedInOrder
  TemplatesAreKept
PROPERTIES
  LoneQueriesAreSpaced
  NothingIsStuck
