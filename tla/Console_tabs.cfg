\* A user who may see all tabs logs in after one who may not.
CONSTANTS
  d1 = d1
  d2 = d2
  d3 = d3
  anna = anna
  bruno = bruno
  g1 = g1
  g2 = g2
  h1 = h1
  h2 = h2
  x = x
  y = y
  nb = nb
  nbd = nbd
  pk = pk
  n1 = n1
  n2 = n2
  p1 = p1
  v1 = v1
  v9 = v9
  MaxCalls = 3
  FewCalls = 2
  Devices = {d1, d2}
  Clients = {m1, i1}
  Macs = {m1}
  Days = {n1, n2}
  Users = {anna, bruno}
  Nav = {"t1", "t2"}
  Restricted <- OneTab
  Novices = {bruno}
  Group <- TenantOf
  ClicksOf <- FewClicks
  Me = anna
  UserTenants = {g1, g2}
  Boxes = {"t1"}
  AiProfiles = {"p", "q", "r"}
  Providers = {x, y}
  AgentSites = {"s1", "s2"}
  SiteIdentities = {x}
  MaxTokens = 3
  MaxJobs = 2
  Routers = {d1, d2, d3}
  RouterGroup <- GroupOf
  Packets = {pk}
  Firewalls = {1, 2}
  Switches = {d1, nbd}
  Neighbours = {nb}
  PromotedTo <- Promoted
  Cats = {"k"}
  Subs = {"s"}
  DeviceNames = {"v"}
SPECIFICATION ConsoleSpec
CHECK_DEADLOCK FALSE
INVARIANT
  UnrestrictedSeesAll
