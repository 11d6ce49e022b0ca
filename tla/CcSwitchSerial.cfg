CONSTANTS
  f1 = f1  f2 = f2  p1 = p1  p2 = p2  u1 = u1  u2 = u2  rt1 = rt1  rt2 = rt2
  Fields = {f1, f2}
  TomlFields = {f2}
  Providers = {p1, p2}
  Routes = {rt1, rt2}
  ProviderOf <- TwoProviders
  RouteOf <- TwoRoutes
  Occurrence <- EachFirst
  Urls = {u1, u2}
  LoopbackUrls = {}
  Bases = {b1, b2}
  DbIds = {d1, d2}
  SnapIds = {s1, s2}
  Requests = {r1}
  Appliers = {r1}
  MaxEnv = 3
  Gone = Gone
  Blank = Blank
  None = None
SYMMETRY Interchangeable
SPECIFICATION Spec
INVARIANTS NoOrphan GatewayOwnUpstream
PROPERTIES NeverOverwriteDrift HonestStatus ConflictHasCause
