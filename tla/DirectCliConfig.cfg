CONSTANTS
  main = main  agent = agent  planA = planA  planB = planB  r1 = r1  r2 = r2
  text = text  bad = bad  toml = toml
  Procs = {p1}
  Files = {main, agent}
  Main = main
  Plans = {planA, planB}
  FilesOf <- SomeFiles
  RoutesOf <- SomeRoutes
  TextsOf <- SomeTexts
  Malformed = {bad}
  CredIds = {c1}
  SnapIds = {s1, s2}
  MaxEnv = 1
  MaxFail = 2
  MaxRestoreFail = 1
  None = None
SPECIFICATION FairSpec
INVARIANTS Recoverable ActiveComplete
PROPERTIES NoSilentLoss TokenDiesFirst Ends
CHECK_DEADLOCK FALSE
