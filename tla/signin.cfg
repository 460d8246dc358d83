CONSTANTS
  h1 = h1
  h2 = h2
  MaxUsers = 3
  Providers = {"github", "corp"}
  EnvProviders = {"corp"}
  SamlProviders = {"corp"}
  x1 = x1
  x2 = x2
  Uids = {x1, x2}
  States = {"s1"}
  Links = {1}
  MaxSecrets = 2
  Handlers = {h1, h2}
  MaxJobs = 4
SPECIFICATION Spec
CHECK_DEADLOCK FALSE
SYMMETRY Alike
INVARIANTS
  NobodyLockedOut
  SecondFactorKept
  WaysIn
