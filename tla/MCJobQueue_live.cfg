SPECIFICATION FairSpec
CONSTANTS
  c1 = c1  c2 = c2  p1 = p1  p2 = p2  k1 = k1  k2 = k2
  j1 = j1  j2 = j2
  NoKey = NoKey  NoOne = NoOne  NoJob = NoJob
  Jobs = {j1, j2}
  Keys = {k1, k2}
  Procs = {p1}
  Consumers = {c1, c2}
  ProcOf <- SingleProcess
  Serves <- ServesAll
  MaxAttempts <- MixedAttempts
  MaxStops = 1
  MaxStalls = 0
PROPERTIES
  ImplementsLifecycle
  JobsSettle
  LoopsPromises
