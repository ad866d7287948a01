SPECIFICATION IngestSpec
CONSTANTS
  c1 = c1  c2 = c2  p1 = p1  p2 = p2  m1 = m1  m2 = m2
  j1 = j1  j2 = j2  r1 = r1  r2 = r2  o1 = o1
  NoKey = NoKey  NoOne = NoOne  NoJob = NoJob
  Jobs = {j1, j2}
  Keys = {m1}
  Procs = {p1}
  Consumers = {c1}
  ProcOf <- OneLoop
  Serves <- OneServes
  MaxAttempts <- TwoAttempts
  MaxStops = 0
  MaxStalls = 0
  Requests = {r1}
  Refetchers = {o1}
  Faults = {}
INVARIANTS
  ReceivedHasJob
