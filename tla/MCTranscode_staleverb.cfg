SPECIFICATION PipelineSpec
CONSTANTS
  c1 = c1  c2 = c2  p1 = p1  p2 = p2  s1 = s1
  j1 = j1  j2 = j2  a1 = a1  a2 = a2
  NoKey = NoKey  NoOne = NoOne  NoJob = NoJob
  Jobs = {j1, j2}
  Keys = {s1}
  Procs = {p1}
  Consumers = {c1}
  ProcOf <- OneLoop
  Serves <- OneServes
  MaxAttempts <- TwoAttempts
  MaxStops = 0
  MaxStalls = 0
  WhatsAppSubs = {}
  Admins = {a1, a2}
  MaxVerbs = 2
  DbFaults = FALSE
INVARIANTS
  DroppedIsNotRun
