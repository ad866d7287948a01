SPECIFICATION PipelineFairSpec
CONSTANTS
  c1 = c1  c2 = c2  p1 = p1  p2 = p2  s1 = s1
  j1 = j1  j2 = j2  a1 = a1  a2 = a2
  NoKey = NoKey  NoOne = NoOne  NoJob = NoJob
  Jobs = {j1, j2}
  Keys = {s1}
  Procs = {p1}
  Consumers = {c1}
  ProcOf <- OneLoop
  Serves <- OneServes
  MaxAttempts <- TwoAttempts
  MaxStops = 1
  MaxStalls = 0
  WhatsAppSubs = {s1}
  Admins = {a1}
  MaxVerbs = 1
  DbFaults = TRUE
INVARIANTS
  OneRunningAttempt
PROPERTIES
  ReadyStays
  VideoSettles
  AttemptsClose
  FailedIsActionable
