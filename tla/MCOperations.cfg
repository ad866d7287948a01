SPECIFICATION OperationsSpec
CHECK_DEADLOCK FALSE
CONSTANTS
  c1 = c1  c2 = c2  p1 = p1  p2 = p2  m1 = m1  m2 = m2
  j1 = j1  j2 = j2  r1 = r1  r2 = r2  o1 = o1
  s1 = s1  s2 = s2  x1 = x1  x2 = x2
\* WhatsAppIngest
  NoKey = NoKey  NoOne = NoOne  NoJob = NoJob
  Jobs = {j1, j2}
  Keys = {m1}
  Procs = {p1, p2}
  Consumers = {c1, c2}
  ProcOf <- ReplicaLoops
  Serves <- BothServe
  MaxAttempts <- TwoAttempts
  MaxStops = 0
  MaxStalls = 1
  Requests = {r1}
  Refetchers = {o1}
  Faults = {"webhook", "handler", "repair"}
\* DailySchedule
  Replicas = {p1, p2}
  Days = 2
  HoursADay = 3
  RetentionHour = 1
  KeptHours = 2
\* DataGrid
  Nowhere = Nowhere
  Clerks = {p1, p2}
  Registers = {s1, s2}
  Marked = {x1, x2}
  MaxCommits = 2
INVARIANTS
  SchedulePromises
  GridPromises
PROPERTIES
  IngestPromises
