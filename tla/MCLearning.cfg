SPECIFICATION LearningSpec
CHECK_DEADLOCK FALSE
SYMMETRY SameRequests
CONSTANTS
  c1 = c1  c2 = c2  p1 = p1  p2 = p2  s1 = s1
  j1 = j1  j2 = j2  a1 = a1  a2 = a2
  t1 = t1  t2 = t2  u1 = u1  u2 = u2
  x1 = x1  x2 = x2  d1 = d1  d2 = d2  y1 = y1
\* TranscodePipeline
  NoKey = NoKey  NoOne = NoOne  NoJob = NoJob
  Jobs = {j1, j2}
  Keys = {s1}
  Procs = {p1, p2}
  Consumers = {c1, c2}
  ProcOf <- ReplicaLoops
  Serves <- BothServe
  MaxAttempts <- TwoAttempts
  MaxStops = 0
  MaxStalls = 0
  WhatsAppSubs = {}
  Admins = {a1}
  MaxVerbs = 2
  DbFaults = FALSE
\* QuizAttempts
  NoQuizAttempt = NoQuizAttempt  NoTab = NoTab
  LearnerTabs = {t1, t2}
  Attempts = {u1, u2}
  TimeLimit = 2
  SubmitGrace = 1
  LongestLoad = 1
  TriesAllowed = 1
  LastTick = 5
\* ScormAttempt
  NoLaunch = NoLaunch
  Launches = {t1, t2}
  LessonStatuses = {"incomplete", "passed"}
  MaxCommits = 3
  MaxSends = 3
\* MentorPairing
  Callers = {t1, t2}
  Meetings = {1, 2}
  OpenCap = 1
  HardCap = 2
\* RubricScores
  NoRubric = NoRubric  NoCycle = NoCycle
  Requests = {t1, t2}
  Rubrics = {x1, x2}
  FirstRubrics = {x1}
  Criteria = {d1, d2}
  Cycles = {y1}
  Top = 2
INVARIANTS
  TranscodePromises
  MentorPromises
PROPERTIES
  QuizPromises
  ScormPromises
  RubricPromises
