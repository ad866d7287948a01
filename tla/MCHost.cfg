SPECIFICATION HostSpec
CHECK_DEADLOCK FALSE
CONSTANTS
  c1 = c1  c2 = c2  p1 = p1  p2 = p2  k1 = k1  k2 = k2
  j1 = j1  j2 = j2  t1 = t1  t2 = t2  u1 = u1  u2 = u2
\* JobQueue
  NoKey = NoKey  NoOne = NoOne  NoJob = NoJob
  Jobs = {j1, j2}
  Keys = {k1, k2}
  Procs = {p1, p2}
  Consumers = {c1, c2}
  ProcOf <- ReplicaLoops
  Serves <- ServesAll
  MaxAttempts <- MixedAttempts
  MaxStops = 1
  MaxStalls = 1
\* Deployment
  MaxBuilds = 2
  MaxInterrupts = 1
\* UserAccounts
  NoUser = NoUser  Founder = Founder
  Handlers = {t1, t2}
  Users = {Founder, u1, u2}
  MaxChanges = 3
\* SectionAccess
  anAdmin = anAdmin  anObserver = anObserver  another = another
  aMentor = aMentor  aTeacher = aTeacher
  teacherRow = teacherRow  strangerRow = strangerRow  mentorRow = mentorRow
  hers = hers  others = others  thePairing = thePairing
  ofCycle = ofCycle  ofQuarter = ofQuarter  ofMeeting = ofMeeting
  ofSession = ofSession  ofTeachBack = ofTeachBack  ofOthers = ofOthers
  NoProfile = NoProfile  NoPerson = NoPerson
  People = {anAdmin, anObserver, another, aMentor, aTeacher}
  Rows = {teacherRow, strangerRow, mentorRow}
  Cycles = {hers, others}
  Pairings = {thePairing}
  Videos = {ofCycle, ofQuarter, ofMeeting, ofSession, ofTeachBack, ofOthers}
  Role <- TheRoles
  TeacherOf <- TheTeachers
  MentorOf <- TheMentors
  CycleTeacher <- TheCycles
  Nominated <- TheObserver
  PairMentor <- TheMentor
  PairTeacher <- TheMentee
  Context <- TheContexts
  SubmittedBy <- TheSubmitters
  MaxMoves = 3
INVARIANTS
  QueueInv
  UserPromises
  AccessPromises
PROPERTIES
  DeployPromises
  QueuePromises
