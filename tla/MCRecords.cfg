SPECIFICATION RecordsSpec
CHECK_DEADLOCK FALSE
SYMMETRY SameKind
CONSTRAINT StillPromised
CONSTANTS
  a1 = a1  a2 = a2  a3 = a3  p1 = p1  p2 = p2  q1 = q1  q2 = q2
  r1 = r1  r2 = r2  r3 = r3  x1 = x1  x2 = x2  g1 = g1  g2 = g2  one = one
\* ObservationSignoff
  NoRequest = NoRequest
  Actors = {a1, a2, a3}
  Requests = {r1, r2}
  MaxEdits = 6
\* AccountRequests
  NoLogin = NoLogin  NoItem = NoItem
  Approvers = {p1, p2}
  Applications = {q1, q2}
  Logins = {r1, r2, r3}
\* LessonPlans
  NoSending = NoSending
  Writers = {p1, p2}
  Readers = {p1, p2}
  Lessons = {q1, q2}
  Sendings = {q1, q2}
  MaxVersions = 3
\* SessionRecords
  NoSession = NoSession
  Forms = {p1, p2}
  Sessions = {q1, q2}
  MaxSaves = 2
\* TeachBack
  NoReview = NoReview  NoReviewer = NoReviewer  Earlier = Earlier
  Reviewers = {a1, a2, a3}
  Completions = {p1, p2}
  Reviews = {r1, r2, r3}
\* AssessmentMarks
  Sheets = {p1, p2}
  Learners = {one}
  TopMark = 2
  MaxWrites = 3
\* SignInThrottle
  Address = Address
  SignIns = {a1, a2, a3}
  Accounts = {one}
  AddressLimit = 2
  AccountLimit = 1
  WindowLength = 1
  KeptFor = 2
  MaxTime = 3
\* GradingScales
  NoScale = NoScale
  Admins = {p1, p2}
  Scales = {x1, x2}
  Seeded = {x1}
  Graded = {g1, g2}
  GradeKinds = {"quiz", "observation"}
  ScaleKind <- OfQuizzes
  GradedKind <- Grades
\* FormDrafts
  MaxTyped = 2
  MaxQueued = 2
INVARIANTS
  AccountPromises
  ThrottlePromises
  DraftPromises
PROPERTIES
  SignoffPromises
  PlanPromises
  SessionPromises
  TeachPromises
  MarksPromises
  GradingPromises
