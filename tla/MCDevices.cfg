SPECIFICATION DevicesSpec
CHECK_DEADLOCK FALSE
CONSTANTS
  u1 = u1  cy1 = cy1  b1 = b1  b2 = b2  w1 = w1
  f1 = f1  f2 = f2  k1 = k1  k2 = k2
\* DirectUpload
  Generic = Generic  NoUpload = NoUpload
  Uploads = {u1}
  Cycles = {cy1}
  Browsers = {b1, b2}
  Sweepers = {w1}
\* UploadClient
  NoFile = NoFile  NoChain = NoChain
  Files = {f1, f2}
  Chains = {k1, k2}
  MaxAttempts = 2
\* FormDrafts
  MaxTyped = 1
  MaxQueued = 2
INVARIANTS
  ClientPromises
PROPERTIES
  UploadPromises
  ReservationSettles
  UploadingEnds
  SavedInTheEnd
