SPECIFICATION UploadFairSpec
CONSTANTS
  r1 = r1
  MaxUploads = 1
  Slots = {101, 102}
  Requests = {r1}
  MaxOutstanding = 2
  MayCrashMedia = TRUE
INVARIANTS
  UploadTypeOK
  ReadyWasEncoded
PROPERTIES
  AbandonedStaysAbandoned
  AbandonedIsDeleted
  EncodingSettlesWhilePolled
CHECK_DEADLOCK FALSE
