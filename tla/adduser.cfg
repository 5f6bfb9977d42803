SPECIFICATION CardDbSpec
CONSTANTS
  a = a
  b = b
  k1 = k1
  k2 = k2
  NoCard = NoCard
  NoKey = NoKey
  NoTool = NoTool
  Malformed = Malformed
  Card = {a, b}
  Key = {k1, k2}
  KeyOn <- MCKeyOn
  SignedUid <- MCSignedUid
  Tool = {t1, t2}
  Jobs <- MCJobs
  InitialContents <- MCContents
  MaxJobs = 3
  MaxFails = 1
PROPERTIES
  OnlyChosenMethod
CHECK_DEADLOCK FALSE
