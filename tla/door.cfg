SPECIFICATION FairDoorSpec
CONSTANTS
  b = b
  c = c
  k1 = k1
  k2 = k2
  NoCard = NoCard
  NoKey = NoKey
  Card = {b, c}
  Key = {k1, k2}
  KeyOn <- MCKeyOn
  SignedUid <- MCSignedUid
  DbVersions <- MCDbVersions
  UseIRC = TRUE
  DbBusy = TRUE
  MaxVisits = 2
  MaxInterrupts = 2
  MaxKills = 1
INVARIANTS
  ScannerTypeOK
  StandingCardNotDenied
  CleanExit
  LockedBetweenVisits
PROPERTIES
  OnlyEntitledOpens
  KeepsPromise
  DoorRelocks
  VisitEnds
