SPECIFICATION DoorSpec
CONSTANTS
  b = b
  c = c
  k1 = k1
  k2 = k2
  NoCard = NoCard
  NoKey = NoKey
  Card = {b, c}
  Key = {k1, k2}
  KeyOn <- MCKeyOn
  SignedUid <- MCSignedUid
  DbVersions <- MCDbVersions
  UseIRC = TRUE
  DbBusy = TRUE
  MaxVisits = 1
  MaxInterrupts = 1
  MaxKills = 1
INVARIANT
  NotLeftDisengaged
