SPECIFICATION DaemonSpec
CONSTANTS
  a = a
  b = b
  ch1 = ch1
  ch2 = ch2
  NoCard = NoCard
  NoKey = NoKey
  NoTopic = NoTopic
  OtherTopic = OtherTopic
  OpenText = OpenText
  ClosedText = ClosedText
  Card = {a}
  Listed = {a}
  Key = {}
  KeyOn <- MCKeyOn
  SignedUid <- MCSignedUid
  DbVersions <- MCDbVersions
  UseIRC = TRUE
  DbBusy = FALSE
  MaxVisits = 0
  MaxInterrupts = 0
  MaxKills = 0
  LateDetection = FALSE
  MaxDrops = 0
  MaxNoise = 0
  ChannelList <- OneChannel
  UseOpenSwitch = TRUE
  UseUpload = FALSE
  MaxFlips = 1
  MaxUploadFails = 0
PROPERTY
  OnlyServedRequestRemoved
