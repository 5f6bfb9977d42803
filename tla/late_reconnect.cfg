SPECIFICATION FairDaemonSpec
CONSTANTS
  a = a
  b = b
  ch1 = ch1
  ch2 = ch2
  NoCard = NoCard
  NoKey = NoKey
  NoTopic = NoTopic
  OtherTopic = OtherTopic
  OpenText = OpenText
  ClosedText = ClosedText
  Card = {a}
  Listed = {a}
  Key = {}
  KeyOn <- MCKeyOn
  SignedUid <- MCSignedUid
  DbVersions <- MCDbVersions
  UseIRC = TRUE
  DbBusy = FALSE
  MaxVisits = 1
  MaxInterrupts = 0
  MaxKills = 0
  LateDetection = TRUE
  MaxDrops = 1
  MaxNoise = 0
  ChannelList <- OneChannel
  UseOpenSwitch = FALSE
  UseUpload = FALSE
  MaxFlips = 0
  MaxUploadFails = 0
PROPERTY
  ReconnectKicksIn
CHECK_DEADLOCK FALSE
