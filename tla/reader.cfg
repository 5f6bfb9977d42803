SPECIFICATION FairReaderSpec
CONSTANTS
  p1 = p1
  p2 = p2
  a = a
  b = b
  none = none
  Proc = {p1, p2}
  Nobody = none
  Card = {a, b}
  NoCard = NoCard
  Blank = Blank
  App = App
  Programs <- MCPrograms
  Container <- MCContainer
  Size <- MCSize
  Octets <- MCOctets
  Starts <- MCStarts
  NoContainer = NoContainer
INVARIANTS
  ReaderTypeOK
  OpenedHolds
  ReleasedForTools
  CalledOnOpenDevice
  ErrorLeavesNoFile
  SearchExact
PROPERTIES
  DoneMeansSigned
  SearchEnds
