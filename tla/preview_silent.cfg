SPECIFICATION Spec
CONSTANTS
  NoRecord = NoRecord
  p1 = p1
  p2 = p2
  Procs = {p1}
  Declarations <- EachDeclares
  Previewing = {p1}
  Hosts <- AllHosts
  Older <- AllOlder
  HandValues <- ByHandValues
  HandDevices <- ByHandDevices
  UserId = 7
  MaxHand = 0
PROPERTIES PreviewShowsAll
