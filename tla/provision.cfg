SPECIFICATION ProvSpec
CONSTANTS
  Timeout = 1
  NetworkTimeout = 2
  IPv4Grace = 1
  Interval = 1
  Omitted = Omitted
  Anonymous = Anonymous
  NoName = Anonymous
  Declarations <- MCDeclarations
  Selections <- MCSelections
  Number <- MCNumber
  Shown <- MCShown
INVARIANTS ProvTypeOK GraceGiven RunsWhatWasAsked ToolsDecide
PROPERTIES OutcomeIsTrue WaitEnds InterruptEndsRun
