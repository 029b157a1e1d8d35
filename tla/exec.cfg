SPECIFICATION Spec
CONSTANTS
  Sizes = {small, large}
  NoSize = NoSize
  MaxChanges = 2
  MaxSignals = 2
INVARIANTS TypeOK InterruptReaches CodeIsWhole TerminalBack
PROPERTIES InterruptWins InterruptEnds NextSignalEnds SizeSettles NothingLeft
