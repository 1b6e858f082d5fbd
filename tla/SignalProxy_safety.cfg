\* A signal and a property, two exception handlers, nested emissions.
SPECIFICATION SignalFairSpec
CONSTANTS
  Nodes = {n1, n2}
  PropertyNodes = {n2}
  Handlers = {h1, h2}
  END = end
  MaxDepth = 4
  RemoveRunning = FALSE
  PropertySlotsThrow = FALSE
INVARIANTS NodesAlive IteratorsValid AllTried
PROPERTIES NodesReclaimed
\* An exception that nobody handles ends the program.
CHECK_DEADLOCK FALSE
