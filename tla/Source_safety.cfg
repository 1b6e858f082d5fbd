\* Two sources of all kinds, two connections, the loop and another thread that
\* also attaches, destroys and drops sources.
SPECIFICATION Spec
CONSTANTS
  Sources = {s1, s2}
  Nodes = {n1, n2}
  Loop = loop
  Others = {t1}
  NULL = null
  Kinds = {"wrapped", "io", "socket_source", "signal", "once", "child", "socket", "invoke"}
  MaxDepth = 2
  ConnectRaces = FALSE
  ReconnectInSlot = FALSE
  ConnectDestroyed = FALSE
SYMMETRY Symmetry
INVARIANTS DispatchAlive NodesOwned CallersAlive NothingLeft Reclaimed
\* When every source has been freed nothing is left to do.
CHECK_DEADLOCK FALSE
