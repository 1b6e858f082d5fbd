\* Three Dispatchers, one of them possibly of another context, two senders, a pipe
\* that fills up so that write() blocks, one write() that fails, nested main loops.
SPECIFICATION FairSpec
CONSTANTS
  Impls = {d1, d2, d3}
  Notifiers = {n1, n2}
  Contexts = {c1, c2}
  Receiver = r
  Senders = {s1, s2}
  NULL = null
  PipeCapacity = 2
  MaxDepth = 2
  MaxEmits = 3
  MaxFaults = 1
  ReceiverEmits = FALSE
  RecreateInSlot = FALSE
INVARIANTS MessagesAlive HandlersAlive RefCountExact
PROPERTIES NoSlotAfterDelete Delivery OrphansReclaimed EmitReturns
\* Once every Dispatcher has been deleted nothing is left to do.
CHECK_DEADLOCK FALSE
