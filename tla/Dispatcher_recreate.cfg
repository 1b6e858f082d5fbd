\* A slot deletes the last Dispatcher and creates a new one.
SPECIFICATION Spec
CONSTANTS
  Impls = {d1, d2}
  Notifiers = {n1, n2}
  Contexts = {c1}
  Receiver = r
  Senders = {s1}
  NULL = null
  PipeCapacity = 2
  MaxDepth = 1
  MaxEmits = 2
  MaxFaults = 0
  ReceiverEmits = FALSE
  RecreateInSlot = TRUE
SYMMETRY Symmetry
INVARIANTS HandlersAlive
CHECK_DEADLOCK FALSE
