\* Two threads that call wrap() with a mutex: the second finds the wrapper that the
\* first one is still constructing.
SPECIFICATION Spec
CONSTANTS
  Objects = {o1, o2}
  HeapWrappers = {w1, w2}
  Variables = {v1, v2}
  Threads = {t1, t2}
  NULL = null
  MaxRefPtrs = 3
  UsesMutex = TRUE
INVARIANTS WrapProtected
\* Objects and wrappers are used once.
CHECK_DEADLOCK FALSE
