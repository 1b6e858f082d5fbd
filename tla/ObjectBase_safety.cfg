\* Two objects, two wrappers on the heap, two variables, and two threads that call
\* wrap() with a mutex.
SPECIFICATION FairSpec
CONSTANTS
  Objects = {o1, o2}
  HeapWrappers = {w1, w2}
  Variables = {v1, v2}
  Threads = {t1, t2}
  NULL = null
  MaxRefPtrs = 3
  UsesMutex = TRUE
INVARIANTS SingleWrapper WrappersAlive RefCountExact
PROPERTIES WrapReturns
\* Objects and wrappers are used once.
CHECK_DEADLOCK FALSE
