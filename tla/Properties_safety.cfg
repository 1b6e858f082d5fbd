\* Two GObjects, either of them created by C code or by a constructor, and two
\* wrappers, the construction of one possibly within that of the other.
SPECIFICATION Spec
CONSTANTS
  Objects = {o1, o2}
  Wrappers = {w1, w2}
  NULL = null
  Layouts <- SafeLayouts
  IfaceProps <- MCIfaceProps
  BaseProps <- MCBaseProps
  Props <- MCProps
  Values = {"v"}
  Rewrap = FALSE
SYMMETRY Symmetry
INVARIANTS NothingUndefined IdFindsProperty ReadsLastWrite ClassInitOnce
PROPERTIES ChangeNotifies
\* When every wrapper has been deleted nothing is left to do.
CHECK_DEADLOCK FALSE
