\* Two data, null pointers, containers of up to three elements, two keepers.
SPECIFICATION Spec
CONSTANTS
  Items = {i1, i2}
  NULL = null
  Garbage = garbage
  Empty = empty
  Keepers = {k1, k2}
  Kinds = {"value", "bool", "pointer", "refptr", "string", "variant"}
  MaxLen = 3
  MaxRefs = 2
SYMMETRY Symmetry
INVARIANTS RefsExact NothingLeft CSeesVector VectorComplete
