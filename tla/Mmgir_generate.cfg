\* Longs of six bits, ints of four, so that values beyond both widths occur; the
\* deepest element is a type in an array in a parameter of a method of a class.
SPECIFICATION Spec
CONSTANTS
  MaxDepth = 8
  MaxFlaws = 1
  NULL = null
  LongBits = 6
  IntBits = 4
  Upper = {"G", "B", "V"}
  Worlds <- MCWorlds
  MemberSets <- MCMemberSets
  CNames <- MCCNames
INVARIANTS ParserFaithful UnknownExact VersionsAgree SearchComplete OutputFaithful
