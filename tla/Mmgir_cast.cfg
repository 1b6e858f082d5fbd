\* One file without prefixes, read without flaws.
SPECIFICATION Spec
CONSTANTS
  MaxDepth = 2
  MaxFlaws = 0
  NULL = null
  LongBits = 6
  IntBits = 4
  Upper = {"G", "B", "V"}
  Worlds <- MCWorlds
  MemberSets <- MCMemberSets
  CNames <- MCCNames
INVARIANT CastKeepsLetters
