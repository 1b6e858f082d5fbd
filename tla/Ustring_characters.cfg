SPECIFICATION Spec
CONSTANTS
  MaxChars = 3
  FormatLength = 3
  Chars <- MCChars
  Literals <- MCLiterals
  CountedMatches <- MCCountedMatches
  Formats <- MCFormats
  Words <- MCWords
  LocaleChars <- MCLocaleChars
  Positions <- MCPositions
  Counts <- MCCounts
INVARIANTS
  Utf8Valid
PROPERTY
  Implements
