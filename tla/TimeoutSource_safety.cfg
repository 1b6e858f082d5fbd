\* Intervals below and above G_MAXINT, a clock that is set back twice.
SPECIFICATION TimeoutSpec
CONSTANTS
  UsPerMs = 2
  MaxInt = 2
  Intervals <- MCIntervals
  MaxNow = 10
  MaxSetbacks = 2
INVARIANTS NoOversleep
PROPERTIES NotMuchTooEarly NeverPostponed
\* A source whose slot has returned false is gone, and the clock is bounded.
CHECK_DEADLOCK FALSE
