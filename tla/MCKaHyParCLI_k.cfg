CONSTANTS
  Absent = Absent
  CommandLines <- MCCommandLinesK
  TotalWeight = 10
  IdWidth = 16
  IntMax = 2147483647
  DoubleMax = DoubleMax

SPECIFICATION Spec

INVARIANT KAtLeastTwo
CHECK_DEADLOCK FALSE
