CONSTANTS
  Absent = Absent
  CommandLines <- MCCommandLines
  TotalWeight = 10
  IdWidth = 16
  IntMax = 2147483647
  DoubleMax = DoubleMax

SPECIFICATION Spec

INVARIANT TypeOK
INVARIANT DerivedFromFinalOptions
INVARIANT OptionsTakeEffect
CHECK_DEADLOCK FALSE
