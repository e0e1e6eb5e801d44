SPECIFICATION Spec
CONSTANTS
  Half = 128
  PeriodHalf = 16
  Top = 4
  Bottom = 3
  DurationUnit <- MCDurationUnit
  ByteUnit <- MCByteUnit
  PeriodUnit <- MCPeriodUnit
  Values <- MCValues
  NoNumber = NoNumber
INVARIANTS
  IntegersExact
  FractionsExact
