CONSTANT
  Specs <- MCSpecs
SPECIFICATION WorkloadSpec
CHECK_DEADLOCK FALSE
INVARIANTS
  PreparedBeforeUse
  EvenLoad
  VerdictIsTrue
