SPECIFICATION Spec
CONSTANTS
  Programs <- MCPrograms
INVARIANTS
  BitsTellFailures
CHECK_DEADLOCK FALSE
