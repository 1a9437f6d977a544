SPECIFICATION Spec
CONSTANTS
  Programs <- MCPrograms
INVARIANTS
  SameRuns
  ReportsExact
  NamesResolve
  RulesRenamed
  LayoutsAgree
CHECK_DEADLOCK FALSE
