SPECIFICATION Spec
CONSTANTS
  Identifiers <- MCIdentifiers
  Programs <- MCPrograms
  Reports <- MCReports
  Preamble <- MCPreamble
INVARIANTS
  DecimalsUnderstood
CHECK_DEADLOCK FALSE
