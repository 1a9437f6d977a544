SPECIFICATION FairSpec
CONSTANTS
  Identifiers <- MCIdentifiers
  Programs <- MCPrograms
  Reports <- MCReports
  Preamble <- MCPreamble
INVARIANTS
  SeedsAreParsed
  NothingStopsReading
PROPERTIES
  ReportsUnderstood
CHECK_DEADLOCK FALSE
