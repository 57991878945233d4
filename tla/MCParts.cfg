SPECIFICATION Spec
CONSTANTS
  NODES <- MCNodes
  TABLES <- MCTables
  PRINT_ITEMS = 2
  STR_BYTES = 6
  STR_TEXT = 7
  STR_NUMBER = 20
  EVENTS = {0, 40}
  SIZE = 4
  MaxSessions = 2
  MaxBlocks = 6
  OldBlocks = 2
  OldRequests = 3
  OldFaults = 1
  BASES <- MCBases
  LISTED = 4
INVARIANTS Balanced Walks SearchExact FieldSpells StringsExact ProfilesExact
  NamesOwned OldExact OldRecovers ClockSafe 
CHECK_DEADLOCK FALSE
