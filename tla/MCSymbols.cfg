SPECIFICATION FairSpec
CONSTANTS
  LinkMaps <- MCLinkMaps
  HashBits = 4
  TableNames <- MCTableNames
  ExitName <- MCExit
INVARIANT TypeOK
INVARIANT TablesOfThisObject
INVARIANT WildOnlyByImportOrPrefix
INVARIANT TableResolved
PROPERTY KeepsPromise
PROPERTY Ends
CHECK_DEADLOCK FALSE
