SPECIFICATION Spec
CONSTANTS
  x = x
  y = y
  z = z
  None = None
  Calls <- MCCalls
  Refs <- MCRefs
  Scenes <- MCScenes
  Databases <- MCDatabases
  MaxStarts = 3
  MaxFaults = 2
INVARIANTS TypeOK SchemaIsWhole SealedUnderTheKey AcknowledgedStays OutputsReadable NoOrphanSecret
CHECK_DEADLOCK FALSE
