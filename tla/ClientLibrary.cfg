SPECIFICATION LibrarySpec
CONSTANTS
  Keys = {"a", "b"}
  Types = {"double"}
  MaxPuts = 2
  MaxSubs = 1
  MaxExtras = 1
  MaxRuns = 2
  Procs = {"p1", "p2"}
  StoreKeys = {"a", "b", "split", "long"}
  Cut <- MCCut
  Fragile = {"split"}
  MaxEntries = 2
  MaxPut = 3
  MaxCrash = 1
INVARIANTS
  CacheConverges
  ReadsOwnWrites
  CallbacksConverge
  KeepsLastValue
  EvictsOnlyForRoom
PROPERTY
  PutsComeBack
CHECK_DEADLOCK FALSE
