\* One program after the other, each on an instance of its own.
SPECIFICATION Spec
CONSTANT Null = Null
VIEW View
CHECK_DEADLOCK FALSE
INVARIANTS
  UthashIsSound
  DmapIsSound
  StbDsIsSound
  RobinHoodIsSound
  VerstableIsSound
  UnorderedDenseIsSound
  Emilib2IsSound
  BytellIsSound
  StcIsSound
  MlibIsSound
  CtlIsSound
  PhmapIsSound
  PoolIsSound
  DriverIsRight
PROPERTIES
  DmapIndicesAreStable
  ImplementsKeyedMap
