SPECIFICATION FairSpec
CONSTANTS
  Ids = {"t1", "t2"}
  Objects = {1, 2, 3}
  Contents <- MCContents
  Patches <- MCPatches
  Boot <- BootTcp
  RemoveSaves = TRUE
  MaxWrites = 2
  MaxStarts = 1
  Messages <- AllMessages
  Treatments <- MCTreatments
  FlowFields <- MCFlowFields
  Unnamed = {"p255"}
  Networks <- MCNetworks
  NameOf <- MCNameOf
  ValidNames <- MCValidNames
INVARIANTS
  TypeOK
  MessagesMeetLive
  FileIsCurrent
PROPERTIES
  LoadedCatchesUp
CHECK_DEADLOCK FALSE
