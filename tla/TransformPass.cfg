SPECIFICATION FullSpec
CONSTANTS
  Order = 3
  Inputs <- Files
INVARIANTS SamePaths RamseyFOC CertaintyKept AuxiliariesDefined FilesHoldTheModel
CHECK_DEADLOCK FALSE
