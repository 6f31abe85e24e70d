CONSTANTS
  V1_0 = V1_0
  FseExt = FseExt
  PhysSurfModes2 = PhysSurfModes2
  DevGroupSurfModes2 = DevGroupSurfModes2
  AcquireFse = AcquireFse
  JoinedPresentModes2 = JoinedPresentModes2
  NoAlias = NoAlias
  NoExt = NoExt
  Features <- FseFeatures
  FeatureOrder <- FseFeatureOrder
  VersionFeatures = {V1_0}
  CoreVersion <- FseCoreVersion
  FeatType <- FseFeatType
  Cmds <- FseCmds
  CmdOrder <- FseCmdOrder
  HandleType <- FseHandleType
  ParamTypes <- FseParamTypes
  HandleTypes <- FseHandleTypes
  AndroidNamed = {}
  WSI_EXT_NAMES = {}
  INST_EXTENSION_OVERRIDES <- FseOverrides
  MANUALLY_IMPLEMENTED_COMMANDS <- FseManualCommands
  MANUALLY_IMPLEMENTED_TERMINATORS = {}
  INST_EXTENSION_HAVING_MANUAL_TERMINATORS <- FseManualTerminators
  DEVICE_CMDS_NEEDING_TERMINATOR <- FseDeviceCmdsNeedingTerminator
  ADD_DEVICE_EXTS_TRACKED_BY_LOADER = {}
  MaxDuplicateRequires = 0
  MaxAliases = 0
  AliasTargetsEmitted = TRUE
SPECIFICATION Spec
INVARIANT ListedManualCommandsNotGenerated
