CONSTANTS
  V1_0 = V1_0
  V1_1 = V1_1
  DevExt = DevExt
  InstExt = InstExt
  PhysQuery = PhysQuery
  DevCmd = DevCmd
  GetDevProcAddr = GetDevProcAddr
  SurfaceCmd = SurfaceCmd
  NoAlias = NoAlias
  NoExt = NoExt
  Features <- MCFeatures
  FeatureOrder <- MCFeatureOrder
  VersionFeatures <- MCVersionFeatures
  CoreVersion <- MCCoreVersion
  FeatType <- MCFeatType
  Cmds <- MCCmds
  CmdOrder <- MCCmdOrder
  HandleType <- MCHandleType
  ParamTypes <- MCParamTypes
  HandleTypes <- MCHandleTypes
  AndroidNamed = {}
  WSI_EXT_NAMES = {}
  INST_EXTENSION_OVERRIDES <- MCOverrides
  MANUALLY_IMPLEMENTED_COMMANDS <- MCManualCommands
  MANUALLY_IMPLEMENTED_TERMINATORS = {}
  INST_EXTENSION_HAVING_MANUAL_TERMINATORS = {}
  DEVICE_CMDS_NEEDING_TERMINATOR <- MCEmitDeviceCmds
  ADD_DEVICE_EXTS_TRACKED_BY_LOADER = {}
  MaxDuplicateRequires = 1
  MaxAliases = 2
  AliasTargetsEmitted = TRUE
  TRAMP_EXT_GIPA_AVOID_EXTS = {}
  TRAMP_EXT_GIPA_AVOID_CMD_NAMES = {}
  DebugUtilsExt <- InstExt
  GetInstanceProcAddrCmd = GetInstanceProcAddrCmd
  DriverEntrySkip = {}
  InstTermDispSkip = {}
  TermDispStructSkip = {}
  GetDeviceProcAddrNamed <- MCManualCommands
  ProtectedFeatures <- MCProtected
SPECIFICATION Spec
INVARIANTS
  DriverLookupsHaveSlots
  GipaTargetsDefined
  InstanceTermDispatchDefined
  DispatchTablesDeclareWrittenFields
  InstanceEnableChainCompiles
