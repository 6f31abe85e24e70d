CONSTANTS
  Inst = Inst
  Phys = Phys
  Dev = Dev
  Queue = Queue
  Obj = Obj
  InstCI = InstCI
  DevCI = DevCI
  ObjCI = ObjCI
  PhysFeatures = PhysFeatures
  DevSize = DevSize
  Alloc = Alloc
  U32 = U32
  CreateInstance = CreateInstance
  GetIPA = GetIPA
  EnumPhys = EnumPhys
  CreateDevice = CreateDevice
  DestroyDevice = DestroyDevice
  GetQueue = GetQueue
  CreateObj = CreateObj
  DestroyObj = DestroyObj
  UseObj = UseObj
  QueueSubmit = QueueSubmit
  GetPhysFeatures = GetPhysFeatures
  GetMemCommitment = GetMemCommitment
  GetPhysExt = GetPhysExt
  V10 = V10
  V11 = V11
  ExtA = ExtA
  ExtB = ExtB
  Handles <- MCHandles
  HandleOrder <- MCHandleOrder
  Root = Inst
  Types <- MCTypes
  HandlesNamedIn <- MCHandlesNamedIn
  CreateInfoTypes = {InstCI, DevCI, ObjCI}
  Commands <- MCCommands
  Shape <- MCShape
  CreateDeviceCmd = CreateDevice
  DestroyDeviceCmd = DestroyDevice
  AndroidNames = {}
  FeatureOrder <- MCFeatureOrder
  Versions = {V10, V11}
  Ver <- MCVer
  EXTENSIONS_TO_SKIP_TESTING = {}
  Registries <- MCRegistries
  FeatType <- MCFeatType
  InstDispatchHandles = {Inst, Phys}
SPECIFICATION Spec
INVARIANTS
  QueryCommandsCalled
