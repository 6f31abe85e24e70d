-------------------------- MODULE MC_TrampTermGen --------------------------
(***************************************************************************)
(* A small registry for TrampTermGen: two core versions, a device and an   *)
(* instance extension, and four commands standing for the command shapes  *)
(* the decision table tells apart.                                         *)
(***************************************************************************)
EXTENDS TrampTermGen, TLC

CONSTANTS
  V1_0, V1_1,        \* VK_VERSION_1_0, VK_VERSION_1_1
  DevExt,            \* a device extension (e.g. VK_KHR_maintenance1)
  InstExt,           \* an instance extension not in INST_EXTENSION_OVERRIDES
  PhysQuery,         \* vkGetPhysicalDeviceX(VkPhysicalDevice, ...)
  DevCmd,            \* vkX(VkDevice, ...)
  GetDevProcAddr,    \* vkGetDeviceProcAddr(VkDevice, ...): manual, needs terminator
  SurfaceCmd         \* vkX(VkDevice, VkSurfaceKHR, ...)

MCFeatures == {V1_0, V1_1, DevExt, InstExt}
MCFeatureOrder == <<V1_0, V1_1, DevExt, InstExt>>
MCVersionFeatures == {V1_0, V1_1}
MCCoreVersion == (V1_0 :> <<1, 0>>) @@ (V1_1 :> <<1, 1>>)
MCFeatType == (V1_0 :> "none") @@ (V1_1 :> "none") @@ (DevExt :> "device")
              @@ (InstExt :> "instance")

MCCmds == {PhysQuery, DevCmd, GetDevProcAddr, SurfaceCmd}
MCCmdOrder == <<PhysQuery, DevCmd, GetDevProcAddr, SurfaceCmd>>
MCHandleType == (PhysQuery :> "VkPhysicalDevice") @@ (DevCmd :> "VkDevice")
                @@ (GetDevProcAddr :> "VkDevice") @@ (SurfaceCmd :> "VkDevice")
MCParamTypes == (PhysQuery :> {"VkPhysicalDevice"}) @@ (DevCmd :> {"VkDevice"})
                @@ (GetDevProcAddr :> {"VkDevice"})
                @@ (SurfaceCmd :> {"VkDevice", "VkSurfaceKHR"})
MCHandleTypes == {"VkInstance", "VkPhysicalDevice", "VkDevice", "VkSurfaceKHR"}

MCManualCommands == {GetDevProcAddr}
MCDeviceCmdsNeedingTerminator == {GetDevProcAddr}
\* SurfaceCmd stands for a command such as vkGetAndroidHardwareBufferPropertiesANDROID.
MCAndroidNamed == {SurfaceCmd}
=============================================================================
