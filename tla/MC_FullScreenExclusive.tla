----------------------- MODULE MC_FullScreenExclusive -----------------------
(***************************************************************************)
(* TrampTermGen on VK_EXT_full_screen_exclusive, a device extension in     *)
(* INST_EXTENSION_OVERRIDES, with the value the MANUALLY_IMPLEMENTED_      *)
(* COMMANDS literal really has.  Its last two entries (lines 76-77) are    *)
(* adjacent string literals with no comma between them, which Python       *)
(* concatenates into the single name JoinedPresentModes2, a name no        *)
(* command has.                                                             *)
(***************************************************************************)
EXTENDS TrampTermGen, TLC

CONSTANTS
  V1_0,                \* VK_VERSION_1_0
  FseExt,              \* VK_EXT_full_screen_exclusive ("device")
  PhysSurfModes2,      \* vkGetPhysicalDeviceSurfacePresentModes2EXT
  DevGroupSurfModes2,  \* vkGetDeviceGroupSurfacePresentModes2EXT
  AcquireFse,          \* vkAcquireFullScreenExclusiveModeEXT
  JoinedPresentModes2  \* 'vkGetPhysicalDeviceSurfacePresentModes2EXT'
                       \* 'vkGetDeviceGroupSurfacePresentModes2EXT' joined

FseFeatures == {V1_0, FseExt}
FseFeatureOrder == <<V1_0, FseExt>>
FseCoreVersion == V1_0 :> <<1, 0>>
FseFeatType == (V1_0 :> "none") @@ (FseExt :> "device")
FseCmds == {PhysSurfModes2, DevGroupSurfModes2, AcquireFse}
FseCmdOrder == <<PhysSurfModes2, DevGroupSurfModes2, AcquireFse>>
FseHandleType == (PhysSurfModes2 :> "VkPhysicalDevice") @@ (DevGroupSurfModes2 :> "VkDevice")
                 @@ (AcquireFse :> "VkDevice")
FseParamTypes ==
  (PhysSurfModes2 :> {"VkPhysicalDevice", "VkPhysicalDeviceSurfaceInfo2KHR"})
  @@ (DevGroupSurfModes2 :> {"VkDevice", "VkPhysicalDeviceSurfaceInfo2KHR"})
  @@ (AcquireFse :> {"VkDevice", "VkSwapchainKHR"})
FseHandleTypes == {"VkInstance", "VkPhysicalDevice", "VkDevice", "VkSwapchainKHR"}

\* The list as Python evaluates it (the manual commands of other
\* extensions play no part here).
FseManualCommands == {JoinedPresentModes2}
FseOverrides == {FseExt}
FseManualTerminators == {PhysSurfModes2, DevGroupSurfModes2}
FseDeviceCmdsNeedingTerminator == {DevGroupSurfModes2}

\* The two commands the list is written to name.
ListedAsManual == {PhysSurfModes2, DevGroupSurfModes2}

(* The comment and layout of MANUALLY_IMPLEMENTED_COMMANDS say the loader *)
(* implements these two commands by hand, so RequiresTrampoline should    *)
(* give them no generated trampoline when VK_EXT_full_screen_exclusive   *)
(* files them.                                                             *)
ListedManualCommandsNotGenerated ==
  \A g \in Range(ext_command_groups) : \A r \in Range(g.cmds) :
    g.ext_name = FseExt /\ r.name \in ListedAsManual => ~r.needs_tramp
=============================================================================
