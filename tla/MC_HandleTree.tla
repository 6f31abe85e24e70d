--------------------------- MODULE MC_HandleTree ---------------------------
(***************************************************************************)
(* Four handles in registry order: VkInstance, then three handles that    *)
(* stand for VkPhysicalDevice, VkDevice and a device child, enough for a   *)
(* chain of three creators below the root and for a handle with three      *)
(* candidate parents.                                                      *)
(***************************************************************************)
EXTENDS HandleTree, TLC

CONSTANTS Inst, HA, HB, HC

MCHandles == {Inst, HA, HB, HC}
MCHandleOrder == <<Inst, HA, HB, HC>>
=============================================================================
