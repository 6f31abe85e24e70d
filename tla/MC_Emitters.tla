------------------------------ MODULE MC_Emitters ------------------------------
(***************************************************************************)
(* The registry of MC_TrampTermGen, read by the emitters.  InstExt plays   *)
(* VK_EXT_debug_utils: the instance extension in INST_EXTENSION_OVERRIDES  *)
(* whose device commands (DevCmd) need a terminator.  DevExt has a         *)
(* platform macro, as VK_EXT_full_screen_exclusive has VK_USE_PLATFORM_... *)
(***************************************************************************)
EXTENDS Emitters, MC_TrampTermGen

MCOverrides == {InstExt}
MCEmitDeviceCmds == {GetDevProcAddr, DevCmd}
MCProtected == {DevExt}
================================================================================
