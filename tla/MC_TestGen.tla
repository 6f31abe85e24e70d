---------------------------- MODULE MC_TestGen ----------------------------
(***************************************************************************)
(* A miniature vk.xml.  Handles VkInstance, VkPhysicalDevice, VkDevice,    *)
(* VkQueue and one non-dispatchable device child (Obj).  Besides the        *)
(* handles, the types are the three CreateInfo structures, two output      *)
(* types whose names contain a handle name (VkPhysicalDeviceFeatures,      *)
(* VkDeviceSize), VkAllocationCallbacks and uint32_t.                      *)
(*                                                                         *)
(* VK_VERSION_1_0 always holds the commands that create the dispatchable   *)
(* handles and vkGetPhysicalDeviceFeatures, as in vk.xml.  Each of five    *)
(* further commands (Obj's create, destroy and use, a queue command and    *)
(* vkGetDeviceMemoryCommitment) is required by one of VK_VERSION_1_0,      *)
(* VK_VERSION_1_1, ExtA or ExtB, Obj's create and destroy by the same one  *)
(* as in vk.xml: 4^4 registries.  ExtB also re-requires    *)
(* the Obj use command, and an extension's queue command requires 1.1.     *)
(* ExtA, an instance extension, always has a physical-device command of   *)
(* its own, so the instance-extension guards of the generated layer and   *)
(* driver are met; ExtB is a device extension.                            *)
(***************************************************************************)
EXTENDS TestGen, TLC

CONSTANTS Inst, Phys, Dev, Queue, Obj,
          InstCI, DevCI, ObjCI, PhysFeatures, DevSize, Alloc, U32,
          CreateInstance, GetIPA, EnumPhys, CreateDevice, DestroyDevice, GetQueue,
          CreateObj, DestroyObj, UseObj, QueueSubmit, GetPhysFeatures, GetMemCommitment, GetPhysExt,
          V10, V11, ExtA, ExtB

MCHandleOrder == <<Inst, Phys, Dev, Queue, Obj>>
MCHandles == Range(MCHandleOrder)
MCTypes == MCHandles \cup {InstCI, DevCI, ObjCI, PhysFeatures, DevSize, Alloc, U32}
MCHandlesNamedIn ==
  [t \in MCTypes |->
     CASE t \in MCHandles -> {t}
       [] t = InstCI -> {Inst}  [] t = DevCI -> {Dev}  [] t = ObjCI -> {Obj}
       [] t = PhysFeatures -> {Phys}  [] t = DevSize -> {Dev}
       [] OTHER -> {}]

P(t, ptr, const) == [type |-> t, ptr |-> ptr, const |-> const]
In(t) == P(t, FALSE, FALSE)
Out(t) == P(t, TRUE, FALSE)
CIn(t) == P(t, TRUE, TRUE)

MCShape ==
  (CreateInstance :> [pats |-> {"Create"}, ret |-> "void", params |-> <<CIn(InstCI), CIn(Alloc), Out(Inst)>>]) @@
  (GetIPA :> [pats |-> {"vkGet", "ProcAddr"}, ret |-> "void", params |-> <<In(Inst), CIn(U32)>>]) @@
  (EnumPhys :> [pats |-> {"Enumerate"}, ret |-> "void", params |-> <<In(Inst), Out(U32), Out(Phys)>>]) @@
  (CreateDevice :> [pats |-> {"Create"}, ret |-> "void",
                    params |-> <<In(Phys), CIn(DevCI), CIn(Alloc), Out(Dev)>>]) @@
  (DestroyDevice :> [pats |-> {"Destroy"}, ret |-> "void", params |-> <<In(Dev), CIn(Alloc)>>]) @@
  (GetQueue :> [pats |-> {"vkGet"}, ret |-> "void", params |-> <<In(Dev), In(U32), In(U32), Out(Queue)>>]) @@
  (CreateObj :> [pats |-> {"Create"}, ret |-> "void",
                 params |-> <<In(Dev), CIn(ObjCI), CIn(Alloc), Out(Obj)>>]) @@
  (DestroyObj :> [pats |-> {"Destroy"}, ret |-> "void", params |-> <<In(Dev), In(Obj), CIn(Alloc)>>]) @@
  (UseObj :> [pats |-> {}, ret |-> DevSize, params |-> <<In(Dev), In(Obj)>>]) @@
  (QueueSubmit :> [pats |-> {}, ret |-> "void", params |-> <<In(Queue), In(U32), CIn(Obj)>>]) @@
  (GetPhysFeatures :> [pats |-> {"vkGet"}, ret |-> "void", params |-> <<In(Phys), Out(PhysFeatures)>>]) @@
  (GetMemCommitment :> [pats |-> {"vkGet"}, ret |-> "void", params |-> <<In(Dev), In(Obj), Out(DevSize)>>]) @@
  (GetPhysExt :> [pats |-> {}, ret |-> "void", params |-> <<In(Phys), Out(U32)>>])

MCCommands == DOMAIN MCShape
MCFeatureOrder == <<V10, V11, ExtA, ExtB>>
\* ExtA is an instance extension, ExtB a device extension.
MCFeatType == (V10 :> "none") @@ (V11 :> "none") @@ (ExtA :> "instance") @@ (ExtB :> "device")
MCVer == (V10 :> [major |-> 1, minor |-> 0]) @@ (V11 :> [major |-> 1, minor |-> 1])

CoreCmds == <<CreateInstance, GetIPA, EnumPhys, CreateDevice, DestroyDevice, GetQueue, GetPhysFeatures>>
FreeCmds == <<CreateObj, DestroyObj, UseObj, QueueSubmit, GetMemCommitment>>

Entry(c, f) == [name |-> c, requires |-> IF c = QueueSubmit /\ f \in {ExtA, ExtB} THEN <<V11>> ELSE <<>>]
Entries(cs, f) == [k \in DOMAIN cs |-> Entry(cs[k], f)]

MCRegistries ==
  {[f \in Range(MCFeatureOrder) |->
      (IF f = V10 THEN Entries(CoreCmds, f) ELSE <<>>)
      \o Entries(SelectSeq(FreeCmds, LAMBDA c : a[c] = f), f)
      \o (IF f = ExtA THEN <<Entry(GetPhysExt, f)>> ELSE <<>>)
      \o (IF f = ExtB THEN <<Entry(UseObj, f)>> ELSE <<>>)]
   : a \in {a \in [Range(FreeCmds) -> Range(MCFeatureOrder)] : a[DestroyObj] = a[CreateObj]}}
=============================================================================
