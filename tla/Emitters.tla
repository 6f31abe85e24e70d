------------------------------ MODULE Emitters ------------------------------
(***************************************************************************)
(* The output functions of loader_tramp_term_generator.py, reduced to the  *)
(* symbols each generated file defines, declares or refers to.  They all   *)
(* read the finished groups of TrampTermGen; the C text is left out.  A    *)
(* symbol is a pair: <<"vk", c>> is the full command name (an exported     *)
(* trampoline), <<"base", c>> the name without 'vk' (an extension          *)
(* trampoline, a dispatch-table field); terminators and fields are named  *)
(* by their command.                                                       *)
(*                                                                         *)
(* The files are compiled together, so what one emitter refers to another  *)
(* must define: a LOOKUP_GIPA writes a field of loader_icd_term_dispatch,  *)
(* extension_instance_gpa returns the address of a trampoline, the         *)
(* terminator tables name terminator functions.  Some of those functions   *)
(* are written by hand in the loader sources (not generated): the commands *)
(* of the MANUALLY_IMPLEMENTED_* lists and of the WSI extensions.          *)
(***************************************************************************)
EXTENDS TrampTermGen

CONSTANTS
  TRAMP_EXT_GIPA_AVOID_EXTS,
  TRAMP_EXT_GIPA_AVOID_CMD_NAMES,
  DebugUtilsExt,          \* 'VK_EXT_debug_utils'
  GetInstanceProcAddrCmd, \* 'vkGetInstanceProcAddr'
  DriverEntrySkip,        \* skip_gipa_commands of OutputLoaderDriverEntry
  InstTermDispSkip,       \* skip_gipa_commands of OutputLoaderInstanceTermDispatchEntry
  TermDispStructSkip,     \* names containing 'GetInstanceProcAddr' or 'EnumerateDeviceLayerProperties'
  GetDeviceProcAddrNamed, \* names containing 'GetDeviceProcAddr'
  ProtectedFeatures       \* features whose 'protect' attribute names a platform macro

ASSUME ProtectedFeatures \subseteq Features

-----------------------------------------------------------------------------
(* Views of the finished groups *)

CoreGroups == Range(core_command_groups)
ExtGroups  == Range(ext_command_groups)

NonAndroidGroups == {g \in ExtGroups : g.ext_name \notin AndroidNamed}

\* CommandIsInstanceType(cur_cmd.handle_type, cur_ext_cmd_group.ext_name)
IsInst(r, g) == CommandIsInstanceType(HandleType[r.name], g.ext_name)

\* CommandIsInstanceType(cur_cmd.handle_type, ''): '' is not an android name.
IsInstCore(r) == CommandIsInstanceType(HandleType[r.name], NoExt)

\* The names of the records of rs that pass P.
NamesWhere(rs, P(_)) == {r.name : r \in {r \in rs : P(r)}}

\* Functions whose trampoline and terminator the loader writes by hand
\* (lines 29 and 53-54: the WSI extensions and the manual commands).
HandWrittenCmds ==
  MANUALLY_IMPLEMENTED_COMMANDS
  \cup UNION {Names(g.cmds) : g \in {g \in ExtGroups : g.ext_name \in WSI_EXT_NAMES}}

HandWrittenTerminators ==
  HandWrittenCmds \cup MANUALLY_IMPLEMENTED_TERMINATORS
  \cup INST_EXTENSION_HAVING_MANUAL_TERMINATORS

-----------------------------------------------------------------------------
(* OutputLoaderTrampolineDefinitions (lines 1081-1110) with the naming of   *)
(* OutputTrampolineDefinition (lines 1024-1028): a core trampoline is the   *)
(* exported vkX, an extension trampoline drops the 'vk'.                    *)

CoreTrampolines ==
  UNION {NamesWhere(Range(CoreRecs(g)), LAMBDA r : r.needs_tramp) :
           g \in {g \in CoreGroups : g.needs_tramp}}

ExtTrampolines ==
  UNION {NamesWhere(Range(g.cmds), LAMBDA r : r.needs_tramp) :
           g \in {g \in ExtGroups : g.needs_tramp}}

TrampolineSymbols ==
  {<<"vk", c>> : c \in CoreTrampolines} \cup {<<"base", c>> : c \in ExtTrampolines}
  \cup ({"vk", "base"} \X HandWrittenCmds)

-----------------------------------------------------------------------------
(* GenerateInstanceExtensionList (lines 1578-1599): the extensions with an *)
(* inst_ext_enables bit, in the order of the if/else chain of              *)
(* extensions_create_instance.  'ext_name not in ext_used' compares a name *)
(* with group records, so it never skips; the groups have distinct names   *)
(* anyway.  With no such extension 'ext_used[0]' raises IndexError.        *)

\* Mutant: the reordering hack is left out.
GenerateInstanceExtensionListNoSwap ==
  LET used == SelectSeq(ext_command_groups, LAMBDA g :
                \/ FeatType[g.ext_name] = "instance" /\ g.ext_name \notin AndroidNamed
                \/ \E r \in Range(g.cmds) : HandleType[r.name] = "VkPhysicalDevice")
  IN [k \in DOMAIN used |-> used[k].ext_name]

GenerateInstanceExtensionList ==
  LET used == SelectSeq(ext_command_groups, LAMBDA g :
                \/ FeatType[g.ext_name] = "instance" /\ g.ext_name \notin AndroidNamed
                \/ \E r \in Range(g.cmds) : HandleType[r.name] = "VkPhysicalDevice")
      names == [k \in DOMAIN used |-> used[k].ext_name]
      j == SelectInSeq(names, LAMBDA n : n \notin ProtectedFeatures)
  IN IF names # <<>> /\ names[1] \in ProtectedFeatures /\ j # 0
       THEN [names EXCEPT ![1] = names[j], ![j] = names[1]]
       ELSE names

\* The device half of OutputInstanceExtensionEnableCheck (lines 1716-1737):
\* one 'if'/'else if' per group with needs_dev_term_override.
DeviceEnableChain ==
  LET over == SelectSeq(ext_command_groups, LAMBDA g : g.needs_dev_term_override)
  IN [k \in DOMAIN over |-> over[k].ext_name]

-----------------------------------------------------------------------------
(* OutputLoaderTrampolineUtils and OutputLoaderTrampGIPA (lines           *)
(* 1112-1164): extension_instance_gpa, one entry per command of a group    *)
(* that is not WSI, avoided, android or empty.                             *)

\* Mutant: the alias is always taken as a full (core) name.
GipaBaseNameAliasFull(r) ==
  IF r.alias = NoAlias THEN <<"base", r.name>> ELSE <<"vk", r.alias>>

\* base_name: the command without 'vk'; for an alias, the alias without
\* 'vk' when it falls back to an extension, else the full alias name.
GipaBaseName(r) ==
  IF r.alias = NoAlias THEN <<"base", r.name>>
  ELSE IF r.alias_ext # NoExt THEN <<"base", r.alias>>
  ELSE <<"vk", r.alias>>

GipaGroups ==
  {g \in ExtGroups : /\ g.ext_name \notin WSI_EXT_NAMES \cup TRAMP_EXT_GIPA_AVOID_EXTS
                     /\ g.ext_name \notin AndroidNamed
                     /\ Len(g.cmds) > 0}

\* Each entry returns target; an instance extension's entry reads the bit
\* inst_ext_enables.<ext>.
GipaEntries ==
  UNION {{[name |-> r.name, target |-> GipaBaseName(r),
           enable |-> IF FeatType[g.ext_name] = "instance" THEN g.ext_name ELSE NoExt] :
            r \in {r \in Range(g.cmds) : r.name \notin TRAMP_EXT_GIPA_AVOID_CMD_NAMES}} :
           g \in GipaGroups}

-----------------------------------------------------------------------------
(* OutputLoaderTerminatorDefinitions (lines 1483-1520): the terminator_X    *)
(* functions generated; an aliasing extension command gets none.            *)

TerminatorDefinitions ==
  UNION {NamesWhere(Range(CoreRecs(g)), LAMBDA r : r.needs_term) :
           g \in {g \in CoreGroups : g.needs_term}}
  \cup UNION {NamesWhere(Range(g.cmds), LAMBDA r : r.needs_term /\ r.alias = NoAlias) :
                g \in {g \in ExtGroups : g.needs_term}}

-----------------------------------------------------------------------------
(* OutputLoaderTerminatorDispatchStruct (lines 1522-1576): the fields of   *)
(* struct loader_icd_term_dispatch.                                         *)

\* Mutant: an extension command gets a field only when it is instance-type.
TermDispatchExtFieldInstOnly(r, g) == IsInst(r, g)

TermDispatchExtField(r, g) == r.requires_term_disp \/ IsInst(r, g)

TermDispatchSlots ==
  UNION {NamesWhere(Range(g.inst_cmds), LAMBDA r : r.name \notin TermDispStructSkip)
         \cup NamesWhere(Range(g.dev_cmds), LAMBDA r : r.requires_term_disp
                                                     \/ r.name \in GetDeviceProcAddrNamed) :
           g \in CoreGroups}
  \cup UNION {NamesWhere(Range(g.cmds), LAMBDA r : TermDispatchExtField(r, g)) :
                g \in {g \in ExtGroups : g.requires_term_disp}}

-----------------------------------------------------------------------------
(* OutputLoaderTerminatorFunctions with OutputLoaderDriverEntry and        *)
(* OutputLoaderDeviceProcEntry (lines 1946-2097).                           *)

\* The LOOKUP_GIPA(X) lines of loader_icd_init_entries: each writes
\* icd_term->dispatch.X.
DriverLookups ==
  (UNION {Names(g.inst_cmds)
          \cup NamesWhere(Range(g.dev_cmds), LAMBDA r : IsInstCore(r)
                                              \/ r.name \in DEVICE_CMDS_NEEDING_TERMINATOR) :
            g \in CoreGroups}
   \cup UNION {NamesWhere(Range(g.cmds), LAMBDA r : IsInst(r, g)
                                           \/ r.name \in DEVICE_CMDS_NEEDING_TERMINATOR) :
                 g \in NonAndroidGroups})
  \ DriverEntrySkip

-----------------------------------------------------------------------------
(* instance_term_disp: OutputLayerInstanceTermDispatchTable(False) with     *)
(* OutputLoaderInstanceTermDispatchEntry (lines 2099-2191).  Its second     *)
(* branch (lines 2163-2172) repeats the test of the first and is dead.      *)

\* Mutant: the alias is followed for core records too.
TermDispatchTargetAnyAlias(r, core) == IF r.alias # NoAlias THEN r.alias ELSE r.name

\* aliased_name: '.X = terminator_<aliased_name>'.
TermDispatchTarget(r, core) == IF ~core /\ r.alias # NoAlias THEN r.alias ELSE r.name

InstanceTermDispatchRefs ==
  UNION {{TermDispatchTarget(r, TRUE) :
            r \in {r \in Range(g.inst_cmds) :
                     r.name \notin InstTermDispSkip \cup {GetInstanceProcAddrCmd}}} :
           g \in CoreGroups}
  \cup UNION {{TermDispatchTarget(r, FALSE) : r \in {r \in Range(g.cmds) : IsInst(r, g)}} :
                g \in {g \in ExtGroups : g.has_inst}}

-----------------------------------------------------------------------------
(* The layer dispatch tables: the fields VkLayerInstanceDispatchTable and   *)
(* VkLayerDispatchTable declare (lines 2125-2230), and the fields the       *)
(* init and lookup functions of OutputLoaderDispatchTables (lines           *)
(* 1801-1943) write or read.                                                *)

LayerInstanceTableFields ==
  UNION {Names(g.inst_cmds) : g \in CoreGroups}
  \cup UNION {NamesWhere(Range(g.cmds), LAMBDA r : IsInst(r, g)) :
                g \in {g \in ExtGroups : g.has_inst}}

\* Mutant: VK_EXT_debug_utils is skipped like every instance extension.
DeviceTableGroupNoDebugUtils(g) ==
  FeatType[g.ext_name] # "instance" /\ Len(g.cmds) > 0

\* The extension groups whose device commands VkLayerDispatchTable holds.
DeviceTableGroup(g) ==
  ~(FeatType[g.ext_name] = "instance" /\ g.ext_name # DebugUtilsExt) /\ Len(g.cmds) > 0

LayerDeviceTableFields ==
  UNION {Names(g.dev_cmds) : g \in CoreGroups}
  \cup UNION {NamesWhere(Range(g.cmds), LAMBDA r : HandleType[r.name] \notin
                                                   {"VkInstance", "VkPhysicalDevice"}) :
                g \in {g \in ExtGroups : DeviceTableGroup(g)}}

InstanceTableWrites ==
  UNION {Names(g.inst_cmds) : g \in CoreGroups}
  \cup UNION {NamesWhere(Range(g.cmds), LAMBDA r : IsInst(r, g)) : g \in ExtGroups}

DeviceTableWrites ==
  UNION {Names(g.dev_cmds) : g \in CoreGroups}
  \cup UNION {NamesWhere(Range(g.cmds), LAMBDA r : ~IsInst(r, g)) : g \in ExtGroups}

-----------------------------------------------------------------------------
(* Properties, over the output of a finished run *)

\* The entries of a chain that survive the preprocessor when the platform
\* macros of the features in defined are set.
Surviving(chain, defined) ==
  {k \in DOMAIN chain : chain[k] \notin ProtectedFeatures \/ chain[k] \in defined}

(* loader_icd_init_entries assigns icd_term->dispatch.X for every          *)
(* LOOKUP_GIPA(X) it emits, so each must be a field that                    *)
(* OutputLoaderTerminatorDispatchStruct declares.  The two functions select *)
(* commands by different tests (instance-type or needing a device          *)
(* terminator, against requires_term_disp of the group and of the command).*)
DriverLookupsHaveSlots ==
  finished => DriverLookups \subseteq TermDispatchSlots

(* Every address extension_instance_gpa returns is a trampoline some file   *)
(* defines (generated or written by hand), and every inst_ext_enables bit   *)
(* it reads is declared by OutputExtensionEnableStructs.  The target's name *)
(* depends on the alias and on whether UpdateAliasCommandGroup left a      *)
(* fallback extension in alias_ext.                                         *)
GipaTargetsDefined ==
  finished =>
    \A e \in GipaEntries :
      /\ e.target \in TrampolineSymbols
      /\ e.enable # NoExt => e.enable \in Range(GenerateInstanceExtensionList)

(* Every terminator_X named by instance_term_disp is defined: generated by *)
(* OutputLoaderTerminatorDefinitions or written by hand.  An aliasing      *)
(* extension command has no terminator of its own and its entry names the  *)
(* alias target's; a core record carrying an alias back-pointer keeps its  *)
(* own.                                                                     *)
InstanceTermDispatchDefined ==
  finished => InstanceTermDispatchRefs \subseteq TerminatorDefinitions \cup HandWrittenTerminators

(* The init and lookup functions of the layer dispatch tables only touch    *)
(* fields that VkLayerInstanceDispatchTable and VkLayerDispatchTable        *)
(* declare: the tables split an extension's commands by instance type,      *)
(* the struct definitions by extension type and handle, with                *)
(* VK_EXT_debug_utils as the one instance extension with device commands.   *)
DispatchTablesDeclareWrittenFields ==
  finished =>
    /\ InstanceTableWrites \subseteq LayerInstanceTableFields
    /\ DeviceTableWrites \subseteq LayerDeviceTableFields

(* extensions_create_instance is one if / else if chain over               *)
(* GenerateInstanceExtensionList, each entry inside the #ifdef of its       *)
(* extension's platform macro.  It compiles for every set of defined macros *)
(* only if the entry written with 'if' (the first) survives every time: the *)
(* comment at line 1591, 'make sure the first one is not protected'.        *)
InstanceEnableChainCompiles ==
  finished =>
    \A defined \in SUBSET ProtectedFeatures :
      1 \in Surviving(GenerateInstanceExtensionList, defined)

(* extensions_create_device is the same kind of chain over the groups with *)
(* needs_dev_term_override: it compiles for every set of defined macros     *)
(* only if, whenever an entry survives, the first ('if') entry does.  Spec  *)
(* section 7: a plan never yields non-compiling forwarding code.            *)
DeviceEnableChainCompiles ==
  finished =>
    \A defined \in SUBSET ProtectedFeatures :
      LET kept == Surviving(DeviceEnableChain, defined) IN kept = {} \/ 1 \in kept

=============================================================================
