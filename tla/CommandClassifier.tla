------------------------- MODULE CommandClassifier -------------------------
(***************************************************************************)
(* The decision table of loader_tramp_term_generator.py that says, for one *)
(* command of one feature (a core VK_VERSION_x_y feature or an extension), *)
(* whether the loader generates a trampoline, a terminator and a slot in   *)
(* the ICD terminator dispatch table.                                      *)
(*                                                                         *)
(* Names are abstract: a feature or command is a model value and the       *)
(* substring tests the generator makes on names ('VK_VERSION_' in name,    *)
(* 'android' in name.lower()) are given as the sets of names that pass     *)
(* them.  The loader's hand-kept name lists are constants with the source  *)
(* names; an MC module gives them the value the Python literal evaluates   *)
(* to.                                                                     *)
(***************************************************************************)
EXTENDS FiniteSets

CONSTANTS
  Features,          \* names of <feature> and <extension> elements
  Cmds,              \* names of commands
  VersionFeatures,   \* names that contain 'VK_VERSION_'
  AndroidNamed,      \* names that contain 'android' (any case)
  FeatType,          \* interface.get('type'): "instance", "device" or "none"
  HandleType,        \* type of a command's first parameter
  ParamTypes,        \* types of all of a command's parameters
  HandleTypes,       \* the registry's <type category="handle"> names
  NoAlias,           \* alias is None
  WSI_EXT_NAMES,
  MANUALLY_IMPLEMENTED_COMMANDS,
  INST_EXTENSION_OVERRIDES,
  MANUALLY_IMPLEMENTED_TERMINATORS,
  INST_EXTENSION_HAVING_MANUAL_TERMINATORS,
  DEVICE_CMDS_NEEDING_TERMINATOR,
  ADD_DEVICE_EXTS_TRACKED_BY_LOADER

ASSUME /\ VersionFeatures \subseteq Features
       /\ FeatType \in [Features -> {"instance", "device", "none"}]
       /\ HandleType \in [Cmds -> STRING]
       /\ ParamTypes \in [Cmds -> SUBSET STRING]
       /\ \A c \in Cmds : HandleType[c] \in ParamTypes[c]
       /\ NoAlias \notin Cmds

IsVersionFeature(name) == name \in VersionFeatures

\* RequiresTrampoline(extension_type, extension_name, cmd_name, alias)
RequiresTrampoline(extension_type, extension_name, cmd_name, alias) ==
  IF extension_name \in WSI_EXT_NAMES \/ cmd_name \in MANUALLY_IMPLEMENTED_COMMANDS
    THEN FALSE
  ELSE IF alias # NoAlias
    THEN FALSE
  ELSE \/ IsVersionFeature(extension_name)
       \/ extension_type # "instance"
       \/ extension_name \in INST_EXTENSION_OVERRIDES

\* The parameter types whose presence makes any command need a terminator.
TerminatorParamTypes ==
  {"VkInstance", "VkPhysicalDevice", "VkSurfaceKHR", "VkPhysicalDeviceSurfaceInfo2KHR"}

RequiresTerminator(extension_type, extension_name, cmd_name, handle_type, params) ==
  IF \/ extension_name \in WSI_EXT_NAMES
     \/ extension_type = "instance" /\ extension_name \notin INST_EXTENSION_OVERRIDES
    THEN FALSE
  ELSE IF \/ cmd_name \in MANUALLY_IMPLEMENTED_COMMANDS
          \/ cmd_name \in MANUALLY_IMPLEMENTED_TERMINATORS
          \/ cmd_name \in INST_EXTENSION_HAVING_MANUAL_TERMINATORS
    THEN FALSE
  ELSE \/ handle_type \in {"VkInstance", "VkPhysicalDevice"}
       \/ cmd_name \in DEVICE_CMDS_NEEDING_TERMINATOR
       \/ params \cap TerminatorParamTypes # {}

CommandIsInstanceType(handle_type, extension_name) ==
  /\ handle_type \in {"VkInstance", "VkPhysicalDevice", "VkSurfaceKHR"}
  /\ extension_name \notin AndroidNamed

RequiresTerminatorDispatch(extension_type, extension_name, cmd_name, handle_type, params) ==
  \/ RequiresTerminator(extension_type, extension_name, cmd_name, handle_type, params)
  \/ cmd_name \in MANUALLY_IMPLEMENTED_COMMANDS
  \/ cmd_name \in MANUALLY_IMPLEMENTED_TERMINATORS
  \/ extension_name \in INST_EXTENSION_OVERRIDES
  \/ extension_name \in WSI_EXT_NAMES
  \/ CommandIsInstanceType(handle_type, extension_name)

=============================================================================
