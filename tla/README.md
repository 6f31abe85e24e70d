# TLA+ models of the Vulkan-Loader code generators

The Python generators under `src/scripts` turn the Vulkan registry (`vk.xml`) into the
loader's trampolines, terminators and dispatch tables
(`loader_tramp_term_generator.py`). They also generate the entry-point tests and the test
layer and driver (`loader_test_generator.py`). `generate_source.py` runs all generators in
one of three modes. `parse_asm_values.py` scrapes struct offsets for the assembly
trampolines. The models here check the parts that hold state and make decisions. Text
rendering is not modelled.

## Inventory

### Components and how they interact

| Part | Code | State | Operations |
|---|---|---|---|
| Feature ingest | `beginFeature`, `genCmd` (tramp/term generator) | `basic_extensions`, `basic_commands` | one `beginFeature` per feature in registry order; `genCmd` records commands and drops 'android' ones |
| Command classifier | `RequiresTrampoline`, `RequiresTerminator`, `RequiresTerminatorDispatch`, `CommandIsInstanceType` | the hand-kept name lists (lines 30-160) | pure decisions |
| Grouper | `endFile` loop, `AddCommandToDispatchList`, `FindCoreCommandGroup`, `FindExtCommandGroup` | `core_command_groups`, `ext_command_groups`, `dev_extensions_tracked_by_loader` | file one command, find-or-create a group, OR-merge flags |
| Alias resolver | `UpdateAliasCommandGroup` | patches core records (`alias`, `alias_ext`) | called for each aliasing extension command |
| Emitters | `Output*`, `GenerateInstanceExtensionList` | read-only | render C text from the groups; the files they write refer to each other's symbols |
| Handle tree | `GenerateHandleTreeData`, `GenLowestParentHandlesForHandleTree`, `GenHighestChildrenHandlesForHandleTree` (test generator) | `handle_tree` | build candidate parents/children, prune both lists in place |
| Test walk | `GenerateTestHandleList`, `GenHandleTest`, `PickCreateDestroyFunc`, `CallUsageFuncs` | read-only | close the used handles under parents, walk children from VkInstance, pick a create and destroy per handle by version |
| Test ingest | `beginFeature`, `genCmd` (test generator) | `basic_extensions`, `basic_commands`, `max_major`, `max_minor` | record each feature's new commands; classify each command as create, destroy or usage and find the handle it modifies |
| Driver | `generate_source.py` | repo and temp directories | run generators; `--verify` compares, `--incremental` copies |
| ASM values | `parse_asm_values.py` | `gen_defines.asm` | read the compiler's listing, open the file, write a header, then one line per define; exit with 1 on an unreadable listing or a missing define |
| Version generators | `loader_versioning_generator.py`, `loader_generated_header_version_generator.py`, `generators/vk_result_to_string_generator.py` | none | formatting |

The registry walk calls ingest for every feature, then `endFile` runs the grouper. The
grouper calls the classifier and the alias resolver. The emitters read the finished
groups. The test generator builds its own copy of the ingest data, then the handle tree,
and its test walk reads the tree.

### What makes it hard
Everything runs on one thread, so the difficulty lies in order and in in-place mutation:
- first-writer-wins recording across features;
- an alias patch that depends on the core groups already being filled;
- group records replaced by merged copies;
- Python lists pruned while a `for` loop iterates over them;
- a list closed under parents by appending while iterating it;
- two relations (parents and children) pruned separately and then used together.

The hazards are listed, each at its line, in `PROJECT.json`.

## Modules

- `CommandClassifier.tla`: the decision table as operators, translated line by line.
  Names are model values. A substring test on a name ("VK_VERSION_", "android") becomes
  membership in a constant set. Each hand-kept list is a constant whose value is what the
  Python literal evaluates to.
- `TrampTermGen.tla`: ingest and grouper. The registry is chosen in `Init` from every
  well-formed registry over the constants:
  - each command has a home feature;
  - a bounded number of extra `<require>` entries (`MaxDuplicateRequires`);
  - a bounded number of aliases (`MaxAliases`).

  Actions:
  - `BeginFeature`: one feature, the whole body of `beginFeature`.
  - `DispatchCommand`: one command of `endFile`'s loop, the whole `AddCommandToDispatchList`.
  - `DispatchEmptyExtension`: the else branch.
  - `TrackDeviceExtensions`: the final loop.
  - `Terminated`: the generator has exited.

  Groups are records. Their command lists are sequences of records holding the decision
  flags and alias fields.
- `HandleTree.tla`: the test generator's handle tree. The input is a sequence of create
  commands, each reduced to `(handle_type, modified_handle)`. `Init` chooses every acyclic
  sequence of up to `MaxCreateCmds` commands in which nothing creates the root; repeated
  edges are allowed. Actions:
  - `GenerateHandleTreeData`: one handle per step.
  - `PruneStep(fld)`: one iteration of the pruning `for` loop. `pos` is the Python list
    iterator's index, so a removal before `pos` makes the loop skip an entry, as in CPython.
  - `NextHandle(fld, next)`: the iterator is exhausted; move to the next handle or pass.

  `GenerateTestHandleList` is a RECURSIVE operator read by the properties.
  `ChildWalkReach` is the set of handles `GenHandleTest`'s recursion over child lists
  reaches when no handle is skipped. It leaves out the `continue` at lines 1178-1179,
  which needs the test's version and the command lists. `TestGen` models that `continue`
  and uses `ChildWalkReach` as the walk it is compared with.
- `Emitters.tla` (extends `TrampTermGen`): each output function that names a symbol of another
  generated file becomes an operator. The operator gives the set of names the function defines,
  declares or refers to. Examples:
  - `TrampolineSymbols`: `OutputLoaderTrampolineDefinitions`;
  - `GipaEntries`: `extension_instance_gpa`;
  - `TermDispatchSlots`: `struct loader_icd_term_dispatch`;
  - `DriverLookups`: the `LOOKUP_GIPA` lines;
  - `InstanceTermDispatchRefs`: `instance_term_disp`;
  - `LayerDeviceTableFields` and `DeviceTableWrites`: the layer dispatch tables and the code that fills them;
  - `GenerateInstanceExtensionList` and `DeviceEnableChain`: the two enable if/else chains.

  The module adds no variables. The properties read these operators in the finished state.
  Functions the loader writes by hand (the manual lists and the WSI extensions) are in
  `HandWrittenCmds` and `HandWrittenTerminators`. Their names are assumed to match the
  references; the hand-written C files are not under `src/`.
- `Grouping.tla`: the abstract specification of the grouper, with no lists, records or
  aliases.
  - The registry gives each command a `home` group (or none, when `genCmd` drops it) and a
    set of needed flags. It also gives the `empty` features, those that bring no new
    command.
  - `File(c)` files one command into its home group and merges its needs. `OpenEmpty(k)`
    creates an empty feature's group. `Finish` is allowed once everything is filed.

  `TrampTermGen.tla` ends with the refinement mapping:
  - a group key is `<<"core", version>>` or `<<"ext", feature>>`;
  - `home` is the key of the first feature listing the command;
  - `need` is what `AddCommandToDispatchList`'s classifiers decide for that feature;
  - `filed`, `groups` and `flags` are read off the group lists.

  An empty feature's group is an extension group even when the feature is a `VK_VERSION_`
  one, as in the code.
- `GenerateSource.tla`: `generate_source.py`. The state is:
  - the two repository directories and the temporary directory, each a function from file
    names to `"old"`, `"new"`, `"partial"` or `"absent"`;
  - the mode;
  - the index of the generator loop;
  - the set of files the incremental copy has yet to visit.

  `RunGenerator` is one generator subprocess. It succeeds, or it fails leaving its file untouched
  or half written, and then `main` returns 1. `GeneratorsDone`, `Verify`, `IncrementalCopy`
  (one file per step, in any order, as `os.listdir` gives no order) and `IncrementalDone`
  follow the code.
- `TestGen.tla`: the test generator from the registry walk to the finished tests. `Init`
  chooses a registry: for each feature, its `<require>`d commands. A command is a model
  value with a `Shape`:
  - the name substrings `genCmd` and `OutputTestEntrypoint` test (`Create`, `vkGet`,
    `ProcAddr`, ...);
  - the return type;
  - the parameters as `[type, ptr, const]`.

  `paramIsHandle`'s substring test is the constant `HandlesNamedIn`: the handles whose name
  occurs in a type's name. Actions:
  - `BeginFeature`: the whole `beginFeature` (the two skip loops, the version maxima).
  - `GenCmd`: one `genCmd` call, for the first feature requiring the command.
  - `EndFeature`: on to the next feature.
  - `EndFile`: the whole `endFile`. It runs `GenerateHandleTreeData`, with both pruning loops
    run to their end, then computes one test per version and per tested extension as the
    sequence of commands it calls (`GenHandleTest`, `PickCreateDestroyFunc`,
    `CallUsageFuncs`).

  The generated test layer and driver are modelled by what their lookups return, as
  operators over the finished `basic_extensions`. `OutputLayerGIPA`, `OutputLayerGDPA`,
  `OutputDriverGIPA` and `OutputDriverGDPA` all use `ProcAddrCommands`:
  - a feature without commands is skipped;
  - a core version's block is open in the driver always, and in the layer when
    `LayerCoreOpen` holds: `enabled_instance_minor >= minor` for a minor above 0;
  - an instance (device) extension's block is open in GetInstanceProcAddr
    (GetDeviceProcAddr) only when the extension is enabled;
  - any other extension's block is always open.

  `InstanceExtsEnabled` and `DeviceExtsEnabled` are the lists `OutputTestStart` and the
  `vkCreateDevice` branch of `OutputTestEntrypoint` build. The constant `FeatType` is each
  feature's `type` attribute. `InstDispatchHandles` holds the handle types
  `OutputTestEntrypoint` calls through `inst_disp_table`.

  It reuses `HandleTree`'s parent closure and reach set through a parameterised `INSTANCE`.
- `AsmDefines.tla`: the whole of `parse_asm_values.py`.
  - State: the build (compiler, assembler, arch), the compiler's listing, and
    `gen_defines.asm` as a sequence of `[sym, val]` lines. `dest0` is the file an earlier
    build left.
  - A listing line is a symbol and the digits of its value: hex for MSVC, decimal for GNU
    and Clang. `Digits` and `FromDigits` are the `str`/`int` conversions.
  - `EndsWith` is the substring match of `re.search(d + ...)`: a pattern also matches a
    longer symbol that ends with it.
  - Actions: `ReadSource` (the `IOError` exit), `OpenDest` (truncate, then the MASM or GAS
    header), `ScanDefine` (one pass of the loop: the MSVC skip of the error bit, a write, or
    `sys.exit(1)`), `Finish` and `Exited`.
- `MC_TrampTermGen.tla`, `MC_FullScreenExclusive.tla`, `MC_TestGen.tla`, `MC_AsmDefines.tla`, `MC_HandleTree.tla`, `MC_Emitters.tla`,
  `MC_GenerateSource.tla`: the model values and constant definitions used by the cfgs.

## Runs

| Run | Expect | What it shows |
|---|---|---|
| `trampterm_core` | pass | `CommandFiledOnce`: each kept command is filed once, in the first requiring feature's group. `GroupFlagsMatchMembers`: group flags equal the OR over members. `AliasBackPointer`: alias back-pointers are consistent both ways. `GroupingRefined`: the grouper implements `Grouping` under the refinement mapping at the end of `TrampTermGen.tla`. Each `endFile` step files one kept command into its home group and merges exactly its needs, or opens the group of a feature that brought nothing new, and the run ends with everything filed. |
| `fse_manual_commands` | violation | The missing comma after line 76 gives the two full-screen-exclusive commands generated trampolines. |
| `handle_tree` | pass | `ParentsCoverCreators`: pruning keeps every creator reachable along parent lists. |
| `handle_tree_iteration_skip` | violation | The remove-while-iterating loop leaves a handle beside one of its creators (a 4-handle, 5-command trace). |
| `emitters` | pass | `DriverLookupsHaveSlots`: every `LOOKUP_GIPA(X)` writes a declared field of `loader_icd_term_dispatch`. `GipaTargetsDefined`: every address `extension_instance_gpa` returns is a defined trampoline, and each enable bit it reads is declared. `InstanceTermDispatchDefined`: every `terminator_X` in `instance_term_disp` exists. `DispatchTablesDeclareWrittenFields`: the init and lookup functions touch only declared fields of the layer tables. `InstanceEnableChainCompiles`: for every set of defined platform macros, the instance chain's first (`if`) entry survives. |
| `emitters_device_enable_chain` | violation | `extensions_create_device`'s chain is not reordered. With its first extension protected and the macro undefined, it begins with `else if`. |
| `test_gen` | pass | `HandleLiveAtEveryCall`: every call of a generated test is on a handle the test created earlier and has not destroyed since. `ClassifiedUsageCalled`: every command `genCmd` classifies as neither create nor destroy is called once the walk reaches its handle, so the `continue` in `GenHandleTest` drops nothing. `EveryCallReachesLayerAndDriver`: every call is returned by both the layer's and the driver's GetInstanceProcAddr (for a command on VkInstance or VkPhysicalDevice) or GetDeviceProcAddr (for any other), under the extensions the test enables and its API version. Device extensions count only after the test's `vkCreateDevice`. So the `Generated Layer X` / `Generated Driver X` assertions after each call can hold. |
| `test_gen_query_commands` | violation | `vkGetPhysicalDeviceFeatures` (output type `VkPhysicalDeviceFeatures`, which contains `VkPhysicalDevice`) is classified as a create of a non-handle and no test calls it. |
| `test_gen_unused_creates` | violation | A handle that the feature's commands create but none of them takes is never walked to, so its create and destroy are not called. In vk.xml: VK_EXT_debug_report's callback. |
| `generate_source` | pass | `FailedRunLeavesRepo`: a failing `--incremental` or `--verify` run leaves the repository untouched. `IncrementalThenVerify`: after `--incremental`, `--verify` succeeds exactly when the repository holds no stale file. |
| `asm_defines` | pass | `DefinesMatchAsm`: a run that returns 0 writes every define exactly once, with the value the compiler emitted for that name. That includes MSVC's hex conversion and the error bit from the header under MASM. `PTR_SIZE` and `CHAR_PTR_SIZE` have the same value in every build, so a line taken for the wrong one of the two goes unnoticed. `FailedRunLeavesNoCompleteFile`: a failed run leaves either the old file untouched or one that lacks a define, never one that assembles. |
| `generate_source_default_out_dir` | violation | The default mode writes the test entrypoint file into `loader/generated`, not `tests/generated`: `out_dir` is only printed. |

Four hazards in `PROJECT.json` have no run.
- The pruning of parents is one level deep, which the spec's section 8 says is not enough.
  The run `handle_tree_iteration_skip` already shows that even the one-level promise fails.
- The child lists are pruned by their own loop, with the same iteration skip. Each removal
  drops an edge that two remaining edges replace, so the walk down the children reaches the
  same handles whichever entries the loop skips.
- `GenerateTestHandleList` appends to the list it iterates. The model runs the loop as the
  code does, and no property compares it with a one-level closure.
- An alias whose target is in no group is filed with `alias_ext` '' and the run goes on,
  where spec §4.4 wants an abort. No alias in vk.xml has such a target.

Three cases are left out of the hazard list because the code cannot meet them.
- Commands named with 'android' are in no group. `genCmd` drops them on purpose.
- The test generator's `max_major` and `max_minor` would combine into a version that does
  not exist only with a 2.x version, which vk.xml does not have.
- An aliasing extension command in `DEVICE_CMDS_NEEDING_TERMINATOR` would name an undefined
  terminator, but no command on that list is an alias.

One case is also left unchecked in `AsmDefines`. If a listing lacks
`PTR_SIZE` but has `CHAR_PTR_SIZE`, the substring search takes the longer name's value and
the run succeeds. TLC shows this when `DefinesMatchAsm` is stated for names the listing
lacks too.

Each property of a passing run has a mutant in `PROJECT.json`, a plausible bug in a mapped
definition, and TLC finds that property violated under the mutant. The mutants:
- a skip check that looks at the feature's own list only;
- flags overwritten instead of OR-ed;
- `dev_cmds` not searched for alias targets;
- the back-pointer written with its names swapped;
- the `not in` guard dropped;
- the pruning removing the entry instead of its parents;
- an extension command getting a `loader_icd_term_dispatch` field only when it is instance-type;
- a GIPA alias always taken as a full core name;
- `instance_term_disp` following aliases of core records too;
- `VkLayerDispatchTable` without the VK_EXT_debug_utils exception;
- `GenerateInstanceExtensionList` without its reordering;
- `endFile` without the `else` branch that gives an empty feature its group;
- in the test generator:
  - `beginFeature` without the skip over earlier features;
  - `PickCreateDestroyFunc` stopping before minor version 0;
  - `CallUsageFuncs` comparing minor versions with `>`;
  - the layer's version guard comparing with `>`;
- in `parse_asm_values.py`:
  - MSVC's hex value written unconverted;
  - `gen_defines.asm` opened for appending;
- in `generate_source.py`:
  - the temporary directory used in every mode, or only by `--verify`;
  - the incremental copy skipping changed files.

## Bounds

- **`MC_TrampTermGen`:**
  - Features: two core versions, a device extension and an instance extension, in
    registry order.
  - Commands: four, one of each shape the decision table tells apart:
    - a physical-device query;
    - a device command;
    - `vkGetDeviceProcAddr`, which is manual and needs a device terminator;
    - a device command taking a surface.
  - `MaxDuplicateRequires = 1` lets a command be required twice.
  - `MaxAliases = 2` allows an alias to a core command and to an extension command in the
    same registry.

  About 210,000 states, 2 min: most of the time goes on the refinement mapping to `Grouping`,
  which is evaluated on every step.
- **`MC_HandleTree`:** four handles (VkInstance and three more) and up to five create
  commands. The smallest registry shapes that break pruning need four handles and four or
  five commands: three candidate parents, one of which creates another. All of these are
  inside the bound. About 645,000 states, 40 s.
- **`MC_FullScreenExclusive`:** the real shape of VK_EXT_full_screen_exclusive: three
  commands, a device extension in `INST_EXTENSION_OVERRIDES`, two commands in
  `INST_EXTENSION_HAVING_MANUAL_TERMINATORS`.

- **`MC_Emitters`:** the registry of `MC_TrampTermGen`, with these changes:
  - InstExt plays VK_EXT_debug_utils. It is an instance extension in `INST_EXTENSION_OVERRIDES`,
    and its device commands need terminators: `DEVICE_CMDS_NEEDING_TERMINATOR` holds DevCmd
    and `vkGetDeviceProcAddr`.
  - DevExt has a platform macro, like VK_EXT_full_screen_exclusive.

  These are the shapes of the real lists. The real registry relies on them: every instance
  extension with its own generated commands is in `INST_EXTENSION_OVERRIDES`, WSI, or a
  GIPA-avoid list, and VK_EXT_debug_utils is the only instance extension with device commands.
  A registry breaking either would break the properties. About 210,000 states, 15 s.
  - Registries covered: all of them. That includes a protected extension ahead of the first
    unprotected one in both chains, and aliases to core and to extension commands.
  - Not exercised: the skip lists for `vkGetInstanceProcAddr`, `vkCreateInstance` and the
    `vkEnumerateInstance*` commands. None of those commands is in the model.
- **`MC_TestGen`:** five handles (VkInstance, VkPhysicalDevice, VkDevice, VkQueue, and a
  non-dispatchable device child), the three CreateInfo types, two output types whose names
  contain a handle name, and two plain types. There are four features: 1.0, 1.1, ExtA and
  ExtB.
  - VK_VERSION_1_0 holds the commands that create the dispatchable handles, as in vk.xml, and
    `vkGetPhysicalDeviceFeatures`.
  - Five more commands go to any feature: the child's create, destroy and use, a queue
    command, and `vkGetDeviceMemoryCommitment`. The create and destroy share a feature, as
    they do in vk.xml, which gives 256 registries.
  - ExtA is an instance extension and always has a physical-device command of its own.
    ExtB is a device extension.
  - ExtB also re-requires the use command.
  - An extension's queue command requires 1.1.

  This covers a create in a later version or in another extension than its use, a re-required
  command, and a version filter that bites. It also covers an extension command looked up through each
  of the two guarded lookups, and a 1.1 command behind the layer's version guard. About 6,100
  states, 45 s. Each state at
  the end computes the tree and four tests, which is what limits the bound.
- **`MC_AsmDefines`:**
  - Four of the eleven defines: the error bit, which MSVC's listing lacks; `PTR_SIZE` and
    `CHAR_PTR_SIZE`, whose patterns overlap; and one offset.
  - Four builds: MSVC/MASM, GNU/GAS on x86_64 and on x86, and Clang/GAS on aarch64.
    Together they take every header branch.
  - Every listing with any subset of the names in any order. Sizes are 4 or 8, and
    offsets 10 or 24, so hex and decimal differ.
  - An earlier file, or none.

  The other seven defines behave like the offset. 12,404 states, 4 s.
- **`MC_GenerateSource`:** five file names:
  - three generated, one of them a test entrypoint file;
  - `.clang-format`, excluded from verify;
  - a stale file no generator writes.

  All three modes, every initial repository over `old`, `new` and `absent`, and a failure of any
  generator. 2.48 million states, 21 s.

## Fairness

Each generator is a single-threaded batch run that always continues until it finishes.
`WF_vars(Next)` expresses exactly that. No property depends on a fairness that the code
does not give.

## Assumptions

- `regSortFeatures` (in the registry framework, not under `src/`) puts the core features
  first. This is an `ASSUME` on `FeatureOrder`.
- Each feature is visited once.
- `loader_genvk.py` (not under `src/`) writes its output file into its working directory: its
  `-o` default is `.`, and `generate_source.py` passes no `-o`.
- The hand-written trampolines and terminators (in `loader/*.c`, not under `src/`) exist under
  the names the generated code uses for them.
- `genvk` (not under `src/`) calls `genCmd` once per command, for the first feature that
  requires it (`Generated` in `TestGen`).
- `sizeof(void *) = sizeof(char *)`: `MC_AsmDefines` gives `PTR_SIZE` and `CHAR_PTR_SIZE`
  the same value.
- The build system (not under `src/`) pairs MSVC with MASM and GNU or Clang with GAS.
- The loader (not under `src/`) fetches a command on VkInstance, VkPhysicalDevice or
  VkSurfaceKHR through the layers' and drivers' GetInstanceProcAddr, and any other command
  through GetDeviceProcAddr once the device exists. `OutputTestEntrypoint`'s choice of
  dispatch table makes the same split.
- In the handle tree, the create relation is acyclic (spec §2), and no command creates
  VkInstance from a handle: `vkCreateInstance`'s first parameter is a CreateInfo, which
  gives `handle_type` ''.

## Not modelled, and the plan

Not yet modelled:
1. The emitters' text:
   - prototype headers and `OutputAdditionalTerminatorPrototypes`;
   - the body of each trampoline and terminator (parameter unwrapping, return handling).

   Only the symbols they name are modelled.

Out of reach or without interest:
- the text rendering, including the test generator's variable declarations and the
  wording of its log assertions, and the surface set-up of `OutputTestStart`/`OutputTestEnd`;
- the aliases a log assertion also accepts, and an extension's `required_exts`: the MC
  registry has neither;
- the rest of the test layer and driver emitters, which print one function per command
  with no selection;
- a 2.x core version: vk.xml has none, so the test generator's independent `max_major` /
  `max_minor` maxima (a hazard) are modelled but never differ from a real version;
- the version and VkResult generators. They format a version number or an enum list into
  text and have no state or branching worth checking. Two weak spots are visible by reading
  the code. `loader_generated_header_version_generator.py` hard-codes "1.2." in front of the
  header patch number. `loader_versioning_generator.py` takes the 2nd and 3rd number of
  `VK_HEADER_VERSION_COMPLETE`, which raises IndexError on the older
  `VK_MAKE_VERSION(1, 2, VK_HEADER_VERSION)` form. Both depend on the header's text, which
  no model here represents.
