------------------------------- MODULE TestGen -------------------------------
(***************************************************************************)
(* The entrypoint tests of loader_test_generator.py.  The registry drives *)
(* the generator one feature at a time: beginFeature records the feature  *)
(* and the commands it is the first to list, then genCmd classifies each   *)
(* command the feature is the first to require.  endFile builds the       *)
(* handle tree (GenerateHandleTreeData, with both pruning passes of        *)
(* HandleTree) and writes one test per core version (GenerateCoreTest) and *)
(* per tested extension (GenerateExtensionTest).  A test is the sequence   *)
(* of commands it calls: GenHandleTest walks the tree from VkInstance,     *)
(* calling at each handle the create PickCreateDestroyFunc picks, the      *)
(* usage commands CallUsageFuncs keeps, the children, then the destroy.    *)
(*                                                                         *)
(* A command is a model value.  Its name is abstracted to the substrings   *)
(* genCmd and OutputTestEntrypoint test for (Pats) and its parameters to   *)
(* [type, ptr, const] records; a type is a model value, and paramIsHandle's *)
(* substring test to HandlesNamedIn[type], the handles whose name occurs  *)
(* in the type name ('VkPhysicalDevice' in 'VkPhysicalDeviceFeatures').    *)
(* Text (variable declarations, log assertions, surface set-up of          *)
(* OutputTestStart) is left out.                                           *)
(***************************************************************************)
EXTENDS Integers, Sequences, SequencesExt, FiniteSets

CONSTANTS
  Handles, HandleOrder, Root,  \* as in HandleTree; Root is 'VkInstance'
  Types,            \* parameter and return types
  HandlesNamedIn,   \* [Types -> SUBSET Handles]: handle names occurring in the type name
  CreateInfoTypes,  \* types whose name contains 'CreateInfo'
  Commands,         \* command names
  Shape,            \* [Commands -> [pats, ret, params]]
  CreateDeviceCmd, DestroyDeviceCmd,  \* 'vkCreateDevice', 'vkDestroyDevice'
  AndroidNames,     \* command and feature names containing 'android'
  FeatureOrder,     \* the features (versions, then extensions) in registry order
  Versions,         \* the features named 'VK_VERSION_<major>_<minor>'
  Ver,              \* [Versions -> [major, minor]]
  EXTENSIONS_TO_SKIP_TESTING,
  Registries,       \* the registries: [features -> Seq([name, requires])]
  FeatType,         \* the 'type' attribute: "instance", "device", or "none" for a version
  InstDispatchHandles  \* the handles OutputTestEntrypoint calls through inst_disp_table

Features == Range(FeatureOrder)
\* The substrings genCmd's create and destroy tests look for.
CreatePats == {"Create", "Allocate", "Enumerate", "RegisterDeviceEvent",
               "RegisterDisplayEvent", "AcquirePerformanceConfigurationINTEL"}
DestroyPats == {"Destroy", "Free", "ReleasePerformanceConfigurationINTEL"}
Pats == CreatePats \cup DestroyPats \cup {"vkGet", "ProcAddr"}
Param == [type : Types, ptr : BOOLEAN, const : BOOLEAN]

ASSUME /\ Root \in Handles /\ Handles \subseteq Types
       /\ HandlesNamedIn \in [Types -> SUBSET Handles]
       /\ \A h \in Handles : h \in HandlesNamedIn[h]
       /\ \A c \in Commands : /\ Shape[c].pats \subseteq Pats /\ Shape[c].ret \in Types \cup {"void"}
                              /\ Shape[c].params \in Seq(Param) /\ Shape[c].params # <<>>
       \* each feature is visited once, so beginFeature never meets its own
       \* name again (the 'extension_index >= 0' branch)
       /\ IsInjective(FeatureOrder) /\ Versions \subseteq Features
       /\ FeatType \in [Features -> {"instance", "device", "none"}]
       /\ \A f \in Features : FeatType[f] = "none" <=> f \in Versions

\* The '' of a command with no handle.
NoHandle == ""

VARIABLES
  registry,          \* the registry this run reads
  fi,                \* index into FeatureOrder of the current feature
  ci,                \* index of the next require'd command of that feature
  phase,             \* "begin", "cmds", "end" or "done"
  basic_extensions,  \* Seq of [name, command_data : Seq([name, requires])]
  basic_commands,    \* Seq of genCmd's records
  max_major, max_minor,
  handle_tree,       \* Seq of GenerateHandleTreeData's entries
  tests              \* [tested feature -> the commands its test calls, in order]

vars == <<registry, fi, ci, phase, basic_extensions, basic_commands,
          max_major, max_minor, handle_tree, tests>>

HT(t) == INSTANCE HandleTree WITH handle_tree <- t, basic_commands <- <<>>,
           phase <- "done", cur <- 1, pos <- 1, MaxCreateCmds <- 0

Feature == FeatureOrder[fi]
Generated == {r.name : r \in Range(basic_commands)}
ExtCommandNames(e) == {x.name : x \in Range(e.command_data)}

-----------------------------------------------------------------------------
(* beginFeature (lines 324-409) *)

MaxOf(a, b) == IF a > b THEN a ELSE b

\* Mutant: the loop over the earlier features' command_data is dropped.
NewCommandsNoSkip(f) ==
  FoldLeft(LAMBDA acc, x : IF x.name \in {y.name : y \in Range(acc)} THEN acc ELSE Append(acc, x),
           <<>>, registry[f])

\* The commands of f that no earlier feature, and no earlier require of f,
\* lists: the two 'skip' loops.
NewCommands(f) ==
  LET listed == UNION {ExtCommandNames(e) : e \in Range(basic_extensions)}
  IN FoldLeft(LAMBDA acc, x : IF x.name \in listed \cup {y.name : y \in Range(acc)}
                              THEN acc ELSE Append(acc, x),
              <<>>, registry[f])

BeginFeature ==
  /\ phase = "begin"
  /\ IF Feature \in AndroidNames
       THEN UNCHANGED <<basic_extensions, max_major, max_minor>>
       ELSE /\ max_major' = IF Feature \in Versions THEN MaxOf(max_major, Ver[Feature].major) ELSE max_major
            /\ max_minor' = IF Feature \in Versions THEN MaxOf(max_minor, Ver[Feature].minor) ELSE max_minor
            /\ basic_extensions' = Append(basic_extensions,
                                          [name |-> Feature, command_data |-> NewCommands(Feature)])
  /\ phase' = "cmds" /\ ci' = 1
  /\ UNCHANGED <<registry, fi, basic_commands, handle_tree, tests>>

-----------------------------------------------------------------------------
(* genCmd (lines 559-674) *)

\* paramIsHandle: 'Vk' prefix, no 'VkAlloc', and some handle name in it.
ParamIsHandle(t) == t # "void" /\ HandlesNamedIn[t] # {}

\* The record genCmd appends for command c.
GenCmdRecord(c) ==
  LET s == Shape[c]
      ps == s.params
      is_destroy == s.pats \cap DestroyPats # {}
      \* a handle-named return type adds every handle named in it
      used0 == IF ParamIsHandle(s.ret)
                 THEN SelectSeq(HandleOrder, LAMBDA h : h \in HandlesNamedIn[s.ret]) ELSE <<>>
      used == FoldLeft(LAMBDA acc, p : IF ParamIsHandle(p.type) /\ p.type \notin Range(acc)
                                       THEN Append(acc, p.type) ELSE acc, used0, ps)
      \* 'if is_handle and (is_pointer or is_destroy_command)': the last such
      \* parameter wins
      mod0 == FoldLeft(LAMBDA m, p : IF ParamIsHandle(p.type) /\ (p.ptr \/ is_destroy)
                                     THEN p.type ELSE m, NoHandle, ps)
      last == ps[Len(ps)]
      is_create == \/ s.pats \cap CreatePats # {}
                   \/ "vkGet" \in s.pats /\ ParamIsHandle(last.type) /\ last.ptr /\ ~last.const
      keep == is_create \/ is_destroy
  IN [name |-> c,
      handle_type |-> IF ps[1].type \in CreateInfoTypes THEN NoHandle ELSE ps[1].type,
      is_create |-> is_create,
      is_destroy |-> is_destroy,
      modified_handle |-> IF keep THEN mod0 ELSE NoHandle,
      handles_used |-> IF keep /\ mod0 # NoHandle
                         THEN SelectSeq(used, LAMBDA h : h # mod0) ELSE used]

\* genvk calls genCmd once per command, for the first feature requiring it.
GenCmd ==
  /\ phase = "cmds"
  /\ ci <= Len(registry[Feature])
  /\ LET c == registry[Feature][ci].name IN
       basic_commands' = IF c \in Generated \/ c \in AndroidNames
                           THEN basic_commands ELSE Append(basic_commands, GenCmdRecord(c))
  /\ ci' = ci + 1
  /\ UNCHANGED <<registry, fi, phase, basic_extensions, max_major, max_minor, handle_tree, tests>>

\* endFeature: on to the next feature, or to endFile.
EndFeature ==
  /\ phase = "cmds"
  /\ ci > Len(registry[Feature])
  /\ IF fi = Len(FeatureOrder) THEN phase' = "end" /\ fi' = fi ELSE phase' = "begin" /\ fi' = fi + 1
  /\ UNCHANGED <<registry, ci, basic_extensions, basic_commands, max_major, max_minor, handle_tree, tests>>

-----------------------------------------------------------------------------
(* endFile (lines 286-320): GenerateHandleTreeData (lines 708-741) and the  *)
(* tests                                                                   *)

\* 'if x not in list: list.append(x)'
AppendNew(list, x) == IF x \in Range(list) THEN list ELSE Append(list, x)

\* The entry of handle h: 'if command.modified_handle == cur_handle.name'
\* adds creates (and their non-empty handle_type as a parent) and destroys;
\* 'elif command.handle_type == cur_handle.name' adds a usage command, and
\* a create among them names a child.
TreeEntry(h, cs) ==
  [name |-> h,
   parents |-> FoldLeft(LAMBDA acc, c : IF c.modified_handle = h /\ c.is_create /\ c.handle_type # NoHandle
                                          THEN AppendNew(acc, c.handle_type) ELSE acc, <<>>, cs),
   children |-> FoldLeft(LAMBDA acc, c : IF c.modified_handle # h /\ c.handle_type = h
                                            /\ c.is_create /\ c.modified_handle # NoHandle
                                           THEN AppendNew(acc, c.modified_handle) ELSE acc, <<>>, cs),
   create_funcs |-> SelectSeq(cs, LAMBDA c : c.modified_handle = h /\ c.is_create),
   destroy_funcs |-> SelectSeq(cs, LAMBDA c : c.modified_handle = h /\ c.is_destroy),
   usage_funcs |-> SelectSeq(cs, LAMBDA c : c.modified_handle # h /\ c.handle_type = h)]

\* HandleTree's Prune on tree t: the entries of x's own <fld> list leave list.
PruneIn(t, fld, list, x) ==
  LET own == UNION {Range(t[k][fld]) : k \in {k \in DOMAIN t : t[k].name = x}}
  IN SelectSeq(list, LAMBDA y : y \notin own)

\* GenLowestParentHandlesForHandleTree / GenHighestChildrenHandlesForHandleTree:
\* the loops HandleTree takes one iteration per step, run to their end
\* (k the outer loop's entry, p the list iterator's index).
RECURSIVE PruneLoop(_, _, _, _)
PruneLoop(t, fld, k, p) ==
  IF k > Len(t) THEN t
  ELSE IF p > Len(t[k][fld]) THEN PruneLoop(t, fld, k + 1, 1)
  ELSE PruneLoop([t EXCEPT ![k][fld] = PruneIn(t, fld, @, t[k][fld][p])], fld, k, p + 1)

GenerateHandleTreeData(cs) ==
  LET t0 == [k \in 1..Len(HandleOrder) |-> TreeEntry(HandleOrder[k], cs)]
  IN PruneLoop(PruneLoop(t0, "parents", 1, 1), "children", 1, 1)

\* 'for ext in self.basic_extensions' ... 'ext_major_ver = 1, ext_minor_ver = 0'
\* unless the name is a VK_VERSION_.
EMajor(f) == IF f \in Versions THEN Ver[f].major ELSE 1
EMinor(f) == IF f \in Versions THEN Ver[f].minor ELSE 0

\* Mutant: the search stops before minor version 0.
PickCreateDestroyFuncAboveZero(funcs, major, minor, ext_name) ==
  LET tries == [i \in 1..minor |-> minor + 1 - i]
      at(try) == FoldLeft(LAMBDA acc, e :
                   acc \o SelectSeq(funcs, LAMBDA f : /\ f.name \in ExtCommandNames(e)
                                                      /\ major = EMajor(e.name) /\ try = EMinor(e.name)
                                                      /\ (e.name \in Versions \/ ext_name = e.name)),
                 <<>>, basic_extensions)
      found == FoldLeft(LAMBDA acc, try : acc \o at(try), <<>>, tries)
  IN SubSeq(found, 1, Min({1, Len(found)}))

\* PickCreateDestroyFunc for one of the two lists: the while loop tries
\* minor versions from minor_ver down to 0; at each, the features in order
\* and, in each, the funcs in order; a core version matches at its own
\* minor version, an extension only at 0 and only when it is ext_name.
\* Only create_list[0] (destroy_list[0]) is returned: the first match, as
\* a sequence of at most one element (<<>> for None).
PickCreateDestroyFunc(funcs, major, minor, ext_name) ==
  LET tries == [i \in 1..minor + 1 |-> minor + 1 - i]
      at(try) == FoldLeft(LAMBDA acc, e :
                   acc \o SelectSeq(funcs, LAMBDA f : /\ f.name \in ExtCommandNames(e)
                                                      /\ major = EMajor(e.name) /\ try = EMinor(e.name)
                                                      /\ (e.name \in Versions \/ ext_name = e.name)),
                 <<>>, basic_extensions)
      found == FoldLeft(LAMBDA acc, try : acc \o at(try), <<>>, tries)
  IN SubSeq(found, 1, Min({1, Len(found)}))

\* Mutant: a command needing minor version m is called only above m.
VersionFitsStrict(requires, major, minor) ==
  LET vs == SelectSeq(requires, LAMBDA r : r \in Versions) IN
  IF vs = <<>> THEN major = 1 /\ minor > 0
  ELSE major = Ver[vs[1]].major /\ minor > Ver[vs[1]].minor

\* CallUsageFuncs: the first VK_VERSION_ among the command's requires
\* (default 1.0) must have the test's major and at most its minor version.
VersionFits(requires, major, minor) ==
  LET vs == SelectSeq(requires, LAMBDA r : r \in Versions) IN
  IF vs = <<>> THEN major = 1 /\ minor >= 0
  ELSE major = Ver[vs[1]].major /\ minor >= Ver[vs[1]].minor

\* OutputTestEntrypoint: '' for a ProcAddr command and for vkDestroyDevice
\* (the DeviceWrapper destroys the device); vkCreateDevice is the
\* DeviceWrapper's CheckCreate.
OutputTestEntrypoint(r) ==
  IF "ProcAddr" \in Shape[r.name].pats \/ r.name = DestroyDeviceCmd THEN <<>> ELSE <<r.name>>

\* CallUsageFuncs (lines 1091-1108) for the test of feature e.
CallUsageFuncs(usage_funcs, major, minor, e) ==
  FoldLeft(LAMBDA acc, u :
             IF u.is_create \/ u.is_destroy THEN acc
             ELSE acc \o FoldLeft(LAMBDA a, x : IF x.name = u.name /\ VersionFits(x.requires, major, minor)
                                                THEN a \o OutputTestEntrypoint(u) ELSE a,
                                  <<>>, e.command_data),
           <<>>, usage_funcs)

\* genCmd's record of command c: 'for bas_cmd in self.basic_commands: if
\* ... name == bas_cmd.name'.  A command genCmd skipped has none.
RecordsOf(c) == {basic_commands[k] : k \in {k \in DOMAIN basic_commands : basic_commands[k].name = c}}

\* GenerateTestHandleList (lines 1197-1222): the handle_type and the
\* handles_used of the feature's commands, then their ancestors along the
\* pruned parent lists of tree t.
GenerateTestHandleList(t, e) ==
  LET first == FoldLeft(LAMBDA acc, x :
                 IF RecordsOf(x.name) = {} THEN acc
                 ELSE LET r == CHOOSE r \in RecordsOf(x.name) : TRUE IN
                      FoldLeft(AppendNew, acc, <<r.handle_type>> \o r.handles_used),
                 <<>>, e.command_data)
  IN HT(t)!CloseUnderParents(first, 1)

\* GenHandleTest (lines 1163-1195): the calls the test of feature e makes
\* for handle h and the handles below it.
RECURSIVE GenHandleTest(_, _, _, _, _, _)
GenHandleTest(t, h, handles_to_test, major, minor, e) ==
  LET ks == {k \in DOMAIN t : t[k].name = h} IN
  IF ks = {} THEN <<>>
  ELSE
  LET en == t[CHOOSE k \in ks : TRUE]
      create == IF h = Root THEN <<>> ELSE PickCreateDestroyFunc(en.create_funcs, major, minor, e.name)
      destroy == IF h = Root THEN <<>> ELSE PickCreateDestroyFunc(en.destroy_funcs, major, minor, e.name)
      \* 'if create is not None: ... OutputTestEntrypoint(create ...)'
      Call(chosen) == FoldLeft(LAMBDA a, r : a \o OutputTestEntrypoint(r), <<>>, chosen)
      own == IF h # Root \/ e.name \notin Versions
               THEN Call(create)
                    \o CallUsageFuncs(en.usage_funcs, major, minor, e)
               ELSE <<>>
      below == FoldLeft(LAMBDA acc, ch :
                          IF ch \in Range(handles_to_test)
                            THEN acc \o GenHandleTest(t, ch, handles_to_test, major, minor, e) ELSE acc,
                        <<>>, en.children)
  IN \* 'If there's nothing to do, don't do it.'
     IF h # Root /\ create = <<>> /\ destroy = <<>> /\ en.usage_funcs = <<>> THEN <<>>
     ELSE own \o below \o Call(destroy)

\* GenerateCoreTest (lines 1225-1249) tests a version at its own number;
\* GenerateExtensionTest (lines 1252-1279) at the highest major and the
\* highest minor number beginFeature saw.
TestVersion(e, mj, mn) ==
  IF e.name \in Versions THEN <<Ver[e.name].major, Ver[e.name].minor>> ELSE <<mj, mn>>

\* endFile's two loops: every version, and every extension with commands
\* that is not in EXTENSIONS_TO_SKIP_TESTING.
TestedExtensions(exts) ==
  {e \in Range(exts) : e.name \in Versions \/
                         (e.name \notin EXTENSIONS_TO_SKIP_TESTING /\ e.command_data # <<>>)}

EndFile ==
  /\ phase = "end"
  /\ LET t == GenerateHandleTreeData(basic_commands) IN
       /\ handle_tree' = t
       /\ tests' = [f \in {e.name : e \in TestedExtensions(basic_extensions)} |->
                      LET e == CHOOSE e \in Range(basic_extensions) : e.name = f
                          v == TestVersion(e, max_major, max_minor)
                      IN GenHandleTest(t, Root, GenerateTestHandleList(t, e), v[1], v[2], e)]
  /\ phase' = "done"
  /\ UNCHANGED <<registry, fi, ci, basic_extensions, basic_commands, max_major, max_minor>>

Finished == phase = "done" /\ UNCHANGED vars

-----------------------------------------------------------------------------

Init ==
  /\ registry \in Registries
  /\ fi = 1 /\ ci = 1 /\ phase = "begin"
  /\ basic_extensions = <<>> /\ basic_commands = <<>>
  /\ max_major = 1 /\ max_minor = 0
  /\ handle_tree = <<>>
  /\ tests = [f \in {} |-> <<>>]

Next == BeginFeature \/ GenCmd \/ EndFeature \/ EndFile \/ Finished

\* genvk drives one generator, in one thread, to the end of the registry.
Spec == Init /\ [][Next]_vars /\ WF_vars(Next)

-----------------------------------------------------------------------------
(* The generated layer and driver.  Each returns a command from its      *)
(* GetInstanceProcAddr or GetDeviceProcAddr, and logs 'Generated Layer X' *)
(* ('Generated Driver X') when it is called, only when the feature that   *)
(* lists the command passes a guard.  The guards read the extensions and  *)
(* API version the test's instance and device were created with.  An      *)
(* extension's own 'requires' list (required_exts) is left out: the       *)
(* registry here has no extension-level requires.                         *)

\* The extensions of type t that entry list e names in its 'requires'
\* and that beginFeature has recorded ('for bas_ext in self.basic_extensions').
RequiredExtsOfType(e, t) ==
  {q \in UNION {Range(x.requires) : x \in Range(e.command_data)} :
     q \in {b.name : b \in Range(basic_extensions)} /\ FeatType[q] = t}

\* Mutant: an instance extension's test does not enable the extension itself.
InstanceExtsEnabledNoSelf(e) ==
  IF e.name \in Versions THEN {} ELSE RequiredExtsOfType(e, "instance")

\* OutputTestStart: a core test adds no extension; an extension test adds
\* itself if it is an instance extension, and the instance extensions its
\* commands require.
InstanceExtsEnabled(e) ==
  IF e.name \in Versions THEN {}
  ELSE (IF FeatType[e.name] = "instance" THEN {e.name} ELSE {}) \cup RequiredExtsOfType(e, "instance")

\* OutputTestEntrypoint's vkCreateDevice branch: the DeviceWrapper enables
\* the feature if it is a device extension, and the device extensions its
\* commands require.
DeviceExtsEnabled(e) ==
  (IF FeatType[e.name] = "device" THEN {e.name} ELSE {}) \cup RequiredExtsOfType(e, "device")

\* The commands a GetInstanceProcAddr or GetDeviceProcAddr returns: 'if
\* (len(ext.command_data) == 0): continue'; a core version's block is open
\* when it is in openVersions; an extension of guardedType only when it is
\* enabled; any other extension always.
ProcAddrCommands(openVersions, guardedType, enabled) ==
  UNION {ExtCommandNames(e) :
           e \in {e \in Range(basic_extensions) :
                    /\ e.command_data # <<>>
                    /\ IF e.name \in Versions THEN e.name \in openVersions
                       ELSE FeatType[e.name] = guardedType => e.name \in enabled}}

\* Mutant: the layer opens a version block only above its number.
LayerCoreOpenStrict(minor, v) == v.minor > 0 => minor > v.minor

\* The layer's version block: 'if (minor > 0): if
\* (layer.enabled_instance_minor >= minor)', else unconditional.
LayerCoreOpen(minor, v) == v.minor > 0 => minor >= v.minor

LayerOpenVersions(minor) == {v \in Versions : LayerCoreOpen(minor, Ver[v])}
OutputLayerGIPA(minor, inst) == ProcAddrCommands(LayerOpenVersions(minor), "instance", inst)
OutputLayerGDPA(minor, dev) == ProcAddrCommands(LayerOpenVersions(minor), "device", dev)
\* The driver opens every version block.
OutputDriverGIPA(inst) == ProcAddrCommands(Versions, "instance", inst)
OutputDriverGDPA(dev) == ProcAddrCommands(Versions, "device", dev)

-----------------------------------------------------------------------------
(* Properties *)

Record == [name : Commands, handle_type : Types \cup {NoHandle}, is_create : BOOLEAN,
           is_destroy : BOOLEAN, modified_handle : Types \cup {NoHandle}, handles_used : Seq(Types)]

TypeOK ==
  /\ registry \in [Features -> Seq([name : Commands, requires : Seq(Features)])]
  /\ fi \in 1..Len(FeatureOrder) /\ phase \in {"begin", "cmds", "end", "done"}
  /\ basic_commands \in Seq(Record)
  \* beginFeature lists each command under one feature, once
  /\ \A i, j \in DOMAIN basic_extensions :
       /\ IsInjective([k \in DOMAIN basic_extensions[i].command_data |->
                         basic_extensions[i].command_data[k].name])
       /\ i # j => ExtCommandNames(basic_extensions[i]) \cap ExtCommandNames(basic_extensions[j]) = {}
  /\ IsInjective([k \in DOMAIN basic_commands |-> basic_commands[k].name])
  /\ max_major \in Nat /\ max_minor \in Nat
  /\ \A f \in DOMAIN tests : tests[f] \in Seq(Commands)

\* The record of a command a test calls.
CallRecord(c) == CHOOSE r \in RecordsOf(c) : TRUE

Creates(c, h) == CallRecord(c).is_create /\ CallRecord(c).modified_handle = h
Destroys(c, h) == CallRecord(c).is_destroy /\ CallRecord(c).modified_handle = h

\* Handle h exists before call i of test s: an earlier call created it and
\* no call since destroyed it.
LiveAt(s, h, i) ==
  \E j \in 1..i-1 : Creates(s[j], h) /\ \A k \in j+1..i-1 : ~Destroys(s[k], h)

(* Every command a generated test calls has a first-parameter handle the  *)
(* test has created and not yet destroyed (VkInstance is the test's       *)
(* InstWrapper).  A loader trampoline reads the dispatch table through    *)
(* that handle, so a call on a handle no earlier call produced fails.     *)
(* It rests on PickCreateDestroyFunc finding a create for each handle at  *)
(* the test's version, and on GenHandleTest's order: create, usage,       *)
(* children, destroy.                                                     *)
HandleLiveAtEveryCall ==
  phase = "done" =>
    \A f \in DOMAIN tests : \A i \in DOMAIN tests[f] :
      LET h == CallRecord(tests[f][i]).handle_type IN
      h \in Handles \ {Root} => LiveAt(tests[f], h, i)

\* The test of tested feature f: its feature record, its version, and the
\* handles the walk from VkInstance down the pruned child lists reaches
\* when it ignores the 'continue'.
TestContext(f) ==
  LET e == CHOOSE e \in Range(basic_extensions) : e.name = f IN
  [ext |-> e,
   ver |-> TestVersion(e, max_major, max_minor),
   reach |-> HT(handle_tree)!ChildWalkReach(Root, Range(GenerateTestHandleList(handle_tree, e)))]

\* The test's version has what entry x of the feature requires.
HasRequired(x, v) == \A q \in Range(x.requires) \cap Versions : Ver[q].major = v[1] /\ Ver[q].minor <= v[2]

\* The commands of tested feature f that a test of f ought to call: those
\* IsUsage accepts, not a ProcAddr query nor vkDestroyDevice, whose required
\* version the test has, and whose first-parameter handle the walk reaches
\* (VkInstance only in an extension test: a core test leaves it to the
\* InstWrapper).
UsageCalled(IsUsage(_)) ==
  phase = "done" =>
    \A f \in DOMAIN tests :
      LET ctx == TestContext(f)
          reach == ctx.reach \ (IF f \in Versions THEN {Root} ELSE {})
      IN \A x \in Range(ctx.ext.command_data) : \A r \in RecordsOf(x.name) :
           /\ IsUsage(r) /\ ~r.is_destroy /\ r.handle_type \in reach
           /\ "ProcAddr" \notin Shape[x.name].pats /\ x.name # DestroyDeviceCmd
           /\ HasRequired(x, ctx.ver)
           => x.name \in Range(tests[f])

(* Every command genCmd classifies as neither create nor destroy is called *)
(* by its feature's test once the test reaches its handle: the 'continue'  *)
(* in GenHandleTest, which drops a handle together with its children,      *)
(* never drops one with usage commands, and CallUsageFuncs' version filter *)
(* keeps every command the test's version has.                             *)
ClassifiedUsageCalled == UsageCalled(LAMBDA r : ~r.is_create)

(* Spec section 3: a command's modified handle is the handle it creates.   *)
(* So every command that creates no handle, queries such as               *)
(* vkGetPhysicalDeviceFeatures included, is called by its feature's test.  *)
(* genCmd's paramIsHandle is a substring test and the vkGet heuristic then *)
(* takes a query whose output type contains a handle name for a create.    *)
QueryCommandsCalled == UsageCalled(LAMBDA r : ~(r.is_create /\ r.modified_handle \in Handles))


(* The test of a feature creates every handle the feature's own create     *)
(* commands make, when the test reaches the handle they are called on: a   *)
(* test of VK_EXT_debug_report creates a VkDebugReportCallbackEXT.  The    *)
(* walk only goes down to handles some command of the feature uses, and    *)
(* genCmd leaves the handle a create or destroy command modifies out of    *)
(* its handles_used.                                                       *)
FeatureHandlesCreated ==
  phase = "done" =>
    \A f \in DOMAIN tests :
      LET ctx == TestContext(f) IN
      \A x \in Range(ctx.ext.command_data) : \A r \in RecordsOf(x.name) :
        /\ r.is_create /\ r.modified_handle \in Handles \ {Root}
        /\ r.handle_type \in ctx.reach /\ HasRequired(x, ctx.ver)
        => \E i \in DOMAIN tests[f] : Creates(tests[f][i], r.modified_handle)

(* Every command a generated test calls reaches both the test layer and  *)
(* the test driver, so the 'ASSERT_TRUE(log.find("Generated Layer X"))'    *)
(* and 'Generated Driver X' lines after it hold.  A command on VkInstance, *)
(* VkPhysicalDevice or VkSurfaceKHR is looked up through GetInstanceProcAddr,*)
(* any other through GetDeviceProcAddr, which sees the device extensions  *)
(* only once the test's vkCreateDevice has run.  It rests on               *)
(* OutputTestStart and the vkCreateDevice branch enabling what the layer  *)
(* and driver guards test, and on the test's API version opening the      *)
(* layer's version block of every command CallUsageFuncs and              *)
(* PickCreateDestroyFunc choose.                                           *)
EveryCallReachesLayerAndDriver ==
  phase = "done" =>
    \A f \in DOMAIN tests :
      LET e == CHOOSE e \in Range(basic_extensions) : e.name = f
          minor == TestVersion(e, max_major, max_minor)[2]
          inst == InstanceExtsEnabled(e)
          gipa == OutputLayerGIPA(minor, inst) \cap OutputDriverGIPA(inst)
          gdpa(dev) == OutputLayerGDPA(minor, dev) \cap OutputDriverGDPA(dev)
          gdpaBefore == gdpa({})
          gdpaAfter == gdpa(DeviceExtsEnabled(e))
      IN \A i \in DOMAIN tests[f] :
           LET c == tests[f][i] IN
           IF CallRecord(c).handle_type \in InstDispatchHandles \cup {NoHandle} THEN c \in gipa
           ELSE IF \E j \in 1..i-1 : tests[f][j] = CreateDeviceCmd THEN c \in gdpaAfter
           ELSE c \in gdpaBefore

=============================================================================
