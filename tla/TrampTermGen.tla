--------------------------- MODULE TrampTermGen ----------------------------
(***************************************************************************)
(* LoaderTrampTermOutputGenerator (loader_tramp_term_generator.py): the    *)
(* registry walk calls beginFeature once per feature in registry sort      *)
(* order (regSortFeatures: core VK_VERSION features first), each one       *)
(* recording the feature's commands not already recorded by an earlier    *)
(* feature.  endFile then visits every recorded command in that order and  *)
(* files it with AddCommandToDispatchList into a core group (one per API   *)
(* version) or an extension group, merging group flags, and patches alias  *)
(* back-pointers into core records; last it lists the device extensions    *)
(* the loader tracks.                                                      *)
(*                                                                         *)
(* The registry itself (which feature requires which command, and which    *)
(* command is an alias of which) is chosen in Init from the well-formed    *)
(* registries over the constants and never changes afterwards.             *)
(***************************************************************************)
EXTENDS CommandClassifier, Integers, Sequences, SequencesExt, FiniteSetsExt

CONSTANTS
  FeatureOrder,      \* the features in the order the registry visits them
  CmdOrder,          \* the order commands are listed in <require> blocks
  CoreVersion,       \* <<major, minor>> parsed from a VK_VERSION_ name
  NoExt,             \* the empty alias_ext ''
  MaxDuplicateRequires,  \* bound: extra <require> entries of a command
  MaxAliases,            \* bound: number of aliasing commands
  AliasTargetsEmitted    \* TRUE: every alias target is required by a feature

ASSUME /\ FeatureOrder \in Seq(Features)
       /\ Range(FeatureOrder) = Features
       /\ Len(FeatureOrder) = Cardinality(Features)
       \* regSortFeatures puts the core features before the extensions
       /\ \A i, j \in DOMAIN FeatureOrder :
            IsVersionFeature(FeatureOrder[j]) /\ ~IsVersionFeature(FeatureOrder[i]) => j < i
       /\ Range(CmdOrder) = Cmds /\ Len(CmdOrder) = Cardinality(Cmds)
       /\ NoExt \notin Features

VARIABLES
  req,               \* registry: the commands each feature's <require> lists
  alias,             \* registry: the alias attribute of each command
  basic_extensions,  \* Seq of [name, command_data]
  ingested,          \* number of features beginFeature has visited
  extIdx, cmdIdx,    \* position of endFile's loop over basic_extensions
  core_command_groups,
  ext_command_groups,
  dev_extensions_tracked_by_loader,
  finished

vars == <<req, alias, basic_extensions, ingested, extIdx, cmdIdx,
          core_command_groups, ext_command_groups,
          dev_extensions_tracked_by_loader, finished>>

-----------------------------------------------------------------------------
(* Records *)

CmdRec == [name : Cmds, alias : Cmds \cup {NoAlias}, alias_ext : Features \cup {NoExt},
           needs_tramp : BOOLEAN, needs_term : BOOLEAN, requires_term_disp : BOOLEAN]

CoreGroup == [version : Range(CoreVersion), inst_cmds : Seq(CmdRec), dev_cmds : Seq(CmdRec),
              needs_dev_term_override : BOOLEAN, needs_tramp : BOOLEAN, needs_term : BOOLEAN]

ExtGroup == [ext_name : Features, cmds : Seq(CmdRec), has_inst : BOOLEAN,
             needs_dev_term_override : BOOLEAN, needs_tramp : BOOLEAN,
             needs_term : BOOLEAN, requires_term_disp : BOOLEAN]

\* A command reaches basic_commands only when genCmd does not drop it for
\* having 'android' in its name.
InBasicCommands(c) == c \notin AndroidNamed

\* The <require> lists of feature f, flattened in document order.
RequireSeq(f) == SelectSeq(CmdOrder, LAMBDA c : c \in req[f])

-----------------------------------------------------------------------------
(* Input domain: the well-formed registries *)

RequiredCmds(r) == UNION {r[f] : f \in Features}

\* The <require> lists made of one home feature per command (NoExt: no
\* feature requires it) and a few extra requirements of the same commands.
RegistryReq(home, extra) ==
  [f \in Features |-> {c \in Cmds : home[c] = f} \cup {c \in Cmds : <<f, c>> \in extra}]

HomeChoices ==
  [Cmds -> Features \cup (IF AliasTargetsEmitted THEN {} ELSE {NoExt})]

ExtraChoices ==
  UNION {kSubset(k, Features \X Cmds) : k \in 0..MaxDuplicateRequires}

\* An alias names a canonical command other than itself.
AliasChoices ==
  {a \in [Cmds -> Cmds \cup {NoAlias}] :
     /\ Cardinality({c \in Cmds : a[c] # NoAlias}) <= MaxAliases
     /\ \A c \in Cmds : a[c] # NoAlias => a[c] # c /\ a[a[c]] = NoAlias}

WellFormedRegistry(r, a) ==
  \* core features list canonical names only
  /\ \A f \in VersionFeatures : \A c \in r[f] : a[c] = NoAlias
  \* a command no feature requires is there only as an alias target
  /\ \A c \in Cmds \ RequiredCmds(r) : \E d \in RequiredCmds(r) : a[d] = c

-----------------------------------------------------------------------------
(* beginFeature (lines 371-441) *)

RecordedNames == UNION {Range(e.command_data) : e \in Range(basic_extensions)}

\* Mutant: only the skip loop over the feature's own earlier <require>s.
NewCommandDataOwnSkipOnly(f) ==
  FoldLeft(LAMBDA acc, c : IF Contains(acc, c) THEN acc ELSE Append(acc, c),
           <<>>, RequireSeq(f))

\* The commands of f that no earlier feature and no earlier <require> of f
\* recorded: the 'skip' loops.
NewCommandData(f) ==
  FoldLeft(LAMBDA acc, c : IF c \in RecordedNames \/ Contains(acc, c)
                             THEN acc ELSE Append(acc, c),
           <<>>, RequireSeq(f))

BeginFeature ==
  /\ ingested < Len(FeatureOrder)
  /\ LET f == FeatureOrder[ingested + 1]
     IN basic_extensions' =
          Append(basic_extensions, [name |-> f, command_data |-> NewCommandData(f)])
  /\ ingested' = ingested + 1
  /\ UNCHANGED <<req, alias, extIdx, cmdIdx, core_command_groups, ext_command_groups,
                 dev_extensions_tracked_by_loader, finished>>

-----------------------------------------------------------------------------
(* FindCoreCommandGroup / FindExtCommandGroup: find-or-create, merging the  *)
(* new flags into an existing group with OR.                               *)

\* Mutant: the replacement takes the new flags instead of OR-ing them.
MergeCoreFlagsOverwrite(g, needs_dev_term_override, needs_tramp, needs_term) ==
  IF \/ needs_dev_term_override /\ ~g.needs_dev_term_override
     \/ needs_tramp /\ ~g.needs_tramp
     \/ needs_term /\ ~g.needs_term
    THEN [g EXCEPT !.needs_dev_term_override = needs_dev_term_override,
                   !.needs_tramp = needs_tramp, !.needs_term = needs_term]
    ELSE g

MergeCoreFlags(g, needs_dev_term_override, needs_tramp, needs_term) ==
  [g EXCEPT !.needs_dev_term_override = needs_dev_term_override \/ @,
            !.needs_tramp = needs_tramp \/ @,
            !.needs_term = needs_term \/ @]

FindCoreCommandGroup(groups, version, needs_dev_term_override, needs_tramp, needs_term) ==
  LET i == SelectInSeq(groups, LAMBDA g : g.version = version)
  IN IF i # 0
       THEN [groups EXCEPT ![i] = MergeCoreFlags(@, needs_dev_term_override,
                                                 needs_tramp, needs_term)]
       ELSE Append(groups, [version |-> version, inst_cmds |-> <<>>, dev_cmds |-> <<>>,
                            needs_dev_term_override |-> needs_dev_term_override,
                            needs_tramp |-> needs_tramp, needs_term |-> needs_term])

MergeExtFlags(g, has_inst, needs_dev_term_override, needs_tramp, needs_term, requires_term_disp) ==
  [g EXCEPT !.has_inst = has_inst \/ @,
            !.needs_dev_term_override = needs_dev_term_override \/ @,
            !.needs_tramp = needs_tramp \/ @,
            !.needs_term = needs_term \/ @,
            !.requires_term_disp = requires_term_disp \/ @]

ExtGroupIndex(groups, name) == SelectInSeq(groups, LAMBDA g : g.ext_name = name)

FindExtCommandGroup(groups, name, has_inst, needs_dev_term_override, needs_tramp, needs_term, requires_term_disp) ==
  LET i == ExtGroupIndex(groups, name)
  IN IF i # 0
       THEN [groups EXCEPT ![i] = MergeExtFlags(@, has_inst, needs_dev_term_override,
                                                needs_tramp, needs_term, requires_term_disp)]
       ELSE Append(groups, [ext_name |-> name, cmds |-> <<>>, has_inst |-> has_inst,
                            needs_dev_term_override |-> needs_dev_term_override,
                            needs_tramp |-> needs_tramp, needs_term |-> needs_term,
                            requires_term_disp |-> requires_term_disp])

-----------------------------------------------------------------------------
(* UpdateAliasCommandGroup (lines 651-690): command_name of extension      *)
(* extension_name aliases `target`.  The feature recording `target` is     *)
(* looked up in basic_extensions; when it is a core feature and `target`   *)
(* is already filed in a core group, that core record takes the alias and  *)
(* its extension as a back-pointer and the result is ''.  Otherwise the   *)
(* result is the name of the feature recording `target` ('' if none).     *)

AliasHome(target) ==
  LET i == SelectInSeq(basic_extensions, LAMBDA e : Contains(e.command_data, target))
  IN IF i = 0 THEN NoExt ELSE basic_extensions[i].name

\* Mutant: the back-pointer is written with the two names swapped.
UpdateAliasCommandGroupSwapped(groups, target, extension_name, command_name) ==
  LET home  == AliasHome(target)
      Patch(s) == [i \in DOMAIN s |->
                     IF s[i].name = target
                       THEN [s[i] EXCEPT !.alias = extension_name, !.alias_ext = command_name]
                       ELSE s[i]]
      found == \E g \in Range(groups) :
                 \E r \in Range(g.inst_cmds) \cup Range(g.dev_cmds) : r.name = target
  IN IF IsVersionFeature(home) /\ found
       THEN [alias_ext |-> NoExt,
             groups |-> [i \in DOMAIN groups |->
                           [groups[i] EXCEPT !.inst_cmds = Patch(@), !.dev_cmds = Patch(@)]]]
       ELSE [alias_ext |-> home, groups |-> groups]

\* Mutant: the core groups' dev_cmds lists are not searched.
UpdateAliasCommandGroupInstOnly(groups, target, extension_name, command_name) ==
  LET home  == AliasHome(target)
      Patch(s) == [i \in DOMAIN s |->
                     IF s[i].name = target
                       THEN [s[i] EXCEPT !.alias = command_name, !.alias_ext = extension_name]
                       ELSE s[i]]
      found == \E g \in Range(groups) : \E r \in Range(g.inst_cmds) : r.name = target
  IN IF IsVersionFeature(home) /\ found
       THEN [alias_ext |-> NoExt,
             groups |-> [i \in DOMAIN groups |-> [groups[i] EXCEPT !.inst_cmds = Patch(@)]]]
       ELSE [alias_ext |-> home, groups |-> groups]

UpdateAliasCommandGroup(groups, target, extension_name, command_name) ==
  LET home  == AliasHome(target)
      Patch(s) == [i \in DOMAIN s |->
                     IF s[i].name = target
                       THEN [s[i] EXCEPT !.alias = command_name, !.alias_ext = extension_name]
                       ELSE s[i]]
      found == \E g \in Range(groups) :
                 \E r \in Range(g.inst_cmds) \cup Range(g.dev_cmds) : r.name = target
  IN IF IsVersionFeature(home) /\ found
       THEN [alias_ext |-> NoExt,
             groups |-> [i \in DOMAIN groups |->
                           [groups[i] EXCEPT !.inst_cmds = Patch(@), !.dev_cmds = Patch(@)]]]
       ELSE [alias_ext |-> home, groups |-> groups]

-----------------------------------------------------------------------------
(* AddCommandToDispatchList (lines 696-773) *)

\* command.handle is not None and the handle is below VkPhysicalDevice
IsDeviceCommand(c) ==
  HandleType[c] \in HandleTypes /\ HandleType[c] \notin {"VkInstance", "VkPhysicalDevice"}

AddCommandToDispatchList(f, c) ==
  LET t         == FeatType[f]
      a         == alias[c]
      dev_term  == c \in DEVICE_CMDS_NEEDING_TERMINATOR
      tramp     == RequiresTrampoline(t, f, c, a)
      term      == RequiresTerminator(t, f, c, HandleType[c], ParamTypes[c])
      term_disp == RequiresTerminatorDispatch(t, f, c, HandleType[c], ParamTypes[c])
      Rec(ae)   == [name |-> c, alias |-> a, alias_ext |-> ae, needs_tramp |-> tramp,
                    needs_term |-> term, requires_term_disp |-> term_disp]
  IN IF ~InBasicCommands(c)
       THEN UNCHANGED <<core_command_groups, ext_command_groups>>
     ELSE IF IsVersionFeature(f)
       THEN LET gs == FindCoreCommandGroup(core_command_groups, CoreVersion[f],
                                           dev_term, tramp, term)
                i  == SelectInSeq(gs, LAMBDA g : g.version = CoreVersion[f])
            IN /\ core_command_groups' =
                    IF IsDeviceCommand(c)
                      THEN [gs EXCEPT ![i].dev_cmds = Append(@, Rec(NoExt))]
                      ELSE [gs EXCEPT ![i].inst_cmds = Append(@, Rec(NoExt))]
               /\ UNCHANGED ext_command_groups
     ELSE LET gs  == FindExtCommandGroup(ext_command_groups, f,
                                         CommandIsInstanceType(HandleType[c], f),
                                         dev_term, tramp, term, term_disp)
              i   == ExtGroupIndex(gs, f)
              upd == IF a # NoAlias
                       THEN UpdateAliasCommandGroup(core_command_groups, a, f, c)
                       ELSE [alias_ext |-> NoExt, groups |-> core_command_groups]
          IN /\ ext_command_groups' = [gs EXCEPT ![i].cmds = Append(@, Rec(upd.alias_ext))]
             /\ core_command_groups' = upd.groups

-----------------------------------------------------------------------------
(* endFile (lines 318-331): the loop over basic_extensions, then the list  *)
(* of device extensions tracked by the loader.                            *)

Ingested == ingested = Len(FeatureOrder)

CurrentExt == basic_extensions[extIdx]

DispatchCommand ==
  /\ Ingested /\ extIdx <= Len(basic_extensions)
  /\ Len(CurrentExt.command_data) > 0
  /\ AddCommandToDispatchList(CurrentExt.name, CurrentExt.command_data[cmdIdx])
  /\ IF cmdIdx < Len(CurrentExt.command_data)
       THEN cmdIdx' = cmdIdx + 1 /\ UNCHANGED extIdx
       ELSE cmdIdx' = 1 /\ extIdx' = extIdx + 1
  /\ UNCHANGED <<req, alias, basic_extensions, ingested,
                 dev_extensions_tracked_by_loader, finished>>

\* Mutant: the 'else' branch dropped; the feature gets no group.
DispatchEmptyExtensionNoGroup ==
  /\ Ingested /\ extIdx <= Len(basic_extensions)
  /\ Len(CurrentExt.command_data) = 0
  /\ extIdx' = extIdx + 1
  /\ UNCHANGED <<req, alias, basic_extensions, ingested, cmdIdx, core_command_groups,
                 ext_command_groups, dev_extensions_tracked_by_loader, finished>>

\* A feature left with no commands still gets an extension group.
DispatchEmptyExtension ==
  /\ Ingested /\ extIdx <= Len(basic_extensions)
  /\ Len(CurrentExt.command_data) = 0
  /\ ext_command_groups' = FindExtCommandGroup(ext_command_groups, CurrentExt.name,
                                               FALSE, FALSE, FALSE, FALSE, FALSE)
  /\ extIdx' = extIdx + 1
  /\ UNCHANGED <<req, alias, basic_extensions, ingested, cmdIdx, core_command_groups,
                 dev_extensions_tracked_by_loader, finished>>

TrackedByLoader(g) ==
  g.needs_dev_term_override \/ g.ext_name \in ADD_DEVICE_EXTS_TRACKED_BY_LOADER

TrackDeviceExtensions ==
  /\ Ingested /\ extIdx > Len(basic_extensions) /\ ~finished
  /\ LET tracked == SelectSeq(ext_command_groups, TrackedByLoader)
     IN dev_extensions_tracked_by_loader' = [i \in DOMAIN tracked |-> tracked[i].ext_name]
  /\ finished' = TRUE
  /\ UNCHANGED <<req, alias, basic_extensions, ingested, extIdx, cmdIdx,
                 core_command_groups, ext_command_groups>>

\* The generator has exited.
Terminated == finished /\ UNCHANGED vars

-----------------------------------------------------------------------------

Init ==
  /\ \E home \in HomeChoices, extra \in ExtraChoices, a \in AliasChoices :
       /\ WellFormedRegistry(RegistryReq(home, extra), a)
       /\ req = RegistryReq(home, extra)
       /\ alias = a
  /\ basic_extensions = <<>>
  /\ ingested = 0
  /\ extIdx = 1 /\ cmdIdx = 1
  /\ core_command_groups = <<>>
  /\ ext_command_groups = <<>>
  /\ dev_extensions_tracked_by_loader = <<>>
  /\ finished = FALSE

Next ==
  \/ BeginFeature
  \/ DispatchCommand
  \/ DispatchEmptyExtension
  \/ TrackDeviceExtensions
  \/ Terminated

\* One thread runs the generator to completion.
Spec == Init /\ [][Next]_vars /\ WF_vars(Next)

-----------------------------------------------------------------------------
(* Properties *)

TypeOK ==
  /\ req \in [Features -> SUBSET Cmds]
  /\ alias \in [Cmds -> Cmds \cup {NoAlias}]
  /\ basic_extensions \in Seq([name : Features, command_data : Seq(Cmds)])
  /\ ingested \in 0..Len(FeatureOrder)
  /\ extIdx \in 1..Len(FeatureOrder) + 1 /\ cmdIdx \in 1..Cardinality(Cmds)
  /\ core_command_groups \in Seq(CoreGroup)
  /\ ext_command_groups \in Seq(ExtGroup)
  /\ dev_extensions_tracked_by_loader \in Seq(Features)
  /\ finished \in BOOLEAN

-----------------------------------------------------------------------------
(* Views of the groups used by the properties *)

CoreRecs(g) == g.inst_cmds \o g.dev_cmds

AllRecs ==
  FlattenSeq([i \in DOMAIN core_command_groups |-> CoreRecs(core_command_groups[i])])
  \o FlattenSeq([i \in DOMAIN ext_command_groups |-> ext_command_groups[i].cmds])

Names(recs) == {recs[j].name : j \in DOMAIN recs}

Occurrences(c) == Cardinality({j \in DOMAIN AllRecs : AllRecs[j].name = c})

\* The first feature in registry order whose <require> lists c.
FirstRequirer(c) ==
  FeatureOrder[Min({i \in DOMAIN FeatureOrder : c \in req[FeatureOrder[i]]})]

FiledIn(c, f) ==
  IF IsVersionFeature(f)
    THEN \E g \in Range(core_command_groups) :
           g.version = CoreVersion[f] /\ c \in Names(CoreRecs(g))
    ELSE \E g \in Range(ext_command_groups) : g.ext_name = f /\ c \in Names(g.cmds)

(* Every command the registry requires (and genCmd keeps) ends up filed   *)
(* exactly once, in the group of the first feature that requires it, even *)
(* when several features or <require> blocks list it: beginFeature's      *)
(* skip loops and AddCommandToDispatchList must agree on first-writer-wins.*)
CommandFiledOnce ==
  /\ \A c \in Cmds : Occurrences(c) <= 1
  /\ finished => \A c \in RequiredCmds(req) :
                   InBasicCommands(c) => FiledIn(c, FirstRequirer(c))

(* A group's aggregate flags say exactly whether some member needs a      *)
(* trampoline, a terminator, a device terminator override, a dispatch     *)
(* slot, or is an instance command.  The output functions skip a whole    *)
(* group whose flag is false, so a flag lost by a later merge in           *)
(* FindCoreCommandGroup/FindExtCommandGroup silently drops the code of    *)
(* earlier members.                                                        *)
GroupFlagsMatchMembers ==
  /\ \A g \in Range(core_command_groups) :
       LET rs == Range(CoreRecs(g)) IN
       /\ g.needs_tramp = (\E r \in rs : r.needs_tramp)
       /\ g.needs_term  = (\E r \in rs : r.needs_term)
       /\ g.needs_dev_term_override = (\E r \in rs : r.name \in DEVICE_CMDS_NEEDING_TERMINATOR)
  /\ \A g \in Range(ext_command_groups) :
       LET rs == Range(g.cmds) IN
       /\ g.has_inst = (\E r \in rs : CommandIsInstanceType(HandleType[r.name], g.ext_name))
       /\ g.needs_tramp = (\E r \in rs : r.needs_tramp)
       /\ g.needs_term  = (\E r \in rs : r.needs_term)
       /\ g.requires_term_disp = (\E r \in rs : r.requires_term_disp)
       /\ g.needs_dev_term_override = (\E r \in rs : r.name \in DEVICE_CMDS_NEEDING_TERMINATOR)

(* Once the run is over, an extension command aliasing a core command has *)
(* no fallback of its own and the core record carries the back-pointer    *)
(* (the alias and its extension), naming an extension command that really *)
(* aliases it; an extension command aliasing another extension's command  *)
(* falls back to that extension.  This needs the core group to be filled  *)
(* before the extension is visited, and UpdateAliasCommandGroup to find   *)
(* the target in either list of every core group.                         *)
AliasBackPointer ==
  finished =>
  /\ \A g \in Range(ext_command_groups) : \A r \in Range(g.cmds) :
       r.alias # NoAlias /\ r.alias \in RequiredCmds(req) =>
         LET h == FirstRequirer(r.alias) IN
         IF IsVersionFeature(h)
           THEN /\ r.alias_ext = NoExt
                /\ \E g2 \in Range(core_command_groups) : \E cr \in Range(CoreRecs(g2)) :
                     cr.name = r.alias /\ cr.alias_ext # NoExt
           ELSE r.alias_ext = h
  /\ \A g \in Range(core_command_groups) : \A cr \in Range(CoreRecs(g)) :
       cr.alias_ext # NoExt =>
         \E g2 \in Range(ext_command_groups) :
           /\ g2.ext_name = cr.alias_ext
           /\ \E y \in Range(g2.cmds) : y.name = cr.alias /\ alias[y.name] = cr.name


-----------------------------------------------------------------------------
(* Refinement: the grouper implements Grouping.  A group is keyed by its   *)
(* kind and its version or feature name; the registry gives each command's *)
(* home, its needs and the features that bring nothing new, and the groups *)
(* give what has been filed and the flags.                                 *)

GroupKeys == ({"core"} \X Range(CoreVersion)) \cup ({"ext"} \X Features)

NoGroupKey == <<"none", "none">>

GroupFlagNames == {"dev_override", "tramp", "term", "inst", "term_disp"}

Key(f) == IF IsVersionFeature(f) THEN <<"core", CoreVersion[f]>> ELSE <<"ext", f>>

FlagSet(b, name) == IF b THEN {name} ELSE {}

\* Where the grouper should file c: the group of the first feature listing it.
HomeOf(c) ==
  IF c \in RequiredCmds(req) /\ InBasicCommands(c) THEN Key(FirstRequirer(c)) ELSE NoGroupKey

\* The flags c asks of its home group: AddCommandToDispatchList's requires_*.
NeedOf(c) ==
  IF c \notin RequiredCmds(req) THEN {} ELSE
  LET f == FirstRequirer(c)  t == FeatType[f]  a == alias[c] IN
    FlagSet(c \in DEVICE_CMDS_NEEDING_TERMINATOR, "dev_override")
    \cup FlagSet(RequiresTrampoline(t, f, c, a), "tramp")
    \cup FlagSet(RequiresTerminator(t, f, c, HandleType[c], ParamTypes[c]), "term")
    \cup IF IsVersionFeature(f) THEN {} ELSE
            FlagSet(CommandIsInstanceType(HandleType[c], f), "inst")
            \cup FlagSet(RequiresTerminatorDispatch(t, f, c, HandleType[c], ParamTypes[c]), "term_disp")

\* The features whose every command an earlier feature lists get an extension
\* group with no flags, whatever their kind.
EmptyKeys ==
  {<<"ext", FeatureOrder[j]>> :
     j \in {j \in DOMAIN FeatureOrder :
              req[FeatureOrder[j]] \subseteq UNION {req[FeatureOrder[i]] : i \in 1..j - 1}}}

FiledKey(c) ==
  IF \E g \in Range(core_command_groups) : c \in Names(CoreRecs(g))
    THEN <<"core", (CHOOSE g \in Range(core_command_groups) : c \in Names(CoreRecs(g))).version>>
  ELSE IF \E g \in Range(ext_command_groups) : c \in Names(g.cmds)
    THEN <<"ext", (CHOOSE g \in Range(ext_command_groups) : c \in Names(g.cmds)).ext_name>>
  ELSE NoGroupKey

CoreFlagSet(g) ==
  FlagSet(g.needs_dev_term_override, "dev_override")
  \cup FlagSet(g.needs_tramp, "tramp") \cup FlagSet(g.needs_term, "term")

ExtFlagSet(g) ==
  CoreFlagSet(g) \cup FlagSet(g.has_inst, "inst") \cup FlagSet(g.requires_term_disp, "term_disp")

ExistingKeys ==
  {<<"core", g.version>> : g \in Range(core_command_groups)}
  \cup {<<"ext", g.ext_name>> : g \in Range(ext_command_groups)}

FlagsOf ==
  [k \in GroupKeys |->
     IF k[1] = "core"
       THEN UNION {CoreFlagSet(g) : g \in {g \in Range(core_command_groups) : g.version = k[2]}}
       ELSE UNION {ExtFlagSet(g) : g \in {g \in Range(ext_command_groups) : g.ext_name = k[2]}}]

Abstract == INSTANCE Grouping WITH
  Keys <- GroupKeys, NoGroup <- NoGroupKey, FlagNames <- GroupFlagNames,
  home <- [c \in Cmds |-> HomeOf(c)], need <- [c \in Cmds |-> NeedOf(c)],
  empty <- EmptyKeys, filed <- [c \in Cmds |-> FiledKey(c)],
  groups <- ExistingKeys, flags <- FlagsOf, done <- finished

(* The grouper implements Grouping: each step of endFile files one kept    *)
(* command into the group of the first feature that lists it (so a command *)
(* is never filed twice or into a later feature's group), merges exactly   *)
(* that command's needs into the group's flags, or opens the group of a    *)
(* feature that brought nothing new; and the run ends only when every kept *)
(* command is filed and every such feature has its group.  Grouping's Next *)
(* is enabled in every state where done is FALSE, so its WF_vars(Next) is  *)
(* the same as <>done, and done is finished under the mapping.          *)
GroupingRefined ==
  Abstract!Init /\ [][Abstract!Next]_Abstract!vars /\ <>finished

=============================================================================
