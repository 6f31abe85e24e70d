----------------------------- MODULE HandleTree -----------------------------
(***************************************************************************)
(* The handle tree of loader_test_generator.py.  endFile calls             *)
(* GenerateHandleTreeData, which builds one entry per handle (in           *)
(* basic_handles order) with the candidate parents and children read off   *)
(* the create commands, then prunes the parent lists                       *)
(* (GenLowestParentHandlesForHandleTree) and the child lists               *)
(* (GenHighestChildrenHandlesForHandleTree).  Both prune a list while a    *)
(* for loop iterates over that same list; a Python list iterator walks an  *)
(* index, so a removal before the current position makes it skip an       *)
(* element.  The model keeps that index (pos) and takes one loop iteration *)
(* per step.  The test generator then reads the finished tree:             *)
(* GenerateTestHandleList closes a set of used handles under the parent    *)
(* lists and GenHandleTest walks the child lists from VkInstance.  The    *)
(* walk is here only as the set of handles it can reach (ChildWalkReach).  *)
(*                                                                         *)
(* Only create commands shape the tree, so a command is abstracted to its  *)
(* first-parameter handle (handle_type) and the handle it creates          *)
(* (modified_handle).  The commands are chosen in Init: every sequence of  *)
(* up to MaxCreateCmds create commands forming an acyclic graph under     *)
(* which nothing creates the root.  Two commands may create the same      *)
(* handle from the same handle, as vkCreateGraphicsPipelines and          *)
(* vkCreateComputePipelines do.                                            *)
(***************************************************************************)
EXTENDS Integers, Sequences, SequencesExt, FiniteSetsExt, Graphs

CONSTANTS
  Handles,        \* the <type category="handle"> names
  HandleOrder,    \* basic_handles: the handles in registry order
  Root,           \* 'VkInstance'
  MaxCreateCmds   \* bound: number of create commands

ASSUME /\ Range(HandleOrder) = Handles /\ Len(HandleOrder) = Cardinality(Handles)
       /\ Root \in Handles
       /\ MaxCreateCmds \in Nat

VARIABLES
  basic_commands,  \* the create commands, as [handle_type, modified_handle]
  handle_tree,     \* Seq of [name, parents, children]
  phase,           \* "build", "parents", "children" or "done"
  cur,             \* index into handle_tree of the outer for loop
  pos              \* index of the inner list iterator (1-based)

vars == <<basic_commands, handle_tree, phase, cur, pos>>

-----------------------------------------------------------------------------
(* Input domain *)

CreateCmd == [handle_type : Handles, modified_handle : Handles]

CommandGraph(cmds) ==
  [node |-> Handles,
   edge |-> {<<c.handle_type, c.modified_handle>> : c \in Range(cmds)}]

\* Nothing creates the root and no handle creates itself.
CreateEdge == {c \in CreateCmd : c.modified_handle \notin {Root, c.handle_type}}

CreateCmdChoices ==
  {s \in UNION {[1..n -> CreateEdge] : n \in 0..MaxCreateCmds} : IsDag(CommandGraph(s))}

-----------------------------------------------------------------------------
(* GenerateHandleTreeData (lines 708-741), one handle per step *)

\* Mutant: the 'not in' guard is dropped.
AppendAlways(list, x) == Append(list, x)

\* Append x unless the list already holds it: the 'not in' guards.
AppendNew(list, x) == IF x \in Range(list) THEN list ELSE Append(list, x)

\* The loop over basic_commands for handle h: a create command of h adds
\* its first-parameter handle to the parents; a create command of another
\* handle whose first parameter is h adds that handle to the children.
HandleEntry(h) ==
  [name |-> h,
   parents |-> FoldLeft(LAMBDA acc, c : IF c.modified_handle = h
                                          THEN AppendNew(acc, c.handle_type) ELSE acc,
                        <<>>, basic_commands),
   children |-> FoldLeft(LAMBDA acc, c : IF c.modified_handle # h /\ c.handle_type = h
                                           THEN AppendNew(acc, c.modified_handle) ELSE acc,
                         <<>>, basic_commands)]

GenerateHandleTreeData ==
  /\ phase = "build"
  /\ handle_tree' = Append(handle_tree, HandleEntry(HandleOrder[cur]))
  /\ IF cur = Len(HandleOrder)
       THEN phase' = "parents" /\ cur' = 1
       ELSE phase' = phase /\ cur' = cur + 1
  /\ UNCHANGED <<basic_commands, pos>>

-----------------------------------------------------------------------------
(* GenLowestParentHandlesForHandleTree (lines 680-691) and                  *)
(* GenHighestChildrenHandlesForHandleTree (lines 693-704): fld is "parents" *)
(* or "children".                                                           *)

\* 'for tree_handle in self.handle_tree: if tree_handle.name == x: for
\* check in tree_handle.<fld>': the entries of x's own list.
EntriesOf(fld, x) ==
  UNION {Range(handle_tree[k][fld]) : k \in {k \in DOMAIN handle_tree : handle_tree[k].name = x}}

\* Mutant: remove x itself when one of its entries is in the list.
PruneSwapped(fld, list, x) ==
  IF Range(list) \cap EntriesOf(fld, x) # {} THEN SelectSeq(list, LAMBDA y : y # x) ELSE list

\* 'if check in <fld>_list: cur_handle.<fld>.remove(check)' for every
\* check: x's entries leave the list being iterated.
Prune(fld, list, x) ==
  SelectSeq(list, LAMBDA y : y \notin EntriesOf(fld, x))

\* One iteration of 'for x in <fld>_list' of the current handle.
PruneStep(fld) ==
  /\ phase = fld
  /\ pos <= Len(handle_tree[cur][fld])
  /\ handle_tree' = [handle_tree EXCEPT ![cur][fld] =
                       Prune(fld, @, handle_tree[cur][fld][pos])]
  /\ pos' = pos + 1
  /\ UNCHANGED <<basic_commands, phase, cur>>

\* The list iterator is exhausted: on to the next handle, or the next pass.
NextHandle(fld, next) ==
  /\ phase = fld
  /\ pos > Len(handle_tree[cur][fld])
  /\ IF cur = Len(handle_tree)
       THEN phase' = next /\ cur' = 1
       ELSE phase' = phase /\ cur' = cur + 1
  /\ pos' = 1
  /\ UNCHANGED <<basic_commands, handle_tree>>

Finished == phase = "done" /\ UNCHANGED vars

-----------------------------------------------------------------------------

Init ==
  /\ basic_commands \in CreateCmdChoices
  /\ handle_tree = <<>>
  /\ phase = "build"
  /\ cur = 1
  /\ pos = 1

Next ==
  \/ GenerateHandleTreeData
  \/ PruneStep("parents")
  \/ NextHandle("parents", "children")
  \/ PruneStep("children")
  \/ NextHandle("children", "done")
  \/ Finished

\* A single thread runs endFile to completion.
Spec == Init /\ [][Next]_vars /\ WF_vars(Next)

-----------------------------------------------------------------------------
(* Readers of the finished tree *)

\* 'for tree_handle in self.handle_tree: if handle == tree_handle.name:
\* ... break': the first entry named h.
EntryOf(h) == {handle_tree[k] : k \in {k \in DOMAIN handle_tree : handle_tree[k].name = h
                                        /\ \A j \in 1..k-1 : handle_tree[j].name # h}}

ParentsOf(h)  == IF EntryOf(h) = {} THEN <<>> ELSE (CHOOSE e \in EntryOf(h) : TRUE).parents
ChildrenOf(h) == IF EntryOf(h) = {} THEN <<>> ELSE (CHOOSE e \in EntryOf(h) : TRUE).children

\* The second loop of GenerateTestHandleList: 'for handle in handle_list'
\* also visits the parents it appends, so the list ends closed under the
\* parent lists.
RECURSIVE CloseUnderParents(_, _)
CloseUnderParents(list, i) ==
  IF i > Len(list) THEN list
  ELSE CloseUnderParents(FoldLeft(AppendNew, list, ParentsOf(list[i])), i + 1)

\* GenerateTestHandleList (lines 1197-1222) for an extension whose
\* commands use the handles 'used' (first-loop result, lines 1201-1211).
GenerateTestHandleList(used) == CloseUnderParents(SetToSeq(used), 1)

\* The handles GenHandleTest's recursion ('for child in
\* cur_handle.children: if child in handles_to_test') reaches from h when
\* no handle is skipped.  The 'continue' that skips a handle, and with it
\* its subtree, when PickCreateDestroyFunc finds nothing at the test's
\* version and the handle has no usage commands, needs the version and
\* the command lists: TestGen models it and compares its walk with this one.
RECURSIVE ChildWalkReach(_, _)
ChildWalkReach(h, handles_to_test) ==
  {h} \cup UNION {ChildWalkReach(c, handles_to_test) :
                    c \in Range(ChildrenOf(h)) \cap handles_to_test}

-----------------------------------------------------------------------------
(* Properties *)

TypeOK ==
  /\ basic_commands \in Seq(CreateCmd)
  /\ handle_tree \in Seq([name : Handles, parents : Seq(Handles), children : Seq(Handles)])
  \* list.remove drops only the first occurrence: the lists hold none twice
  /\ \A e \in Range(handle_tree) : IsInjective(e.parents) /\ IsInjective(e.children)
  /\ phase \in {"build", "parents", "children", "done"}
  /\ cur \in 1..Len(HandleOrder)
  /\ pos \in 1..Len(HandleOrder) + 1

\* The handles that create h, and the ancestry they define.
CandidateGraph == CommandGraph(basic_commands)

\* The nodes reachable from S in one or more steps of Step (a fixpoint;
\* Relation's TransitiveClosure is exponential when TLC evaluates it).
RECURSIVE Reach(_, _, _)
Reach(G, Step(_, _), S) ==
  LET S2 == S \cup Step(G, S) IN IF S2 = S THEN S ELSE Reach(G, Step, S2)

AncestorsIn(G, n) == Reach(G, AllPredecessors, Predecessors(G, n))
DescendantsIn(G, n) == Reach(G, AllSuccessors, Successors(G, n))

\* The parent relation as the pruned parent lists say it.
ParentGraph ==
  [node |-> Handles,
   edge |-> UNION {{<<p, e.name>> : p \in Range(e.parents)} : e \in Range(handle_tree)}]

(* Pruning the parent lists only drops a parent that stays reachable:     *)
(* once GenLowestParentHandlesForHandleTree has run, every handle that    *)
(* creates h is still an ancestor of h along the pruned parent lists.     *)
(* GenerateTestHandleList relies on this to find every handle a test must *)
(* create first; it breaks if a removal, made while the list is being     *)
(* iterated, drops the last link of a chain.                              *)
ParentsCoverCreators ==
  phase = "done" =>
    \A h \in Handles : Predecessors(CandidateGraph, h) \subseteq AncestorsIn(ParentGraph, h)

(* The comment in GenLowestParentHandlesForHandleTree: an entry that is a *)
(* parent of another entry of the list is removed, so no pruned parent    *)
(* list holds a handle together with one of that handle's creators.       *)
NoParentCreatesAnother ==
  phase \in {"children", "done"} =>
    \A e \in Range(handle_tree) : \A p1, p2 \in Range(e.parents) :
      p1 \notin Predecessors(CandidateGraph, p2)

=============================================================================
