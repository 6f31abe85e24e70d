------------------------------ MODULE Grouping ------------------------------
(***************************************************************************)
(* What the tramp/term generator's grouper promises (spec sections 4.3 and *)
(* invariants 1 and 4), without lists, records, ingest order or aliases:   *)
(* every kept command is filed once, into its home group (the group of the *)
(* first feature that lists it); a group's flags are the union of the      *)
(* needs of the commands filed into it, merged as they arrive; a feature   *)
(* that brings no new command still gets an empty group; and the run ends *)
(* with every kept command filed.                                          *)
(*                                                                         *)
(* home, need and empty describe the registry: they are chosen at the      *)
(* start and never change.                                                 *)
(***************************************************************************)
EXTENDS FiniteSets

CONSTANTS
  Cmds,       \* the commands
  Keys,       \* the group keys
  NoGroup,    \* 'not filed' / 'no home'
  FlagNames   \* the group flags

VARIABLES
  home,    \* the group each command belongs in, or NoGroup if it is dropped
  need,    \* the flags each command asks of its group
  empty,   \* the keys of the features that bring no new command
  filed,   \* the group each command has been filed into so far
  groups,  \* the groups that exist
  flags,   \* the flags of each group
  done     \* the grouper has finished

vars == <<home, need, empty, filed, groups, flags, done>>

Init ==
  /\ home \in [Cmds -> Keys \cup {NoGroup}]
  /\ need \in [Cmds -> SUBSET FlagNames]
  /\ empty \in SUBSET Keys
  /\ filed = [c \in Cmds |-> NoGroup]
  /\ groups = {}
  /\ flags = [k \in Keys |-> {}]
  /\ done = FALSE

\* File command c: find-or-create its home group and merge its needs.
File(c) ==
  /\ ~done /\ filed[c] = NoGroup /\ home[c] # NoGroup
  /\ filed' = [filed EXCEPT ![c] = home[c]]
  /\ groups' = groups \cup {home[c]}
  /\ flags' = [flags EXCEPT ![home[c]] = @ \cup need[c]]
  /\ UNCHANGED <<home, need, empty, done>>

\* A feature with no new command gets its group, with no flag set.
OpenEmpty(k) ==
  /\ ~done /\ k \in empty \ groups
  /\ groups' = groups \cup {k}
  /\ UNCHANGED <<home, need, empty, filed, flags, done>>

Finish ==
  /\ ~done
  /\ \A c \in Cmds : home[c] # NoGroup => filed[c] # NoGroup
  /\ empty \subseteq groups
  /\ done' = TRUE
  /\ UNCHANGED <<home, need, empty, filed, groups, flags>>

Next == (\E c \in Cmds : File(c)) \/ (\E k \in Keys : OpenEmpty(k)) \/ Finish

Spec == Init /\ [][Next]_vars /\ WF_vars(Next)

=============================================================================
