--------------------------- MODULE GenerateSource ---------------------------
(***************************************************************************)
(* generate_source.py: run every code generator, in one of three modes.    *)
(* The default mode runs them in the repository directory; --verify and    *)
(* --incremental run them in a temporary directory and then compare that   *)
(* directory with the repository (verify) or copy the files that differ    *)
(* into it (incremental).  A generator is a subprocess that may fail; the  *)
(* first failure ends the script with 1.                                   *)
(*                                                                         *)
(* A file is a name; its content is abstracted to "old" (what a previous   *)
(* run wrote), "new" (what the generators write now) or "partial" (what a  *)
(* generator that failed half way left).  A directory maps every name to a *)
(* content or "absent".  Which directory a name belongs to is decided by   *)
(* the substring test 'vk_test_entrypoint' in the name: the set TestNames. *)
(*                                                                         *)
(* As the command line passes no output directory to loader_genvk.py, a    *)
(* generator writes its file into its working directory (cwd=gen_dir).     *)
(***************************************************************************)
EXTENDS Integers, Sequences, SequencesExt, FiniteSets

CONSTANTS
  Names,          \* every file name a directory may hold
  GenOrder,       \* gen_cmds: the generated file names, in run order
  TestNames,      \* the names containing 'vk_test_entrypoint'
  VerifyExclude   \* verify_exclude: ['.clang-format']

ASSUME /\ Range(GenOrder) \subseteq Names /\ IsInjective(GenOrder)
       /\ TestNames \subseteq Names /\ VerifyExclude \subseteq Names

Modes == {"default", "incremental", "verify"}
Absent == "absent"
Content == {"old", "new", "partial"}
Dir == [Names -> Content \cup {Absent}]

VARIABLES
  mode,         \* args: "default", "incremental" or "verify"
  loader_repo,  \* loader/generated
  test_repo,    \* tests/generated
  temp,         \* the TemporaryDirectory (all absent in the default mode)
  i,            \* index of the 'for cmd in gen_cmds' loop
  todo,         \* names the incremental copy loop has still to visit
  pc,           \* "gen", "verify", "incremental" or "done"
  ret,          \* the value main returns, or -1 while it runs
  repo0         \* history: <<loader_repo, test_repo>> when the script started

vars == <<mode, loader_repo, test_repo, temp, i, todo, pc, ret, repo0>>

Files(d) == {n \in Names : d[n] # Absent}

\* 'if ... in filename': the repository directory a name belongs to.
RepoDirOf(n, lr, tr) == IF n \in TestNames THEN tr ELSE lr

-----------------------------------------------------------------------------
(* Running the generators (lines 61-89) *)

\* Mutant: only --verify generates into the temporary directory.
GenInTempVerifyOnly(m) == m = "verify"

\* Mutant: the temporary directory is used whatever the mode.
GenInTempAnyMode(m) == m \in Modes

\* gen_dir is the temporary directory when verify or incremental is set.
GenInTemp(m) == m \in {"verify", "incremental"}

\* One 'subprocess.check_call(..., cwd=gen_dir)'.  The generator writes
\* GenOrder[i] into gen_dir, whatever out_dir says; if it fails it may
\* leave its file untouched or half written, and main returns 1.
RunGenerator ==
  /\ pc = "gen" /\ i <= Len(GenOrder)
  /\ LET f == GenOrder[i] IN
     \/ /\ IF GenInTemp(mode)
             THEN temp' = [temp EXCEPT ![f] = "new"] /\ UNCHANGED loader_repo
             ELSE loader_repo' = [loader_repo EXCEPT ![f] = "new"] /\ UNCHANGED temp
        /\ i' = i + 1
        /\ UNCHANGED <<pc, ret>>
     \/ /\ \E c \in {"partial"} \cup {IF GenInTemp(mode) THEN temp[f] ELSE loader_repo[f]} :
             IF GenInTemp(mode)
               THEN temp' = [temp EXCEPT ![f] = c] /\ UNCHANGED loader_repo
               ELSE loader_repo' = [loader_repo EXCEPT ![f] = c] /\ UNCHANGED temp
        /\ pc' = "done" /\ ret' = 1
        /\ UNCHANGED i
  /\ UNCHANGED <<mode, test_repo, todo, repo0>>

\* The loop is over: on to the optional post-generation step.
GeneratorsDone ==
  /\ pc = "gen" /\ i > Len(GenOrder)
  /\ CASE mode = "verify"      -> pc' = "verify" /\ UNCHANGED <<todo, ret>>
       [] mode = "incremental" -> pc' = "incremental" /\ todo' = Files(temp) /\ UNCHANGED ret
       [] OTHER                -> pc' = "done" /\ ret' = 0 /\ UNCHANGED todo
  /\ UNCHANGED <<mode, loader_repo, test_repo, temp, i, repo0>>

-----------------------------------------------------------------------------
(* --verify (lines 92-133) *)

\* files_match at the end of the comparison loop: every name in the three
\* directories (less verify_exclude) is in its repository directory, was
\* generated, and has the generated content.
VerifyMatch(tmp, lr, tr) ==
  LET search == (Files(tmp) \cup Files(lr) \cup Files(tr)) \ VerifyExclude IN
  \A f \in search : /\ f \in Files(RepoDirOf(f, lr, tr))
                    /\ f \in Files(tmp)
                    /\ tmp[f] = RepoDirOf(f, lr, tr)[f]

Verify ==
  /\ pc = "verify"
  /\ ret' = IF VerifyMatch(temp, loader_repo, test_repo) THEN 0 ELSE 1
  /\ pc' = "done"
  /\ UNCHANGED <<mode, loader_repo, test_repo, temp, i, todo, repo0>>

-----------------------------------------------------------------------------
(* --incremental (lines 135-146), one file of 'os.listdir(temp_dir)' per   *)
(* step, in any order                                                      *)

\* Mutant: only missing files are copied.
NeedsCopyMissingOnly(f, tmp, repo) == repo[f] = Absent

\* 'not os.path.exists(repo_filename) or not filecmp.cmp(...)'
NeedsCopy(f, tmp, repo) == repo[f] = Absent \/ repo[f] # tmp[f]

IncrementalCopy ==
  /\ pc = "incremental"
  /\ \E f \in todo :
       /\ IF f \in TestNames
            THEN /\ test_repo' = IF NeedsCopy(f, temp, test_repo)
                                   THEN [test_repo EXCEPT ![f] = temp[f]] ELSE test_repo
                 /\ UNCHANGED loader_repo
            ELSE /\ loader_repo' = IF NeedsCopy(f, temp, loader_repo)
                                     THEN [loader_repo EXCEPT ![f] = temp[f]] ELSE loader_repo
                 /\ UNCHANGED test_repo
       /\ todo' = todo \ {f}
  /\ UNCHANGED <<mode, temp, i, pc, ret, repo0>>

IncrementalDone ==
  /\ pc = "incremental" /\ todo = {}
  /\ pc' = "done" /\ ret' = 0
  /\ UNCHANGED <<mode, loader_repo, test_repo, temp, i, todo, repo0>>

-----------------------------------------------------------------------------

\* The repository is any state an earlier run or a checkout left; the
\* temporary directory starts empty.
Init ==
  /\ mode \in Modes
  /\ loader_repo \in [Names -> {"old", "new", Absent}]
  /\ test_repo \in [Names -> {"old", "new", Absent}]
  /\ temp = [n \in Names |-> Absent]
  /\ i = 1
  /\ todo = {}
  /\ pc = "gen"
  /\ ret = -1
  /\ repo0 = <<loader_repo, test_repo>>

\* The script has returned.
Exited == pc = "done" /\ UNCHANGED vars

Next == RunGenerator \/ GeneratorsDone \/ Verify \/ IncrementalCopy
          \/ IncrementalDone \/ Exited

\* One process running to its end.
Spec == Init /\ [][Next]_vars /\ WF_vars(Next)

-----------------------------------------------------------------------------
(* Properties *)

TypeOK ==
  /\ mode \in Modes
  /\ loader_repo \in Dir /\ test_repo \in Dir /\ temp \in Dir
  /\ i \in 1..Len(GenOrder) + 1
  /\ todo \subseteq Files(temp)
  /\ mode = "default" => temp = [n \in Names |-> Absent]
  /\ pc \in {"gen", "verify", "incremental", "done"}
  /\ ret \in {-1, 0, 1}

\* Names in the repository directories that no generator writes.
StaleFiles(lr, tr) == (Files(lr) \cup Files(tr)) \ (Range(GenOrder) \cup VerifyExclude)

(* A failing --incremental run leaves the repository as it found it: the  *)
(* generators write into the temporary directory, and the copy loop is    *)
(* only reached when all of them succeeded, so a half-written file never  *)
(* reaches loader/generated or tests/generated.                           *)
FailedRunLeavesRepo ==
  (ret = 1 /\ mode # "default") => <<loader_repo, test_repo>> = repo0

(* After a successful --incremental run, --verify on the same generator   *)
(* output succeeds exactly when the repository holds no file that no      *)
(* generator writes: the copy loop brings every generated file up to date *)
(* in the directory verify reads it from, but never deletes a file.       *)
IncrementalThenVerify ==
  (pc = "done" /\ mode = "incremental" /\ ret = 0) =>
    (VerifyMatch(temp, loader_repo, test_repo) <=> StaleFiles(loader_repo, test_repo) = {})

(* The default mode regenerates the repository in place: when it returns  *)
(* 0, every generated test file in tests/generated has the new content    *)
(* (out_dir is test_gen_dir for the 'vk_test_entrypoint' files).          *)
DefaultUpdatesTestDir ==
  (pc = "done" /\ mode = "default" /\ ret = 0) =>
    \A f \in Range(GenOrder) \cap TestNames : test_repo[f] = "new"

=============================================================================
