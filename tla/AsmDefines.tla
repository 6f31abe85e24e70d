----------------------------- MODULE AsmDefines -----------------------------
(***************************************************************************)
(* parse_asm_values.py: read the assembly listing a compiler produced for  *)
(* asm_offset.c, find the sizeof/offsetof value of every name of 'defines' *)
(* in it, and write them to gen_defines.asm in the syntax of the loader's  *)
(* assembler (MASM 'equ' or GAS '.set').  The first name missing from the  *)
(* listing ends the script with status 1.                                  *)
(*                                                                         *)
(* A line of the listing is a symbol and the digits of its value, in base  *)
(* 16 for MSVC ('<sym> DD 0aH') and base 10 for GNU and Clang              *)
(* ('<sym> = 10').  The regular expression 'd + " = "' is a substring      *)
(* search, so it also matches a line whose symbol ends with d: EndsWith.   *)
(* A line of gen_defines.asm is a symbol and the decimal digits written.   *)
(***************************************************************************)
EXTENDS Integers, Sequences, SequencesExt, FiniteSets

CONSTANTS
  Defines,        \* 'defines', in the script's order
  ERROR_BIT,      \* "VULKAN_LOADER_ERROR_BIT"
  ErrorBitValue,  \* its value in the loader's header, 8
  EndsWith,       \* <<d, s>>: the name s ends with the name d
  Builds,         \* the (compiler, assembler_type, arch) the build passes
  Listings,       \* the listings a compiler of the build may produce
  Arch            \* the platform line GAS needs, per arch ("" for x86)

ASSUME /\ IsInjective(Defines) /\ Defines[1] = ERROR_BIT
       /\ \A d \in Range(Defines) : <<d, d>> \in EndsWith

VARIABLES
  build,     \* sys.argv[3..5]: [compiler, assembler, arch]
  asm,       \* asm_intermediate_file: a sequence of [sym, digits]
  readable,  \* whether open(source_asm_file) succeeds
  dest,      \* gen_defines.asm: a sequence of [sym, val]
  dest0,     \* history: gen_defines.asm as an earlier build left it
  i,         \* index of 'for d in defines'
  pc,        \* "read", "open", "scan" or "done"
  ret        \* exit status, -1 while running

vars == <<build, asm, readable, dest, dest0, i, pc, ret>>

-----------------------------------------------------------------------------
(* Number conversions *)

\* The digits of v in base b, most significant first (hex() / str()).
RECURSIVE Digits(_, _)
Digits(v, b) == IF v < b THEN <<v>> ELSE Digits(v \div b, b) \o <<v % b>>

\* int(s, b).
FromDigits(s, b) == FoldLeft(LAMBDA acc, x : acc * b + x, 0, s)

\* The base the compiler writes a listing value in.
Base(c) == IF c = "MSVC" THEN 16 ELSE 10

-----------------------------------------------------------------------------
(* The script *)

\* Lines 58-63: read the listing; an IOError exits with 1.
ReadSource ==
  /\ pc = "read"
  /\ IF readable THEN pc' = "open" /\ UNCHANGED ret
                 ELSE pc' = "done" /\ ret' = 1
  /\ UNCHANGED <<build, asm, readable, dest, dest0, i>>

\* Lines 66-75: the first lines written, by assembler and arch.
Header(b) ==
  CASE b.assembler = "MASM" -> <<[sym |-> ERROR_BIT, val |-> Digits(ErrorBitValue, 10)]>>
    [] b.assembler = "GAS" /\ Arch[b.arch] # "" -> <<[sym |-> Arch[b.arch], val |-> <<1>>]>>
    [] OTHER -> <<>>

\* Mutant: the file is opened for appending.
OpenedAppend(old, b) == old \o Header(b)

\* open(destination_file, "w"): the old content is discarded.
Opened(old, b) == Header(b)

OpenDest ==
  /\ pc = "open"
  /\ dest' = Opened(dest, build)
  /\ pc' = "scan" /\ i' = 1
  /\ UNCHANGED <<build, asm, readable, dest0, ret>>

\* Lines 79-81: MSVC's listing has no ERROR_BIT; MASM got it from the header.
Skipped(d, c) == c = "MSVC" /\ d = ERROR_BIT

\* re.search: the index of the first line matching the pattern for d, or 0
\* when the compiler is none of the three (match stays None).
Match(d, c, lines) ==
  IF c \in {"MSVC", "Clang", "GNU"}
    THEN SelectInSeq(lines, LAMBDA l : <<d, l.sym>> \in EndsWith)
    ELSE 0

\* Mutant: MSVC's hex digits are written as found.
ValueNoHex(digits, c) == digits

\* Lines 87-90: the decimal digits written; MSVC's are hex, converted.
Value(digits, c) == IF c = "MSVC" THEN Digits(FromDigits(digits, 16), 10) ELSE digits

\* One pass of 'for d in defines' (lines 77-98).
ScanDefine ==
  /\ pc = "scan" /\ i <= Len(Defines)
  /\ LET d == Defines[i]
         c == build.compiler
         m == Match(d, c, asm) IN
     CASE Skipped(d, c) -> i' = i + 1 /\ UNCHANGED <<dest, pc, ret>>
       [] m # 0 -> /\ dest' = Append(dest, [sym |-> d, val |-> Value(asm[m].digits, c)])
                   /\ i' = i + 1 /\ UNCHANGED <<pc, ret>>
       [] OTHER -> pc' = "done" /\ ret' = 1 /\ UNCHANGED <<dest, i>>
  /\ UNCHANGED <<build, asm, readable, dest0>>

\* The loop is over; the script ends with status 0.
Finish ==
  /\ pc = "scan" /\ i > Len(Defines)
  /\ pc' = "done" /\ ret' = 0
  /\ UNCHANGED <<build, asm, readable, dest, dest0, i>>

Exited == pc = "done" /\ UNCHANGED vars

\* Any build, any listing its compiler may produce, and whatever an earlier
\* build left in gen_defines.asm.
Init ==
  /\ build \in Builds
  /\ asm \in Listings[build.compiler]
  /\ readable \in BOOLEAN
  /\ dest \in {<<>>} \cup {[k \in 1..Len(Defines) |-> [sym |-> Defines[k], val |-> <<0>>]]}
  /\ dest0 = dest
  /\ i = 1 /\ pc = "read" /\ ret = -1

Next == ReadSource \/ OpenDest \/ ScanDefine \/ Finish \/ Exited

\* One process, run to its end.
Spec == Init /\ [][Next]_vars /\ WF_vars(Next)

-----------------------------------------------------------------------------
(* Properties *)

TypeOK ==
  /\ build \in Builds
  /\ dest \in Seq([sym : Range(Defines) \cup Range(Arch), val : Seq(0..9)])
  /\ i \in 1..Len(Defines) + 1
  /\ pc \in {"read", "open", "scan", "done"}
  /\ ret \in {-1, 0, 1}

\* The value the compiler emitted for d under its own name.
Emitted(d) == LET k == SelectInSeq(asm, LAMBDA l : l.sym = d) IN
              IF k = 0 THEN -1 ELSE FromDigits(asm[k].digits, Base(build.compiler))

Lines(d) == {k \in DOMAIN dest : dest[k].sym = d}

\* gen_defines.asm defines every name of 'defines'.
Complete == \A d \in Range(Defines) : Lines(d) # {}

(* A run that returns 0 leaves a gen_defines.asm that defines every name  *)
(* of 'defines' exactly once, and a name the compiler emitted gets the     *)
(* value computed for it: the hex listing of MSVC converted and ERROR_BIT  *)
(* taken from the header under MASM.  Where the substring search takes    *)
(* the line of a longer name (CHAR_PTR_SIZE for PTR_SIZE), that line has  *)
(* the same value on every compiler, so this does not tell the two apart. *)
DefinesMatchAsm ==
  (pc = "done" /\ ret = 0) =>
    \A d \in Range(Defines) :
      /\ Cardinality(Lines(d)) = 1
      /\ \A k \in Lines(d) :
           IF d = ERROR_BIT /\ build.assembler = "MASM"
             THEN FromDigits(dest[k].val, 10) = ErrorBitValue
             ELSE Emitted(d) # -1 => FromDigits(dest[k].val, 10) = Emitted(d)

(* A run that fails never leaves a gen_defines.asm that assembles: either *)
(* it stopped before opening the file, which is then as an earlier build  *)
(* left it, or the file lacks the name the loop stopped at.               *)
FailedRunLeavesNoCompleteFile ==
  ret = 1 => dest = dest0 \/ ~Complete

=============================================================================
