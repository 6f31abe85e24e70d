--------------------------- MODULE MC_AsmDefines ---------------------------
(***************************************************************************)
(* Four of the eleven names of 'defines': VULKAN_LOADER_ERROR_BIT (which   *)
(* MSVC's listing lacks), PTR_SIZE and CHAR_PTR_SIZE (whose pattern the    *)
(* first matches inside the second) and one offset.  A listing holds any   *)
(* subset of the names in any order; sizeof(void * ) = sizeof(char * ).    *)
(***************************************************************************)
EXTENDS AsmDefines

CONSTANTS ErrBit, PtrSize, CharPtrSize, FuncOffset, X86_64, AARCH_64

MCDefines == <<ErrBit, PtrSize, CharPtrSize, FuncOffset>>

MCEndsWith == {<<d, d>> : d \in Range(MCDefines)} \cup {<<PtrSize, CharPtrSize>>}

MCBuilds == {[compiler |-> "MSVC",  assembler |-> "MASM", arch |-> "x86_64"],
             [compiler |-> "GNU",   assembler |-> "GAS",  arch |-> "x86_64"],
             [compiler |-> "Clang", assembler |-> "GAS",  arch |-> "aarch64"],
             [compiler |-> "GNU",   assembler |-> "GAS",  arch |-> "x86"]}

MCArch == [a \in {"x86_64", "aarch64", "x86"} |->
             CASE a = "x86_64" -> X86_64 [] a = "aarch64" -> AARCH_64 [] OTHER -> ""]

\* MSVC writes a hex value that starts with a letter with a leading 0.
ListingDigits(v, c) ==
  LET ds == Digits(v, Base(c)) IN IF ds[1] >= 10 THEN <<0>> \o ds ELSE ds

MCListings ==
  [c \in {"MSVC", "GNU", "Clang"} |->
     LET syms == IF c = "MSVC" THEN Range(MCDefines) \ {ErrBit} ELSE Range(MCDefines) IN
     UNION {{[k \in DOMAIN p |->
                [sym |-> p[k],
                 digits |-> ListingDigits(CASE p[k] = ErrBit -> 8
                                            [] p[k] = FuncOffset -> off
                                            [] OTHER -> ptr, c)]] :
              ptr \in {4, 8}, off \in {10, 24}} :
            p \in SetToAllKPermutations(syms)}]

=============================================================================
