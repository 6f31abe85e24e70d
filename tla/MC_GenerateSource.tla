------------------------- MODULE MC_GenerateSource -------------------------
EXTENDS GenerateSource

CONSTANTS LoaderC, TestCpp, LoaderH, ClangFormat, Removed

\* Two loader files with a test file between them, as in gen_cmds; the
\* repository's .clang-format; a file that a generator no longer writes.
MCGenOrder == <<LoaderC, TestCpp, LoaderH>>
MCNames == {LoaderC, TestCpp, LoaderH, ClangFormat, Removed}
MCTestNames == {TestCpp}
MCVerifyExclude == {ClangFormat}
=============================================================================
