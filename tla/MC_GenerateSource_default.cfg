CONSTANTS
  LoaderC = LoaderC
  TestCpp = TestCpp
  LoaderH = LoaderH
  ClangFormat = ClangFormat
  Removed = Removed
  Names <- MCNames
  GenOrder <- MCGenOrder
  TestNames <- MCTestNames
  VerifyExclude <- MCVerifyExclude
SPECIFICATION Spec
INVARIANTS
  DefaultUpdatesTestDir
