CONSTANTS
  ErrBit = ErrBit
  PtrSize = PtrSize
  CharPtrSize = CharPtrSize
  FuncOffset = FuncOffset
  X86_64 = X86_64
  AARCH_64 = AARCH_64
  ERROR_BIT = ErrBit
  ErrorBitValue = 8
  Defines <- MCDefines
  EndsWith <- MCEndsWith
  Builds <- MCBuilds
  Listings <- MCListings
  Arch <- MCArch
SPECIFICATION Spec
INVARIANTS
  TypeOK
  DefinesMatchAsm
  FailedRunLeavesNoCompleteFile
