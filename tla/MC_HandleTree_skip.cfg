CONSTANTS
  Inst = Inst
  HA = HA
  HB = HB
  HC = HC
  Handles <- MCHandles
  HandleOrder <- MCHandleOrder
  Root = Inst
  MaxCreateCmds = 5
SPECIFICATION Spec
INVARIANT NoParentCreatesAnother
