SPECIFICATION Spec
CONSTANTS
  Procs = {p0, p1}
  NINODES = 4
  Names = {"a", "d"}
  Calls <- MCCalls
  MaxCalls = 5
  NoProc = NoProc
INVARIANTS RefsExact ReachedInodesExist NamesResolve CommittedTree
SYMMETRY Sym
CHECK_DEADLOCK FALSE
