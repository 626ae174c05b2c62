SPECIFICATION Spec
CONSTANTS
  mint = mint
  login = login
  earlier = earlier
  Savers <- MCSavers
  Flocked <- MCFlocked
  Size <- MCSize
  Earlier = earlier
INVARIANT AtomicReplace
CHECK_DEADLOCK FALSE
