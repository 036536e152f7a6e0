SPECIFICATION Spec
CONSTANTS
  Cont = {a, b}
  Proc = {p, q}
  Size = 2
  Hash <- MCHash
  Bad = 9
  Forward <- MCForward
  Bind = {"sd"}
  MaxForward = 2
  Texts <- MCTexts
  Arg <- MCArg
  Budgets <- MCBudgets
INVARIANTS ConfigInv BootsWhatIsAsked AddressUnique
PROPERTIES AppKept
SYMMETRY MCSymmetry
CHECK_DEADLOCK FALSE
