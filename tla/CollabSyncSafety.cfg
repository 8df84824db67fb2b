SPECIFICATION Spec
CONSTANTS
  Clients = {a, b}
  MaxEdits = 2
  MaxConnects = 3
  MaxRestarts = 1
SYMMETRY Symmetry
INVARIANTS
  IInv
  NothingLeftBehind
  GreetedMissNothing
  NoEcho
CHECK_DEADLOCK FALSE
