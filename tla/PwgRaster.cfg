SPECIFICATION Spec
CONSTANTS
  MaxRun = 2
  MaxRepeat = 2
  Pixel = {0, 1}
  White = 1
  MaxPages = 2
  Sizes = {1, 3}
  Printable = {0, 2, 5}
INVARIANTS PageIsWhole  NoRowHeldBack LastPageSaysSo
