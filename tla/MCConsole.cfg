SPECIFICATION RowSpec
CONSTANTS
  VGA_WIDTH = 3
  VGA_HEIGHT = 3
  UINT8 = 8
  SIZE_T = 32
  Chars = {x, y}
  Blank = Blank
  MaxPrinted = 5
  MaxLine = 10
INVARIANTS
  TypeOK
  LineShown
  BlankBehindCursor
