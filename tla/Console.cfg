SPECIFICATION Spec
CONSTANTS
  VGA_WIDTH = 4
  VGA_HEIGHT = 4
  BufSize = 6
  Letters = {"a", "b"}
  IntMax = 127
  Magnitudes = {0, 7, 10, 26, 128}
  Rows = {0, 1, 2}
  MaxAstray = 2
INVARIANT ConsoleInv
INVARIANT NumberShown
INVARIANT ScreenShowsLine
PROPERTY RefinesLineEditor
CHECK_DEADLOCK FALSE
