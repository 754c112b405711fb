SPECIFICATION ShellSpec
CONSTANTS
  BufSize = 5
  Command = "R"
  Letters = {"R", "x"}
INVARIANT PointerInv
INVARIANT RunsWhatWasTyped
PROPERTY ShellRecovers
CHECK_DEADLOCK FALSE
