CONSTANTS
  NoValue = NoValue
  Files <- RomFiles
  Commands <- RomCommands
  Content <- Mixed
  Lengths = {1, 2, 3, 4, 40}
SPECIFICATION Spec
INVARIANTS ReadIsBytewise WrittenIsRead
