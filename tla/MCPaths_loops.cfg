CONSTANTS
  NoValue = NoValue
  BodyLength = 4
  MaxStack = 3
  Programs <- WideningPrograms
SPECIFICATION PathSpec
INVARIANTS WidthsAgree
