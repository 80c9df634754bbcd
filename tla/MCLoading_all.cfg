CONSTANTS
  MaxTokens = 4
  MaxLines = 4
  NoValue = NoValue
  Files <- LoadingFiles
  ParseLine <- Parse
  NamesOf <- NamesIn
SPECIFICATION Spec
INVARIANTS NothingLost NamesResolveInnermost DependenciesAreUndefined ModesAgreeWithTable ExpressionsAgree
