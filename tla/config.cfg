SPECIFICATION Spec
CONSTANTS
  Sections <- MCSections
  PluginOf <- MCPluginOf
  Installed = {7}
  Scopes <- MCScopes
  Args <- MCArgs
  TypeOrder <- MCTypeOrder
  NameOrder <- MCNameOrder
  KeyOrder <- MCKeyOrder
  ParserOrder <- MCParserOrder
  DefParsers = {"compact"}
  MaxSteps = 4
INVARIANTS
  
  LastSetWins
  
  DefaultIsRegistered
PROPERTY
  WorkIsClean
CHECK_DEADLOCK FALSE
