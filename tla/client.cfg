SPECIFICATION FairSpec
CONSTANTS
  Undefined = Undefined
  Symbols <- MCSymbols
  NumberOf <- MCNumberOf
  NotBefore <- MCNotBefore
  NotAfter <- MCNotAfter
  FirstMatch <- MCFirstMatch
  WellFormed <- MCWellFormed
  Elements <- MCElements
  Forms <- MCForms
  Fields <- MCFields
  Markups <- MCMarkups
  Typed <- MCTyped
  Default <- MCDefault
  Replace <- MCReplace
  Refused <- MCRefused
  MaxTyping = 2
  MaxMarkups = 1
INVARIANTS
  TypeOK
  SentIsValid
  BoxesShowVerdicts
  ErrorsAreVisible
  
PROPERTIES
  RefusalIsExplained
  SubmitIsAnswered
CHECK_DEADLOCK FALSE
