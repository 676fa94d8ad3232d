SPECIFICATION Spec
CONSTANTS
  Texts <- SomeTexts
  Letters <- SomeLetters
  Digits = {"1"}
  Keywords <- SomeKeywords
  MaxNesting = 3
  MaxTokens = 64
  RawLength = 0
  BodyLines = 1
INVARIANT ProductsToTheLeft
CHECK_DEADLOCK FALSE
