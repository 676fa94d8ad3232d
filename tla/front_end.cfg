SPECIFICATION Spec
CONSTANTS
  Texts <- SomeTexts
  Letters <- SomeLetters
  Digits = {"1"}
  Keywords <- SomeKeywords
  MaxNesting = 3
  MaxTokens = 64
  RawLength = 4
  BodyLines = 4
INVARIANTS Balanced LayoutByMargin FollowsPrecedence RoundTrip NothingLost
PROPERTY Terminates
CHECK_DEADLOCK FALSE
