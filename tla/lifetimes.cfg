SPECIFICATION Spec
CONSTANTS
  Programs <- MCPrograms
  Synthetic <- MCSynthetic
INVARIANTS
  DestroyedOnce
  ReadAlive
  NothingLost
  FollowsSource
PROPERTY
  TranslationEnds
CHECK_DEADLOCK FALSE
