SPECIFICATION FairSpec
CONSTANTS
  Buttons = {1, 2, 3, 4}
  Keys = TRUE
INVARIANTS
  MatchedEvents
  NoStuckButton
  HeldIsPending
PROPERTY SleepEnds
