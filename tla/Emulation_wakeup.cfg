SPECIFICATION FairSpec
CONSTANTS
  Buttons = {1, 3}
  Keys = FALSE
PROPERTY HeldReported
