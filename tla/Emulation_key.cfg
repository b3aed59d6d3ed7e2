SPECIFICATION Spec
CONSTANTS
  Buttons = {1, 3}
  Keys = TRUE
PROPERTY KeyReportsHeld
