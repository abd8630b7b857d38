\* Two previews under one key.
SPECIFICATION Spec
CONSTANTS
  MaxGeneration = 2
PROPERTY NewerUntouched
CHECK_DEADLOCK FALSE
