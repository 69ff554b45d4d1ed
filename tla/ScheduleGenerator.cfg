SPECIFICATION FairDaySpec
CONSTANTS
  MaxMinutes = 7
  MaxDuration = 2
  Inputs <- MCInputs
INVARIANTS DayIsCut EveryBlockPlaced
PROPERTIES Terminates
CHECK_DEADLOCK FALSE
