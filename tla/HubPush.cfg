\* Two edits of the users and one of the configuration, overlapping flushes, a
\* timer restarted up to the cap, and one fault.
SPECIFICATION FairSpec
CONSTANTS
  MaxUserEdits = 2
  MaxConfigEdits = 1
  MaxQueue = 1
  MaxFaults = 1
  Coalesce = 2
  MaxCoalesce = 3
INVARIANTS
  NothingForgotten
  HeldBriefly
PROPERTIES
  NoStepBack
  Converges
CHECK_DEADLOCK FALSE
