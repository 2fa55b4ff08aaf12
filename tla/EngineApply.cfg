\* Two configurations of each core, an exit or a failed start, and two user lists.
SPECIFICATION FairSpec
CONSTANTS
  SbParts = {s1, s2, s3}
  XParts = {x1, x2}
  NoPart = NoPart
  Unparsable = {s3}
  Refused = {x2}
  Users = {u1, u2}
  MaxFrames = 4
  MaxFaults = 2
INVARIANTS
  TypeOK
  SkippingIsSafe
  NoStrayXray
  RetiredOnce
  UpToDateIsServed
PROPERTY
  XrayReturns
CHECK_DEADLOCK FALSE
