\* Two nodes, one that numbers its reports and one that does not.
CONSTANTS
  Nodes = {"n1", "n2"}
  Unnumbered = {"n2"}
  Inbounds = {1, 2}
  Home <- TwoNodes
  Names = {"ann", "bob"}
  First <- AnnAndBob
  MaxId = 3
  Rates = {500}
  Limits = {1}
  MaxDelta = 2
  MaxBytes = 2
  MaxEvents = 2
  Circumstances = {}
SPECIFICATION Spec
INVARIANTS
  ExactlyBilled
  NothingDropped
  UsersFollow
  OnlyTicked
CHECK_DEADLOCK FALSE
